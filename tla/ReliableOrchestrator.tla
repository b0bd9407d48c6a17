------------------------- MODULE ReliableOrchestrator -------------------------
(***************************************************************************)
(* ReliableBusinessOrchestrator: execute and stream calls of one provider  *)
(* behind one circuit breaker, each with a timeout per attempt, retries,   *)
(* the caller's abort signal and, for streams, a consumer that may stop.   *)
(*                                                                         *)
(* An action is the code between two awaits.  A timer may fire whenever    *)
(* its attempt is open, so no clock is needed.  The provider's iterator is *)
(* an async generator, as the adapters' are: a call of return waits for a  *)
(* next that has not settled.                                              *)
(***************************************************************************)
EXTENDS CircuitBreaker

CONSTANTS
    Streams,        \* the calls that stream; the others execute
    RetryAttempts,  \* additional attempts
    GivesUp,        \* the calls whose caller may abort
    IgnoresAbort    \* the calls whose provider need not react to an abort

ASSUME CallsAssumption ==
    Streams \subseteq Calls /\ GivesUp \subseteq Calls /\ IgnoresAbort \subseteq Calls
ASSUME RetryAttemptsAssumption == RetryAttempts \in Nat

VARIABLES call   \* the calls in flight and their outcomes

orchestratorVars == <<entry, lease, call>>

(***************************************************************************)
(* waiting: next or execute is pending, or was terminated; yielded: the    *)
(* consumer holds an event; closing: the code awaits closeIterator.        *)
(***************************************************************************)
Open   == {"waiting", "yielded"}
Ended  == {"returned", "threw", "stopped"}
Phases == {"idle", "closing", "backoff"} \cup Open \cup Ended

CallState ==
    [phase      : Phases,
     attempt    : 0 .. RetryAttempts,
     signal     : BOOLEAN,      \* the caller's signal is aborted
     terminated : BOOLEAN,      \* the attempt's scope: its timer fired or the
                                \* caller aborted, and its own signal is aborted
     timedOut   : BOOLEAN,      \* it was the timer
     pending    : BOOLEAN,      \* the provider is at work for the attempt
     emitted    : BOOLEAN,      \* the attempt has emitted an event
     next       : {"none", "backoff", "threw", "stopped"},   \* after closing
     error      : {"NONE", "TRANSIENT", "PERMANENT", "ABORTED", "REFUSED"}]

OrchestratorInit ==
    /\ BreakerInit
    /\ call = [c \in Calls |->
                 [phase |-> "idle", attempt |-> 0, signal |-> FALSE,
                  terminated |-> FALSE, timedOut |-> FALSE, pending |-> FALSE,
                  emitted |-> FALSE, next |-> "none", error |-> "NONE"]]

Ends(c, phase, error) ==
    call' = [call EXCEPT ![c].phase = phase, ![c].error = error]

(* acquire, and the first attempt up to its first await.                   *)
Start(c) ==
    /\ call[c].phase = "idle"
    /\ \/ /\ call[c].signal
          /\ Ends(c, "threw", "ABORTED")
          /\ UNCHANGED breakerVars
       \/ /\ ~call[c].signal /\ ~Admits
          /\ Ends(c, "threw", "REFUSED")
          /\ UNCHANGED breakerVars
       \/ /\ ~call[c].signal
          /\ Acquire(c)
          /\ call' = [call EXCEPT ![c].phase = "waiting", ![c].pending = TRUE]

-----------------------------------------------------------------------------
(* The end of an attempt                                                   *)

(* Mutant: an abort counts as a failure of the provider.                   *)
SettleFailureCountingAborts(c, error) ==
    IF ~Held(c) THEN UNCHANGED breakerVars
    ELSE IF error \in {"TRANSIENT", "ABORTED"} THEN FailLease(c)
    ELSE Succeed(c)

(* Only a transient failure counts against the provider; a completed event *)
(* has settled the lease already.                                          *)
SettleFailure(c, error) ==
    IF ~Held(c) THEN UNCHANGED breakerVars
    ELSE IF error = "TRANSIENT" THEN FailLease(c)
    ELSE IF error = "ABORTED" THEN Release(c)
    ELSE Succeed(c)

(* The outer finally block of a stream, and settleFailure of an abort.     *)
ReleaseIfHeld(c) == IF Held(c) THEN Release(c) ELSE UNCHANGED breakerVars

(* An attempt has failed, with the provider still pending or not, and may  *)
(* be tried again or not: the scope is cancelled, the iterator of a stream *)
(* is closed, and the call goes on to its backoff or throws.               *)
FailAttempt(c, failure, pending, mayRetry) ==
    LET error == IF call[c].signal THEN "ABORTED" ELSE failure
        retry == mayRetry /\ error = "TRANSIENT"
        after == IF retry THEN "backoff" ELSE "threw"
    IN  /\ IF retry THEN UNCHANGED breakerVars ELSE SettleFailure(c, error)
        /\ call' = [call EXCEPT
              ![c].phase = IF c \in Streams THEN "closing" ELSE after,
              ![c].next = after,
              ![c].terminated = TRUE,
              ![c].pending = pending,
              ![c].error = IF retry THEN @ ELSE error]

(* Mutants: a stream is tried again after an event; one attempt too many.  *)
CatchAfterEvent(c, failure, pending) ==
    FailAttempt(c, failure, pending, call[c].attempt < RetryAttempts)
CatchOneMore(c, failure, pending) ==
    FailAttempt(c, failure, pending,
                ~call[c].emitted /\ call[c].attempt <= RetryAttempts)

Catch(c, failure, pending) ==
    FailAttempt(c, failure, pending,
                ~call[c].emitted /\ call[c].attempt < RetryAttempts)

-----------------------------------------------------------------------------
(* The provider answers while the attempt is open.                         *)

Yield(c) ==
    /\ c \in Streams
    /\ call[c].phase = "waiting" /\ ~call[c].terminated
    /\ call' = [call EXCEPT ![c].phase = "yielded", ![c].pending = FALSE,
                            ![c].emitted = TRUE]
    /\ \/ UNCHANGED breakerVars
       \/ Succeed(c)              \* the completed event

(* The iterator is done, or execute has its result.                        *)
Return(c) ==
    /\ call[c].phase = "waiting" /\ ~call[c].terminated
    /\ call' = [call EXCEPT ![c].phase = "returned", ![c].pending = FALSE]
    /\ IF Held(c) THEN Succeed(c) ELSE UNCHANGED breakerVars

ProviderFails(c) ==
    /\ call[c].phase = "waiting" /\ ~call[c].terminated
    /\ \E failure \in {"TRANSIENT", "PERMANENT"} : Catch(c, failure, FALSE)

(* The provider notices the aborted signal of its attempt and settles.     *)
ProviderStops(c) ==
    /\ call[c].pending /\ call[c].terminated
    /\ call' = [call EXCEPT ![c].pending = FALSE]
    /\ UNCHANGED breakerVars

-----------------------------------------------------------------------------
(* Mutant: the timer only guards the first event.                          *)
TimeoutOfFirstEvent(c) ==
    /\ call[c].phase \in Open /\ ~call[c].terminated /\ ~call[c].emitted
    /\ call' = [call EXCEPT ![c].terminated = TRUE, ![c].timedOut = TRUE]
    /\ UNCHANGED breakerVars

(* The timer of the attempt fires.                                         *)
Timeout(c) ==
    /\ call[c].phase \in Open /\ ~call[c].terminated
    /\ call' = [call EXCEPT ![c].terminated = TRUE, ![c].timedOut = TRUE]
    /\ UNCHANGED breakerVars

(* The caller's signal fires; an open attempt is terminated by it.         *)
Abort(c) ==
    /\ c \in GivesUp
    /\ call[c].phase \notin Ended /\ ~call[c].signal
    /\ call' = [call EXCEPT ![c].signal = TRUE,
                            ![c].terminated = @ \/ call[c].phase \in Open]
    /\ UNCHANGED breakerVars

(* The race of a pending attempt is lost to its termination.               *)
LoseRace(c) ==
    /\ call[c].phase = "waiting" /\ call[c].terminated
    /\ Catch(c, "TRANSIENT", call[c].pending)

(* The consumer asks for the next event: a terminated scope throws at once. *)
Pull(c) ==
    /\ call[c].phase = "yielded"
    /\ \/ call[c].terminated /\ Catch(c, "TRANSIENT", FALSE)
       \/ /\ ~call[c].terminated
          /\ call' = [call EXCEPT ![c].phase = "waiting", ![c].pending = TRUE]
          /\ UNCHANGED breakerVars

(* The consumer returns at an event.                                       *)
Stop(c) ==
    /\ call[c].phase = "yielded"
    /\ call' = [call EXCEPT ![c].phase = "closing", ![c].next = "stopped",
                            ![c].terminated = TRUE]
    /\ UNCHANGED breakerVars

(* Mutants: closeIterator is not awaited; a stopped stream keeps its lease. *)
CloseAtOnce(c) ==
    /\ call[c].phase = "closing"
    /\ call' = [call EXCEPT ![c].phase = call[c].next]
    /\ IF call[c].next = "stopped" THEN ReleaseIfHeld(c) ELSE UNCHANGED breakerVars
CloseKeepingLease(c) ==
    /\ call[c].phase = "closing" /\ ~call[c].pending
    /\ call' = [call EXCEPT ![c].phase = call[c].next]
    /\ UNCHANGED breakerVars

(* The iterator is closed.                                                 *)
Close(c) ==
    /\ call[c].phase = "closing" /\ ~call[c].pending
    /\ call' = [call EXCEPT ![c].phase = call[c].next]
    /\ IF call[c].next = "stopped" THEN ReleaseIfHeld(c) ELSE UNCHANGED breakerVars

(* The backoff is over; an abort ends it at once.                          *)
Retry(c) ==
    /\ call[c].phase = "backoff"
    /\ \/ /\ call[c].signal
          /\ Ends(c, "threw", "ABORTED")
          /\ ReleaseIfHeld(c)
       \/ /\ ~call[c].signal
          /\ call' = [call EXCEPT ![c].phase = "waiting", ![c].attempt = @ + 1,
                                  ![c].next = "none", ![c].pending = TRUE,
                                  ![c].emitted = FALSE, ![c].terminated = FALSE,
                                  ![c].timedOut = FALSE]
          /\ UNCHANGED breakerVars

-----------------------------------------------------------------------------
(* The code's own steps, its timers, and a consumer that goes on or stops. *)
CodeStep(c) == LoseRace(c) \/ Close(c) \/ Retry(c)
ConsumerStep(c) == Pull(c) \/ Stop(c)

OrchestratorNext ==
    \/ \E c \in Calls :
          \/ Start(c) \/ Yield(c) \/ Return(c) \/ ProviderFails(c) \/ ProviderStops(c)
          \/ Timeout(c) \/ Abort(c) \/ CodeStep(c) \/ ConsumerStep(c)
    \/ CoolDown /\ UNCHANGED call

OrchestratorSpec == OrchestratorInit /\ [][OrchestratorNext]_orchestratorVars

OrchestratorFairness ==
    /\ \A c \in Calls : /\ WF_orchestratorVars(CodeStep(c))
                        /\ WF_orchestratorVars(ConsumerStep(c))
                        /\ WF_orchestratorVars(Timeout(c))
    /\ \A c \in Calls \ IgnoresAbort : WF_orchestratorVars(ProviderStops(c))
    /\ WF_orchestratorVars(CoolDown /\ UNCHANGED call)

FairOrchestratorSpec == OrchestratorSpec /\ OrchestratorFairness

-----------------------------------------------------------------------------
(* Correctness                                                             *)

(* Every variable has its type; no call makes more than RetryAttempts      *)
(* additional attempts.                                                    *)
OrchestratorTypeOK ==
    /\ entry \in CircuitEntry
    /\ lease \in [Calls -> Leases]
    /\ call \in [Calls -> CallState]

(* Each lease is settled by the end of its call, however it ends, and not  *)
(* before its outcome is known: neither is a probe lost, nor does a call   *)
(* that is still being tried let another probe in.                         *)
LeaseFollowsCall ==
    \A c \in Calls :
        /\ call[c].phase \in Ended => ~Held(c)
        /\ call[c].phase \in {"waiting", "backoff"} /\ ~call[c].emitted => Held(c)

(* One provider stream per call: when a stream has ended, or waits for its *)
(* next attempt, the provider is no longer at work for it.                 *)
EndedStreamsAreClosed ==
    \A c \in Streams : call[c].phase \in Ended \cup {"backoff"} => ~call[c].pending

(* A stream that has emitted an event is never started again: its consumer *)
(* never sees two beginnings.                                              *)
NoRetryAfterEvent ==
    [][\A c \in Calls : call'[c].attempt > call[c].attempt => ~call[c].emitted
      ]_orchestratorVars

(* A caller that gave up says nothing about the provider: settling its     *)
(* lease adds no failure.                                                  *)
AbortsAreNoFailures ==
    [][\A c \in Calls :
         Held(c) /\ call[c].signal /\ lease'[c] = "settled"
            => entry'.consecutiveFailures <= entry.consecutiveFailures
      ]_orchestratorVars

(* Every call ends, in a result, an error or a stop.                       *)
EveryCallEnds == \A c \in Calls : call[c].phase # "idle" ~> call[c].phase \in Ended

(* The circuit admits a call again and again: no probe blocks it for good. *)
CircuitAdmitsAgain == []<>Admits

(* Timeout remains authoritative even if a provider ignores abort: an      *)
(* attempt that timed out ends, in a backoff or with its call.             *)
TimeoutIsAuthoritative ==
    \A c \in Calls :
        call[c].phase = "waiting" /\ call[c].timedOut
            ~> call[c].phase \in Ended \cup {"backoff"}

=============================================================================
