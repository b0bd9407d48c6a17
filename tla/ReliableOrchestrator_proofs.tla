--------------------- MODULE ReliableOrchestrator_proofs ---------------------
(***************************************************************************)
(* Proofs about the circuit breaker and the calls that use it, for any     *)
(* number of calls and any failure threshold: what the breaker keeps,      *)
(* however late a lease is settled, and that every step of a call uses the *)
(* breaker as CircuitBreaker says, so that it is kept under the calls too. *)
(***************************************************************************)
EXTENDS ReliableOrchestrator, TLAPS

-----------------------------------------------------------------------------
(* The breaker                                                             *)

(* What is shown of a circuit and its leases.                              *)
BreakerInv == BreakerTypeOK /\ ClosedBelowThreshold /\ ProbeInFlightIsHeld

(* A new circuit is closed, without failures and probes.                   *)
LEMMA BreakerInvInit == BreakerInit => BreakerInv
  BY FailureThresholdAssumption
  DEF BreakerInit, BreakerInv, BreakerTypeOK, ClosedBelowThreshold,
      ProbeInFlightIsHeld, CircuitEntry, Leases

(* Every settlement, however late, keeps the invariant.                    *)
LEMMA BreakerInvStep == BreakerInv /\ [BreakerNext]_breakerVars => BreakerInv'
  <1> SUFFICES ASSUME BreakerInv, [BreakerNext]_breakerVars PROVE BreakerInv'
    OBVIOUS
  <1> USE FailureThresholdAssumption
      DEF BreakerInv, BreakerTypeOK, ClosedBelowThreshold, ProbeInFlightIsHeld,
          CircuitEntry, Leases
  <1>1. ASSUME NEW c \in Calls, Acquire(c)
        PROVE  BreakerInv'
    <2>1. CASE entry.state = "CLOSED"
      BY <1>1, <2>1 DEF Acquire
    <2>2. CASE entry.state # "CLOSED"
      <3>1. /\ lease' = [lease EXCEPT ![c] = "probe"]
            /\ entry' = [entry EXCEPT !.state = "HALF_OPEN", !.probeInFlight = TRUE]
        BY <1>1, <2>2 DEF Acquire
      <3>2. BreakerTypeOK' /\ ClosedBelowThreshold'
        BY <1>1, <2>2, <3>1 DEF Acquire, Admits
      <3>3. ProbeInFlightIsHeld'
        BY <1>1, <3>1
      <3>4. QED  BY <3>2, <3>3
    <2>3. QED  BY <2>1, <2>2
  <1>2. ASSUME NEW c \in Calls, Succeed(c)
        PROVE  BreakerInv'
    BY <1>2 DEF Succeed, Settle
  <1>3. ASSUME NEW c \in Calls, FailLease(c)
        PROVE  BreakerInv'
    <2> DEFINE failures == IF lease[c] = "probe" THEN FailureThreshold
                           ELSE entry.consecutiveFailures + 1
    <2>1. failures \in Nat
      OBVIOUS
    <2>2. CASE lease[c] = "probe" \/ failures >= FailureThreshold
      <3>1. entry' = [state |-> "OPEN", consecutiveFailures |-> failures,
                      cooled |-> FALSE, probeInFlight |-> FALSE]
        BY <1>3, <2>2 DEF FailLease
      <3>2. failures >= FailureThreshold
        BY <2>2
      <3>3. lease' \in [Calls -> Leases]
        BY <1>3 DEF FailLease, Settle
      <3>4. QED  BY <2>1, <3>1, <3>2, <3>3
    <2>3. CASE ~(lease[c] = "probe" \/ failures >= FailureThreshold)
      <3>1. entry' = [entry EXCEPT !.consecutiveFailures = failures,
                                   !.probeInFlight = FALSE]
        BY <1>3, <2>3 DEF FailLease
      <3>2. entry.state = "CLOSED"
        BY <2>3
      <3>3. lease' \in [Calls -> Leases]
        BY <1>3 DEF FailLease, Settle
      <3>4. failures < FailureThreshold
        BY <2>1, <2>3
      <3> HIDE DEF failures
      <3>5. /\ entry' \in CircuitEntry
            /\ entry'.state = "CLOSED"
            /\ entry'.consecutiveFailures = failures
            /\ entry'.probeInFlight = FALSE
        BY <2>1, <3>1, <3>2
      <3>6. QED  BY <3>3, <3>4, <3>5
    <2>4. QED  BY <2>2, <2>3
  <1>4. ASSUME NEW c \in Calls, Release(c)
        PROVE  BreakerInv'
    BY <1>4 DEF Release, Settle
  <1>5. CASE CoolDown
    BY <1>5 DEF CoolDown
  <1>6. CASE UNCHANGED breakerVars
    BY <1>6 DEF breakerVars
  <1>7. QED  BY <1>1, <1>2, <1>3, <1>4, <1>5, <1>6 DEF BreakerNext

(* The invariant holds in every run of the breaker.                        *)
THEOREM BreakerInvariant == BreakerSpec => []BreakerInv
  BY BreakerInvInit, BreakerInvStep, PTL DEF BreakerSpec

(* The circuit is closed exactly while fewer than failureThreshold calls   *)
(* in a row have failed, whichever leases of earlier states settle late.   *)
THEOREM BreakerCountsFailures == BreakerSpec => []ClosedBelowThreshold
  BY BreakerInvariant, PTL DEF BreakerInv

(* A probe marked as in flight is held by a call, so the mark is cleared   *)
(* when that call settles its lease: the breaker cannot lock itself up.    *)
THEOREM BreakerKeepsItsProbe == BreakerSpec => []ProbeInFlightIsHeld
  BY BreakerInvariant, PTL DEF BreakerInv

-----------------------------------------------------------------------------
(* The calls                                                               *)

(* Settling a failed call is a step of the breaker.                        *)
LEMMA SettleFailureIsBreakerStep ==
    ASSUME NEW c \in Calls, NEW error, SettleFailure(c, error)
    PROVE  [BreakerNext]_breakerVars
  BY DEF SettleFailure, BreakerNext

(* So is the end of an attempt.                                            *)
LEMMA CatchIsBreakerStep ==
    ASSUME NEW c \in Calls, NEW failure, NEW pending, Catch(c, failure, pending)
    PROVE  [BreakerNext]_breakerVars
  BY SettleFailureIsBreakerStep DEF Catch, FailAttempt

(* Every step of a call is a step of the breaker or leaves it alone.       *)
LEMMA OrchestratorStepIsBreakerStep ==
    ASSUME [OrchestratorNext]_orchestratorVars
    PROVE  [BreakerNext]_breakerVars
  <1>1. ASSUME NEW c \in Calls, Start(c)
        PROVE  [BreakerNext]_breakerVars
    BY <1>1 DEF Start, BreakerNext
  <1>2. ASSUME NEW c \in Calls, Yield(c) \/ Return(c)
        PROVE  [BreakerNext]_breakerVars
    BY <1>2 DEF Yield, Return, BreakerNext
  <1>3. ASSUME NEW c \in Calls, ProviderFails(c) \/ LoseRace(c) \/ Pull(c)
        PROVE  [BreakerNext]_breakerVars
    BY <1>3, CatchIsBreakerStep DEF ProviderFails, LoseRace, Pull
  <1>4. ASSUME NEW c \in Calls, ProviderStops(c) \/ Timeout(c) \/ Abort(c) \/ Stop(c)
        PROVE  [BreakerNext]_breakerVars
    BY <1>4 DEF ProviderStops, Timeout, Abort, Stop
  <1>5. ASSUME NEW c \in Calls, Close(c) \/ Retry(c)
        PROVE  [BreakerNext]_breakerVars
    BY <1>5 DEF Close, Retry, ReleaseIfHeld, BreakerNext
  <1>6. CASE CoolDown
    BY <1>6 DEF BreakerNext
  <1>7. CASE UNCHANGED orchestratorVars
    BY <1>7 DEF orchestratorVars, breakerVars
  <1>8. QED
    BY <1>1, <1>2, <1>3, <1>4, <1>5, <1>6, <1>7
    DEF OrchestratorNext, CodeStep, ConsumerStep

(* The reliable orchestrator implements the breaker's specification.       *)
THEOREM OrchestratorUsesBreaker == OrchestratorSpec => BreakerSpec
  <1>1. OrchestratorInit => BreakerInit
    BY DEF OrchestratorInit
  <1>2. [OrchestratorNext]_orchestratorVars => [BreakerNext]_breakerVars
    BY OrchestratorStepIsBreakerStep
  <1>3. QED  BY <1>1, <1>2, PTL DEF OrchestratorSpec, BreakerSpec

(* No timeout, retry, abort or stopped consumer leaves the circuit with a  *)
(* probe in flight that no call holds.                                     *)
THEOREM OrchestratorKeepsItsProbe == OrchestratorSpec => []ProbeInFlightIsHeld
  BY OrchestratorUsesBreaker, BreakerKeepsItsProbe

-----------------------------------------------------------------------------
(***************************************************************************)
(* What is known of one call, whatever the others do to the breaker: a     *)
(* call that may be tried again has emitted nothing and still holds its    *)
(* lease; one that is to throw has settled it, before its stream is        *)
(* closed; a stream whose consumer has the turn is not at work.            *)
(***************************************************************************)
CallInv(c) ==
    LET k == call[c]
    IN  /\ k.phase = "idle" => lease[c] = "none" /\ ~k.pending
        /\ k.phase \in Ended => ~Held(c)
        /\ k.phase = "waiting" /\ ~k.emitted => Held(c)
        /\ k.phase = "yielded" => c \in Streams /\ k.emitted
        /\ k.phase = "closing" => c \in Streams /\ k.next # "none"
        /\ k.phase = "closing" /\ k.next = "threw" => ~Held(c)
        /\ k.phase = "backoff" \/ (k.phase = "closing" /\ k.next = "backoff") =>
              Held(c) /\ ~k.emitted /\ k.attempt < RetryAttempts
        /\ c \in Streams /\ k.phase \in Ended \cup {"backoff", "yielded"} => ~k.pending

OrchestratorInv ==
    /\ BreakerInv
    /\ call \in [Calls -> CallState]
    /\ \A c \in Calls : CallInv(c)

(* No call has begun.                                                      *)
LEMMA OrchestratorInvInit == OrchestratorInit => OrchestratorInv
  <1> SUFFICES ASSUME OrchestratorInit PROVE OrchestratorInv
    OBVIOUS
  <1>1. BreakerInv
    BY BreakerInvInit DEF OrchestratorInit
  <1>2. call \in [Calls -> CallState]
    BY RetryAttemptsAssumption DEF OrchestratorInit, CallState, Phases
  <1>3. \A c \in Calls : CallInv(c)
    BY DEF OrchestratorInit, BreakerInit, CallInv, Held, Ended
  <1>4. QED  BY <1>1, <1>2, <1>3 DEF OrchestratorInv

(* What another call has is left alone by a call's steps on the breaker.   *)
LEMMA LeaseOfOthers ==
    ASSUME NEW c \in Calls, lease \in [Calls -> Leases],
           Acquire(c) \/ Succeed(c) \/ FailLease(c) \/ Release(c)
    PROVE  /\ lease' \in [Calls -> Leases]
           /\ \A d \in Calls \ {c} : lease'[d] = lease[d]
           /\ Acquire(c) => lease'[c] \in {"normal", "probe"}
           /\ ~Acquire(c) => lease'[c] = "settled"
  BY DEF Acquire, Succeed, FailLease, Release, Settle, Leases

(* Settling a failure leaves the call without a lease, and the breaker     *)
(* without a new failure if the caller has aborted.                        *)
LEMMA SettleFailureSettles ==
    ASSUME NEW c \in Calls, NEW error, BreakerInv, SettleFailure(c, error)
    PROVE  /\ lease' \in [Calls -> Leases]
           /\ \A d \in Calls \ {c} : lease'[d] = lease[d]
           /\ lease'[c] \notin {"normal", "probe"}
  <1>1. lease \in [Calls -> Leases]
    BY DEF BreakerInv, BreakerTypeOK
  <1>2. CASE ~Held(c)
    BY <1>1, <1>2 DEF SettleFailure, breakerVars, Held
  <1>3. CASE Held(c)
    <2>1. FailLease(c) \/ Release(c) \/ Succeed(c)
      BY <1>3 DEF SettleFailure
    <2>2. ~Acquire(c)
      BY <1>3 DEF Acquire, Held
    <2>3. QED  BY <1>1, <2>1, <2>2, LeaseOfOthers
  <1>4. QED  BY <1>2, <1>3

(* A step of one call that keeps its own part of the invariant keeps all.  *)
LEMMA OneCallMoves ==
    ASSUME OrchestratorInv, NEW c \in Calls, NEW k \in CallState,
           call' = [call EXCEPT ![c] = k], [BreakerNext]_breakerVars,
           \A d \in Calls \ {c} : lease'[d] = lease[d],
           CallInv(c)'
    PROVE  OrchestratorInv'
  <1>1. BreakerInv'
    BY BreakerInvStep DEF OrchestratorInv
  <1>2. call' \in [Calls -> CallState] /\ \A d \in Calls \ {c} : call'[d] = call[d]
    BY DEF OrchestratorInv
  <1>3. \A d \in Calls \ {c} : CallInv(d)'
    BY <1>2 DEF OrchestratorInv, CallInv, Held
  <1>4. QED  BY <1>1, <1>2, <1>3 DEF OrchestratorInv

(* The failure of an attempt: settled, or kept for the next attempt.       *)
LEMMA CatchKeepsInv ==
    ASSUME OrchestratorInv, NEW c \in Calls, NEW failure \in {"TRANSIENT", "PERMANENT"},
           NEW pending \in BOOLEAN, Catch(c, failure, pending),
           call[c].phase \in Open,
           c \in Streams \/ call[c].phase = "waiting"
    PROVE  OrchestratorInv'
  <1> DEFINE error == IF call[c].signal THEN "ABORTED" ELSE failure
             retry == /\ ~call[c].emitted /\ call[c].attempt < RetryAttempts
                      /\ error = "TRANSIENT"
             after == IF retry THEN "backoff" ELSE "threw"
             phase == IF c \in Streams THEN "closing" ELSE after
             kept  == IF retry THEN call[c].error ELSE error
             k     == [call[c] EXCEPT !.phase = phase, !.next = after, !.terminated = TRUE,
                                      !.pending = pending, !.error = kept]
  <1>1. /\ call \in [Calls -> CallState] /\ call[c] \in CallState /\ CallInv(c) /\ BreakerInv
        /\ lease \in [Calls -> Leases]
    BY DEF OrchestratorInv, BreakerInv, BreakerTypeOK
  <1>2. call' = [call EXCEPT ![c] = k]
    BY <1>1 DEF Catch, FailAttempt
  <1>3. IF retry THEN UNCHANGED breakerVars ELSE SettleFailure(c, error)
    BY DEF Catch, FailAttempt
  <1>4. /\ after \in {"backoff", "threw"} /\ phase \in Phases
        /\ kept \in {"NONE", "TRANSIENT", "PERMANENT", "ABORTED", "REFUSED"}
    BY <1>1 DEF Phases, Ended, CallState
  <1>5. /\ retry => after = "backoff" /\ ~call[c].emitted /\ call[c].attempt < RetryAttempts
        /\ ~retry => after = "threw"
        /\ phase = IF c \in Streams THEN "closing" ELSE after
    OBVIOUS
  <1> HIDE DEF phase, after, kept
  <1>6. /\ k \in CallState /\ k.emitted = call[c].emitted /\ k.attempt = call[c].attempt
        /\ k.phase = phase /\ k.next = after /\ k.pending = pending
    BY <1>1, <1>4 DEF CallState
  <1> HIDE DEF k, retry, error
  <1>7. [BreakerNext]_breakerVars
    BY CatchIsBreakerStep
  <1>8. /\ \A d \in Calls \ {c} : lease'[d] = lease[d]
        /\ retry => lease'[c] = lease[c]
        /\ ~retry => lease'[c] \notin {"normal", "probe"}
    BY <1>1, <1>3, SettleFailureSettles DEF breakerVars
  <1>9. call'[c] = k
    BY <1>1, <1>2
  <1>10. CallInv(c)'
    <2>1. CASE retry
      <3>1. Held(c) /\ lease'[c] = lease[c]
        BY <2>1, <1>1, <1>5, <1>8 DEF CallInv, Open
      <3>2. QED
        BY <2>1, <3>1, <1>5, <1>6, <1>9 DEF CallInv, Held, Ended
    <2>2. CASE ~retry
      BY <2>2, <1>5, <1>6, <1>8, <1>9 DEF CallInv, Held, Ended
    <2>3. QED  BY <2>1, <2>2
  <1>11. QED  BY <1>2, <1>6, <1>7, <1>8, <1>10, OneCallMoves

(* What the invariant says of one call, for the steps of that call.        *)
LEMMA OneCallFacts ==
    ASSUME OrchestratorInv, NEW c \in Calls
    PROVE  /\ call \in [Calls -> CallState] /\ call[c] \in CallState /\ CallInv(c)
           /\ BreakerInv /\ lease \in [Calls -> Leases]
  BY DEF OrchestratorInv, BreakerInv, BreakerTypeOK

(* A call begins: it throws without a lease or waits with one.             *)
LEMMA StartKeepsInv ==
    ASSUME OrchestratorInv, NEW c \in Calls, Start(c)
    PROVE  OrchestratorInv'
  <1>1. /\ call \in [Calls -> CallState] /\ call[c] \in CallState /\ CallInv(c)
        /\ lease \in [Calls -> Leases] /\ call[c].phase = "idle"
    BY OneCallFacts DEF Start
  <1>2. lease[c] = "none" /\ ~call[c].pending
    BY <1>1 DEF CallInv
  <1>3. [BreakerNext]_breakerVars
    BY DEF Start, BreakerNext
  <1>4. ASSUME NEW error \in {"ABORTED", "REFUSED"}, Ends(c, "threw", error), UNCHANGED breakerVars
        PROVE  OrchestratorInv'
    <2> DEFINE k == [call[c] EXCEPT !.phase = "threw", !.error = error]
    <2>1. k \in CallState /\ k.phase = "threw" /\ k.pending = call[c].pending
      BY <1>1 DEF CallState, Phases, Ended
    <2>2. call' = [call EXCEPT ![c] = k]
      BY <1>1, <1>4 DEF Ends
    <2> HIDE DEF k
    <2>3. call'[c] = k /\ lease' = lease
      BY <1>1, <1>4, <2>2 DEF breakerVars
    <2>4. CallInv(c)'
      BY <1>2, <2>1, <2>3 DEF CallInv, Held, Ended
    <2>5. QED  BY <1>3, <2>1, <2>2, <2>3, <2>4, OneCallMoves
  <1>5. CASE /\ Acquire(c)
             /\ call' = [call EXCEPT ![c].phase = "waiting", ![c].pending = TRUE]
    <2> DEFINE k == [call[c] EXCEPT !.phase = "waiting", !.pending = TRUE]
    <2>1. k \in CallState /\ k.phase = "waiting"
      BY <1>1 DEF CallState, Phases, Open
    <2>2. call' = [call EXCEPT ![c] = k]
      BY <1>1, <1>5
    <2> HIDE DEF k
    <2>3. call'[c] = k /\ \A d \in Calls \ {c} : lease'[d] = lease[d]
      BY <1>1, <1>5, <2>2, LeaseOfOthers
    <2>4. lease'[c] \in {"normal", "probe"}
      BY <1>1, <1>5, LeaseOfOthers
    <2>5. CallInv(c)'
      BY <2>1, <2>3, <2>4 DEF CallInv, Held, Ended
    <2>6. QED  BY <1>3, <2>1, <2>2, <2>3, <2>5, OneCallMoves
  <1>6. QED  BY <1>4, <1>5 DEF Start

(* An event, the completed one with the lease or not, and a result.        *)
LEMMA YieldKeepsInv ==
    ASSUME OrchestratorInv, NEW c \in Calls, Yield(c)
    PROVE  OrchestratorInv'
  <1> DEFINE k == [call[c] EXCEPT !.phase = "yielded", !.pending = FALSE, !.emitted = TRUE]
  <1>1. /\ call \in [Calls -> CallState] /\ call[c] \in CallState
        /\ lease \in [Calls -> Leases] /\ c \in Streams
    BY OneCallFacts DEF Yield
  <1>2. k \in CallState /\ k.phase = "yielded" /\ k.pending = FALSE /\ k.emitted = TRUE
    BY <1>1 DEF CallState, Phases, Open
  <1>3. call' = [call EXCEPT ![c] = k]
    BY <1>1 DEF Yield
  <1> HIDE DEF k
  <1>4. [BreakerNext]_breakerVars
    BY DEF Yield, BreakerNext
  <1>5. call'[c] = k /\ \A d \in Calls \ {c} : lease'[d] = lease[d]
    BY <1>1, <1>3, LeaseOfOthers DEF Yield, breakerVars
  <1>6. CallInv(c)'
    BY <1>1, <1>2, <1>5 DEF CallInv, Ended
  <1>7. QED  BY <1>2, <1>3, <1>4, <1>5, <1>6, OneCallMoves

(* A result settles the lease that is still held.                          *)
LEMMA ReturnKeepsInv ==
    ASSUME OrchestratorInv, NEW c \in Calls, Return(c)
    PROVE  OrchestratorInv'
  <1> DEFINE k == [call[c] EXCEPT !.phase = "returned", !.pending = FALSE]
  <1>1. /\ call \in [Calls -> CallState] /\ call[c] \in CallState
        /\ lease \in [Calls -> Leases]
    BY OneCallFacts
  <1>2. k \in CallState /\ k.phase = "returned" /\ k.pending = FALSE
    BY <1>1 DEF CallState, Phases, Ended
  <1>3. call' = [call EXCEPT ![c] = k]
    BY <1>1 DEF Return
  <1> HIDE DEF k
  <1>4. [BreakerNext]_breakerVars
    BY DEF Return, BreakerNext
  <1>5. /\ call'[c] = k /\ \A d \in Calls \ {c} : lease'[d] = lease[d]
        /\ lease'[c] \notin {"normal", "probe"}
    <2>1. CASE Held(c)
      <3>1. Succeed(c) /\ ~Acquire(c)
        BY <2>1 DEF Return, Acquire, Held
      <3>2. QED  BY <1>1, <1>3, <3>1, LeaseOfOthers
    <2>2. CASE ~Held(c)
      BY <2>2, <1>1, <1>3 DEF Return, Held, breakerVars
    <2>3. QED  BY <2>1, <2>2
  <1>6. CallInv(c)'
    BY <1>2, <1>5 DEF CallInv, Held, Ended
  <1>7. QED  BY <1>2, <1>3, <1>4, <1>5, <1>6, OneCallMoves

(* What happens around a call leaves its lease alone: the provider notices *)
(* the abort, the timer fires, the caller aborts.                          *)
LEMMA SignalsKeepInv ==
    ASSUME OrchestratorInv, NEW c \in Calls, ProviderStops(c) \/ Timeout(c) \/ Abort(c)
    PROVE  OrchestratorInv'
  <1>1. /\ call \in [Calls -> CallState] /\ call[c] \in CallState /\ CallInv(c)
        /\ lease \in [Calls -> Leases]
    BY OneCallFacts
  <1>2. /\ UNCHANGED breakerVars
        /\ \E k \in CallState :
              /\ call' = [call EXCEPT ![c] = k]
              /\ k.phase = call[c].phase /\ k.next = call[c].next
              /\ k.emitted = call[c].emitted /\ k.attempt = call[c].attempt
              /\ k.pending \in {FALSE, call[c].pending}
    <2>1. CASE ProviderStops(c)
      <3> DEFINE k == [call[c] EXCEPT !.pending = FALSE]
      <3>1. call' = [call EXCEPT ![c] = k]
        BY <1>1, <2>1 DEF ProviderStops
      <3>2. /\ k \in CallState /\ k.phase = call[c].phase /\ k.next = call[c].next
            /\ k.emitted = call[c].emitted /\ k.attempt = call[c].attempt /\ k.pending = FALSE
        BY <1>1 DEF CallState
      <3>3. QED  BY <2>1, <3>1, <3>2 DEF ProviderStops
    <2>2. CASE Timeout(c)
      <3> DEFINE k == [call[c] EXCEPT !.terminated = TRUE, !.timedOut = TRUE]
      <3>1. call' = [call EXCEPT ![c] = k]
        BY <1>1, <2>2 DEF Timeout
      <3>2. /\ k \in CallState /\ k.phase = call[c].phase /\ k.next = call[c].next
            /\ k.emitted = call[c].emitted /\ k.attempt = call[c].attempt
            /\ k.pending = call[c].pending
        BY <1>1 DEF CallState
      <3>3. QED  BY <2>2, <3>1, <3>2 DEF Timeout
    <2>3. CASE Abort(c)
      <3> DEFINE terminated == call[c].terminated \/ call[c].phase \in Open
                 k == [call[c] EXCEPT !.signal = TRUE, !.terminated = terminated]
      <3>1. call' = [call EXCEPT ![c] = k]
        BY <1>1, <2>3 DEF Abort
      <3>2. terminated \in BOOLEAN
        BY <1>1 DEF CallState
      <3> HIDE DEF terminated
      <3>3. /\ k \in CallState /\ k.phase = call[c].phase /\ k.next = call[c].next
            /\ k.emitted = call[c].emitted /\ k.attempt = call[c].attempt
            /\ k.pending = call[c].pending
        BY <1>1, <3>2 DEF CallState
      <3>4. QED  BY <2>3, <3>1, <3>3 DEF Abort
    <2>4. QED  BY <2>1, <2>2, <2>3
  <1>3. PICK k \in CallState :
              /\ call' = [call EXCEPT ![c] = k]
              /\ k.phase = call[c].phase /\ k.next = call[c].next
              /\ k.emitted = call[c].emitted /\ k.attempt = call[c].attempt
              /\ k.pending \in {FALSE, call[c].pending}
    BY <1>2
  <1>4. call'[c] = k /\ lease' = lease
    BY <1>1, <1>2, <1>3 DEF breakerVars
  <1>5. CallInv(c)'
    BY <1>1, <1>3, <1>4 DEF CallInv, Held
  <1>6. QED  BY <1>2, <1>3, <1>4, <1>5, OneCallMoves

(* An open attempt fails: the provider does, its race is lost, or the      *)
(* consumer asks for an event of a terminated scope.                       *)
LEMMA FailuresKeepInv ==
    ASSUME OrchestratorInv, NEW c \in Calls,
           ProviderFails(c) \/ LoseRace(c) \/ (Pull(c) /\ call[c].terminated)
    PROVE  OrchestratorInv'
  <1>1. call[c] \in CallState /\ CallInv(c)
    BY OneCallFacts
  <1>2. CASE ProviderFails(c)
    BY <1>2, CatchKeepsInv DEF ProviderFails, Open
  <1>3. CASE LoseRace(c)
    <2>1. call[c].pending \in BOOLEAN
      BY <1>1 DEF CallState
    <2>2. QED  BY <1>3, <2>1, CatchKeepsInv DEF LoseRace, Open
  <1>4. CASE Pull(c) /\ call[c].terminated
    <2>1. c \in Streams
      BY <1>1, <1>4 DEF CallInv, Pull
    <2>2. QED  BY <1>4, <2>1, CatchKeepsInv DEF Pull, Open
  <1>5. QED  BY <1>2, <1>3, <1>4

(* The consumer asks for the next event, or stops at this one.             *)
LEMMA ConsumerKeepsInv ==
    ASSUME OrchestratorInv, NEW c \in Calls, ConsumerStep(c)
    PROVE  OrchestratorInv'
  <1>1. /\ call \in [Calls -> CallState] /\ call[c] \in CallState /\ CallInv(c)
        /\ lease \in [Calls -> Leases] /\ call[c].phase = "yielded"
    BY OneCallFacts DEF ConsumerStep, Pull, Stop
  <1>2. c \in Streams /\ call[c].emitted /\ ~call[c].pending
    BY <1>1 DEF CallInv
  <1>3. CASE Pull(c) /\ call[c].terminated
    BY <1>3, FailuresKeepInv
  <1>4. CASE Pull(c) /\ ~call[c].terminated
    <2> DEFINE k == [call[c] EXCEPT !.phase = "waiting", !.pending = TRUE]
    <2>1. k \in CallState /\ k.phase = "waiting" /\ k.emitted = call[c].emitted
      BY <1>1 DEF CallState, Phases, Open
    <2>2. call' = [call EXCEPT ![c] = k] /\ UNCHANGED breakerVars
      BY <1>1, <1>4 DEF Pull
    <2> HIDE DEF k
    <2>3. call'[c] = k /\ lease' = lease
      BY <1>1, <2>2 DEF breakerVars
    <2>4. CallInv(c)'
      BY <1>2, <2>1, <2>3 DEF CallInv, Ended
    <2>5. QED  BY <2>1, <2>2, <2>3, <2>4, OneCallMoves
  <1>5. CASE Stop(c)
    <2> DEFINE k == [call[c] EXCEPT !.phase = "closing", !.next = "stopped", !.terminated = TRUE]
    <2>1. k \in CallState /\ k.phase = "closing" /\ k.next = "stopped"
      BY <1>1 DEF CallState, Phases
    <2>2. call' = [call EXCEPT ![c] = k] /\ UNCHANGED breakerVars
      BY <1>1, <1>5 DEF Stop
    <2> HIDE DEF k
    <2>3. call'[c] = k /\ lease' = lease
      BY <1>1, <2>2 DEF breakerVars
    <2>4. CallInv(c)'
      BY <1>2, <2>1, <2>3 DEF CallInv, Ended
    <2>5. QED  BY <2>1, <2>2, <2>3, <2>4, OneCallMoves
  <1>6. QED  BY <1>3, <1>4, <1>5 DEF ConsumerStep

(* Releasing what may be held leaves the call without a lease.             *)
LEMMA ReleaseIfHeldSettles ==
    ASSUME NEW c \in Calls, lease \in [Calls -> Leases], ReleaseIfHeld(c)
    PROVE  /\ \A d \in Calls \ {c} : lease'[d] = lease[d]
           /\ lease'[c] \notin {"normal", "probe"}
           /\ [BreakerNext]_breakerVars
  <1>1. CASE Held(c)
    <2>1. Release(c) /\ ~Acquire(c)
      BY <1>1 DEF ReleaseIfHeld, Acquire, Held
    <2>2. QED  BY <2>1, LeaseOfOthers DEF BreakerNext
  <1>2. CASE ~Held(c)
    BY <1>2 DEF ReleaseIfHeld, Held, breakerVars
  <1>3. QED  BY <1>1, <1>2

(* The stream is closed: what comes next was decided before.               *)
LEMMA CloseKeepsInv ==
    ASSUME OrchestratorInv, NEW c \in Calls, Close(c)
    PROVE  OrchestratorInv'
  <1> DEFINE k == [call[c] EXCEPT !.phase = call[c].next]
  <1>1. /\ call \in [Calls -> CallState] /\ call[c] \in CallState /\ CallInv(c)
        /\ lease \in [Calls -> Leases] /\ call[c].phase = "closing" /\ ~call[c].pending
    BY OneCallFacts DEF Close
  <1>2. call[c].next \in {"backoff", "threw", "stopped"} /\ c \in Streams
    BY <1>1 DEF CallState, CallInv
  <1>3. /\ k \in CallState /\ k.phase = call[c].next /\ k.emitted = call[c].emitted
        /\ k.attempt = call[c].attempt /\ k.pending = call[c].pending
    BY <1>1, <1>2 DEF CallState, Phases, Ended
  <1>4. call' = [call EXCEPT ![c] = k]
    BY <1>1 DEF Close
  <1> HIDE DEF k
  <1>5. call'[c] = k
    BY <1>1, <1>4
  <1>6. CASE call[c].next = "stopped"
    <2>1. ReleaseIfHeld(c)
      BY <1>6 DEF Close
    <2>2. CallInv(c)'
      BY <1>1, <1>3, <1>5, <1>6, <2>1, ReleaseIfHeldSettles DEF CallInv, Held, Ended
    <2>3. QED  BY <1>1, <1>3, <1>4, <2>1, <2>2, ReleaseIfHeldSettles, OneCallMoves
  <1>7. CASE call[c].next # "stopped"
    <2>1. UNCHANGED breakerVars /\ lease' = lease
      BY <1>7 DEF Close, breakerVars
    <2>2. CallInv(c)'
      BY <1>1, <1>2, <1>3, <1>5, <1>7, <2>1 DEF CallInv, Held, Ended
    <2>3. QED  BY <1>3, <1>4, <2>1, <2>2, OneCallMoves
  <1>8. QED  BY <1>6, <1>7

(* The backoff ends, in the next attempt or in an abort.                   *)
LEMMA RetryKeepsInv ==
    ASSUME OrchestratorInv, NEW c \in Calls, Retry(c)
    PROVE  OrchestratorInv'
  <1>1. /\ call \in [Calls -> CallState] /\ call[c] \in CallState /\ CallInv(c)
        /\ lease \in [Calls -> Leases] /\ call[c].phase = "backoff"
    BY OneCallFacts DEF Retry
  <1>2. /\ Held(c) /\ ~call[c].emitted /\ call[c].attempt < RetryAttempts
        /\ c \in Streams => ~call[c].pending
    BY <1>1 DEF CallInv
  <1>3. CASE Ends(c, "threw", "ABORTED") /\ ReleaseIfHeld(c)
    <2> DEFINE k == [call[c] EXCEPT !.phase = "threw", !.error = "ABORTED"]
    <2>1. k \in CallState /\ k.phase = "threw" /\ k.pending = call[c].pending
      BY <1>1 DEF CallState, Phases, Ended
    <2>2. call' = [call EXCEPT ![c] = k]
      BY <1>1, <1>3 DEF Ends
    <2> HIDE DEF k
    <2>3. call'[c] = k
      BY <1>1, <2>2
    <2>4. CallInv(c)'
      BY <1>1, <1>2, <1>3, <2>1, <2>3, ReleaseIfHeldSettles DEF CallInv, Held, Ended
    <2>5. QED  BY <1>1, <1>3, <2>1, <2>2, <2>4, ReleaseIfHeldSettles, OneCallMoves
  <1>4. CASE ~call[c].signal
    <2> DEFINE k == [call[c] EXCEPT !.phase = "waiting", !.attempt = call[c].attempt + 1,
                                    !.next = "none", !.pending = TRUE, !.emitted = FALSE,
                                    !.terminated = FALSE, !.timedOut = FALSE]
    <2>1. call[c].attempt + 1 \in 0 .. RetryAttempts
      BY <1>1, <1>2, RetryAttemptsAssumption DEF CallState
    <2>2. k \in CallState /\ k.phase = "waiting"
      BY <1>1, <2>1 DEF CallState, Phases, Open
    <2>3. call' = [call EXCEPT ![c] = k] /\ UNCHANGED breakerVars
      BY <1>1, <1>4 DEF Retry
    <2> HIDE DEF k
    <2>4. call'[c] = k /\ lease' = lease
      BY <1>1, <2>3 DEF breakerVars
    <2>5. CallInv(c)'
      BY <1>2, <2>2, <2>4 DEF CallInv, Held, Ended
    <2>6. QED  BY <2>2, <2>3, <2>4, <2>5, OneCallMoves
  <1>5. QED  BY <1>3, <1>4 DEF Retry

(* Every step of the orchestrator keeps the invariant.                     *)
LEMMA OrchestratorInvStep ==
    OrchestratorInv /\ [OrchestratorNext]_orchestratorVars => OrchestratorInv'
  <1> SUFFICES ASSUME OrchestratorInv, [OrchestratorNext]_orchestratorVars
               PROVE  OrchestratorInv'
    OBVIOUS
  <1>1. BreakerInv'
    BY OrchestratorStepIsBreakerStep, BreakerInvStep DEF OrchestratorInv
  <1>2. CASE UNCHANGED call /\ (CoolDown \/ UNCHANGED breakerVars)
    <2>1. lease' = lease
      BY <1>2 DEF CoolDown, breakerVars
    <2>2. QED  BY <1>1, <1>2, <2>1 DEF OrchestratorInv, CallInv, Held
  <1>3. ASSUME NEW c \in Calls, Start(c) \/ Yield(c) \/ Return(c)
        PROVE  OrchestratorInv'
    BY <1>3, StartKeepsInv, YieldKeepsInv, ReturnKeepsInv
  <1>4. ASSUME NEW c \in Calls, ProviderFails(c)
        PROVE  OrchestratorInv'
    BY <1>4, FailuresKeepInv
  <1>5. ASSUME NEW c \in Calls, ProviderStops(c) \/ Timeout(c) \/ Abort(c)
        PROVE  OrchestratorInv'
    BY <1>5, SignalsKeepInv
  <1>6. ASSUME NEW c \in Calls, CodeStep(c)
        PROVE  OrchestratorInv'
    BY <1>6, FailuresKeepInv, CloseKeepsInv, RetryKeepsInv DEF CodeStep
  <1>7. ASSUME NEW c \in Calls, ConsumerStep(c)
        PROVE  OrchestratorInv'
    BY <1>7, ConsumerKeepsInv
  <1>8. QED
    BY <1>2, <1>3, <1>4, <1>5, <1>6, <1>7 DEF OrchestratorNext, orchestratorVars, breakerVars

(* The invariant holds in every run.                                       *)
LEMMA OrchestratorInvariant == OrchestratorSpec => []OrchestratorInv
  BY OrchestratorInvInit, OrchestratorInvStep, PTL DEF OrchestratorSpec

(* The types; no call makes more than RetryAttempts additional attempts.   *)
THEOREM OrchestratorTypeCorrect == OrchestratorSpec => []OrchestratorTypeOK
  <1>1. OrchestratorInv => OrchestratorTypeOK
    BY DEF OrchestratorInv, OrchestratorTypeOK, BreakerInv, BreakerTypeOK
  <1>2. QED  BY <1>1, OrchestratorInvariant, PTL

(* No call ends with its lease, and none is tried on without it, whatever  *)
(* timeouts, retries, aborts and consumers do (the settled lease, finally).*)
THEOREM LeasesFollowCalls == OrchestratorSpec => []LeaseFollowsCall
  <1>1. OrchestratorInv => LeaseFollowsCall
    BY DEF OrchestratorInv, LeaseFollowsCall, CallInv
  <1>2. QED  BY <1>1, OrchestratorInvariant, PTL

(* No stream ends, or is tried again, with its provider stream still at    *)
(* work (closeIterator is awaited).                                        *)
THEOREM StreamsAreClosed == OrchestratorSpec => []EndedStreamsAreClosed
  <1>1. OrchestratorInv => EndedStreamsAreClosed
    BY CallsAssumption DEF OrchestratorInv, EndedStreamsAreClosed, CallInv
  <1>2. QED  BY <1>1, OrchestratorInvariant, PTL

-----------------------------------------------------------------------------
(* Only a retry counts an attempt.                                         *)
LEMMA OnlyRetryCounts ==
    ASSUME OrchestratorInv, NEW c \in Calls, NEW d \in Calls,
           \/ Start(c) \/ Yield(c) \/ Return(c) \/ ProviderFails(c) \/ ProviderStops(c)
           \/ Timeout(c) \/ Abort(c) \/ LoseRace(c) \/ Close(c) \/ ConsumerStep(c)
    PROVE  call'[d].attempt = call[d].attempt
  <1>1. call \in [Calls -> CallState] /\ call[d] \in CallState /\ call[c] \in CallState
    BY OneCallFacts
  <1>2. CASE Start(c) \/ Yield(c) \/ Return(c)
    BY <1>1, <1>2 DEF Start, Ends, Yield, Return, CallState
  <1>3. CASE ProviderStops(c) \/ Timeout(c) \/ Abort(c)
    BY <1>1, <1>3 DEF ProviderStops, Timeout, Abort, CallState
  <1>4. ASSUME NEW failure, NEW pending, Catch(c, failure, pending)
        PROVE  call'[d].attempt = call[d].attempt
    <2>1. \E k : /\ call' = [call EXCEPT ![c] = k]
                 /\ k.attempt = call[c].attempt
      <3> DEFINE error == IF call[c].signal THEN "ABORTED" ELSE failure
                 retry == ~call[c].emitted /\ call[c].attempt < RetryAttempts /\ error = "TRANSIENT"
                 after == IF retry THEN "backoff" ELSE "threw"
                 phase == IF c \in Streams THEN "closing" ELSE after
                 kept  == IF retry THEN call[c].error ELSE error
                 k     == [call[c] EXCEPT !.phase = phase, !.next = after, !.terminated = TRUE,
                                          !.pending = pending, !.error = kept]
      <3>1. call' = [call EXCEPT ![c] = k]
        BY <1>1, <1>4 DEF Catch, FailAttempt
      <3> HIDE DEF phase, after, kept
      <3>2. k.attempt = call[c].attempt
        BY <1>1 DEF CallState
      <3>3. QED  BY <3>1, <3>2
    <2>2. QED  BY <1>1, <2>1
  <1>5. CASE ProviderFails(c) \/ LoseRace(c)
    BY <1>4, <1>5 DEF ProviderFails, LoseRace
  <1>6. CASE Close(c) \/ Stop(c)
    BY <1>1, <1>6 DEF Close, Stop, CallState
  <1>7. CASE Pull(c)
    <2>1. CASE call[c].terminated
      BY <1>4, <1>7, <2>1 DEF Pull
    <2>2. CASE ~call[c].terminated
      <3> DEFINE k == [call[c] EXCEPT !.phase = "waiting", !.pending = TRUE]
      <3>1. call' = [call EXCEPT ![c] = k]
        BY <1>1, <1>7, <2>2 DEF Pull
      <3>2. k.attempt = call[c].attempt
        BY <1>1 DEF CallState
      <3> HIDE DEF k
      <3>3. QED  BY <1>1, <3>1, <3>2
    <2>3. QED  BY <2>1, <2>2
  <1>8. QED  BY <1>2, <1>3, <1>5, <1>6, <1>7 DEF ConsumerStep

(* A stream that has emitted an event is never started again: its consumer *)
(* never sees two beginnings (executeStream, streamStarted).               *)
THEOREM StreamsBeginOnce == OrchestratorSpec => NoRetryAfterEvent
  <1>1. ASSUME OrchestratorInv, OrchestratorNext, NEW d \in Calls,
               call'[d].attempt > call[d].attempt
        PROVE  ~call[d].emitted
    <2>1. call \in [Calls -> CallState] /\ call[d] \in CallState
      BY <1>1, OneCallFacts
    <2>2. ~(call'[d].attempt = call[d].attempt)
      BY <1>1, <2>1 DEF CallState
    <2>3. CASE \E c \in Calls : Retry(c)
      <3>1. PICK c \in Calls : Retry(c)
        BY <2>3
      <3>2. c = d
        BY <2>1, <2>2, <3>1 DEF Retry, Ends
      <3>3. call[c].phase = "backoff" /\ CallInv(c)
        BY <1>1, <3>1, OneCallFacts DEF Retry
      <3>4. QED  BY <3>2, <3>3 DEF CallInv
    <2>4. CASE UNCHANGED call
      BY <2>2, <2>4
    <2>5. QED
      BY <1>1, <2>2, <2>3, <2>4, OnlyRetryCounts DEF OrchestratorNext, CodeStep
  <1>2. OrchestratorInv /\ [OrchestratorNext]_orchestratorVars =>
          [\A c \in Calls : call'[c].attempt > call[c].attempt => ~call[c].emitted
            ]_orchestratorVars
    BY <1>1
  <1>3. QED
    BY <1>2, OrchestratorInvariant, PTL DEF OrchestratorSpec, NoRetryAfterEvent

(* The lease of an aborted call is settled without a new failure.          *)
LEMMA AbortedSettlement ==
    ASSUME OrchestratorInv, NEW c \in Calls, call[c].signal,
           \/ Succeed(c)
           \/ Release(c)
           \/ \E failure, pending : Catch(c, failure, pending)
    PROVE  entry'.consecutiveFailures <= entry.consecutiveFailures
  <1>1. entry \in CircuitEntry
    BY DEF OrchestratorInv, BreakerInv, BreakerTypeOK
  <1>2. CASE Succeed(c)
    BY <1>1, <1>2 DEF Succeed, CircuitEntry
  <1>3. CASE Release(c)
    BY <1>1, <1>3 DEF Release, CircuitEntry
  <1>4. ASSUME NEW failure, NEW pending, Catch(c, failure, pending)
        PROVE  entry'.consecutiveFailures <= entry.consecutiveFailures
    <2>1. SettleFailure(c, "ABORTED") \/ UNCHANGED breakerVars
      BY <1>4 DEF Catch, FailAttempt
    <2>2. Release(c) \/ UNCHANGED breakerVars
      BY <2>1 DEF SettleFailure
    <2>3. QED  BY <1>1, <1>3, <2>2 DEF breakerVars, CircuitEntry
  <1>5. QED  BY <1>2, <1>3, <1>4

(* A caller that gave up says nothing about the provider: settling its     *)
(* lease adds no failure (settleFailure of an aborted signal).             *)
THEOREM AbortsCountForNothing == OrchestratorSpec => AbortsAreNoFailures
  <1>1. ASSUME OrchestratorInv, OrchestratorNext, NEW d \in Calls,
               Held(d), call[d].signal, lease'[d] = "settled"
        PROVE  entry'.consecutiveFailures <= entry.consecutiveFailures
    <2>1. lease \in [Calls -> Leases] /\ entry \in CircuitEntry
      BY <1>1 DEF OrchestratorInv, BreakerInv, BreakerTypeOK
    <2>2. lease'[d] # lease[d]
      BY <1>1 DEF Held
    <2>3. ~(UNCHANGED breakerVars) /\ ~CoolDown
      BY <2>2 DEF breakerVars, CoolDown
    <2>4. PICK c \in Calls :
             \/ Start(c) \/ Yield(c) \/ Return(c) \/ ProviderFails(c) \/ ProviderStops(c)
             \/ Timeout(c) \/ Abort(c) \/ CodeStep(c) \/ ConsumerStep(c)
      BY <1>1, <2>3 DEF OrchestratorNext
    <2>5. \/ Acquire(c) \/ Succeed(c) \/ Release(c)
          \/ \E failure, pending : Catch(c, failure, pending)
      BY <2>3, <2>4
      DEF Start, Yield, Return, ProviderFails, ProviderStops, Timeout, Abort, CodeStep, LoseRace,
          Close, Retry, ReleaseIfHeld, ConsumerStep, Pull, Stop
    <2>6. c = d
      <3>1. ASSUME NEW failure, NEW pending, Catch(c, failure, pending), c # d
            PROVE  lease'[d] = lease[d]
        <4>1. \/ UNCHANGED breakerVars
              \/ \E error : SettleFailure(c, error)
          BY <3>1 DEF Catch, FailAttempt
        <4>2. QED
          BY <1>1, <3>1, <4>1, SettleFailureSettles DEF OrchestratorInv, breakerVars
      <3>2. QED  BY <2>1, <2>2, <2>5, <3>1, LeaseOfOthers
    <2>7. ~Acquire(c)
      BY <1>1, <2>6 DEF Acquire, Held
    <2>8. QED  BY <1>1, <2>5, <2>6, <2>7, AbortedSettlement
  <1>2. OrchestratorInv /\ [OrchestratorNext]_orchestratorVars =>
          [\A c \in Calls :
             Held(c) /\ call[c].signal /\ lease'[c] = "settled"
                => entry'.consecutiveFailures <= entry.consecutiveFailures]_orchestratorVars
    BY <1>1
  <1>3. QED
    BY <1>2, OrchestratorInvariant, PTL DEF OrchestratorSpec, AbortsAreNoFailures

=============================================================================
