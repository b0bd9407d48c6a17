---------------------------- MODULE CircuitBreaker ----------------------------
(***************************************************************************)
(* One entry of the CircuitBreakerRegistry and the leases it hands out.    *)
(* A lease remembers whether it was granted as a probe and is settled once *)
(* by succeed, fail or release, at any later time: a call that was let in  *)
(* while the circuit was closed may end after it has opened, half opened   *)
(* and closed again.                                                       *)
(*                                                                         *)
(* Of openedAtMs and the clock only "cooled" matters: whether cooldownMs   *)
(* have passed since the circuit was opened last.                          *)
(***************************************************************************)
EXTENDS Integers, FiniteSets

CONSTANTS
    Calls,             \* identities of calls; each acquires at most one lease
    FailureThreshold   \* failures in a row that open the circuit

ASSUME FailureThresholdAssumption == FailureThreshold \in Nat \ {0}

VARIABLES
    entry,   \* the circuit's entry
    lease    \* what each call has of it

breakerVars == <<entry, lease>>

CircuitEntry ==
    [state : {"CLOSED", "OPEN", "HALF_OPEN"}, consecutiveFailures : Nat,
     cooled : BOOLEAN, probeInFlight : BOOLEAN]

Leases == {"none", "normal", "probe", "settled"}

Held(c) == lease[c] \in {"normal", "probe"}

BreakerInit ==
    /\ entry = [state |-> "CLOSED", consecutiveFailures |-> 0,
                cooled |-> FALSE, probeInFlight |-> FALSE]
    /\ lease = [c \in Calls |-> "none"]

Admits ==
    \/ entry.state = "CLOSED"
    \/ entry.state = "OPEN" /\ entry.cooled
    \/ entry.state = "HALF_OPEN" /\ ~entry.probeInFlight

(* A lease of a circuit that is not closed is a probe.                     *)
Acquire(c) ==
    /\ lease[c] = "none"
    /\ Admits
    /\ IF entry.state = "CLOSED"
         THEN lease' = [lease EXCEPT ![c] = "normal"] /\ UNCHANGED entry
         ELSE /\ lease' = [lease EXCEPT ![c] = "probe"]
              /\ entry' = [entry EXCEPT !.state = "HALF_OPEN", !.probeInFlight = TRUE]

Settle(c) == Held(c) /\ lease' = [lease EXCEPT ![c] = "settled"]

(* Mutant: the count of failures is not reset.                             *)
SucceedKeepingFailures(c) ==
    /\ Settle(c)
    /\ entry' = [entry EXCEPT !.state = "CLOSED", !.probeInFlight = FALSE,
                              !.cooled = FALSE]

Succeed(c) ==
    /\ Settle(c)
    /\ entry' = [state |-> "CLOSED", consecutiveFailures |-> 0,
                 cooled |-> FALSE, probeInFlight |-> FALSE]

FailLease(c) ==
    /\ Settle(c)
    /\ LET probe    == lease[c] = "probe"
           failures == IF probe THEN FailureThreshold ELSE entry.consecutiveFailures + 1
       IN  entry' = IF probe \/ failures >= FailureThreshold
                      THEN [state |-> "OPEN", consecutiveFailures |-> failures,
                            cooled |-> FALSE, probeInFlight |-> FALSE]
                      ELSE [entry EXCEPT !.consecutiveFailures = failures,
                                         !.probeInFlight = FALSE]

(* Mutant: releasing a probe does not give the probe back.                 *)
ReleaseKeepingProbe(c) == Settle(c) /\ UNCHANGED entry

Release(c) ==
    /\ Settle(c)
    /\ entry' = IF lease[c] = "probe" /\ entry.state = "HALF_OPEN"
                  THEN [entry EXCEPT !.probeInFlight = FALSE]
                  ELSE entry

CoolDown ==
    /\ entry.state = "OPEN" /\ ~entry.cooled
    /\ entry' = [entry EXCEPT !.cooled = TRUE]
    /\ UNCHANGED lease

BreakerNext ==
    \/ \E c \in Calls : Acquire(c) \/ Succeed(c) \/ FailLease(c) \/ Release(c)
    \/ CoolDown

BreakerSpec == BreakerInit /\ [][BreakerNext]_breakerVars

-----------------------------------------------------------------------------
(* Correctness                                                             *)

(* The entry and the leases have their types.                              *)
BreakerTypeOK == entry \in CircuitEntry /\ lease \in [Calls -> Leases]

(* The circuit is closed exactly while fewer than failureThreshold calls   *)
(* in a row have failed, whenever the calls of earlier states settle.      *)
ClosedBelowThreshold ==
    entry.state = "CLOSED" <=> entry.consecutiveFailures < FailureThreshold

(* The circuit never refuses every call for good: while a probe is marked  *)
(* as in flight, there is a probe whose end will clear the mark.           *)
ProbeInFlightIsHeld ==
    entry.probeInFlight =>
        entry.state = "HALF_OPEN" /\ \E c \in Calls : lease[c] = "probe"

(* At most one probe is at the provider at any time.                       *)
OneProbe == Cardinality({c \in Calls : lease[c] = "probe"}) <= 1

=============================================================================
