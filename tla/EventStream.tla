----------------------------- MODULE EventStream -----------------------------
(***************************************************************************)
(* What an orchestrator promises of the events of one stream              *)
(* (OrchestrationEvent): any number of status and delta events, then each  *)
(* source once, then the completed result, whose sources are the sources   *)
(* emitted; or, instead of the result, a failure.  Nothing comes after     *)
(* either.  The answer of the result is the text of the deltas as long as  *)
(* what the provider writes can only be added to ("additive", which may    *)
(* cease to hold at any time).                                             *)
(***************************************************************************)
EXTENDS Naturals, Sequences

CONSTANT Sources

VARIABLES
    deltas,   \* how many pieces of text have been emitted
    sources,  \* the sources emitted
    outcome,  \* "open", "completed" or "failed"
    result,   \* the result of a completed stream
    additive  \* nothing written replaces what was written or comes too late

NoResult == [answer |-> 0, sources |-> <<>>]

EventInit == deltas = 0 /\ sources = <<>> /\ outcome = "open" /\ result = NoResult

Delta ==
    /\ outcome = "open" /\ sources = <<>>
    /\ deltas' = deltas + 1
    /\ UNCHANGED <<sources, outcome, result>>

Source ==
    /\ outcome = "open"
    /\ \E source \in Sources :
          /\ \A i \in DOMAIN sources : sources[i] # source
          /\ sources' = Append(sources, source)
    /\ UNCHANGED <<deltas, outcome, result>>

Complete ==
    /\ outcome = "open"
    /\ outcome' = "completed"
    /\ result'.sources = sources
    /\ additive => result'.answer = deltas
    /\ UNCHANGED <<deltas, sources>>

Fail ==
    /\ outcome = "open"
    /\ outcome' = "failed"
    /\ UNCHANGED <<deltas, sources, result>>

EventNext == Delta \/ Source \/ Complete \/ Fail

EventSpec == EventInit /\ [][EventNext]_<<deltas, sources, outcome, result>>

=============================================================================
