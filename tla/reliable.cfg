SPECIFICATION FairOrchestratorSpec
CONSTANTS
    Calls = {c1, c2, c3}
    FailureThreshold = 2
    Streams = {c1}
    RetryAttempts = 1
    GivesUp = {c1, c2}
    IgnoresAbort = {c2}
INVARIANTS
    OrchestratorTypeOK
    ClosedBelowThreshold
    ProbeInFlightIsHeld
    LeaseFollowsCall
    EndedStreamsAreClosed
PROPERTIES
    NoRetryAfterEvent
    AbortsAreNoFailures
    EveryCallEnds
    CircuitAdmitsAgain
CHECK_DEADLOCK FALSE
