SPECIFICATION FairOrchestratorSpec
CONSTANTS
    Calls = {c1}
    FailureThreshold = 1
    Streams = {c1}
    RetryAttempts = 1
    GivesUp = {}
    IgnoresAbort = {c1}
PROPERTIES
    TimeoutIsAuthoritative
CHECK_DEADLOCK FALSE
