SPECIFICATION BreakerSpec
CONSTANTS
    Calls = {c1, c2, c3, c4}
    FailureThreshold = 1
INVARIANTS
    OneProbe
CHECK_DEADLOCK FALSE
