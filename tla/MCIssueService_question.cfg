SPECIFICATION Spec
CONSTANTS
    Issues = {i1}
    Callers = {c1}
    MaxAttempts = 2
    MaxVersion = 3
    LeaseTicks = 1
    RetryTicks = 0
    ReleaseDelays = {1}
    Requested <- AllArcs
INVARIANT
    WaitingCanBeAnswered
