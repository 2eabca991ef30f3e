SPECIFICATION FairSpec
CONSTANTS
    Issues = {i1, i2}
    Callers = {c1}
    MaxAttempts = 1
    MaxVersion = 1
    LeaseTicks = 2
    RetryTicks = 1
    ReleaseDelays = {1}
    Requested <- ClientArcs
PROPERTIES
    SilentClaimEnds
    RetryComesDue
