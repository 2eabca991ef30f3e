SPECIFICATION Spec
CONSTANTS
    Issues = {i1}
    Handlers = {h1, h2}
    MaxAttempts = 2
    MaxVersion = 3
    LeaseTicks = 1
    RetryTicks = 1
    ReleaseDelays = {0}
    Requested <- ClientArcs
SYMMETRY Symmetry
INVARIANTS
    TypeOK
    RunningIsBacked
    WaitingCanBeAnswered
    QueuedHasTime
    DeliveryIsRecorded
CHECK_DEADLOCK FALSE
