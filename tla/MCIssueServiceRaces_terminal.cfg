SPECIFICATION Spec
CONSTANTS
    Issues = {i1}
    Handlers = {h1, h2}
    MaxAttempts = 2
    MaxVersion = 1
    LeaseTicks = 1
    RetryTicks = 0
    ReleaseDelays = {1}
    Requested <- RunningCancels
PROPERTY
    TerminalIsFinal
CHECK_DEADLOCK FALSE
