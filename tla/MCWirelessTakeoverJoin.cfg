SPECIFICATION Spec
CONSTANTS
    TakeoverAfter = 1
    ReleaseAfter = 1
    ProbeInterval = 1
    JoinTimeout = 1
    AuthRetryDelays <- Delays
    LaneCap = 3
    Elapsed = {1}
PROPERTY JoinGetsItsTime
