SPECIFICATION FairSpec
CONSTANTS
    Mode = {excl, stby}
    Configured = {excl}
    None = None
    Lane = {l1}
    PipeCap = 1
    QueueCap = 1
    ConfirmFrames = 2
    Presence <- OneSessionAtATime
    MaxClicks <- ClickBound
    MaxRestarts = 1
INVARIANTS TypeOK NoLostWakeup ModeConfirmed
PROPERTY CacheConverges
CHECK_DEADLOCK FALSE
