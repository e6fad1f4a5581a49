SPECIFICATION FairSpec
CONSTANTS
    LinkPoll = 1
    LinkDownRetry = 2
    BackoffDelays = {1, 4}
    ProbeInterval = 4
    AuthFailDelay = 3
    ToastAfter = 2
    Throttle = 3
INVARIANTS TypeOK NoStall InSync NewestReading
PROPERTIES BackoffHonoured FreshLinkBeforeStep ToastsThrottled KeepsStepping
