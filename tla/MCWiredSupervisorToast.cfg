SPECIFICATION Spec
CONSTANTS
    LinkPoll = 2
    LinkDownRetry = 3
    BackoffDelays = {1, 5}
    ProbeInterval = 4
    AuthFailDelay = 6
    ToastAfter = 5
    Throttle = 6
PROPERTY ToastAfterRealFailure
