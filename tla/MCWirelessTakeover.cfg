SPECIFICATION FairSpec
CONSTANTS
    TakeoverAfter = 1
    ReleaseAfter = 1
    ProbeInterval = 1
    JoinTimeout = 1
    AuthRetryDelays <- OneDelay
    LaneCap = 2
    Elapsed = {1}
INVARIANTS TypeOK FlagsMatchWork NothingAwaitedInVain
PROPERTIES TakesOverAndYields NoStaleReauth
