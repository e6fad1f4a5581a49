SPECIFICATION FairSpec
CONSTANTS
    RedialMin = 1
    RedialMax = 300
    ProbeInterval = 60
    AuthFailDelay = 600
    LinkDownRetry = 5
    StableResetAfter = 300
    WedgeRestartAfter = 3
    ShiftCap = 20
    AttemptCap = 22
    MaxRestarts = 1
INVARIANTS
    TypeOK
    SessionAgreement
    BackoffInStep
PROPERTIES
    NoHastyDrop
    FlappingKeepsEscalating
    Reconnects
