SPECIFICATION FairSpec
CONSTANTS
    RecvTimeout = 2
    RecvTimeoutLimit = 5
    CntModulus = 128
INVARIANTS TypeOK StatusTruthful StopsInTime
PROPERTY EndsOrRecovers
CHECK_DEADLOCK FALSE
