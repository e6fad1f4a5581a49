SPECIFICATION FairSpec
CONSTANTS
    Files = {"exe"}
    Exe = "exe"
    MaxFaults = 2
    MaxRuns = 2
INVARIANTS TypeOK HonestReport
PROPERTIES IsTransaction Terminates
CHECK_DEADLOCK FALSE
