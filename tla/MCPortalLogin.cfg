SPECIFICATION LoginFairSpec
CONSTANTS
    g1 = g1
    g2 = g2
    Dest = {portal, probe}
    Gateway = {g1, g2}
    MaxIface = 2
    MaxEnds = 1
    Offered <- GatewayChanges
INVARIANTS TypeOK RoutesTracked RollbackArmed VerdictsTruthful
PROPERTIES RollbackCompletes LoginHasEgress
