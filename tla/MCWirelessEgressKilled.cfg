SPECIFICATION Spec
CONSTANTS
    Dest = {portal}
    Gateway = {g1}
    MaxIface = 1
    MaxEnds = 1
PROPERTY MetricRestored
