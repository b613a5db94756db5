SPECIFICATION FairSpec
CONSTANTS
    Procs = {p1, p2}
    Nsds = {n1}
    Endpoints = {e1, e2}
    PortReuse = FALSE
    Beacons = TRUE
    HWM = 1
    MaxUpheavals = 0
PROPERTIES
    Beaconing
CHECK_DEADLOCK FALSE
