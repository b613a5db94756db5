SPECIFICATION Spec
CONSTANTS
    Procs = {p1, p2}
    Nsds = {n1}
    Endpoints = {e1, e2}
    PortReuse = FALSE
    Beacons = TRUE
    HWM = 1
    MaxUpheavals = 1
INVARIANTS
    TypeOK
    TableMatchesConnections
    SettledMesh
CHECK_DEADLOCK FALSE
SYMMETRY MCSymmetry
