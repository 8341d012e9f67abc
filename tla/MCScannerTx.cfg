CONSTANTS
    p1 = p1
    p2 = p2
    p3 = p3
    Presets = {p1, p2}
    Home = home
    None = none
    Lists <- SweepOnly
    NoPlan = {}
    Urgent = FALSE
    SlowTx = FALSE
    MaxStarts = 1
SPECIFICATION Spec
CHECK_DEADLOCK FALSE
INVARIANTS TransmitsAtHome
