CONSTANTS
    p1 = p1
    p2 = p2
    p3 = p3
    Presets = {p1, p2, p3}
    Home = home
    None = none
    Lists <- SweepThree
    NoPlan = {p1}
    Urgent = FALSE
    SlowTx = TRUE
    MaxStarts = 2
SPECIFICATION FairSpec
CHECK_DEADLOCK FALSE
INVARIANTS GateOpenMeansHome 
PROPERTIES CommandsTake
