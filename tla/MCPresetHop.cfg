CONSTANTS
    Presets = {p1, p2, p3}
    Frames = {f1, f2}
    Switchers = {hop, admin}
    Hops = {hop}
    NoPlan = {p3}
    MaxGen = 2
SPECIFICATION Spec
CHECK_DEADLOCK FALSE
INVARIANTS SettledAgree 
PROPERTIES SwitchesReturn
