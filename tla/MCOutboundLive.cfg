CONSTANTS
    Frames = {f1, f2}
    OB_MAX = 2
    TX_DEFER_MAX = 1
    Requests <- LivenessRequests
    Policies <- BothPolicies
SPECIFICATION FairSpec
CHECK_DEADLOCK FALSE
PROPERTIES BlockedCallersReturn EveryFrameEnds
