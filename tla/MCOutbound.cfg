CONSTANTS
    Frames = {f1, f2, f3}
    OB_MAX = 2
    TX_DEFER_MAX = 1
    Requests <- SafetyRequests
    Policies <- LowDepth
SPECIFICATION Spec
SYMMETRY Symmetry
CHECK_DEADLOCK FALSE
INVARIANTS TypeOK FrameInOnePlace BlockingNeverLost PendingSeesEveryFrame NoLostWakeup NoStrandedEnqueuer 
PROPERTIES EvictionIsForHigherTier
