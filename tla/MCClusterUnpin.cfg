SPECIFICATION Spec
CONSTANTS
    CounterMax = 100
    MaxDrift = 5
    Tick = 0
    Nodes = {1, 2}
    Setups <- UnpinSetups
    PayloadLen <- MCPayload
    Private <- MCPrivate
    Held <- MCHeld
    VectorRows = 1
    PullKeys = 2
    ServeBurst = 2
    PushBurst = 1
    PushQueue = 1
    Threshold = 1
    BackstopPeriods = 1
INVARIANT VersionMeansAnswer
CHECK_DEADLOCK FALSE
