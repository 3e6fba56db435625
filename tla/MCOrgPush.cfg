SPECIFICATION Spec
CONSTANTS
    Nodes <- MCNodes
    Root = "M"
    Leaves <- MCLeaves
    Parent <- MCParent
    Threshold <- MCThreshold
    Fps <- MCFps
    NoFp = "none"
    FirstFp <- MCFirstFp
    Initial <- MCInitial
    Stores = {"op", "p"}
    Editors = {"op"}
    Pushers = {"op", "p"}
    Publishers = {}
    Pullers = {"p"}
    PullFp <- MCPullFp
    Pairs <- MCPairs
    Evictable = {"s3"}
    Movable = {"s2"}
    MaxEdits = 2
    MaxGen = 3
    MaxPulls <- MCOnePull
    MaxLate = 0
INVARIANT PushAccepted
CHECK_DEADLOCK FALSE
