SPECIFICATION Spec
CONSTANTS
    Nodes <- MCNodes
    Root = "M"
    Leaves <- MCLeaves
    Parent <- MCParent
    Threshold <- MCThreshold
    Fps <- MCFps
    NoFp = "none"
    FirstFp <- MCFirstFp
    Initial <- MCInitial
    Stores = {"op", "p"}
    Editors = {"op"}
    Pushers = {"op", "p"}
    Publishers = {"op"}
    Pullers = {"op", "p"}
    PullFp <- MCPullFp
    Pairs <- MCPairs
    Evictable = {"s3"}
    Movable = {"s2"}
    MaxEdits = 2
    MaxGen = 2
    MaxPulls <- MCMaxPulls
    MaxLate = 1
INVARIANTS
    TypeOK
    SlicesApply
    ReaderHoldsOneGeneration
    MergeStaysValid
    ShareFitsKey
PROPERTY OthersStayInPlace
CHECK_DEADLOCK FALSE
