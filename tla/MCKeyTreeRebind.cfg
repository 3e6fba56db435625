SPECIFICATION Spec
CONSTANTS
    Splits <- MCSplits
    Leaves <- MCLeaves
    Root = 1
    Parent <- MCParent
    Threshold <- MCThreshold
    Initial <- MCInitial
    MaxChildren = 255
    HwKeys <- MCHwKeys
    NoHw = NoHw
    FirstHw <- MCFirstHw
    Spare = {8}
    Banned = {4, 6}
    Procs = {p1, p2}
    RawFiles = FALSE
    Pairable = {}
    MaxDraws = 2
PROPERTY RebindKeepsShare
CHECK_DEADLOCK FALSE
