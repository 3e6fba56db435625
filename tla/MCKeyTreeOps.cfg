SPECIFICATION Spec
CONSTANTS
    Splits <- MCSplits
    Leaves <- MCLeaves
    Root = 1
    Parent <- MCParent
    Threshold <- MCThreshold
    Initial <- MCInitial
    MaxChildren = 255
    HwKeys <- MCHwKeys
    NoHw = NoHw
    FirstHw <- MCFirstHw
    Spare = {8}
    Banned = {4, 6}
    Procs = {p1}
    RawFiles = TRUE
    Pairable = {4, 5}
    MaxDraws = 2
INVARIANTS TypeOK QuorumReconstructs PathAgrees SecretStaysReachable EvictedShareUseless
PROPERTIES SurvivorPairsStay
CHECK_DEADLOCK FALSE
