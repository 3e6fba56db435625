SPECIFICATION Spec
CONSTANTS
    Procs = {p1, p2}
    Paths = {"x"}
    Limits = {1}
    MaxAttempts = 2
    Ttl = 1
    Kinds = {"credential", "file", "quorum", "share"}
    MaxRows = 2
    MaxPins = 1
    MaxWrites = 2
    MaxTime = 1
    MaxKills = 1
    MaxResets = 1
SYMMETRY MCSymmetry
INVARIANTS
    TypeOK
    GuessesBounded
    LockedStaysShut
    TokenGated
    CiphertextKept
    NoUntrackedFile
PROPERTY RedeemedByRight
CHECK_DEADLOCK FALSE
