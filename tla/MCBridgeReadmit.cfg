SPECIFICATION Spec
CONSTANTS
    s = s
    a = a
    b = b
    c = c
    Labels = {s, a, b, c}
    NoLabel = NoLabel
    ParentOf <- MCParentOf
    Desks = {}
    Keys = {k1, k2}
    NoKey = NoKey
    Volunteers = {}
    Creators = {a}
    Rotators = {a, b}
    Revokers = {a}
    Revocable = {c}
    Signers = {}
    Overlap = FALSE
    Crashes = FALSE
PROPERTY DroppedStaysDropped
CHECK_DEADLOCK FALSE
