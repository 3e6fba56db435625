SPECIFICATION Spec
CONSTANTS
    s = s
    a = a
    b = b
    c = c
    Labels = {s, a, b}
    NoLabel = NoLabel
    ParentOf <- MCParentOf
    Desks = {}
    Keys = {k1, k2}
    NoKey = NoKey
    Volunteers = {}
    Creators = {b}
    Rotators = {a, b}
    Revokers = {a, b}
    Revocable = {s}
    Signers = {b}
    Overlap = FALSE
    Crashes = TRUE
SYMMETRY KeySymmetry
INVARIANTS TypeOK LiveHasTwoMembers
PROPERTIES StaleSignatureStaysDead
CHECK_DEADLOCK FALSE
