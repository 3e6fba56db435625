SPECIFICATION Spec
CONSTANTS
    s = s
    a = a
    b = b
    c = c
    Labels = {s, a, b, c}
    NoLabel = NoLabel
    ParentOf <- MCParentOf
    Desks = {}
    Keys = {k1, k2, k3}
    NoKey = NoKey
    Volunteers = {}
    Creators = {s}
    Rotators = {a, b}
    Revokers = {a}
    Revocable = {c}
    Signers = {}
    Overlap = TRUE
    Crashes = FALSE
SYMMETRY KeySymmetry
INVARIANTS SealedMatchesRow RemovedStaysOut RowMatchesKey
PROPERTIES KeyLineage ImplementsAbstract
CHECK_DEADLOCK FALSE
