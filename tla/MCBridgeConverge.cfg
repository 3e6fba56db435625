SPECIFICATION FairSpec
CONSTANTS
    s = s
    a = a
    b = b
    c = c
    Labels = {s, a, b, c}
    NoLabel = NoLabel
    ParentOf <- MCParentOf
    Desks = {d}
    Keys = {k1, k2, k3}
    NoKey = NoKey
    Volunteers = {}
    Creators = {d}
    Rotators = {a}
    Revokers = {}
    Revocable = {}
    Signers = {}
    Overlap = FALSE
    Crashes = FALSE
INVARIANTS SameGenerationSameKey StayingPartiesSurvive BothOrNeither
PROPERTIES Convergence
CHECK_DEADLOCK FALSE
