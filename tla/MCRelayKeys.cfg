SPECIFICATION Spec
CONSTANTS
    h1 = h1
    h2 = h2
    c1 = c1
    c2 = c2
    Hosts = {h1, h2}
    Stores = {"s"}
    Clients = {c1, c2}
    Db <- MCDb
    Overlap = FALSE
    Scopes = {"inbox.pull", "admin"}
    Fingerprints = {"f"}
    Ttls = {1}
    MaxKeys = 3
    MaxTime = 2
SYMMETRY Symmetry
INVARIANTS
    TypeOK
    IssuerKept
    RotationKeepsGrant
    CheckAgreesWithUse
    DeadKeyNotServed
PROPERTY LiveCredentialKept
CHECK_DEADLOCK FALSE
