SPECIFICATION FairSpec
CONSTANTS
    Senders = {"alice", "bob"}
    Readers = {"r", "q"}
    Bridges = {"b1", "b2"}
    Dir <- MCDir
    Page = 1
    Modes = {"files", "import"}
    MaxLate = 1
INVARIANT PagesComplete
PROPERTIES
    ImplementsQueue
    EnvelopesArrive
CHECK_DEADLOCK FALSE
