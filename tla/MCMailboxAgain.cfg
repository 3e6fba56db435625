SPECIFICATION ImportSpec
CONSTANTS
    Senders = {"alice", "bob"}
    Readers = {"r", "q"}
    Bridges = {"b1", "b2"}
    Dir <- MCDir
    Page = 2
    Modes = {"import"}
    MaxLate = 1
PROPERTY PullAgainRecovers
CHECK_DEADLOCK FALSE
