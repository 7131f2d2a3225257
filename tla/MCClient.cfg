\* A program that keeps a reference suspends and resumes the client, ends it, and
\* gives the reference back; a client made from a host name crashes at its start.
SPECIFICATION FairSpec
CONSTANTS
    a1 = a1
    Apps <- OneApp
    Block = Block
    Weak = 410
    Kinds = {"ip", "hostname"}
    Keeps = TRUE
    Lengths = {1, 2}
    Replies = {0, 1}
    MaxUnread = 2
    Allowed = {"suspend", "release", "terminate"}
INVARIANTS
    RefAccounting
    KeptClientAlive
PROPERTIES
    SuspensionSticks
    ImplementsConnLife
    DeadPeerCleared
CHECK_DEADLOCK FALSE
