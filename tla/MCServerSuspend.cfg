\* The program suspends and resumes the server and a connection, ends the server,
\* and the status word is stored after a check that may be stale.
SPECIFICATION FairSpec
CONSTANTS
    c1 = c1
    c2 = c2
    c3 = c3
    Server = Server
    Owner = Owner
    Listener = Listener
    Conns <- OneConn
    MaxGuest = 1
    Weak = 410
    MaxUnread = 1
    Managed <- ServerAndQueue
    Allowed = {"terminate", "kill", "keepOnEof", "refuse", "acceptFails", "errHandler"}
INVARIANTS
    QueueHandleValid
PROPERTIES
    ImplementsConnLife
    DeadPeerCleared
CHECK_DEADLOCK FALSE
