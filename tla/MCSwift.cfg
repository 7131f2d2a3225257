\* A connection and its server are suspended and resumed, the server is ended, every
\* call of the accept loop fails; a server with room for one guest, and with none.
SPECIFICATION FairSpec
CONSTANTS
    c1 = c1
    Conns <- OneConn
    Server = Server
    Limits = {0, 1}
    MaxUnread = 1
    Managed <- ServerAndQueue
    Resumes = {1, 2}
    Allowed = {"terminate", "refuse", "acceptFails", "listenFails"}
PROPERTIES
    ImplementsConnLife
    DeadPeerCleared
    SettledSuspensionSticks
CHECK_DEADLOCK FALSE
