\* Two connections for one place; a connection and the server are suspended and
\* resumed; accept and kevent fail, the server is ended or freed under the loop.
SPECIFICATION FairSpec
CONSTANTS
    c1 = c1
    c2 = c2
    c3 = c3
    Conns <- TwoConns
    Server = Server
    MaxGuest = 1
    MaxUnread = 1
    Managed <- ServerAndQueue
    Allowed = {"release", "terminate", "acceptFails", "keventFails", "keepOnEof", "vanish"}
INVARIANTS
    GuestsCounted
    EventsLive
PROPERTIES
    ImplementsConnLife
    DeadPeerCleared
CHECK_DEADLOCK FALSE
