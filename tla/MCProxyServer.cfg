\* The program suspends, resumes, kills and lets go of the older server, before its
\* block has started, while it waits in accept, and after it has ended.
SPECIFICATION ProxySpec
CONSTANTS
    c1 = c1
    c2 = c2
    Server = Server
    Owner = Owner
    Listener = Listener
    Conns <- OneConn
    MaxGuest = 1
    Weak = 410
    MaxUnread = 1
    Managed <- ServerOnly
    Allowed = {"release", "kill"}
INVARIANTS
    OneMoreAtMost
PROPERTIES
    KillEnds
    FreedAfterKill
    ProxyImplementsConnLife
CHECK_DEADLOCK FALSE
