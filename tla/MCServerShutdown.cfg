\* The program ends the accept loop through the status field while connections
\* come, go and fail, and lets go of the server.  The count reaches the uncounted
\* value (410 in the code, 4 here) when all four threads hold the server.
SPECIFICATION Spec
CONSTANTS
    c1 = c1
    c2 = c2
    c3 = c3
    Server = Server
    Owner = Owner
    Listener = Listener
    Conns <- TwoConns
    MaxGuest = 2
    Weak = 4
    MaxUnread = 0
    Managed <- NoObjects
    Allowed = {"release", "terminate", "acceptFails", "errHandler"}
SYMMETRY ConnSymmetry
INVARIANTS
    NoServerLeak
    DidKillAlive
PROPERTIES
    WeakSticky
CHECK_DEADLOCK FALSE
