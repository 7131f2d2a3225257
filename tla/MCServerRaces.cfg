\* Three connections for two places, a concurrent operating queue; the owner may
\* let go of the server at any time.  No payloads: they do not touch the counters.
SPECIFICATION Spec
CONSTANTS
    c1 = c1
    c2 = c2
    c3 = c3
    Server = Server
    Owner = Owner
    Listener = Listener
    Conns <- ThreeConns
    MaxGuest = 2
    Weak = 410
    MaxUnread = 0
    Managed <- NoObjects
    Allowed = {"release", "refuse"}
SYMMETRY ConnSymmetry
INVARIANTS
    SlotAccounting
    GuestLimit
    RefAccounting
    ServerAlive
CHECK_DEADLOCK FALSE
