\* The server is suspended and resumed.
SPECIFICATION FairSpec
CONSTANTS
    c1 = c1
    c2 = c2
    c3 = c3
    Server = Server
    Owner = Owner
    Listener = Listener
    Conns <- OneConn
    MaxGuest = 1
    Weak = 410
    MaxUnread = 1
    Managed <- ServerOnly
    Allowed = {}
PROPERTIES
    ResumeDelivers
CHECK_DEADLOCK FALSE
