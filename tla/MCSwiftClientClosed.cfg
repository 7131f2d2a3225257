\* Two clients; the program closes a client that is served and makes another.
SPECIFICATION ClosingSpec
CONSTANTS
    a1 = a1
    a2 = a2
    Clients <- TwoClients
    Startable <- TwoClients
    Bindable <- Nothing
    Managed <- Nothing
    MaxUnread = 1
    Resumes = {2}
    Allowed = {}
INVARIANTS
    OwnDescriptor
CHECK_DEADLOCK FALSE
