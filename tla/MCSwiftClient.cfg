\* A client that may be bound to a queue and is suspended and resumed, as the queue is;
\* its connection fails and is tried again or given up; the queue ends.  Another client
\* takes a descriptor and gives it back.
SPECIFICATION Spec
CONSTANTS
    a1 = a1
    a2 = a2
    Clients <- TwoClients
    Startable <- OneClient
    Bindable <- OneClient
    Managed <- OwnerAndClient
    MaxUnread = 1
    Resumes = {1, 2}
    Allowed = {"terminate", "connectFails"}
INVARIANTS
    OwnDescriptor
    SuspensionHolds
PROPERTIES
    ImplementsConnLife
CHECK_DEADLOCK FALSE
