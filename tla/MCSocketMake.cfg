\* Three threads make sockets of every kind with two descriptors.
SPECIFICATION Spec
CONSTANTS
    p1 = p1
    p2 = p2
    p3 = p3
    Makers <- ThreeMakers
    Kinds = {"server", "ip", "hostname"}
    Domains = {"inet", "other"}
    MaxFds = 2
    Lists <- SomeLists
SYMMETRY MakerSymmetry
INVARIANTS
    LeakedByNull
CHECK_DEADLOCK FALSE
