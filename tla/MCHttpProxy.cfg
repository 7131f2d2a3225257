\* Two guests, each with an origin reached by name or by address; every string of
\* up to four characters over two, and requests of four methods, schemes and hosts.
SPECIFICATION Spec
CONSTANTS
    c1 = c1
    c2 = c2
    Conns <- TwoGuests
    Nobody = Nobody
    MaxUnread = 1
    Requests <- SomeRequests
    Addresses <- SomeAddresses
    Methods <- SomeMethods
    Schemes <- SomeSchemes
    Hosts <- SomeHosts
    Texts <- ShortTexts
    Marks <- ShortMarks
INVARIANTS
    DescriptorsOwned
    BridgeSafe
    NoHalfLeft
    StringsSound
    RequestsParsed
CHECK_DEADLOCK FALSE
SYMMETRY GuestSymmetry
