--------------------------- MODULE MCSwiftClient ---------------------------
(* Instances of SwiftClient for TLC. *)
EXTENDS SwiftClient

CONSTANTS a1, a2

OneClient      == {a1}
TwoClients     == {a1, a2}
OwnerAndClient == {a1, Owner}
Nothing        == {}
=============================================================================
