--------------------------- MODULE MCSwiftServer ---------------------------
(* Instances of SwiftServer for TLC. *)
EXTENDS SwiftServer

CONSTANTS c1

OneConn        == {c1}
ServerAndQueue == {c1, Server}
=============================================================================
