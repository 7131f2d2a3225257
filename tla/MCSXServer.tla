----------------------------- MODULE MCSXServer -----------------------------
(* Instances of SXServer for TLC. *)
EXTENDS SXServer, TLC

CONSTANTS c1, c2, c3

OneConn  == {c1}
TwoConns == {c1, c2}
ThreeConns == {c1, c2, c3}
ConnSymmetry == Permutations(Conns)

NoObjects == {}
ServerAndQueue == {c1, Server}
ServerOnly == {Server}
=============================================================================
