---------------------------- MODULE MCProxyServer ----------------------------
(* Instances of ProxyServer for TLC. *)
EXTENDS ProxyServer

CONSTANTS c1, c2

OneConn  == {c1}
TwoConns == {c1, c2}
ServerOnly == {Server}
=============================================================================
