----------------------------- MODULE MCSXKqueue -----------------------------
(* Instances of SXKqueue for TLC. *)
EXTENDS SXKqueue

CONSTANTS c1, c2, c3

TwoConns == {c1, c2}

ServerAndQueue == {c1, Server}
=============================================================================
