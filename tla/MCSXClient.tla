----------------------------- MODULE MCSXClient -----------------------------
(* Instances of SXClient for TLC. *)
EXTENDS SXClient, TLC

CONSTANT a1

OneApp == {a1}
=============================================================================
