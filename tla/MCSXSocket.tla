----------------------------- MODULE MCSXSocket -----------------------------
(* Instances of SXSocket for TLC. *)
EXTENDS SXSocket, TLC

CONSTANTS p1, p2, p3

ThreeMakers == {p1, p2, p3}
MakerSymmetry == Permutations(Makers)

\* Failure, and every list of up to three answers.
SomeLists == UNION {[1..n -> {"inet", "inet6", "other"}] : n \in 0..3}
=============================================================================
