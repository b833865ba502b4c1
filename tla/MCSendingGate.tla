--------------------------- MODULE MCSendingGate ---------------------------
(* SendingGate for TLC. *)
EXTENDS SendingGate, TLC

CONSTANTS m1, m2, m3

NoFollowUps == {}
TwoFollowUps == {m1, m2}

Symmetry == Permutations(Workers) \union Permutations(Batches)
=============================================================================
