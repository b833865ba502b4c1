--------------------------- MODULE MCMessageSend ---------------------------
(* MessageSend for TLC. *)
EXTENDS MessageSend, TLC

Symmetry == Permutations(Messages) \union Permutations(Workers)
=============================================================================
