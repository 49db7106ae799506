----------------------------- MODULE MCDialogue -----------------------------
(* Instances of Dialogue for TLC. *)
EXTENDS Dialogue, TLC

MCSymmetry == Permutations(Texts) \cup Permutations(Strangers)
=============================================================================
