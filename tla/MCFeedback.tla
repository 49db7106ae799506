----------------------------- MODULE MCFeedback -----------------------------
(* An instance of Feedback for TLC: three taps on one search, one on another. *)
EXTENDS Feedback

CONSTANTS q1, q2, a, b, c, d

MCOf == [l \in Labels |-> IF l = d THEN q2 ELSE q1]
MCKind == [l \in Labels |-> IF l = b THEN "dislike" ELSE "like"]
=============================================================================
