---------------------------- MODULE MCAssistant ----------------------------
(* Instances of Assistant for TLC. *)
EXTENDS Assistant, TLC

CONSTANTS q1, q2

\* One search fires once before the last instant, the other twice.
MCFires == [q \in Queries |-> IF q = q1 THEN {1} ELSE {1, 2}]
\* One search shows a single result per run, the other two.
MCLimit == [q \in Queries |-> IF q = q1 THEN 1 ELSE 2]
MCSymmetry == Permutations(Items) \cup Permutations(Manual)
=============================================================================
