------------------------------ MODULE MCServer ------------------------------
(* An instance of Server for TLC. *)
EXTENDS Server

CONSTANTS q1, q2

\* Both searches fire at the first instant, one of them again before it can be served.
MCFires == [q \in Queries |-> IF q = q1 THEN {1, 2} ELSE {1, 3}]
=============================================================================
