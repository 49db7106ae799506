------------------------------ MODULE MCDedup ------------------------------
(* Instances of Dedup for TLC. *)
EXTENDS Dedup

CONSTANTS r1, r2, r3, a1, a2, b1, b2, c1

\* The sightings of three runs, found in the runs their letters say.
MCRunOf == [x \in Raws |-> IF x \in {a1, a2} THEN r1 ELSE IF x \in {b1, b2} THEN r2 ELSE r3]
\* A scalar field, and a field of two parts.
MCParts == {"price", "city", "venue"}
MCGroup == [p \in MCParts |-> IF p = "price" THEN "price" ELSE "geo"]
\* The sightings complete each other.
MCGiven == [x \in Raws |->
              CASE x = a1 -> {"city"}
                [] x = a2 -> {"city", "venue"}
                [] x = b1 -> {"price", "venue"}
                [] x = b2 -> {"price", "city"}
                [] x = c1 -> {"price"}]
=============================================================================
