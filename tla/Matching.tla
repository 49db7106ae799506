------------------------------ MODULE Matching ------------------------------
(***************************************************************************)
(* Which stored result a candidate is compared with, and what becomes of   *)
(* it: merged at once, held for the judge, or inserted.  Dedup takes any   *)
(* of these outcomes; here they follow from how alike two results are.     *)
(***************************************************************************)
EXTENDS Stores

CONSTANTS
  Candidates,  \* what may be found: when and where it starts, how near and how similarly
               \* worded the stored results are to it
  Venue,       \* the venue of each stored result, Blank if it names none
  Blank,
  AutoMerge,   \* dedup.auto_merge_threshold
  Tiebreak,    \* dedup.tiebreak_low_threshold
  BlockLimit   \* block_limit

ASSUME MatchingAssumption ==
  /\ DOMAIN Venue = Items
  /\ Candidates \subseteq [on : Dates \cup {NoDate}, city : Range(City) \cup {NoCity},
                           venue : Range(Venue),
                           cosine : [Items -> Int], lexical : [Items -> Int]]
  /\ AutoMerge \in Int /\ Tiebreak \in Int
  /\ BlockLimit \in Nat \ {0}

\* combined_similarity: either signal is enough.
Similarity(c, i) == Max({c.cosine[i], c.lexical[i]})

\* The same venue at the same time: neither may be missing.  A naive date and an aware one
\* are never equal.
VenueTimeMatch(c, i) ==
  /\ c.venue # Blank /\ c.venue = Venue[i]
  /\ c.on # NoDate /\ c.on = StartsAt[i]

\* 2 is merged at once, 1 is left to the judge, 0 is inserted.
Tier(c, i) ==
  IF Similarity(c, i) >= AutoMerge THEN 2
  ELSE IF Similarity(c, i) >= Tiebreak \/ VenueTimeMatch(c, i) THEN 1 ELSE 0

\* nearest: the results of the block that are closest by cosine alone.  Which of equally
\* close ones are among them is up to the order of the table.
Nearest(block, c) ==
  {near \in SUBSET block :
     /\ Cardinality(near) = Min({Cardinality(block), BlockLimit})
     /\ \A i \in near, j \in block \ near : c.cosine[i] >= c.cosine[j]}

\* Mutant: the most similar result, whatever its tier.
BestBySimilarity(near, c) == {i \in near : \A j \in near : Similarity(c, i) >= Similarity(c, j)}

\* _best_match: the highest tier, then the greatest similarity.
BestMatch(near, c) ==
  {i \in near : \A j \in near :
     \/ Tier(c, i) > Tier(c, j)
     \/ Tier(c, i) = Tier(c, j) /\ Similarity(c, i) >= Similarity(c, j)}

-----------------------------------------------------------------------------
\* A stored duplicate is found: one that is near enough by cosine is merged into, whatever
\* else is in the block; one that only its words, or its venue and time, give away is
\* missed only if the block limit is filled by results that are nearer by cosine.
Found(block, c) ==
  \A near \in Nearest(block, c), i \in block :
    \A best \in BestMatch(near, c) :
      /\ c.cosine[i] >= AutoMerge => Tier(c, best) = 2
      /\ Tier(c, i) > Tier(c, best) =>
           Cardinality({j \in block : c.cosine[j] >= c.cosine[i]}) > BlockLimit
=============================================================================
