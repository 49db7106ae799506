------------------------------ MODULE Ranking -------------------------------
(***************************************************************************)
(* The ranker: results are ordered by taste, the head is reordered by the  *)
(* language model, and the end of the head gives way to the most uncertain *)
(* of the rest.  Results are a sequence, the model's reply a sequence of   *)
(* numbers that are meant to be places in the head.                        *)
(***************************************************************************)
EXTENDS Harvest

CONSTANTS
  Settings   \* top_n and exploration_slots of the configuration, and the cap that the
             \* dialogue's model gave the search, which may be any integer

ASSUME RankingAssumption ==
  Settings \subseteq [top_n : Nat, exploration_slots : Nat, max_results_shown : Int]

\* Mutant: a place the model names again is taken again.
RepairKeepingRepeats(reply, count) ==
  LET named == Keep(reply, 1..count)
  IN named \o Keep([k \in 1..count |-> k], (1..count) \ ToSet(named))

\* The places the model named, each once, then those it left out.  A reply that cannot be
\* read names none.
Repair(reply, count) ==
  LET named == Distinct(Keep(reply, 1..count))
  IN named \o Keep([k \in 1..count |-> k], (1..count) \ ToSet(named))

ByTaste(results, taste) == StableSort(results, taste)
TasteHead(results, taste, cfg) == FirstOf(ByTaste(results, taste), cfg.top_n)
Leftover(results, taste, cfg) == SubSeq(ByTaste(results, taste), cfg.top_n + 1, Len(results))

\* Mutant: the explorers are the best of the rest.
ExplorersByTaste(results, taste, cfg) ==
  FirstOf(Leftover(results, taste, cfg), cfg.exploration_slots)

\* The results outside the head whose taste is nearest to nothing.
Explorers(results, taste, cfg) ==
  LET doubt == [i \in DOMAIN taste |-> -Abs(taste[i])]
  IN FirstOf(StableSort(Leftover(results, taste, cfg), doubt), cfg.exploration_slots)

\* The order of a run: what remains of the reordered head, then the explorers.  With more
\* slots than places in the head nothing of the head remains.
Rank(results, taste, reply, cfg) ==
  LET head      == TasteHead(results, taste, cfg)
      order     == Repair(reply, Len(head))
      reranked  == [k \in DOMAIN order |-> head[order[k]]]
      explorers == Explorers(results, taste, cfg)
  IN FirstOf(reranked, Max({Len(head) - Len(explorers), 0})) \o explorers

\* What the bot delivers and marks of an order.
Deliver(order, cfg) == FirstOf(order, cfg.max_results_shown)

-----------------------------------------------------------------------------
\* No reply loses or duplicates a result: what is left out of the head made room for just
\* as many explorers, or for all of them.
LosesNothing(results, taste, order, cfg) ==
  LET head  == ToSet(TasteHead(results, taste, cfg))
      lost  == head \ ToSet(order)
      extra == ToSet(order) \ head
  IN /\ Len(order) = Cardinality(ToSet(order))
     /\ ToSet(order) \subseteq ToSet(results)
     /\ Cardinality(lost) = Min({Cardinality(extra), Cardinality(head)})

\* The explorers come last, nothing left out is more uncertain than they are, and they are
\* as many as the slots or, if the rest are fewer, all of them.
ExploresTheUncertain(results, taste, order, cfg) ==
  LET head  == ToSet(TasteHead(results, taste, cfg))
      rest  == ToSet(results) \ head
      extra == ToSet(order) \ head
  IN /\ \A j, k \in DOMAIN order : j < k /\ order[j] \in extra => order[k] \in extra
     /\ \A e \in extra, r \in rest \ extra : Abs(taste[e]) <= Abs(taste[r])
     /\ Cardinality(extra) = Min({cfg.exploration_slots, Cardinality(rest)})
=============================================================================
