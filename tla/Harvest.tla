------------------------------ MODULE Harvest -------------------------------
(***************************************************************************)
(* From the answers of the language model to one list of candidates: the   *)
(* searches a saved search is expanded into, the rows each of them yields, *)
(* and the fusion of their ranked lists by reciprocal rank.                *)
(***************************************************************************)
EXTENDS Lists

CONSTANTS
  OwnText,     \* the text of the saved search
  Links,       \* the links that the rows of a search carry, as the model writes them
  Canonical,   \* the canonical url of each link, NoUrl for a blank one
  NoUrl,
  Unsplittable, \* the links whose host or port cannot be read, so that splitting raises
  BadRow,      \* a row that is not valid
  MaxResults,  \* max_results_per_query
  K,           \* rrf_k
  Scale        \* the unit of a score is 1 / Scale

ASSUME HarvestAssumption ==
  /\ MaxResults \in Nat \ {0}
  /\ K \in Nat
  /\ Scale \in Nat
  /\ DOMAIN Canonical = Links
  /\ Unsplittable \subseteq Links
  /\ \A rank \in 0..(MaxResults - 1) : Scale % (K + rank + 1) = 0

\* Mutant: repeated queries are searched for again.
ParseQueriesRepeating(reply) == Keep(reply, ToSet(reply) \ {""})

\* The queries of the reply that are not blank, each once whatever its case; a reply that
\* cannot be read has none.
ParseQueries(reply) == Distinct(Keep(reply, ToSet(reply) \ {""}))

\* What is searched for: without a usable query, the text of the saved search.
Expand(reply) == IF ParseQueries(reply) = <<>> THEN <<OwnText>> ELSE ParseQueries(reply)

\* parse_submission: the valid rows, up to the limit.
Rows(reply) == FirstOf(Keep(reply, ToSet(reply) \ {BadRow}), MaxResults)

\* One link that cannot be split fails the whole search, though bad rows are skipped.
SearchRaises(reply) == \E k \in DOMAIN Rows(reply) : Rows(reply)[k] \in Unsplittable

\* The canonical urls of the rows in their order, blank ones left out; the rank of a result
\* is its place, from 0.  One url may stand in a list twice.
Search(reply) ==
  LET urls == [k \in DOMAIN Rows(reply) |-> Canonical[Rows(reply)[k]]]
  IN Keep(urls, ToSet(urls) \ {NoUrl})

Weight(place) == Scale \div (K + place)

\* The units that the sightings of a url bring it: each counts, also two in one list.
Units(lists, url) ==
  UNION {{at} \X (1..Weight(at[2])) : at \in {p \in Places(lists) : lists[p[1]][p[2]] = url}}

\* The fused score of every url.
Scores(lists) == [url \in ToSet(Flatten(lists)) |-> Cardinality(Units(lists, url))]

\* Mutant: the first url seen goes first.
MergeAsSeen(lists) == Distinct(Flatten(lists))

\* The urls of all lists, the highest score first; ties stay in the order of first sight.
Merge(lists) == StableSort(Distinct(Flatten(lists)), Scores(lists))

-----------------------------------------------------------------------------
\* The lists may come in any order: the same urls are fused, and at each place of the
\* result stands the same score.  (Which of several urls with one score stands there
\* does depend on the order.)
IgnoresArrival(lists) ==
  LET Fused(arrived) == [k \in DOMAIN Merge(arrived) |-> Scores(lists)[Merge(arrived)[k]]]
  IN \A p \in Bijection(DOMAIN lists, DOMAIN lists) :
       LET other == [l \in DOMAIN lists |-> lists[p[l]]]
       IN /\ ToSet(Merge(other)) = ToSet(Merge(lists))
          /\ Fused(other) = Fused(lists)
=============================================================================
