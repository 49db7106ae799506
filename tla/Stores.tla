------------------------------- MODULE Stores -------------------------------
(***************************************************************************)
(* The two adapters of the storage port: dictionaries and lists in memory, *)
(* tables in SQLite.  A store is a record of what they keep of saved       *)
(* queries, canonical results, links and deliveries, in the order in which *)
(* it is read back; users, feedback and profiles are rows by key in both.  *)
(***************************************************************************)
EXTENDS Lists

CONSTANTS
  Queries,     \* ids of saved searches
  Items,       \* canonical results
  Dates,       \* dates as the web search replied them: with a zone (aware), and then the
               \* hour is an instant, or without (naive), and then a wall clock shows it
  Stamp,       \* the instant timestamp() makes of each, in the host's zone if it is naive
  StartsAt,    \* when each of them starts
  NoDate,      \* the date of a result that has none
  City,        \* the city of each, trimmed and case-folded
  NoCity,      \* the city of a result that names none
  WindowDays   \* dedup.block_window_days

ASSUME StoresAssumption ==
  /\ IsFiniteSet(Items)
  /\ Dates \subseteq [aware : BOOLEAN, hour : Int]
  /\ Stamp \in [Dates -> Int]
  /\ \A d \in Dates : d.aware => Stamp[d] = d.hour
  /\ StartsAt \in [Items -> Dates \cup {NoDate}]
  /\ NoDate \notin Dates
  /\ DOMAIN City = Items
  /\ WindowDays \in Nat

Store == [rows   : Seq(Queries),
          corpus : SUBSET Items,
          links  : [Queries -> Seq(Items)],
          shown  : SUBSET Items]

Empty == [rows |-> <<>>, corpus |-> {}, links |-> [q \in Queries |-> <<>>], shown |-> {}]

Listed(store) == ToSet(store.rows)

\* queries.upsert: a dictionary keeps the place of a key it has, INSERT OR REPLACE gives
\* the row a new rowid.
MemUpsert(store, q) ==
  [store EXCEPT !.rows = IF Contains(@, q) THEN @ ELSE Append(@, q)]
\* Mutant: a row is inserted, whether or not there is one.
SqlInsert(store, q) == [store EXCEPT !.rows = Append(@, q)]
SqlUpsert(store, q) == [store EXCEPT !.rows = Append(Keep(@, Queries \ {q}), q)]

\* queries.delete: SQLite clears the links too.
MemDelete(store, q) == [store EXCEPT !.rows = Keep(@, Queries \ {q})]
SqlDelete(store, q) ==
  [store EXCEPT !.rows = Keep(@, Queries \ {q}), !.links[q] = <<>>]

\* results.link_results in memory: an id is compared with those of earlier calls only.
MemLink(store, q, ids) ==
  LET earlier == store.links[q]
  IN [store EXCEPT !.links[q] = earlier \o Keep(ids, Items \ ToSet(earlier))]

\* Mutant: the newest link is read first.
SqlLinkNewestFirst(store, q, ids) ==
  [store EXCEPT !.links[q] = Keep(Distinct(Reverse(ids)), Items \ ToSet(@)) \o @]

\* In the table the UNIQUE constraint compares it with the others of this call too.
SqlLink(store, q, ids) == [store EXCEPT !.links[q] = Distinct(@ \o ids)]

\* results.mark_shown, for the one user there is; marking again changes nothing.
MarkShown(store, ids) == [store EXCEPT !.shown = @ \cup ids]

UpsertCanonical(store, i) == [store EXCEPT !.corpus = @ \cup {i}]

\* results_for_query: links are joined with the canonical results.
ResultsOf(store, q) == Keep(store.links[q], store.corpus)

\* What a run reads back: the linked results, without those shown before.
Unseen(store, q) == Keep(ResultsOf(store, q), Items \ store.shown)

\* A pair is kept if the city of one is not known.
CityMatches(i, city) == city = NoCity \/ City[i] = NoCity \/ City[i] = city

Undated(i, on) == on = NoDate \/ StartsAt[i] = NoDate

\* One of two dates is naive and the other aware: Python refuses to subtract them.
Mixed(i, on) == ~Undated(i, on) /\ StartsAt[i].aware # on.aware

\* The hours from a date to the start of a result, as their timestamps have it.
Gap(i, on) == Stamp[StartsAt[i]] - Stamp[on]

\* Mutant: the table compares whole days too.
SqlBlockInDays(store, on, city) ==
  {i \in store.corpus :
     /\ CityMatches(i, city)
     /\ Undated(i, on) \/ Abs(Gap(i, on)) \div 24 <= WindowDays}

\* nearest in memory subtracts the date of every stored result of the city: one that is
\* naive where the other is aware raises TypeError, and the reconcile fails.
MemRaises(store, on, city) == \E i \in store.corpus : CityMatches(i, city) /\ Mixed(i, on)

\* The block of nearest, of a date and a city.  In memory, if it does not raise, the
\* difference of what two dates say is cut to whole days, rounding down, also when it is
\* negative; in SQLite the timestamps are compared in seconds, whichever the dates are.
MemBlock(store, on, city) ==
  {i \in store.corpus :
     /\ CityMatches(i, city)
     /\ Undated(i, on) \/ Abs((on.hour - StartsAt[i].hour) \div 24) <= WindowDays}
SqlBlock(store, on, city) ==
  {i \in store.corpus :
     /\ CityMatches(i, city)
     /\ Undated(i, on) \/ Abs(Gap(i, on)) <= WindowDays * 24}
=============================================================================
