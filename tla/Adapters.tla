------------------------------ MODULE Adapters ------------------------------
(***************************************************************************)
(* The two storage adapters side by side.  Every call of the application   *)
(* goes to both; what may be read back of each is compared.                *)
(***************************************************************************)
EXTENDS Matching

CONSTANTS
  MaxIds    \* bounds the ids of one link call

ASSUME AdaptersAssumption == MaxIds \in Nat

VARIABLES
  mem,      \* InMemoryStorage
  sql,      \* SqliteStorage
  deleted   \* history: the searches ever deleted

vars == <<mem, sql, deleted>>

Init == mem = Empty /\ sql = Empty /\ deleted = {}

\* save_search, the cached domain, the date of a run.  A run under way may write the row
\* back after its deletion.
SaveQuery(q) ==
  /\ mem' = MemUpsert(mem, q)
  /\ sql' = SqlUpsert(sql, q)
  /\ UNCHANGED deleted

DeleteQuery(q) ==
  /\ q \in ToSet(sql.rows)
  /\ mem' = MemDelete(mem, q)
  /\ sql' = SqlDelete(sql, q)
  /\ deleted' = deleted \cup {q}

\* The deduper stores a new canonical result.
StoreCanonical(i) ==
  /\ mem' = UpsertCanonical(mem, i)
  /\ sql' = UpsertCanonical(sql, i)
  /\ UNCHANGED deleted

\* A run links what its candidates were reconciled into; two candidates may be one result.
LinkResults(q, ids) ==
  /\ ToSet(ids) \subseteq sql.corpus
  /\ mem' = MemLink(mem, q, ids)
  /\ sql' = SqlLink(sql, q, ids)
  /\ UNCHANGED deleted

Deliver(q, i) ==
  /\ i \in ToSet(ResultsOf(sql, q))
  /\ mem' = MarkShown(mem, {i})
  /\ sql' = MarkShown(sql, {i})
  /\ UNCHANGED deleted

Next ==
  \/ \E q \in Queries : SaveQuery(q) \/ DeleteQuery(q)
  \/ \E i \in Items : StoreCanonical(i)
  \/ \E q \in Queries : \/ \E ids \in BoundedSeq(Items, MaxIds) : LinkResults(q, ids)
                        \/ \E i \in Items : Deliver(q, i)

Spec == Init /\ [][Next]_vars

-----------------------------------------------------------------------------
\* The stores keep their shape, SQLite has no row and no link twice.
TypeOK ==
  /\ mem \in Store /\ sql \in Store
  /\ deleted \subseteq Queries
  /\ IsInjective(sql.rows) /\ IsInjective(mem.rows)
  /\ \A q \in Queries : IsInjective(sql.links[q])

\* A run reads the same from either adapter, in the same order, but that one linked result
\* may come several times from memory; only a search that was deleted, and written back by
\* a run that was under way, has its old results in one and not in the other.
RunsReadAlike ==
  /\ ToSet(mem.rows) = ToSet(sql.rows)
  /\ \A q \in Queries :
       LET fromMem == Unseen(mem, q)
           fromSql == Unseen(sql, q)
       IN /\ q \notin deleted => Distinct(fromMem) = fromSql
          /\ ToSet(fromSql) \subseteq ToSet(fromMem)

\* By how much the host's zone shifts between two naive dates; nothing between aware ones.
Shift(i, on) == Gap(i, on) - (StartsAt[i].hour - on.hour)

\* Unless memory raises, the deduper compares a candidate with the same stored results in
\* either adapter, but for the rounding and the zone.  A result that only SQLite has in the
\* block is inside the window by less than the shift between its date and the candidate's,
\* so there is none without a shift; one that only memory has there is outside the window:
\* it starts before the candidate, by less than a day beyond the window and the shift, or
\* after it, by no more than the shift beyond the window.
BlocksAlike ==
  \A on \in Dates \cup {NoDate}, city \in Range(City) :
    ~MemRaises(mem, on, city) =>
      LET fromMem == MemBlock(mem, on, city)
          fromSql == SqlBlock(sql, on, city)
          window  == WindowDays * 24
      IN /\ \A i \in fromSql \ fromMem :
              /\ Abs(Gap(i, on)) <= window
              /\ Abs(Gap(i, on)) > window - Abs(Shift(i, on))
         /\ \A i \in fromMem \ fromSql :
              \/ Gap(i, on) < -window /\ Gap(i, on) > Shift(i, on) - window - 24
              \/ Gap(i, on) > window /\ Gap(i, on) <= Shift(i, on) + window

\* The deduper does not insert what is stored already, or leave it to the judge when it is
\* sure, unless the block limit hides it: asked of every candidate and every corpus.
DuplicatesAreFound == \A c \in Candidates : Found(SqlBlock(sql, c.on, c.city), c)
=============================================================================
