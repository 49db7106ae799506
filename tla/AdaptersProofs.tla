--------------------------- MODULE AdaptersProofs ---------------------------
(***************************************************************************)
(* That the two adapters can be told apart only where Adapters says so,    *)
(* whatever calls are made, and that what is stored already is found.      *)
(***************************************************************************)
EXTENDS Adapters, StoresProofs

-----------------------------------------------------------------------------
(* What the calls leave in memory, and in either adapter. *)

\* A new row goes last, an old one keeps its place.
LEMMA MemUpsertProperties ==
  ASSUME NEW store \in Store, NEW q \in Queries
  PROVE  LET new == MemUpsert(store, q)
         IN /\ new \in Store /\ Listed(new) = Listed(store) \cup {q}
            /\ IsInjective(store.rows) => IsInjective(new.rows)
            /\ new.corpus = store.corpus /\ new.links = store.links /\ new.shown = store.shown
<1> DEFINE rows == IF Contains(store.rows, q) THEN store.rows ELSE Append(store.rows, q)
           new == [store EXCEPT !.rows = rows]
<1>1. store.rows \in Seq(Queries)
  BY DEF Store
<1>2. new = MemUpsert(store, q)
  BY Zenon DEF MemUpsert
<1>3. Contains(store.rows, q) <=> q \in ToSet(store.rows)
  BY <1>1 DEF Contains, ToSet
<1>4. /\ rows \in Seq(Queries) /\ ToSet(rows) = ToSet(store.rows) \cup {q}
      /\ IsInjective(store.rows) => IsInjective(rows)
  <2>1. CASE Contains(store.rows, q)
    BY <1>1, <1>3, <2>1
  <2>2. CASE ~Contains(store.rows, q)
    BY <1>1, <1>3, <2>2, AppendElement
  <2> QED BY <2>1, <2>2
<1> HIDE DEF rows
<1>5. /\ new \in Store /\ new.rows = rows
      /\ new.corpus = store.corpus /\ new.links = store.links /\ new.shown = store.shown
  BY <1>4, RowsPart
<1> HIDE DEF new
<1> QED BY <1>2, <1>4, <1>5 DEF Listed

\* A deletion takes one search off the list and leaves its links.
LEMMA MemDeleteProperties ==
  ASSUME NEW store \in Store, NEW q \in Queries
  PROVE  LET new == MemDelete(store, q)
         IN /\ new \in Store /\ Listed(new) = Listed(store) \ {q}
            /\ IsInjective(store.rows) => IsInjective(new.rows)
            /\ new.corpus = store.corpus /\ new.links = store.links /\ new.shown = store.shown
<1> DEFINE rows == Keep(store.rows, Queries \ {q})
           new == [store EXCEPT !.rows = rows]
<1>1. store.rows \in Seq(Queries) /\ ToSet(store.rows) \subseteq Queries
  BY DEF Store, ToSet
<1>2. new = MemDelete(store, q)
  BY Zenon DEF MemDelete
<1>3. /\ rows \in Seq(Queries) /\ ToSet(rows) = ToSet(store.rows) \cap (Queries \ {q})
      /\ IsInjective(store.rows) => IsInjective(rows)
  BY <1>1, KeepProperties
<1> HIDE DEF rows
<1>4. /\ new \in Store /\ new.rows = rows
      /\ new.corpus = store.corpus /\ new.links = store.links /\ new.shown = store.shown
  BY <1>3, RowsPart
<1> HIDE DEF new
<1>5. Listed(new) = Listed(store) \ {q}
  BY <1>1, <1>3, <1>4 DEF Listed
<1> QED BY <1>2, <1>3, <1>4, <1>5

\* A list with the ids that were not linked before after the others.
Extended(list, ids) == list \o Keep(ids, Items \ ToSet(list))

\* Linking extends the links of one search.
LEMMA MemLinkProperties ==
  ASSUME NEW store \in Store, NEW q \in Queries, NEW ids \in Seq(Items)
  PROVE  LET new == MemLink(store, q, ids)
         IN /\ new \in Store /\ new.rows = store.rows /\ Listed(new) = Listed(store)
            /\ new.corpus = store.corpus /\ new.shown = store.shown
            /\ new.links = [store.links EXCEPT ![q] = Extended(store.links[q], ids)]
<1> DEFINE late == Keep(ids, Items \ ToSet(store.links[q]))
           linked == store.links[q] \o late
           links == [store.links EXCEPT ![q] = linked]
           new == [store EXCEPT !.links = links]
<1>1. store.links \in [Queries -> Seq(Items)] /\ store.links[q] \in Seq(Items)
  BY DEF Store
<1>2. late \in Seq(Items) /\ ToSet(late) = ToSet(ids) \cap (Items \ ToSet(store.links[q]))
  BY KeepProperties
<1>3. new = MemLink(store, q, ids)
  BY DEF MemLink
<1> HIDE DEF late
<1>4. linked \in Seq(Items) /\ ToSet(linked) = ToSet(store.links[q]) \cup ToSet(late)
  BY <1>1, <1>2, ConcatElements
<1> HIDE DEF linked
<1>5. links \in [Queries -> Seq(Items)]
  BY <1>1, <1>4
<1> HIDE DEF links
<1>6. /\ new \in Store /\ new.rows = store.rows
      /\ new.corpus = store.corpus /\ new.links = links /\ new.shown = store.shown
  BY <1>5, LinksPart
<1> HIDE DEF new
<1> QED BY <1>3, <1>6 DEF Listed, links, linked, late, Extended

\* Storing a result changes only the corpus.
LEMMA UpsertCanonicalProperties ==
  ASSUME NEW store \in Store, NEW i \in Items
  PROVE  LET new == UpsertCanonical(store, i)
         IN /\ new \in Store /\ new.rows = store.rows /\ Listed(new) = Listed(store)
            /\ new.corpus = store.corpus \cup {i}
            /\ new.links = store.links /\ new.shown = store.shown
<1> DEFINE corpus == store.corpus \cup {i}
           new == [store EXCEPT !.corpus = corpus]
<1>1. new = UpsertCanonical(store, i)
  BY Zenon DEF UpsertCanonical
<1>2. corpus \in SUBSET Items
  BY DEF Store
<1> HIDE DEF corpus
<1>3. /\ new \in Store /\ new.rows = store.rows
      /\ new.corpus = corpus /\ new.links = store.links /\ new.shown = store.shown
  BY <1>2, CorpusPart
<1> HIDE DEF new
<1> QED BY <1>1, <1>3 DEF Listed, corpus

-----------------------------------------------------------------------------
(* What holds of the pair. *)

\* The links of one search, as the table keeps them and as memory does.
LinkedAlike(table, list, gone) ==
  /\ ~gone => table = Distinct(list)
  /\ ToSet(table) \subseteq ToSet(list)

\* The inductive invariant: what either adapter was told of results is the same, and a
\* search has the same links in both but for repetitions, unless it was deleted.
IInv ==
  /\ TypeOK
  /\ mem.corpus = sql.corpus /\ mem.shown = sql.shown
  /\ Listed(mem) = Listed(sql)
  /\ \A q \in Queries : LinkedAlike(sql.links[q], mem.links[q], q \in deleted)


\* Empty stores have no links, and none twice.
LEMMA InitEstablishes == Init => IInv
<1> SUFFICES ASSUME Init PROVE IInv
  OBVIOUS
<1>1. /\ Empty \in Store /\ Empty.rows = <<>> /\ Empty.corpus = {}
      /\ Empty.shown = {} /\ \A q \in Queries : Empty.links[q] = <<>>
  BY DEF Empty, Store
<1> DEFINE none == <<>>
<1>2. none \in Seq(Items) /\ ToSet(none) = {} /\ IsInjective(none)
  BY DEF ToSet, IsInjective
<1>3. Distinct(none) = <<>>
  <2>1. Distinct(none) \in Seq(Items) /\ ToSet(Distinct(none)) = {}
    BY <1>2, DistinctProperties
  <2>2. \A s \in Seq(Items) : ToSet(s) = {} => Len(s) = 0
    BY DEF ToSet
  <2>3. \A s \in Seq(Items) : Len(s) = 0 => s = <<>>
    OBVIOUS
  <2> HIDE DEF none
  <2> QED BY <2>1, <2>2, <2>3
<1>4. TypeOK
  BY <1>1, <1>2 DEF Init, TypeOK
<1>5. mem = Empty /\ sql = Empty
  BY DEF Init
<1>6. \A q \in Queries : LinkedAlike(sql.links[q], mem.links[q], q \in deleted)
  BY <1>1, <1>2, <1>3, <1>5 DEF LinkedAlike
<1> QED BY <1>4, <1>5, <1>6 DEF IInv

\* Links that are alike stay alike when the same ids are linked to both.
LEMMA LinkingKeepsAlike ==
  ASSUME NEW list \in Seq(Items), NEW table \in Seq(Items), NEW ids \in Seq(Items),
         NEW gone, LinkedAlike(table, list, gone)
  PROVE  LinkedAlike(Distinct(table \o ids), Extended(list, ids), gone)
<1> DEFINE late == Keep(ids, Items \ ToSet(list))
<1>1. late \in Seq(Items) /\ ToSet(late) = ToSet(ids) \cap (Items \ ToSet(list))
  BY KeepProperties
<1>2. ~gone => Distinct(list \o late) = Distinct(table \o ids)
  BY LinkingAlike DEF LinkedAlike
<1> HIDE DEF late
<1>3. ToSet(list \o late) = ToSet(list) \cup ToSet(late)
  BY <1>1, ConcatElements
<1>4. /\ table \o ids \in Seq(Items)
      /\ ToSet(table \o ids) = ToSet(table) \cup ToSet(ids)
  BY ConcatElements
<1>5. ToSet(Distinct(table \o ids)) = ToSet(table \o ids)
  BY <1>4, DistinctProperties
<1>6. ToSet(ids) \subseteq Items
  BY DEF ToSet
<1>7. ToSet(Distinct(table \o ids)) \subseteq ToSet(list \o late)
  BY <1>1, <1>3, <1>4, <1>5, <1>6 DEF LinkedAlike
<1>8. LinkedAlike(Distinct(table \o ids), list \o late, gone)
  BY <1>2, <1>7 DEF LinkedAlike
<1> QED BY <1>8 DEF late, Extended

\* What is read back of links that are alike is alike.
LEMMA KeepingKeepsAlike ==
  ASSUME NEW list \in Seq(Items), NEW table \in Seq(Items), NEW T,
         NEW gone, LinkedAlike(table, list, gone)
  PROVE  LinkedAlike(Keep(table, T), Keep(list, T), gone)
<1>1. ~gone => Keep(table, T) = Distinct(Keep(list, T))
  BY DistinctKeep DEF LinkedAlike
<1>2. /\ ToSet(Keep(table, T)) = ToSet(table) \cap T
      /\ ToSet(Keep(list, T)) = ToSet(list) \cap T
  BY KeepProperties
<1> QED BY <1>1, <1>2 DEF LinkedAlike

\* Every call leaves the pair alike.
LEMMA NextPreserves == IInv /\ [Next]_vars => IInv'
<1> SUFFICES ASSUME IInv, [Next]_vars PROVE IInv'
  OBVIOUS
<1>1. /\ mem \in Store /\ sql \in Store /\ deleted \subseteq Queries
      /\ IsInjective(sql.rows) /\ IsInjective(mem.rows)
      /\ \A q \in Queries : IsInjective(sql.links[q])
      /\ mem.corpus = sql.corpus /\ mem.shown = sql.shown /\ Listed(mem) = Listed(sql)
      /\ \A q \in Queries : LinkedAlike(sql.links[q], mem.links[q], q \in deleted)
      /\ \A q \in Queries : mem.links[q] \in Seq(Items) /\ sql.links[q] \in Seq(Items)
      /\ mem.links \in [Queries -> Seq(Items)] /\ sql.links \in [Queries -> Seq(Items)]
  BY DEF IInv, TypeOK, Store
<1>2. ASSUME NEW q \in Queries, SaveQuery(q) PROVE IInv'
  <2>1. mem' = MemUpsert(mem, q) /\ sql' = SqlUpsert(sql, q) /\ deleted' = deleted
    BY <1>2 DEF SaveQuery
  <2>2. /\ mem' \in Store /\ Listed(mem') = Listed(mem) \cup {q} /\ IsInjective(mem'.rows)
        /\ mem'.corpus = mem.corpus /\ mem'.links = mem.links /\ mem'.shown = mem.shown
    BY <1>1, <2>1, MemUpsertProperties
  <2>3. /\ sql' \in Store /\ Listed(sql') = Listed(sql) \cup {q} /\ IsInjective(sql'.rows)
        /\ sql'.corpus = sql.corpus /\ sql'.links = sql.links /\ sql'.shown = sql.shown
    BY <1>1, <2>1, SqlUpsertProperties
  <2> QED BY <1>1, <2>1, <2>2, <2>3 DEF IInv, TypeOK
<1>3. ASSUME NEW q \in Queries, DeleteQuery(q) PROVE IInv'
  <2>1. /\ mem' = MemDelete(mem, q) /\ sql' = SqlDelete(sql, q)
        /\ deleted' = deleted \cup {q}
    BY <1>3 DEF DeleteQuery
  <2>2. /\ mem' \in Store /\ Listed(mem') = Listed(mem) \ {q} /\ IsInjective(mem'.rows)
        /\ mem'.corpus = mem.corpus /\ mem'.links = mem.links /\ mem'.shown = mem.shown
    BY <1>1, <2>1, MemDeleteProperties
  <2>3. /\ sql' \in Store /\ Listed(sql') = Listed(sql) \ {q} /\ IsInjective(sql'.rows)
        /\ sql'.corpus = sql.corpus /\ sql'.shown = sql.shown
        /\ sql'.links = [sql.links EXCEPT ![q] = <<>>]
    BY <1>1, <2>1, SqlDeleteProperties
  <2> DEFINE none == <<>>
  <2>4. ToSet(none) = {} /\ IsInjective(none)
    BY DEF ToSet, IsInjective
  <2>5. sql'.links[q] = none /\ \A p \in Queries \ {q} : sql'.links[p] = sql.links[p]
    BY <1>1, <2>3
  <2> HIDE DEF none
  <2>6. ASSUME NEW p \in Queries
        PROVE  /\ IsInjective(sql'.links[p])
               /\ LinkedAlike(sql'.links[p], mem'.links[p], p \in deleted')
    BY <1>1, <2>1, <2>2, <2>4, <2>5 DEF LinkedAlike
  <2> QED BY <1>1, <2>1, <2>2, <2>3, <2>6 DEF IInv, TypeOK
<1>4. ASSUME NEW i \in Items, StoreCanonical(i) PROVE IInv'
  <2>1. /\ mem' = UpsertCanonical(mem, i) /\ sql' = UpsertCanonical(sql, i)
        /\ deleted' = deleted
    BY <1>4 DEF StoreCanonical
  <2>2. /\ mem' \in Store /\ mem'.rows = mem.rows /\ Listed(mem') = Listed(mem)
        /\ mem'.corpus = mem.corpus \cup {i} /\ mem'.links = mem.links /\ mem'.shown = mem.shown
    BY <1>1, <2>1, UpsertCanonicalProperties
  <2>3. /\ sql' \in Store /\ sql'.rows = sql.rows /\ Listed(sql') = Listed(sql)
        /\ sql'.corpus = sql.corpus \cup {i} /\ sql'.links = sql.links /\ sql'.shown = sql.shown
    BY <1>1, <2>1, UpsertCanonicalProperties
  <2> QED BY <1>1, <2>1, <2>2, <2>3 DEF IInv, TypeOK
<1>5. ASSUME NEW q \in Queries, NEW ids \in BoundedSeq(Items, MaxIds), LinkResults(q, ids)
      PROVE  IInv'
  <2>1. mem' = MemLink(mem, q, ids) /\ sql' = SqlLink(sql, q, ids) /\ deleted' = deleted
    BY <1>5 DEF LinkResults
  <2>2. ids \in Seq(Items)
    BY AdaptersAssumption DEF BoundedSeq, SeqOf
  <2>9. mem \in Store /\ sql \in Store
    BY <1>1
  <2> DEFINE linked == Extended(mem.links[q], ids)
             kept == Distinct(sql.links[q] \o ids)
  <2>3. /\ mem' \in Store /\ mem'.rows = mem.rows /\ Listed(mem') = Listed(mem)
        /\ mem'.corpus = mem.corpus /\ mem'.shown = mem.shown
        /\ mem'.links = [mem.links EXCEPT ![q] = linked]
    <3>1. LET new == MemLink(mem, q, ids)
          IN /\ new \in Store /\ new.rows = mem.rows /\ Listed(new) = Listed(mem)
             /\ new.corpus = mem.corpus /\ new.shown = mem.shown
             /\ new.links = [mem.links EXCEPT ![q] = linked]
      BY <2>2, <2>9, MemLinkProperties, Zenon
    <3> QED BY <2>1, <3>1, Zenon
  <2>4. /\ sql' \in Store /\ sql'.rows = sql.rows /\ Listed(sql') = Listed(sql)
        /\ sql'.corpus = sql.corpus /\ sql'.shown = sql.shown
        /\ sql'.links = [sql.links EXCEPT ![q] = kept] /\ IsInjective(sql'.links[q])
    <3>1. LET new == SqlLink(sql, q, ids)
          IN /\ new \in Store /\ new.rows = sql.rows /\ Listed(new) = Listed(sql)
             /\ new.corpus = sql.corpus /\ new.shown = sql.shown
             /\ new.links = [sql.links EXCEPT ![q] = kept] /\ IsInjective(new.links[q])
      BY <2>2, <2>9, SqlLinkProperties, Zenon
    <3> QED BY <2>1, <3>1, Zenon
  <2>5. LinkedAlike(kept, linked, q \in deleted)
    BY <1>1, <2>2, LinkingKeepsAlike
  <2> HIDE DEF linked, kept
  <2>6. /\ sql'.links[q] = kept /\ mem'.links[q] = linked
        /\ \A p \in Queries \ {q} :
             sql'.links[p] = sql.links[p] /\ mem'.links[p] = mem.links[p]
    BY <1>1, <2>3, <2>4
  <2>7. ASSUME NEW p \in Queries
        PROVE  /\ IsInjective(sql'.links[p])
               /\ LinkedAlike(sql'.links[p], mem'.links[p], p \in deleted')
    BY <1>1, <2>1, <2>4, <2>5, <2>6
  <2> QED BY <1>1, <2>1, <2>3, <2>4, <2>7 DEF IInv, TypeOK
<1>6. ASSUME NEW q \in Queries, NEW i \in Items, Deliver(q, i) PROVE IInv'
  <2>1. /\ mem' = MarkShown(mem, {i}) /\ sql' = MarkShown(sql, {i})
        /\ deleted' = deleted /\ {i} \in SUBSET Items
    BY <1>6 DEF Deliver
  <2>2. /\ mem' \in Store /\ mem'.rows = mem.rows /\ Listed(mem') = Listed(mem)
        /\ mem'.corpus = mem.corpus /\ mem'.links = mem.links
        /\ mem'.shown = mem.shown \cup {i}
    BY <1>1, <2>1, MarkShownProperties
  <2>3. /\ sql' \in Store /\ sql'.rows = sql.rows /\ Listed(sql') = Listed(sql)
        /\ sql'.corpus = sql.corpus /\ sql'.links = sql.links
        /\ sql'.shown = sql.shown \cup {i}
    BY <1>1, <2>1, MarkShownProperties
  <2> QED BY <1>1, <2>1, <2>2, <2>3 DEF IInv, TypeOK
<1>7. ASSUME UNCHANGED vars PROVE IInv'
  <2>1. mem' = mem /\ sql' = sql /\ deleted' = deleted
    BY <1>7 DEF vars
  <2> QED BY <1>1, <2>1 DEF IInv, TypeOK
<1> QED BY <1>2, <1>3, <1>4, <1>5, <1>6, <1>7 DEF Next

\* Every reachable pair of stores satisfies the invariant.
THEOREM InvariantHolds == Spec => []IInv
BY InitEstablishes, NextPreserves, PTL DEF Spec


\* The stores keep their shape, and SQLite keeps no row and no link twice, whatever is saved,
\* linked, delivered and deleted.
THEOREM TypeCorrect == Spec => []TypeOK
<1>1. IInv => TypeOK
  BY DEF IInv
<1> QED BY <1>1, InvariantHolds, PTL

-----------------------------------------------------------------------------
(* What a run reads. *)

\* Stores with the same corpus, the same deliveries and links that are alike read alike.
LEMMA ReadAlike ==
  ASSUME NEW a \in Store, NEW b \in Store, a.corpus = b.corpus, a.shown = b.shown,
         NEW q \in Queries, NEW gone, LinkedAlike(b.links[q], a.links[q], gone)
  PROVE  LinkedAlike(Unseen(b, q), Unseen(a, q), gone)
<1> DEFINE rest == Items \ a.shown
           old(store) == Keep(store.links[q], a.corpus)
<1>1. a.links[q] \in Seq(Items) /\ b.links[q] \in Seq(Items)
  BY DEF Store
<1>2. /\ old(a) \in Seq(Items) /\ old(b) \in Seq(Items)
  BY <1>1, KeepProperties
<1>3. LinkedAlike(old(b), old(a), gone)
  BY <1>1, KeepingKeepsAlike
<1>4. Unseen(a, q) = Keep(old(a), rest) /\ Unseen(b, q) = Keep(old(b), rest)
  BY Zenon DEF Unseen, ResultsOf
<1> HIDE DEF rest, old
<1>5. LinkedAlike(Keep(old(b), rest), Keep(old(a), rest), gone)
  BY <1>2, <1>3, KeepingKeepsAlike
<1> QED BY <1>4, <1>5

\* A run reads the same new results from either adapter, in the same order, but for
\* repetitions in memory, as long as the search was not deleted under it; what it reads from
\* the table it could always read from memory: the adapters implement one storage port.
THEOREM AdaptersReadAlike == Spec => []RunsReadAlike
<1>1. ASSUME IInv PROVE RunsReadAlike
  <2>1. ToSet(mem.rows) = ToSet(sql.rows)
    BY <1>1 DEF IInv, Listed
  <2>2. ASSUME NEW q \in Queries
        PROVE  LinkedAlike(Unseen(sql, q), Unseen(mem, q), q \in deleted)
    BY <1>1, ReadAlike DEF IInv, TypeOK
  <2>3. ASSUME NEW q \in Queries
        PROVE  /\ q \notin deleted => Distinct(Unseen(mem, q)) = Unseen(sql, q)
               /\ ToSet(Unseen(sql, q)) \subseteq ToSet(Unseen(mem, q))
    BY <2>2 DEF LinkedAlike
  <2> QED BY <2>1, <2>3 DEF RunsReadAlike
<1>2. IInv => RunsReadAlike
  BY <1>1
<1> QED BY <1>2, InvariantHolds, PTL

-----------------------------------------------------------------------------
(* What the deduper compares a candidate with. *)

\* What rounding down to whole days, and a gap that is not the difference of the hours, can
\* make of a window: on either side no more than the shift between the two, but for one day
\* before the date.
LEMMA WholeDays ==
  ASSUME NEW on \in Int, NEW start \in Int, NEW gap \in Int, NEW days \in Nat
  PROVE  LET shift  == gap - (start - on)
             window == days * 24
             within == Abs((on - start) \div 24) <= days
         IN /\ ~within => Abs(gap) > window - Abs(shift)
            /\ within /\ ~(Abs(gap) <= window) =>
                 \/ gap < -window /\ gap > shift - window - 24
                 \/ gap > window /\ gap <= shift + window
<1> DEFINE cut == (on - start) \div 24
           shift == gap - (start - on)
           window == days * 24
<1>1. cut \in Int /\ 24 * cut <= on - start /\ on - start < 24 * cut + 24
  OBVIOUS
<1>2. window \in Nat /\ window = 24 * days /\ shift \in Int /\ gap = shift + (start - on)
  OBVIOUS
<1> HIDE DEF cut, shift, window
<1>3. ASSUME ~(Abs(cut) <= days) PROVE Abs(gap) > window - Abs(shift)
  <2>1. on - start > window \/ start - on > window
    BY <1>1, <1>2, <1>3 DEF Abs
  <2> QED BY <1>2, <2>1 DEF Abs
<1>4. ASSUME Abs(cut) <= days, ~(Abs(gap) <= window)
      PROVE  \/ gap < -window /\ gap > shift - window - 24
             \/ gap > window /\ gap <= shift + window
  <2>1. start - on <= window /\ start - on > -window - 24
    BY <1>1, <1>2, <1>4 DEF Abs
  <2> QED BY <1>2, <1>4, <2>1 DEF Abs
<1> QED BY <1>3, <1>4 DEF cut, shift, window

\* Two dates that can be subtracted have hours and timestamps.
LEMMA DatedProperties ==
  ASSUME NEW i \in Items, NEW on \in Dates \cup {NoDate}, ~Undated(i, on)
  PROVE  /\ on.hour \in Int /\ StartsAt[i].hour \in Int
         /\ Gap(i, on) \in Int /\ Shift(i, on) = Gap(i, on) - (StartsAt[i].hour - on.hour)
<1>1. on \in Dates /\ StartsAt[i] \in Dates
  BY StoresAssumption DEF Undated
<1>2. \A d \in Dates : d.hour \in Int /\ Stamp[d] \in Int
  BY StoresAssumption
<1> QED BY <1>1, <1>2 DEF Gap, Shift

\* Stores with the same corpus give a candidate the same block where memory gives one, but
\* for the rounding and the zone.
LEMMA BlockAlike ==
  ASSUME NEW a \in Store, NEW b \in Store, a.corpus = b.corpus,
         NEW on \in Dates \cup {NoDate}, NEW city
  PROVE  LET fromMem == MemBlock(a, on, city)
             fromSql == SqlBlock(b, on, city)
             window  == WindowDays * 24
         IN /\ \A i \in fromSql \ fromMem :
                 /\ Abs(Gap(i, on)) <= window
                 /\ Abs(Gap(i, on)) > window - Abs(Shift(i, on))
            /\ \A i \in fromMem \ fromSql :
                 \/ Gap(i, on) < -window /\ Gap(i, on) > Shift(i, on) - window - 24
                 \/ Gap(i, on) > window /\ Gap(i, on) <= Shift(i, on) + window
<1> DEFINE window == WindowDays * 24
           Within(i) == Abs((on.hour - StartsAt[i].hour) \div 24) <= WindowDays
<1>1. WindowDays \in Nat /\ a.corpus \subseteq Items
  BY StoresAssumption DEF Store
<1>2. ASSUME NEW i \in Items, ~Undated(i, on)
      PROVE  /\ ~Within(i) => Abs(Gap(i, on)) > window - Abs(Shift(i, on))
             /\ Within(i) /\ ~(Abs(Gap(i, on)) <= window) =>
                  \/ Gap(i, on) < -window /\ Gap(i, on) > Shift(i, on) - window - 24
                  \/ Gap(i, on) > window /\ Gap(i, on) <= Shift(i, on) + window
  <2>1. /\ on.hour \in Int /\ StartsAt[i].hour \in Int /\ Gap(i, on) \in Int
        /\ Shift(i, on) = Gap(i, on) - (StartsAt[i].hour - on.hour)
    BY <1>2, DatedProperties
  <2> QED BY <1>1, <2>1, WholeDays
<1>3. ASSUME NEW i \in SqlBlock(b, on, city), i \notin MemBlock(a, on, city)
      PROVE  i \in Items /\ ~Undated(i, on) /\ ~Within(i) /\ Abs(Gap(i, on)) <= window
  BY <1>1, <1>3 DEF SqlBlock, MemBlock
<1>4. ASSUME NEW i \in MemBlock(a, on, city), i \notin SqlBlock(b, on, city)
      PROVE  i \in Items /\ ~Undated(i, on) /\ Within(i) /\ ~(Abs(Gap(i, on)) <= window)
  BY <1>1, <1>4 DEF SqlBlock, MemBlock
<1> HIDE DEF Within
<1> QED BY <1>2, <1>3, <1>4

\* Between aware dates nothing shifts, so for them the two blocks differ by the rounding
\* alone.
COROLLARY AwareBlockAlike ==
  ASSUME NEW a \in Store, NEW b \in Store, a.corpus = b.corpus,
         NEW on \in Dates \cup {NoDate}, NEW city,
         NEW i \in Items, ~Undated(i, on), on.aware, StartsAt[i].aware
  PROVE  /\ i \in SqlBlock(b, on, city) => i \in MemBlock(a, on, city)
         /\ i \in MemBlock(a, on, city) \ SqlBlock(b, on, city) =>
              /\ StartsAt[i].hour < on.hour - WindowDays * 24
              /\ StartsAt[i].hour > on.hour - (WindowDays + 1) * 24
<1> DEFINE window == WindowDays * 24
<1>1. /\ on.hour \in Int /\ StartsAt[i].hour \in Int /\ window \in Nat
      /\ (WindowDays + 1) * 24 = window + 24
  BY StoresAssumption, DatedProperties
<1>2. Gap(i, on) = StartsAt[i].hour - on.hour /\ Shift(i, on) = 0
  <2>1. Stamp[on] = on.hour /\ Stamp[StartsAt[i]] = StartsAt[i].hour
    BY StoresAssumption DEF Undated
  <2> QED BY <1>1, <2>1 DEF Gap, Shift
<1>3. i \in SqlBlock(b, on, city) \ MemBlock(a, on, city) =>
        Abs(Gap(i, on)) <= window /\ Abs(Gap(i, on)) > window - Abs(Shift(i, on))
  BY BlockAlike
<1>4. i \in MemBlock(a, on, city) \ SqlBlock(b, on, city) =>
        \/ Gap(i, on) < -window /\ Gap(i, on) > Shift(i, on) - window - 24
        \/ Gap(i, on) > window /\ Gap(i, on) <= Shift(i, on) + window
  BY BlockAlike
<1> HIDE DEF window
<1>5. i \notin SqlBlock(b, on, city) \ MemBlock(a, on, city)
  BY <1>1, <1>2, <1>3 DEF Abs
<1>6. i \in MemBlock(a, on, city) \ SqlBlock(b, on, city) =>
        StartsAt[i].hour < on.hour - window /\ StartsAt[i].hour > on.hour - (window + 24)
  BY <1>1, <1>2, <1>4
<1> QED BY <1>1, <1>5, <1>6 DEF window

\* Wherever memory does not raise, the deduper compares a candidate with the same stored
\* results on either adapter, but for those that the rounding of timedelta.days or the zone
\* of the host can move over the border of the window: whatever the window, the zone and
\* the dates are, with a zone of their own or without.
THEOREM AdaptersBlockAlike == Spec => []BlocksAlike
<1>1. IInv => BlocksAlike
  BY BlockAlike DEF IInv, TypeOK, BlocksAlike
<1> QED BY <1>1, InvariantHolds, PTL

-----------------------------------------------------------------------------
(* What it finds among them. *)

\* Tiers are ordered, and a result that is near enough is in the highest.
LEMMA TierProperties ==
  ASSUME NEW c \in Candidates, NEW i \in Items
  PROVE  /\ c.cosine[i] \in Int /\ Tier(c, i) \in 0..2
         /\ c.cosine[i] >= AutoMerge => Tier(c, i) = 2
<1>1. c.cosine[i] \in Int /\ c.lexical[i] \in Int /\ AutoMerge \in Int
  BY MatchingAssumption
<1>2. Similarity(c, i) \in Int /\ Similarity(c, i) >= c.cosine[i]
  <2>1. \A a, b \in Int : Max({a, b}) = IF a < b THEN b ELSE a
    BY OfTwo
  <2>2. Similarity(c, i) = Max({c.cosine[i], c.lexical[i]})
    BY Zenon DEF Similarity
  <2> QED BY <1>1, <2>1, <2>2
<1>3. c.cosine[i] >= AutoMerge => Similarity(c, i) >= AutoMerge
  BY <1>1, <1>2
<1>4. c.cosine[i] >= AutoMerge => Tier(c, i) = 2
  BY <1>3 DEF Tier
<1>5. Tier(c, i) \in 0..2
  BY DEF Tier
<1> QED BY <1>1, <1>4, <1>5

\* If the nearest do not take in the whole block, there are as many as the limit allows.
LEMMA LimitIsReached ==
  ASSUME NEW block, block \subseteq Items, NEW c \in Candidates,
         NEW near \in Nearest(block, c), near # block
  PROVE  IsFiniteSet(block) /\ Cardinality(near) = BlockLimit
<1>1. IsFiniteSet(block) /\ Cardinality(block) \in Nat
  BY StoresAssumption, FS_Subset, FS_CardinalityType
<1>2. near \subseteq block /\ Cardinality(near) = Min({Cardinality(block), BlockLimit})
  BY DEF Nearest
<1>3. Cardinality(near) # Cardinality(block)
  BY <1>1, <1>2, FS_Subset
<1>4. BlockLimit \in Int /\ Cardinality(block) \in Int
  BY <1>1, MatchingAssumption
<1> QED BY <1>1, <1>2, <1>3, <1>4, OfTwo

\* Whatever is stored, a result that is near enough by cosine leads to a merge, and one of a
\* higher tier is passed over only when the limit is filled by nearer ones.
LEMMA FoundInBlock ==
  ASSUME NEW block, block \subseteq Items, NEW c \in Candidates
  PROVE  Found(block, c)
<1> SUFFICES ASSUME NEW near \in Nearest(block, c), NEW i \in block,
                    NEW best \in BestMatch(near, c)
             PROVE  /\ c.cosine[i] >= AutoMerge => Tier(c, best) = 2
                    /\ Tier(c, i) > Tier(c, best) =>
                         Cardinality({j \in block : c.cosine[j] >= c.cosine[i]}) > BlockLimit
  BY DEF Found
<1>1. /\ near \subseteq block
      /\ \A k \in near, j \in block \ near : c.cosine[k] >= c.cosine[j]
  BY DEF Nearest
<1>2. /\ best \in near
      /\ \A j \in near : Tier(c, best) > Tier(c, j) \/ Tier(c, best) = Tier(c, j)
  BY DEF BestMatch
<1>3. \A j \in block : /\ c.cosine[j] \in Int /\ Tier(c, j) \in 0..2
                       /\ c.cosine[j] >= AutoMerge => Tier(c, j) = 2
  BY TierProperties
<1>4. AutoMerge \in Int /\ BlockLimit \in Nat
  BY MatchingAssumption
<1>5. CASE i \in near
  <2>1. Tier(c, best) >= Tier(c, i)
    BY <1>1, <1>2, <1>3, <1>5
  <2> QED BY <1>1, <1>2, <1>3, <2>1
<1>6. CASE i \notin near
  <2> DEFINE nearer == {j \in block : c.cosine[j] >= c.cosine[i]}
  <2>1. c.cosine[best] >= c.cosine[i]
    BY <1>1, <1>2, <1>6
  <2>2. c.cosine[i] >= AutoMerge => Tier(c, best) = 2
    BY <1>1, <1>2, <1>3, <1>4, <2>1
  <2>3. IsFiniteSet(block) /\ Cardinality(near) = BlockLimit
    BY <1>6, LimitIsReached
  <2>4. near \cup {i} \subseteq nearer /\ nearer \subseteq block
    BY <1>1, <1>3, <1>6
  <2> HIDE DEF nearer
  <2>5. IsFiniteSet(near) /\ IsFiniteSet(nearer) /\ Cardinality(nearer) \in Nat
    BY <1>1, <2>3, <2>4, FS_Subset, FS_CardinalityType
  <2>6. Cardinality(near \cup {i}) = Cardinality(near) + 1
    BY <1>6, <2>5, FS_AddElement
  <2>7. Cardinality(near \cup {i}) <= Cardinality(nearer)
    BY <2>4, <2>5, FS_Subset
  <2>8. Cardinality(nearer) > BlockLimit
    BY <1>4, <2>3, <2>5, <2>6, <2>7
  <2> QED BY <2>2, <2>8 DEF nearer
<1> QED BY <1>5, <1>6

\* The deduper never inserts, or leaves to the judge, a candidate whose stored duplicate is
\* near enough to be merged at once, and misses one that only its words or its venue and
\* time give away only behind a full block: whatever is stored and whatever is found.
THEOREM StoredIsFound == Spec => []DuplicatesAreFound
<1>1. ASSUME IInv, NEW c \in Candidates PROVE Found(SqlBlock(sql, c.on, c.city), c)
  <2>1. SqlBlock(sql, c.on, c.city) \subseteq Items
    BY <1>1 DEF SqlBlock, IInv, TypeOK, Store
  <2> QED BY <2>1, FoundInBlock
<1>2. IInv => DuplicatesAreFound
  BY <1>1 DEF DuplicatesAreFound
<1> QED BY <1>2, InvariantHolds, PTL
=============================================================================
