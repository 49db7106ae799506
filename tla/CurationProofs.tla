--------------------------- MODULE CurationProofs ---------------------------
(***************************************************************************)
(* What a run of the pipeline keeps, whatever the searches, the replies    *)
(* and the settings: the fusion, the ranking, and the runs made of them.   *)
(***************************************************************************)
EXTENDS Curation, StoresProofs

-----------------------------------------------------------------------------
(* Harvest. *)

Urls == {Canonical[l] : l \in Links}

\* No text is searched for twice, and one always is.
LEMMA ExpandProperties ==
  ASSUME NEW reply \in Seq(STRING)
  PROVE  /\ Expand(reply) = <<OwnText>> \/ Expand(reply) \in Seq(STRING)
         /\ Expand(reply) # <<>> /\ IsInjective(Expand(reply))
         /\ \E n \in Nat : DOMAIN Expand(reply) = 1..n
<1> DEFINE kept == Keep(reply, ToSet(reply) \ {""})
<1>1. kept \in Seq(STRING)
  BY KeepProperties
<1> HIDE DEF kept
<1>2. Distinct(kept) \in Seq(STRING) /\ IsInjective(Distinct(kept))
  BY <1>1, DistinctProperties
<1>3. ParseQueries(reply) = Distinct(kept)
  BY Zenon DEF ParseQueries, kept
<1>4. IsInjective(<<OwnText>>) /\ <<OwnText>> # <<>> /\ DOMAIN <<OwnText>> = 1..1
  BY DEF IsInjective
<1>5. CASE ParseQueries(reply) = <<>>
  BY <1>4, <1>5 DEF Expand
<1>6. CASE ParseQueries(reply) # <<>>
  BY <1>2, <1>3, <1>6 DEF Expand
<1> QED BY <1>5, <1>6

\* The rows of a search are links, and its list is made of canonical urls.
LEMMA SearchProperties ==
  ASSUME NEW reply \in Seq(Links \cup {BadRow})
  PROVE  Search(reply) \in Seq(Urls)
<1> DEFINE good == Keep(reply, ToSet(reply) \ {BadRow})
           rows == Rows(reply)
           urls == [k \in DOMAIN rows |-> Canonical[rows[k]]]
<1>1. good \in Seq((Links \cup {BadRow}) \cap (ToSet(reply) \ {BadRow}))
  BY KeepProperties
<1>2. good \in Seq(Links)
  BY <1>1
<1> HIDE DEF good
<1>3. rows = FirstOf(good, MaxResults) /\ MaxResults \in Int
  BY HarvestAssumption DEF Rows, good
<1>4. rows \in Seq(Links)
  BY <1>2, <1>3, FirstOfProperties
<1> HIDE DEF rows
<1>5. urls \in Seq(Urls)
  BY <1>4 DEF Urls
<1>6. Keep(urls, ToSet(urls) \ {NoUrl}) \in Seq(Urls)
  BY <1>5, KeepProperties
<1>7. Search(reply) = Keep(urls, ToSet(urls) \ {NoUrl})
  BY Zenon DEF Search, rows
<1> QED BY <1>6, <1>7

\* A url has finitely many units.
LEMMA UnitsFinite ==
  ASSUME NEW S, NEW l \in Seq(Seq(S)), NEW url
  PROVE  IsFiniteSet(Units(l, url)) /\ Cardinality(Units(l, url)) \in Nat
<1> DEFINE Seen == {p \in Places(l) : l[p[1]][p[2]] = url}
           Of(at) == {at} \X (1..Weight(at[2]))
           All == {Of(at) : at \in Seen}
<1>1. IsFiniteSet(Places(l)) /\ \A p \in Places(l) : p[2] \in Nat
  BY PlacesProperties
<1>2. IsFiniteSet(Seen)
  BY <1>1, FS_Subset
<1>3. ASSUME NEW at \in Seen PROVE IsFiniteSet(Of(at))
  <2>1. at[2] \in DOMAIN l[at[1]] /\ l[at[1]] \in Seq(S)
    BY PlacesProperties
  <2>2. at[2] \in Nat \ {0}
    BY <2>1
  <2>3. Weight(at[2]) \in Int
    BY <2>2, HarvestAssumption DEF Weight
  <2>4. IsFiniteSet(1..Weight(at[2]))
    BY <2>3, FS_Interval
  <2>5. IsFiniteSet({at})
    BY FS_Singleton
  <2> QED BY <2>4, <2>5, FS_Product
<1>4. IsFiniteSet(All)
  <2>1. [at \in Seen |-> Of(at)] \in Surjection(Seen, All)
    BY DEF Surjection
  <2> QED BY <2>1, <1>2, FS_Surjection
<1>5. Units(l, url) = UNION All
  BY DEF Units
<1>6. \A T \in All : IsFiniteSet(T)
  BY <1>3
<1>7. IsFiniteSet(Units(l, url))
  <2> HIDE DEF All
  <2> QED BY <1>4, <1>5, <1>6, FS_UNION
<1> QED BY <1>7, FS_CardinalityType

\* A unit of a url is a place where it stands, with a number up to the weight of the place.
LEMMA UnitsMembers ==
  ASSUME NEW l, NEW url, NEW u
  PROVE  u \in Units(l, url) <=>
           \E a \in DOMAIN l : \E b \in DOMAIN l[a] : \E w \in 1..Weight(b) :
             l[a][b] = url /\ u = <<<<a, b>>, w>>
<1> DEFINE Seen == {p \in Places(l) : l[p[1]][p[2]] = url}
           Of(at) == {at} \X (1..Weight(at[2]))
<1>1. u \in Units(l, url) <=> \E at \in Seen : u \in Of(at)
  BY DEF Units
<1>2. \A at : at \in Seen <=> \E a \in DOMAIN l : \E b \in DOMAIN l[a] :
                                l[a][b] = url /\ at = <<a, b>>
  BY DEF Places
<1>3. \A a, b : u \in Of(<<a, b>>) <=> \E w \in 1..Weight(b) : u = <<<<a, b>>, w>>
  OBVIOUS
<1> HIDE DEF Seen, Of
<1> QED BY <1>1, <1>2, <1>3

\* Lists in another order bring a url as many units.
LEMMA UnitsIgnoreOrder ==
  ASSUME NEW S, NEW l \in Seq(Seq(S)), NEW p \in Bijection(DOMAIN l, DOMAIN l), NEW url
  PROVE  LET other == [k \in DOMAIN l |-> l[p[k]]]
         IN Cardinality(Units(other, url)) = Cardinality(Units(l, url))
<1> DEFINE other == [k \in DOMAIN l |-> l[p[k]]]
           U == Units(other, url)
           V == Units(l, url)
           g == [u \in U |-> <<<<p[u[1][1]], u[1][2]>>, u[2]>>]
<1>1. /\ \A a \in DOMAIN l : p[a] \in DOMAIN l
      /\ \A a, b \in DOMAIN l : p[a] = p[b] => a = b
      /\ \A b \in DOMAIN l : \E a \in DOMAIN l : p[a] = b
  BY DEF Bijection, Injection, Surjection, IsInjective
<1>2. DOMAIN other = DOMAIN l /\ \A a \in DOMAIN l : other[a] = l[p[a]]
  OBVIOUS
<1> HIDE DEF other
<1>3. \A u : u \in U <=> \E a \in DOMAIN l : \E b \in DOMAIN l[p[a]] : \E w \in 1..Weight(b) :
                            l[p[a]][b] = url /\ u = <<<<a, b>>, w>>
  BY <1>2, UnitsMembers
<1>4. \A v : v \in V <=> \E a \in DOMAIN l : \E b \in DOMAIN l[a] : \E w \in 1..Weight(b) :
                            l[a][b] = url /\ v = <<<<a, b>>, w>>
  BY UnitsMembers
<1> HIDE DEF U, V
<1>5. ASSUME NEW u \in U PROVE g[u] \in V
  <2>1. PICK a \in DOMAIN l : \E b \in DOMAIN l[p[a]] : \E w \in 1..Weight(b) :
                                l[p[a]][b] = url /\ u = <<<<a, b>>, w>>
    BY <1>3
  <2>4. PICK b \in DOMAIN l[p[a]] : \E w \in 1..Weight(b) :
               l[p[a]][b] = url /\ u = <<<<a, b>>, w>>
    BY <2>1
  <2>2. PICK w \in 1..Weight(b) : l[p[a]][b] = url /\ u = <<<<a, b>>, w>>
    BY <2>4
  <2>3. g[u] = <<<<p[a], b>>, w>>
    BY <2>2
  <2> QED BY <2>2, <2>3, <1>1, <1>4
<1>6. ASSUME NEW u \in U, NEW v \in U, g[u] = g[v] PROVE u = v
  <2>1. /\ \E a \in DOMAIN l : \E b, w : u = <<<<a, b>>, w>>
        /\ \E c \in DOMAIN l : \E d, x : v = <<<<c, d>>, x>>
    BY <1>3
  <2>2. PICK a \in DOMAIN l : \E b, w : u = <<<<a, b>>, w>>
    BY <2>1
  <2>3. PICK b, w : u = <<<<a, b>>, w>>
    BY <2>2
  <2>4. PICK c \in DOMAIN l : \E d, x : v = <<<<c, d>>, x>>
    BY <2>1
  <2>5. PICK d, x : v = <<<<c, d>>, x>>
    BY <2>4
  <2>6. g[u] = <<<<p[a], b>>, w>> /\ g[v] = <<<<p[c], d>>, x>>
    BY <2>3, <2>5
  <2>7. p[a] = p[c] /\ b = d /\ w = x
    BY <2>6, <1>6
  <2> QED BY <2>3, <2>5, <2>7, <1>1
<1>7. ASSUME NEW v \in V PROVE \E u \in U : g[u] = v
  <2>1. PICK c \in DOMAIN l : \E b \in DOMAIN l[c] : \E w \in 1..Weight(b) :
                                l[c][b] = url /\ v = <<<<c, b>>, w>>
    BY <1>4
  <2>6. PICK b \in DOMAIN l[c] :
               \E w \in 1..Weight(b) : l[c][b] = url /\ v = <<<<c, b>>, w>>
    BY <2>1
  <2>2. PICK w \in 1..Weight(b) : l[c][b] = url /\ v = <<<<c, b>>, w>>
    BY <2>6
  <2>3. PICK a \in DOMAIN l : p[a] = c
    BY <1>1
  <2>4. <<<<a, b>>, w>> \in U
    BY <2>2, <2>3, <1>3
  <2>5. g[<<<<a, b>>, w>>] = v
    BY <2>2, <2>3, <2>4
  <2> QED BY <2>4, <2>5
<1>8. g \in Bijection(U, V)
  <2>1. g \in [U -> V]
    BY <1>5
  <2> HIDE DEF g
  <2> QED BY <2>1, <1>6, <1>7 DEF Bijection, Injection, Surjection, IsInjective
<1>9. IsFiniteSet(U)
  <2>2. DOMAIN l = 1..Len(l) /\ Len(l) \in Nat /\ \A a \in DOMAIN l : l[a] \in Seq(S)
    OBVIOUS
  <2>3. \A a \in DOMAIN l : other[a] \in Seq(S)
    BY <1>1, <1>2, <2>2
  <2>4. other = [a \in 1..Len(l) |-> other[a]]
    BY <2>2 DEF other
  <2>1. other \in Seq(Seq(S))
    BY <2>2, <2>3, <2>4
  <2> QED BY <2>1, UnitsFinite DEF U
<1>10. Cardinality(U) = Cardinality(V)
  BY <1>8, <1>9, FS_Bijection DEF ExistsBijection
<1> QED BY <1>10 DEF other, U, V

\* The fused list has each url of the lists once, the higher score first.
LEMMA MergeProperties ==
  ASSUME NEW S, NEW l \in Seq(Seq(S))
  PROVE  /\ Merge(l) \in Seq(S) /\ IsInjective(Merge(l))
         /\ ToSet(Merge(l)) = ToSet(Flatten(l))
         /\ \A url \in ToSet(Flatten(l)) : Scores(l)[url] \in Int
         /\ Descending(Merge(l), Scores(l))
<1> DEFINE flat == Flatten(l)
           seen == Distinct(flat)
           key == Scores(l)
<1>1. flat \in Seq(S)
  BY FlattenProperties
<1>2. \A url \in ToSet(flat) : key[url] \in Int
  BY UnitsFinite DEF Scores
<1> HIDE DEF flat, key
<1>3. seen \in Seq(S) /\ ToSet(seen) = ToSet(flat) /\ IsInjective(seen)
  BY <1>1, DistinctProperties
<1>4. Merge(l) = StableSort(seen, key)
  BY Zenon DEF Merge, flat, key
<1> HIDE DEF seen
<1>5. /\ StableSort(seen, key) \in Seq(S) /\ ToSet(StableSort(seen, key)) = ToSet(seen)
      /\ IsInjective(StableSort(seen, key))
      /\ Descending(StableSort(seen, key), key)
  BY <1>2, <1>3, SortProperties
<1> QED BY <1>2, <1>3, <1>4, <1>5 DEF flat, key

\* Permuted lists have the same places to read from.
LEMMA FlattenIgnoresOrder ==
  ASSUME NEW S, NEW l \in Seq(Seq(S)), NEW p \in Bijection(DOMAIN l, DOMAIN l)
  PROVE  LET other == [k \in DOMAIN l |-> l[p[k]]]
         IN other \in Seq(Seq(S)) /\ ToSet(Flatten(other)) = ToSet(Flatten(l))
<1> DEFINE other == [k \in DOMAIN l |-> l[p[k]]]
<1>1. /\ \A a \in DOMAIN l : p[a] \in DOMAIN l
      /\ \A b \in DOMAIN l : \E a \in DOMAIN l : p[a] = b
  BY DEF Bijection, Injection, Surjection
<1>2. DOMAIN l = 1..Len(l) /\ Len(l) \in Nat /\ \A a \in DOMAIN l : l[a] \in Seq(S)
  OBVIOUS
<1>3. DOMAIN other = DOMAIN l /\ \A a \in DOMAIN l : other[a] = l[p[a]]
  OBVIOUS
<1>4. other = [a \in 1..Len(l) |-> other[a]]
  BY <1>2
<1> HIDE DEF other
<1>5. \A a \in DOMAIN l : other[a] \in Seq(S)
  BY <1>1, <1>2, <1>3
<1>6. other \in Seq(Seq(S))
  BY <1>2, <1>4, <1>5
<1>7. \A m \in Seq(Seq(S)) : \A url :
        url \in ToSet(Flatten(m)) <=> \E a \in DOMAIN m : \E b \in DOMAIN m[a] : m[a][b] = url
  <2> SUFFICES ASSUME NEW m \in Seq(Seq(S)), NEW url
               PROVE  url \in ToSet(Flatten(m)) <=>
                        \E a \in DOMAIN m : \E b \in DOMAIN m[a] : m[a][b] = url
    OBVIOUS
  <2>1. ToSet(Flatten(m)) = {m[q[1]][q[2]] : q \in Places(m)}
    BY FlattenProperties
  <2>2. ASSUME NEW a \in DOMAIN m, NEW b \in DOMAIN m[a] PROVE <<a, b>> \in Places(m)
    BY DEF Places
  <2>3. ASSUME NEW q \in Places(m) PROVE q[1] \in DOMAIN m /\ q[2] \in DOMAIN m[q[1]]
    BY PlacesProperties
  <2>4. ASSUME url \in ToSet(Flatten(m))
        PROVE  \E a \in DOMAIN m : \E b \in DOMAIN m[a] : m[a][b] = url
    <3>1. PICK q \in Places(m) : url = m[q[1]][q[2]]
      BY <2>1, <2>4
    <3> QED BY <3>1, <2>3
  <2>5. ASSUME NEW a \in DOMAIN m, NEW b \in DOMAIN m[a], m[a][b] = url
        PROVE  url \in ToSet(Flatten(m))
    <3>1. <<a, b>> \in Places(m) /\ m[<<a, b>>[1]][<<a, b>>[2]] = url
      BY <2>2, <2>5
    <3> QED BY <3>1, <2>1
  <2> QED BY <2>4, <2>5
<1>8. \A url : url \in ToSet(Flatten(other)) <=> url \in ToSet(Flatten(l))
  <2> SUFFICES ASSUME NEW url
               PROVE  url \in ToSet(Flatten(other)) <=> url \in ToSet(Flatten(l))
    OBVIOUS
  <2> DEFINE In(list) == \E b \in DOMAIN list : list[b] = url
  <2>1. url \in ToSet(Flatten(other)) <=> \E a \in DOMAIN other : In(other[a])
    BY <1>6, <1>7
  <2>2. url \in ToSet(Flatten(l)) <=> \E a \in DOMAIN l : In(l[a])
    BY <1>7
  <2> HIDE DEF In
  <2>3. (\E a \in DOMAIN other : In(other[a])) <=> \E a \in DOMAIN l : In(l[p[a]])
    BY <1>3
  <2>4. (\E a \in DOMAIN l : In(l[p[a]])) <=> \E a \in DOMAIN l : In(l[a])
    BY <1>1
  <2> QED BY <2>1, <2>2, <2>3, <2>4
<1> QED BY <1>6, <1>8 DEF other

\* Of two fused lists whose scores are the same neither has a higher score anywhere.
LEMMA FusedAlike ==
  ASSUME NEW S, NEW s \in Seq(S), NEW t \in Seq(S), NEW key,
         IsInjective(s), IsInjective(t), ToSet(s) = ToSet(t), \A x \in ToSet(s) : key[x] \in Int,
         Descending(s, key), Descending(t, key)
  PROVE  [k \in DOMAIN s |-> key[s[k]]] = [k \in DOMAIN t |-> key[t[k]]]
<1>1. Len(s) = Len(t)
  BY ElementCount
<1>2. DOMAIN s = 1..Len(s) /\ DOMAIN t = 1..Len(t)
  OBVIOUS
<1>3. ASSUME NEW k \in DOMAIN s PROVE key[s[k]] = key[t[k]]
  <2>1. k \in DOMAIN t /\ s[k] \in ToSet(s) /\ t[k] \in ToSet(t)
    BY <1>1, <1>2 DEF ToSet
  <2>2. key[s[k]] \in Int /\ key[t[k]] \in Int
    BY <2>1
  <2>3. key[s[k]] <= key[t[k]]
    BY <2>1, DescendingAtMost
  <2>4. key[t[k]] <= key[s[k]]
    BY <2>1, DescendingAtMost
  <2> QED BY <2>2, <2>3, <2>4
<1> QED BY <1>1, <1>2, <1>3

\* Fusion gives the same scores in the same places whatever the order of the lists.
LEMMA FusionIgnoresOrder ==
  ASSUME NEW S, NEW l \in Seq(Seq(S)) PROVE IgnoresArrival(l)
<1> SUFFICES ASSUME NEW p \in Bijection(DOMAIN l, DOMAIN l)
             PROVE  LET other == [k \in DOMAIN l |-> l[p[k]]]
                    IN /\ ToSet(Merge(other)) = ToSet(Merge(l))
                       /\ [k \in DOMAIN Merge(other) |-> Scores(l)[Merge(other)[k]]]
                            = [k \in DOMAIN Merge(l) |-> Scores(l)[Merge(l)[k]]]
  BY DEF IgnoresArrival
<1> DEFINE other == [k \in DOMAIN l |-> l[p[k]]]
<1>1. other \in Seq(Seq(S)) /\ ToSet(Flatten(other)) = ToSet(Flatten(l))
  BY FlattenIgnoresOrder
<1>2. \A url : Cardinality(Units(other, url)) = Cardinality(Units(l, url))
  BY UnitsIgnoreOrder
<1> HIDE DEF other
<1>3. Scores(other) = Scores(l)
  BY <1>1, <1>2 DEF Scores
<1>4. /\ Merge(other) \in Seq(S) /\ IsInjective(Merge(other))
      /\ ToSet(Merge(other)) = ToSet(Flatten(l)) /\ Descending(Merge(other), Scores(l))
  BY <1>1, <1>3, MergeProperties
<1>5. /\ Merge(l) \in Seq(S) /\ IsInjective(Merge(l))
      /\ ToSet(Merge(l)) = ToSet(Flatten(l)) /\ Descending(Merge(l), Scores(l))
      /\ \A url \in ToSet(Flatten(l)) : Scores(l)[url] \in Int
  BY MergeProperties
<1>6. [k \in DOMAIN Merge(other) |-> Scores(l)[Merge(other)[k]]]
        = [k \in DOMAIN Merge(l) |-> Scores(l)[Merge(l)[k]]]
  BY <1>4, <1>5, FusedAlike
<1> QED BY <1>4, <1>5, <1>6 DEF other

-----------------------------------------------------------------------------
(* Ranking. *)

\* The repaired reply names every place of the head once.
LEMMA RepairProperties ==
  ASSUME NEW reply \in Seq(Int), NEW n \in Nat
  PROVE  /\ Repair(reply, n) \in Seq(1..n) /\ Len(Repair(reply, n)) = n
         /\ ToSet(Repair(reply, n)) = 1..n /\ IsInjective(Repair(reply, n))
<1> DEFINE kept == Keep(reply, 1..n)
           named == Distinct(kept)
           all == [k \in 1..n |-> k]
           others == Keep(all, (1..n) \ ToSet(named))
<1>1. kept \in Seq(Int \cap (1..n))
  BY KeepProperties
<1>2. kept \in Seq(1..n)
  BY <1>1
<1> HIDE DEF kept
<1>3. named \in Seq(1..n) /\ IsInjective(named) /\ ToSet(named) \subseteq 1..n
  <2>1. named \in Seq(1..n) /\ IsInjective(named)
    BY <1>2, DistinctProperties
  <2> HIDE DEF named
  <2> QED BY <2>1 DEF ToSet
<1> HIDE DEF named
<1>4. all \in Seq(1..n) /\ ToSet(all) = 1..n /\ IsInjective(all)
  BY DEF ToSet, IsInjective
<1> HIDE DEF all
<1>5. /\ others \in Seq(1..n) /\ IsInjective(others)
      /\ ToSet(others) = ToSet(all) \cap ((1..n) \ ToSet(named))
  BY <1>4, KeepProperties
<1> HIDE DEF others
<1>6. /\ named \o others \in Seq(1..n)
      /\ ToSet(named \o others) = ToSet(named) \cup ToSet(others)
      /\ IsInjective(named) /\ IsInjective(others) /\ ToSet(named) \cap ToSet(others) = {}
           => IsInjective(named \o others)
  BY <1>3, <1>5, ConcatElements
<1>7. ToSet(named \o others) = 1..n /\ IsInjective(named \o others)
  BY <1>3, <1>4, <1>5, <1>6
<1>8. Repair(reply, n) = named \o others
  BY Zenon DEF Repair, kept, named, all, others
<1>9. Len(named \o others) = Cardinality(1..n) /\ Cardinality(1..n) = n
  BY <1>6, <1>7, ElementCount, UpTo
<1> QED BY <1>6, <1>7, <1>8, <1>9

\* Reordering by the repaired reply keeps the head.
LEMMA RerankedProperties ==
  ASSUME NEW S, NEW head \in Seq(S), IsInjective(head), NEW reply \in Seq(Int)
  PROVE  LET order == Repair(reply, Len(head))
             reranked == [k \in DOMAIN order |-> head[order[k]]]
         IN /\ reranked \in Seq(S) /\ Len(reranked) = Len(head)
            /\ IsInjective(reranked) /\ ToSet(reranked) = ToSet(head)
<1> DEFINE n == Len(head)
           order == Repair(reply, n)
           r == [k \in DOMAIN order |-> head[order[k]]]
<1>1. n \in Nat /\ DOMAIN head = 1..n /\ \A k \in 1..n : head[k] \in S
  OBVIOUS
<1> HIDE DEF n
<1>2. order \in Seq(1..n) /\ Len(order) = n /\ ToSet(order) = 1..n /\ IsInjective(order)
  BY <1>1, RepairProperties
<1> HIDE DEF order
<1>3. DOMAIN order = 1..n /\ \A k \in 1..n : order[k] \in 1..n
  BY <1>2
<1>4. r \in Seq(S) /\ Len(r) = n
  BY <1>1, <1>3
<1>5. IsInjective(r)
  <2> SUFFICES ASSUME NEW i \in 1..n, NEW j \in 1..n, r[i] = r[j] PROVE i = j
    BY <1>3 DEF IsInjective
  <2>1. order[i] = order[j]
    BY <1>1, <1>3 DEF IsInjective
  <2> QED BY <2>1, <1>2, <1>3 DEF IsInjective
<1>6. ToSet(r) = ToSet(head)
  <2>1. DOMAIN r = 1..n /\ \A k \in 1..n : r[k] = head[order[k]]
    BY <1>3
  <2>2. \A j \in 1..n : \E k \in 1..n : order[k] = j
    BY <1>2, <1>3 DEF ToSet
  <2> HIDE DEF r
  <2>3. \A k \in 1..n : r[k] \in ToSet(head)
    BY <1>1, <1>3, <2>1 DEF ToSet
  <2>4. ASSUME NEW j \in 1..n PROVE head[j] \in ToSet(r)
    <3>1. PICK k \in 1..n : order[k] = j
      BY <2>2
    <3>2. r[k] = head[j] /\ k \in DOMAIN r
      BY <2>1, <3>1
    <3> QED BY <3>2 DEF ToSet
  <2> QED BY <2>1, <2>3, <2>4, <1>1 DEF ToSet
<1> QED BY <1>4, <1>5, <1>6 DEF n, order

Setting == [top_n : Nat, exploration_slots : Nat, max_results_shown : Int]

\* The head and the rest share the results between them.
LEMMA HeadAndRest ==
  ASSUME NEW S, NEW results \in Seq(S), IsInjective(results),
         NEW taste, \A x \in ToSet(results) : taste[x] \in Int, NEW cfg \in Setting
  PROVE  LET head == TasteHead(results, taste, cfg)
             rest == Leftover(results, taste, cfg)
         IN /\ head \in Seq(S) /\ IsInjective(head) /\ rest \in Seq(S) /\ IsInjective(rest)
            /\ ToSet(head) \cap ToSet(rest) = {}
            /\ ToSet(head) \cup ToSet(rest) = ToSet(results)
            /\ Len(head) = IF cfg.top_n < Len(results) THEN cfg.top_n ELSE Len(results)
<1> DEFINE sorted == ByTaste(results, taste)
           n == cfg.top_n
           N == Len(results)
           head == FirstOf(sorted, n)
           rest == SubSeq(sorted, n + 1, N)
           h == HowMany(sorted, n)
<1>1. n \in Nat /\ N \in Nat
  BY DEF Setting
<1>2. /\ sorted \in Seq(S) /\ IsInjective(sorted) /\ Len(sorted) = N
      /\ ToSet(sorted) = ToSet(results)
  BY SortProperties DEF ByTaste
<1>3. head = TasteHead(results, taste, cfg) /\ rest = Leftover(results, taste, cfg)
  BY Zenon DEF TasteHead, Leftover
<1> HIDE DEF sorted, n, N
<1>4. /\ h \in 0..N /\ h = (IF n < N THEN n ELSE N)
      /\ head \in Seq(S) /\ Len(head) = h /\ \A k \in 1..h : head[k] = sorted[k]
      /\ IsInjective(head)
  <2>1. n \in Int
    BY <1>1
  <2>2. /\ h \in 0..Len(sorted)
        /\ head \in Seq(S) /\ Len(head) = h /\ \A k \in 1..h : head[k] = sorted[k]
        /\ IsInjective(sorted) => IsInjective(head)
    BY <1>2, <2>1, FirstOfProperties
  <2>3. h = (IF n < N THEN n ELSE N)
    BY <1>1, <1>2 DEF HowMany
  <2> QED BY <1>2, <2>2, <2>3
<1>5. /\ rest \in Seq(S) /\ IsInjective(rest)
      /\ ToSet(rest) = {sorted[k] : k \in (n + 1)..N}
  <2>1. n + 1 \in Nat \ {0} /\ N \in Int /\ N <= Len(sorted)
    BY <1>1, <1>2
  <2> QED BY <1>2, <2>1, PartProperties
<1> HIDE DEF head, rest, h
<1>6. DOMAIN sorted = 1..N /\ DOMAIN head = 1..h
  BY <1>2, <1>4
<1>7. ToSet(head) = {sorted[k] : k \in 1..h}
  BY <1>4, <1>6 DEF ToSet
<1>8. ToSet(sorted) = {sorted[k] : k \in 1..N}
  BY <1>6 DEF ToSet
<1>9. \A k \in 1..N : k \in 1..h \/ k \in (n + 1)..N
  BY <1>1, <1>4
<1>10. 1..h \subseteq 1..N /\ (n + 1)..N \subseteq 1..N
  BY <1>1, <1>4
<1>11. \A j \in 1..h, k \in (n + 1)..N : sorted[j] # sorted[k]
  <2> SUFFICES ASSUME NEW j \in 1..h, NEW k \in (n + 1)..N, sorted[j] = sorted[k] PROVE FALSE
    OBVIOUS
  <2>1. j = k
    BY <1>2, <1>6, <1>10 DEF IsInjective
  <2> QED BY <2>1, <1>1, <1>4
<1>12. ToSet(head) \cap ToSet(rest) = {}
  BY <1>5, <1>7, <1>11
<1>13. ToSet(head) \cup ToSet(rest) = ToSet(results)
  BY <1>2, <1>5, <1>7, <1>8, <1>9, <1>10
<1> QED BY <1>3, <1>4, <1>5, <1>12, <1>13 DEF n, N

\* The explorers are the first of the rest by doubt.
LEMMA ExplorersProperties ==
  ASSUME NEW S, NEW results \in Seq(S), IsInjective(results),
         NEW taste \in [ToSet(results) -> Int], NEW cfg \in Setting
  PROVE  LET rest == ToSet(Leftover(results, taste, cfg))
             explorers == Explorers(results, taste, cfg)
         IN /\ explorers \in Seq(S) /\ IsInjective(explorers)
            /\ ToSet(explorers) \subseteq rest
            /\ \A e \in ToSet(explorers), r \in rest \ ToSet(explorers) :
                 Abs(taste[e]) <= Abs(taste[r])
            /\ LET n == Len(Leftover(results, taste, cfg))
               IN Len(explorers) = IF cfg.exploration_slots < n THEN cfg.exploration_slots ELSE n
<1> DEFINE rest == Leftover(results, taste, cfg)
           doubt == [i \in DOMAIN taste |-> -Abs(taste[i])]
           sorted == StableSort(rest, doubt)
           n == cfg.exploration_slots
           ex == FirstOf(sorted, n)
           N == Len(rest)
           h == HowMany(sorted, n)
<1>1. n \in Nat
  BY DEF Setting
<1>2. /\ rest \in Seq(S) /\ IsInjective(rest) /\ ToSet(rest) \subseteq ToSet(results)
  <2>1. \A x \in ToSet(results) : taste[x] \in Int
    OBVIOUS
  <2> QED BY <2>1, HeadAndRest
<1>3. \A x \in ToSet(results) : taste[x] \in Int /\ Abs(taste[x]) \in Int
                              /\ doubt[x] = -Abs(taste[x]) /\ doubt[x] \in Int
  BY DEF Abs
<1>4. ex = Explorers(results, taste, cfg)
  BY Zenon DEF Explorers
<1> HIDE DEF rest, doubt, n
<1>5. \A x \in ToSet(rest) : doubt[x] \in Int
  BY <1>2, <1>3
<1>6. /\ sorted \in Seq(S) /\ IsInjective(sorted) /\ Len(sorted) = N
      /\ ToSet(sorted) = ToSet(rest) /\ Descending(sorted, doubt)
  BY <1>2, <1>5, SortProperties
<1> HIDE DEF sorted
<1>7. /\ h \in 0..N /\ h = (IF n < N THEN n ELSE N)
      /\ ex \in Seq(S) /\ Len(ex) = h /\ \A k \in 1..h : ex[k] = sorted[k]
      /\ IsInjective(ex) /\ ToSet(ex) \subseteq ToSet(rest)
  <2>1. n \in Int /\ N \in Nat
    BY <1>1, <1>2
  <2>2. /\ h \in 0..Len(sorted)
        /\ ex \in Seq(S) /\ Len(ex) = h /\ \A k \in 1..h : ex[k] = sorted[k]
        /\ ToSet(ex) \subseteq ToSet(sorted)
        /\ IsInjective(sorted) => IsInjective(ex)
    BY <1>6, <2>1, FirstOfProperties
  <2>3. h = (IF n < N THEN n ELSE N)
    BY <1>1, <1>6, <2>1 DEF HowMany
  <2> QED BY <1>6, <2>2, <2>3
<1> HIDE DEF ex, h, N
<1>8. DOMAIN sorted = 1..N /\ DOMAIN ex = 1..h /\ N \in Nat
  BY <1>2, <1>6, <1>7 DEF N
<1>9. ASSUME NEW e \in ToSet(ex), NEW r \in ToSet(rest) \ ToSet(ex)
      PROVE  Abs(taste[e]) <= Abs(taste[r])
  <2>1. PICK j \in 1..h : ex[j] = e
    BY <1>8 DEF ToSet
  <2>2. PICK k \in 1..N : sorted[k] = r
    BY <1>6, <1>8 DEF ToSet
  <2>3. k \notin 1..h
    <3> SUFFICES ASSUME k \in 1..h PROVE FALSE
      OBVIOUS
    <3>1. ex[k] = r /\ k \in DOMAIN ex
      BY <1>7, <1>8, <2>2
    <3> QED BY <3>1 DEF ToSet
  <2>4. j < k /\ j \in DOMAIN sorted /\ k \in DOMAIN sorted /\ sorted[j] = e
    BY <1>7, <1>8, <2>1, <2>3
  <2>5. doubt[e] >= doubt[r]
    BY <1>6, <2>2, <2>4 DEF Descending
  <2>6. e \in ToSet(results) /\ r \in ToSet(results)
    BY <1>2, <1>7
  <2> QED BY <2>5, <2>6, <1>3
<1> QED BY <1>4, <1>7, <1>9 DEF rest, n, N

\* The parts of the order of a run: what remains of the reordered head, and the explorers.
LEMMA RankParts ==
  ASSUME NEW S, NEW results \in Seq(S), IsInjective(results),
         NEW taste \in [ToSet(results) -> Int], NEW reply \in Seq(Int), NEW cfg \in Setting
  PROVE  LET head == TasteHead(results, taste, cfg)
             explorers == Explorers(results, taste, cfg)
         IN \E kept \in Seq(S) :
              /\ Rank(results, taste, reply, cfg) = kept \o explorers
              /\ IsInjective(kept) /\ ToSet(kept) \subseteq ToSet(head)
              /\ Len(kept) = IF Len(head) < Len(explorers) THEN 0 ELSE Len(head) - Len(explorers)
<1> DEFINE head == TasteHead(results, taste, cfg)
           ex == Explorers(results, taste, cfg)
           order == Repair(reply, Len(head))
           reranked == [k \in DOMAIN order |-> head[order[k]]]
           most == Max({Len(head) - Len(ex), 0})
           kept == FirstOf(reranked, most)
<1>1. head \in Seq(S) /\ IsInjective(head)
  BY HeadAndRest
<1>2. ex \in Seq(S)
  BY ExplorersProperties
<1>3. Rank(results, taste, reply, cfg) = kept \o ex
  BY Zenon DEF Rank
<1> HIDE DEF head, ex
<1>4. /\ reranked \in Seq(S) /\ Len(reranked) = Len(head)
      /\ IsInjective(reranked) /\ ToSet(reranked) = ToSet(head)
  BY <1>1, RerankedProperties
<1> HIDE DEF reranked
<1>5. Len(head) \in Nat /\ Len(ex) \in Nat
  BY <1>1, <1>2
<1>6. most = (IF Len(head) < Len(ex) THEN 0 ELSE Len(head) - Len(ex)) /\ most \in Nat
  <2> DEFINE room == Len(head) - Len(ex)
  <2>2. room \in Int /\ most = Max({room, 0})
    BY <1>5
  <2> HIDE DEF room, most
  <2>3. most = IF room < 0 THEN 0 ELSE room
    <3>1. \A b \in Int : Max({room, b}) = IF room < b THEN b ELSE room
      BY <2>2, OfTwo
    <3>2. Max({room, 0}) = IF room < 0 THEN 0 ELSE room
      BY <3>1
    <3> QED BY <3>2, <2>2
  <2>1. most = IF Len(head) - Len(ex) < 0 THEN 0 ELSE Len(head) - Len(ex)
    BY <2>3 DEF room
  <2> QED BY <2>1, <1>5
<1>7. HowMany(reranked, most) = most
  BY <1>4, <1>5, <1>6 DEF HowMany
<1> HIDE DEF most
<1>8. /\ kept \in Seq(S) /\ IsInjective(kept) /\ ToSet(kept) \subseteq ToSet(head)
      /\ Len(kept) = most
  <2>1. most \in Int
    BY <1>6
  <2>2. /\ kept \in Seq(S) /\ Len(kept) = HowMany(reranked, most)
        /\ ToSet(kept) \subseteq ToSet(reranked)
        /\ IsInjective(reranked) => IsInjective(kept)
    BY <1>4, <2>1, FirstOfProperties
  <2> QED BY <2>2, <1>4, <1>7
<1> HIDE DEF kept
<1> QED BY <1>3, <1>6, <1>8 DEF head, ex

\* The order of a run has each of its results once, loses as many of the head as there are
\* explorers, and ends with those.  With no more slots than places it is as long as the head.
LEMMA RankProperties ==
  ASSUME NEW S, NEW results \in Seq(S), IsInjective(results),
         NEW taste \in [ToSet(results) -> Int], NEW reply \in Seq(Int), NEW cfg \in Setting
  PROVE  LET order == Rank(results, taste, reply, cfg)
         IN /\ order \in Seq(S) /\ IsInjective(order) /\ ToSet(order) \subseteq ToSet(results)
            /\ cfg.exploration_slots <= cfg.top_n
                 => Len(order) = IF cfg.top_n < Len(results) THEN cfg.top_n ELSE Len(results)
            /\ LosesNothing(results, taste, order, cfg)
            /\ ExploresTheUncertain(results, taste, order, cfg)
            /\ Len(results) > 0 /\ Len(order) = 0 => cfg.top_n = 0 /\ cfg.exploration_slots = 0
<1> DEFINE head == TasteHead(results, taste, cfg)
           rest == Leftover(results, taste, cfg)
           ex == Explorers(results, taste, cfg)
           order == Rank(results, taste, reply, cfg)
<1>1. /\ head \in Seq(S) /\ IsInjective(head) /\ rest \in Seq(S) /\ IsInjective(rest)
      /\ ToSet(head) \cap ToSet(rest) = {}
      /\ ToSet(head) \cup ToSet(rest) = ToSet(results)
      /\ Len(head) = IF cfg.top_n < Len(results) THEN cfg.top_n ELSE Len(results)
  <2>1. \A x \in ToSet(results) : taste[x] \in Int
    OBVIOUS
  <2> QED BY <2>1, HeadAndRest
<1>2. /\ ex \in Seq(S) /\ IsInjective(ex) /\ ToSet(ex) \subseteq ToSet(rest)
      /\ \A e \in ToSet(ex), r \in ToSet(rest) \ ToSet(ex) : Abs(taste[e]) <= Abs(taste[r])
      /\ Len(ex) = IF cfg.exploration_slots < Len(rest) THEN cfg.exploration_slots ELSE Len(rest)
  BY ExplorersProperties
<1>3. PICK kept \in Seq(S) :
              /\ order = kept \o ex
              /\ IsInjective(kept) /\ ToSet(kept) \subseteq ToSet(head)
              /\ Len(kept) = IF Len(head) < Len(ex) THEN 0 ELSE Len(head) - Len(ex)
  BY RankParts
<1>4. LosesNothing(results, taste, order, cfg)
        <=> LET lost  == ToSet(head) \ ToSet(order)
                extra == ToSet(order) \ ToSet(head)
            IN /\ Len(order) = Cardinality(ToSet(order))
               /\ ToSet(order) \subseteq ToSet(results)
               /\ Cardinality(lost) = Min({Cardinality(extra), Cardinality(ToSet(head))})
  BY Zenon DEF LosesNothing
<1>5. ExploresTheUncertain(results, taste, order, cfg)
        <=> LET others == ToSet(results) \ ToSet(head)
                extra  == ToSet(order) \ ToSet(head)
            IN /\ \A j, k \in DOMAIN order : j < k /\ order[j] \in extra => order[k] \in extra
               /\ \A e \in extra, r \in others \ extra : Abs(taste[e]) <= Abs(taste[r])
               /\ Cardinality(extra) = Min({cfg.exploration_slots, Cardinality(others)})
  BY Zenon DEF ExploresTheUncertain
<1> HIDE DEF head, rest, ex, order
<1>6. Len(head) \in Nat /\ Len(ex) \in Nat /\ Len(kept) \in Nat /\ Len(results) \in Nat
  BY <1>1, <1>2
<1>7. /\ order \in Seq(S) /\ Len(order) = Len(kept) + Len(ex)
      /\ \A k \in 1..Len(kept) : order[k] = kept[k]
      /\ \A k \in (Len(kept) + 1)..(Len(kept) + Len(ex)) : order[k] = ex[k - Len(kept)]
      /\ ToSet(order) = ToSet(kept) \cup ToSet(ex)
      /\ IsInjective(kept) /\ IsInjective(ex) /\ ToSet(kept) \cap ToSet(ex) = {}
           => IsInjective(order)
  <2>1. LET r == kept \o ex
        IN /\ r \in Seq(S) /\ Len(r) = Len(kept) + Len(ex)
           /\ \A k \in 1..Len(kept) : r[k] = kept[k]
           /\ \A k \in (Len(kept) + 1)..(Len(kept) + Len(ex)) : r[k] = ex[k - Len(kept)]
           /\ ToSet(r) = ToSet(kept) \cup ToSet(ex)
           /\ IsInjective(kept) /\ IsInjective(ex) /\ ToSet(kept) \cap ToSet(ex) = {}
                => IsInjective(r)
    BY <1>2, ConcatElements
  <2> QED BY <2>1, <1>3, Zenon
<1>8. IsInjective(order)
  BY <1>1, <1>2, <1>3, <1>7
<1>9. ToSet(order) \subseteq ToSet(results)
  BY <1>1, <1>2, <1>3, <1>7
<1>10. /\ ToSet(order) \ ToSet(head) = ToSet(ex)
       /\ ToSet(head) \ ToSet(order) = ToSet(head) \ ToSet(kept)
  BY <1>1, <1>2, <1>3, <1>7
<1>11. /\ Cardinality(ToSet(head)) = Len(head) /\ Cardinality(ToSet(kept)) = Len(kept)
       /\ Cardinality(ToSet(ex)) = Len(ex) /\ Cardinality(ToSet(order)) = Len(order)
       /\ Cardinality(ToSet(rest)) = Len(rest) /\ IsFiniteSet(ToSet(head))
  BY <1>1, <1>2, <1>3, <1>7, <1>8, ElementCount
<1>12. Cardinality(ToSet(head) \ ToSet(kept)) = Len(head) - Len(kept)
  <2>1. ToSet(head) \cap ToSet(kept) = ToSet(kept)
    BY <1>3
  <2>2. Cardinality(ToSet(head) \ ToSet(kept))
          = Cardinality(ToSet(head)) - Cardinality(ToSet(head) \cap ToSet(kept))
    BY <1>11, FS_Difference
  <2> QED BY <2>1, <2>2, <1>11
<1>13. LosesNothing(results, taste, order, cfg)
  <2>1. Min({Len(ex), Len(head)}) = IF Len(ex) < Len(head) THEN Len(ex) ELSE Len(head)
    BY <1>6, OfTwo
  <2>2. Len(head) - Len(kept) = Min({Len(ex), Len(head)})
    BY <2>1, <1>3, <1>6
  <2> QED BY <2>2, <1>4, <1>9, <1>10, <1>11, <1>12
<1>14. ToSet(results) \ ToSet(head) = ToSet(rest)
  BY <1>1
<1>15. ASSUME NEW j \in DOMAIN order, NEW k \in DOMAIN order, j < k, order[j] \in ToSet(ex)
       PROVE  order[k] \in ToSet(ex)
  <2>1. DOMAIN order = 1..(Len(kept) + Len(ex)) /\ DOMAIN kept = 1..Len(kept) /\ DOMAIN ex = 1..Len(ex)
    BY <1>2, <1>6, <1>7
  <2>2. j \notin 1..Len(kept)
    <3> SUFFICES ASSUME j \in 1..Len(kept) PROVE FALSE
      OBVIOUS
    <3>1. order[j] \in ToSet(kept)
      BY <2>1, <1>7 DEF ToSet
    <3> QED BY <3>1, <1>1, <1>2, <1>3, <1>15
  <2>3. k \in (Len(kept) + 1)..(Len(kept) + Len(ex)) /\ k - Len(kept) \in 1..Len(ex)
    BY <2>1, <2>2, <1>6, <1>15
  <2>4. order[k] = ex[k - Len(kept)]
    BY <2>3, <1>7
  <2> QED BY <2>1, <2>3, <2>4 DEF ToSet
<1>16. ExploresTheUncertain(results, taste, order, cfg)
  <2>1. cfg.exploration_slots \in Int /\ Len(rest) \in Int
    BY <1>1 DEF Setting
  <2>2. Len(ex) = Min({cfg.exploration_slots, Len(rest)})
    BY <2>1, <1>2, OfTwo
  <2> QED BY <2>2, <1>2, <1>5, <1>10, <1>11, <1>14, <1>15
<1>17. ASSUME Len(results) > 0, Len(order) = 0
       PROVE  cfg.top_n = 0 /\ cfg.exploration_slots = 0
  <2>1. cfg.top_n \in Nat
    BY DEF Setting
  <2>2. Len(ex) = 0 /\ Len(kept) = 0 /\ Len(head) = 0
    BY <1>3, <1>6, <1>7, <1>17
  <2>3. cfg.top_n = 0
    <3>1. Len(head) = IF cfg.top_n < Len(results) THEN cfg.top_n ELSE Len(results)
      BY <1>1
    <3>2. \A t, n \in Nat : n > 0 /\ 0 = (IF t < n THEN t ELSE n) => t = 0
      OBVIOUS
    <3> QED BY <3>1, <3>2, <2>1, <2>2, <1>6, <1>17
  <2>4. Len(rest) # 0
    <3> SUFFICES ASSUME Len(rest) = 0 PROVE FALSE
      OBVIOUS
    <3>1. ToSet(head) = {} /\ ToSet(rest) = {}
      BY <2>2, <1>1 DEF ToSet
    <3>2. results[1] \in ToSet(results)
      BY <1>6, <1>17 DEF ToSet
    <3> QED BY <3>1, <3>2, <1>1
  <2>5. Len(ex) = cfg.exploration_slots
    BY <2>2, <2>4, <1>2
  <2> QED BY <2>2, <2>3, <2>5
<1>18. ASSUME cfg.exploration_slots <= cfg.top_n
       PROVE  Len(order) = IF cfg.top_n < Len(results) THEN cfg.top_n ELSE Len(results)
  <2>1. cfg.top_n \in Nat /\ cfg.exploration_slots \in Nat /\ Len(rest) \in Nat
    BY <1>1 DEF Setting
  <2>2. Len(rest) = Len(results) - Len(head)
    <3>1. IsFiniteSet(ToSet(results)) /\ Cardinality(ToSet(results)) = Len(results)
      BY ElementCount
    <3>2. ToSet(results) \cap ToSet(head) = ToSet(head)
      BY <1>1
    <3>3. Cardinality(ToSet(results) \ ToSet(head))
            = Cardinality(ToSet(results)) - Cardinality(ToSet(results) \cap ToSet(head))
      BY <3>1, FS_Difference
    <3> QED BY <3>1, <3>2, <3>3, <1>11, <1>14
  <2>3. Len(order) = IF Len(head) < Len(ex) THEN Len(ex) ELSE Len(head)
    BY <1>3, <1>6, <1>7
  <2>4. ~(Len(head) < Len(ex))
    BY <2>1, <2>2, <1>1, <1>2, <1>6, <1>18
  <2> QED BY <2>3, <2>4, <1>1
<1> QED BY <1>7, <1>8, <1>9, <1>13, <1>16, <1>17, <1>18 DEF order

-----------------------------------------------------------------------------
(* The end of a run. *)

\* A finished run marks all it delivers or, if its search is gone, nothing.
LEMMA FinishProperties ==
  ASSUME NEW store \in Store, NEW order \in Seq(Items), query \in Queries, ranking \in Setting,
         Finish(store, order)
  PROVE  /\ db' \in Store
         /\ Listed(db') = Listed(store)
         /\ ToSet(Deliver(order, ranking)) \subseteq ToSet(order)
         /\ \/ db'.shown = store.shown \cup ToSet(Deliver(order, ranking))
            \/ query \notin Listed(store) /\ db'.shown = store.shown
<1> DEFINE all == ToSet(Deliver(order, ranking))
           ids(scheduled) == IF query \in Listed(store) \/ scheduled THEN all ELSE {}
           marked(scheduled) == MarkShown(store, ids(scheduled))
<1>1. PICK scheduled \in BOOLEAN :
        db' = IF query \in Listed(store) /\ scheduled THEN SqlUpsert(marked(scheduled), query)
              ELSE marked(scheduled)
  BY Zenon DEF Finish
<1>2. all \subseteq ToSet(order)
  <2>1. ranking.max_results_shown \in Int
    BY DEF Setting
  <2> QED BY <2>1, FirstOfProperties DEF Deliver
<1>3. ToSet(order) \subseteq Items
  BY DEF ToSet
<1> HIDE DEF all
<1> DEFINE m == marked(scheduled)
<1>4. m \in Store /\ Listed(m) = Listed(store) /\ m.shown = store.shown \cup ids(scheduled)
  <2>1. ids(scheduled) \in SUBSET Items
    BY <1>2, <1>3
  <2> HIDE DEF ids
  <2> QED BY <2>1, MarkShownProperties
<1>5. db' \in Store /\ Listed(db') = Listed(store) /\ db'.shown = m.shown
  <2> HIDE DEF marked
  <2>1. db' = m \/ (query \in Listed(store) /\ db' = SqlUpsert(m, query))
    BY <1>1
  <2>2. CASE db' = m
    BY <2>2, <1>4
  <2>3. CASE query \in Listed(store) /\ db' = SqlUpsert(m, query)
    <3>1. /\ SqlUpsert(m, query) \in Store
          /\ Listed(SqlUpsert(m, query)) = Listed(m) \cup {query}
          /\ SqlUpsert(m, query).shown = m.shown
      BY <1>4, SqlUpsertProperties
    <3> QED BY <2>3, <3>1, <1>4
  <2> QED BY <2>1, <2>2, <2>3
<1>6. \/ db'.shown = store.shown \cup all
      \/ query \notin Listed(store) /\ db'.shown = store.shown
  BY <1>4, <1>5
<1> QED BY <1>2, <1>5, <1>6 DEF all

-----------------------------------------------------------------------------
(* The runs. *)

\* What a run has in hand besides: a numbered list of searches, lists of urls, results that
\* were not shown, and a search that is on the list unless it was deleted.
RunInHand ==
  /\ stage = "searching" => \E n \in Nat : DOMAIN searches = 1..n
  /\ lists \in Seq(Seq(Urls))
  /\ unseen \in Seq(Items)
  /\ stage = "ranking" => ToSet(unseen) \cap db.shown = {}
  /\ stage # "none" => query \in Queries /\ query \in Listed(db) \cup deleted
  /\ Listed(db) \subseteq saved

IInv == TypeOK /\ RunInHand /\ ReplyLosesNothing /\ ExplorersAreUncertain

\* With nothing to rank nothing is lost or explored.
LEMMA NothingToRank ==
  ASSUME NEW cfg \in Setting
  PROVE  /\ LosesNothing(<<>>, <<>>, <<>>, cfg)
         /\ ExploresTheUncertain(<<>>, <<>>, <<>>, cfg)
<1> DEFINE none == <<>>
           head == TasteHead(none, none, cfg)
<1>1. none \in Seq(Items) /\ IsInjective(none) /\ ToSet(none) = {} /\ Len(none) = 0 /\ DOMAIN none = {}
  BY DEF IsInjective, ToSet
<1>2. LosesNothing(none, none, none, cfg)
        <=> LET lost  == ToSet(head) \ ToSet(none)
                extra == ToSet(none) \ ToSet(head)
            IN /\ Len(none) = Cardinality(ToSet(none))
               /\ ToSet(none) \subseteq ToSet(none)
               /\ Cardinality(lost) = Min({Cardinality(extra), Cardinality(ToSet(head))})
  BY Zenon DEF LosesNothing
<1>3. ExploresTheUncertain(none, none, none, cfg)
        <=> LET rest  == ToSet(none) \ ToSet(head)
                extra == ToSet(none) \ ToSet(head)
            IN /\ \A j, k \in DOMAIN none : j < k /\ none[j] \in extra => none[k] \in extra
               /\ \A e \in extra, r \in rest \ extra : Abs(none[e]) <= Abs(none[r])
               /\ Cardinality(extra) = Min({cfg.exploration_slots, Cardinality(rest)})
  BY Zenon DEF ExploresTheUncertain
<1> HIDE DEF none
<1>4. ToSet(head) = {}
  <2>1. \A x \in ToSet(none) : none[x] \in Int
    BY <1>1
  <2> HIDE DEF head
  <2>2. ToSet(head) \cup ToSet(Leftover(none, none, cfg)) = ToSet(none)
    BY <1>1, <2>1, HeadAndRest DEF head
  <2> QED BY <2>2, <1>1
<1> HIDE DEF head
<1>5. Cardinality({}) = 0
  BY FS_EmptySet
<1>6. Min({0, 0}) = 0 /\ Min({cfg.exploration_slots, 0}) = 0
  <2>1. cfg.exploration_slots \in Nat
    BY DEF Setting
  <2>2. cfg.exploration_slots \in Int /\ 0 \in Int
    BY <2>1
  <2> QED BY <2>1, <2>2, OfTwo
<1> QED BY <1>1, <1>2, <1>3, <1>4, <1>5, <1>6 DEF none

\* The invariant holds in every initial state.
LEMMA InitInv == Init => IInv
<1> SUFFICES ASSUME Init PROVE IInv
  OBVIOUS
<1>1. Empty \in Store /\ Listed(Empty) = {}
  BY DEF Empty, Store, Listed, ToSet
<1>2. IsInjective(<<>>) /\ ToSet(<<>>) = {}
  BY DEF IsInjective, ToSet
<1>3. TypeOK
  BY <1>1, <1>2 DEF Init, TypeOK, Stages
<1>4. RunInHand
  BY <1>1 DEF Init, RunInHand
<1>5. ReplyLosesNothing /\ ExplorersAreUncertain
  <2>1. ranking \in Setting /\ batch.from = <<>> /\ batch.taste = <<>> /\ batch.order = <<>>
    BY RankingAssumption DEF Init, Setting, NoBatch
  <2> QED BY <2>1, NothingToRank DEF ReplyLosesNothing, ExplorersAreUncertain
<1> QED BY <1>3, <1>4, <1>5 DEF IInv

\* What was ranked stays well ranked while neither it nor the settings change.
LEMMA BatchKept ==
  ASSUME ReplyLosesNothing, ExplorersAreUncertain, UNCHANGED <<batch, ranking>>
  PROVE  ReplyLosesNothing' /\ ExplorersAreUncertain'
BY DEF ReplyLosesNothing, ExplorersAreUncertain

\* Saving a search keeps the invariant.
LEMMA SaveInv ==
  ASSUME IInv, NEW q \in Queries, Save(q) PROVE IInv'
<1> USE DEF IInv
<1>1. db \in Store
  BY DEF TypeOK
<1>2. db' \in Store /\ Listed(db') = Listed(db) \cup {q} /\ db'.shown = db.shown
  BY <1>1, SqlUpsertProperties DEF Save
<1>3. TypeOK'
  BY <1>2 DEF Save, hand, TypeOK
<1>4. RunInHand'
  BY <1>2 DEF Save, hand, RunInHand
<1> QED BY <1>3, <1>4, BatchKept DEF Save, hand

\* So does deleting one, of which a run may be under way.
LEMMA DeleteInv ==
  ASSUME IInv, NEW q \in Queries, DeleteSearch(q) PROVE IInv'
<1> USE DEF IInv
<1>1. db \in Store
  BY DEF TypeOK
<1>2. db' \in Store /\ Listed(db') = Listed(db) \ {q} /\ db'.shown = db.shown
  BY <1>1, SqlDeleteProperties DEF DeleteSearch
<1>3. TypeOK'
  BY <1>2 DEF DeleteSearch, hand, TypeOK, RunInHand
<1>4. RunInHand'
  BY <1>2 DEF DeleteSearch, hand, RunInHand
<1> QED BY <1>3, <1>4, BatchKept DEF DeleteSearch, hand

\* So does beginning a run.
LEMMA BeginInv ==
  ASSUME IInv, NEW q \in Queries, Begin(q) PROVE IInv'
<1> USE DEF IInv
<1>1. TypeOK'
  BY DEF Begin, TypeOK, Stages
<1>2. RunInHand'
  BY DEF Begin, RunInHand
<1> QED BY <1>1, <1>2, BatchKept DEF Begin

\* So does writing the domain back, also of a search deleted meanwhile.
LEMMA ClassifiedInv ==
  ASSUME IInv, Classified PROVE IInv'
<1> USE DEF IInv
<1>1. db \in Store /\ query \in Queries /\ query \in saved
  BY DEF TypeOK, RunInHand, Classified
<1>2. db' \in Store /\ Listed(db') = Listed(db) \cup {query} /\ db'.shown = db.shown
  BY <1>1, SqlUpsertProperties DEF Classified
<1>3. TypeOK'
  BY <1>1, <1>2 DEF Classified, hand, TypeOK, Stages
<1>4. RunInHand'
  BY <1>1, <1>2 DEF Classified, hand, RunInHand
<1> QED BY <1>3, <1>4, BatchKept DEF Classified, hand

\* So does expanding a search.
LEMMA ExpandedInv ==
  ASSUME IInv, Expanded PROVE IInv'
<1> USE DEF IInv
<1>1. PICK reply \in Texts : searches' = Expand(reply)
  BY DEF Expanded
<1>2. reply \in Seq(STRING)
  BY CurationAssumption
<1>3. /\ searches' # <<>> /\ IsInjective(searches')
      /\ \E n \in Nat : DOMAIN searches' = 1..n
  BY <1>1, <1>2, ExpandProperties
<1>4. TypeOK'
  BY <1>3 DEF Expanded, TypeOK, Stages
<1>5. RunInHand'
  BY <1>3 DEF Expanded, RunInHand
<1> QED BY <1>4, <1>5, BatchKept DEF Expanded

\* So do the answers of the searches.
LEMMA SearchedInv ==
  ASSUME IInv, Searched PROVE IInv'
<1> USE DEF IInv
<1>1. Lists \subseteq Seq(Urls)
  BY SearchProperties, CurationAssumption DEF Lists
<1>2. PICK n \in Nat : DOMAIN searches = 1..n
  BY DEF Searched, RunInHand
<1>3. lists' \in [1..n -> Seq(Urls)]
  BY <1>1, <1>2 DEF Searched
<1>4. lists' \in Seq(Seq(Urls))
  BY <1>3
<1>5. TypeOK'
  BY DEF Searched, TypeOK, Stages
<1>6. RunInHand'
  BY <1>4 DEF Searched, RunInHand
<1> QED BY <1>5, <1>6, BatchKept DEF Searched

\* So does the last delivery of a run.
LEMMA SentInv ==
  ASSUME IInv, Sent PROVE IInv'
<1> USE DEF IInv
<1>1. TypeOK'
  BY DEF Sent, TypeOK, Stages
<1>2. RunInHand'
  BY DEF Sent, RunInHand
<1>3. /\ ranking' = ranking /\ ranking \in Setting
      /\ batch'.from = <<>> /\ batch'.taste = <<>> /\ batch'.order = <<>>
  BY RankingAssumption DEF Sent, TypeOK, Setting, NoBatch
<1>4. ReplyLosesNothing' /\ ExplorersAreUncertain'
  BY <1>3, NothingToRank DEF ReplyLosesNothing, ExplorersAreUncertain
<1> QED BY <1>1, <1>2, <1>4

\* A failing call leaves nothing in hand.
LEMMA CallFailsInv ==
  ASSUME IInv, CallFails PROVE IInv'
<1> USE DEF IInv
<1>1. IsInjective(<<>>) /\ ToSet(<<>>) = {}
  BY DEF IsInjective, ToSet
<1>2. TypeOK'
  BY <1>1 DEF CallFails, TypeOK, Stages
<1>3. RunInHand'
  BY <1>1 DEF CallFails, RunInHand
<1> QED BY <1>2, <1>3, BatchKept DEF CallFails

\* Reconciling and linking keep the invariant: what is handed to the ranker was not shown.
LEMMA ReconciledInv ==
  ASSUME IInv, Reconciled PROVE IInv'
<1> USE DEF IInv
<1> DEFINE merged == Merge(lists)
           stored(found) == [db EXCEPT !.corpus = db.corpus \cup Range(found)]
           ids(found) == [k \in DOMAIN merged |-> found[merged[k]]]
           linked(found) == SqlLink(stored(found), query, ids(found))
<1>1. PICK found \in [ToSet(merged) -> Items] :
        /\ unseen' = Unseen(linked(found), query)
        /\ IF unseen' = <<>> THEN Finish(linked(found), <<>>) ELSE db' = linked(found)
  BY Zenon DEF Reconciled
<1>2. /\ db \in Store /\ query \in Queries /\ query \in Listed(db) \cup deleted
      /\ Listed(db) \subseteq saved /\ ranking \in Setting /\ lists \in Seq(Seq(Urls))
  BY RankingAssumption DEF TypeOK, RunInHand, Reconciled, Setting
<1>3. merged \in Seq(Urls)
  BY <1>2, MergeProperties
<1> HIDE DEF merged
<1>4. ids(found) \in Seq(Items)
  <2>1. \A k \in DOMAIN merged : merged[k] \in ToSet(merged)
    BY DEF ToSet
  <2> QED BY <2>1, <1>3
<1>5. /\ stored(found) \in Store /\ Listed(stored(found)) = Listed(db)
      /\ stored(found).shown = db.shown
  <2> DEFINE corpus == db.corpus \cup Range(found)
  <2>1. corpus \in SUBSET Items
    BY <1>2 DEF Range, Store
  <2> HIDE DEF corpus
  <2>2. LET new == [db EXCEPT !.corpus = corpus]
        IN /\ new \in Store /\ new.rows = db.rows /\ new.shown = db.shown
    BY <2>1, <1>2, CorpusPart
  <2> QED BY <2>2 DEF Listed, corpus
<1> HIDE DEF stored, ids
<1>6. /\ linked(found) \in Store /\ Listed(linked(found)) = Listed(db)
      /\ linked(found).shown = db.shown /\ IsInjective(linked(found).links[query])
  BY <1>2, <1>4, <1>5, SqlLinkProperties
<1> HIDE DEF linked
<1>7. /\ unseen' \in Seq(Items) /\ IsInjective(unseen')
      /\ ToSet(unseen') \subseteq Items \ linked(found).shown
  BY <1>1, <1>2, <1>6, UnseenProperties
<1>8. /\ db' \in Store /\ Listed(db') = Listed(db)
      /\ unseen' # <<>> => ToSet(unseen') \cap db'.shown = {}
  <2>1. CASE unseen' = <<>>
    <3>1. Finish(linked(found), <<>>)
      BY <1>1, <2>1
    <3>2. <<>> \in Seq(Items)
      OBVIOUS
    <3> QED BY <3>1, <3>2, <2>1, <1>2, <1>6, FinishProperties
  <2>2. CASE unseen' # <<>>
    BY <2>2, <1>1, <1>6, <1>7
  <2> QED BY <2>1, <2>2
<1>9. /\ stage = "reconciling" /\ stage' = IF unseen' = <<>> THEN "sending" ELSE "ranking"
      /\ lists' = <<>>
      /\ UNCHANGED <<query, searches, batch, ranking, cached, saved, deleted>>
  BY DEF Reconciled
<1>10. TypeOK'
  BY <1>7, <1>8, <1>9 DEF TypeOK, Stages
<1>11. RunInHand'
  BY <1>2, <1>7, <1>8, <1>9 DEF RunInHand
<1> QED BY <1>9, <1>10, <1>11, BatchKept

\* What the ranker was handed, what it made of it, and what was delivered of that.
LEMMA RankedFacts ==
  ASSUME IInv, Ranked
  PROVE  /\ batch'.order \in Seq(Items) /\ ToSet(batch'.order) \subseteq ToSet(unseen)
         /\ Len(batch'.order) = 0 => ranking.top_n = 0 /\ ranking.exploration_slots = 0
         /\ ReplyLosesNothing' /\ ExplorersAreUncertain'
         /\ db' \in Store /\ Listed(db') = Listed(db)
         /\ ToSet(Deliver(batch'.order, ranking)) \subseteq ToSet(batch'.order)
         /\ \/ db'.shown = db.shown \cup ToSet(Deliver(batch'.order, ranking))
            \/ query \notin Listed(db) /\ db'.shown = db.shown
<1> USE DEF IInv
<1>1. PICK t \in Tastes, reply \in Orders :
        LET taste == Restrict(t, ToSet(unseen))
            order == Rank(unseen, taste, reply, ranking)
        IN /\ batch' = [from |-> unseen, taste |-> taste, order |-> order]
           /\ Finish(db, order)
  BY DEF Ranked
<1> DEFINE taste == Restrict(t, ToSet(unseen))
           order == Rank(unseen, taste, reply, ranking)
<1>2. /\ db \in Store /\ query \in Queries /\ ranking \in Setting
      /\ unseen \in Seq(Items) /\ IsInjective(unseen) /\ unseen # <<>>
      /\ ToSet(unseen) \subseteq Items
  BY RankingAssumption DEF TypeOK, RunInHand, Ranked, Setting
<1>3. taste \in [ToSet(unseen) -> Int] /\ reply \in Seq(Int)
  BY <1>2, CurationAssumption DEF Restrict
<1>4. Len(unseen) > 0
  BY <1>2
<1>5. /\ batch'.from = unseen /\ batch'.taste = taste /\ batch'.order = order
      /\ Finish(db, order)
  BY <1>1
<1> HIDE DEF taste
<1>6. /\ order \in Seq(Items) /\ ToSet(order) \subseteq ToSet(unseen)
      /\ LosesNothing(unseen, taste, order, ranking)
      /\ ExploresTheUncertain(unseen, taste, order, ranking)
      /\ Len(order) = 0 => ranking.top_n = 0 /\ ranking.exploration_slots = 0
  BY <1>2, <1>3, <1>4, RankProperties
<1> HIDE DEF order
<1>7. ReplyLosesNothing' /\ ExplorersAreUncertain'
  <2>1. ranking' = ranking
    BY DEF Ranked
  <2> QED BY <2>1, <1>5, <1>6 DEF ReplyLosesNothing, ExplorersAreUncertain
<1>8. /\ db' \in Store /\ Listed(db') = Listed(db)
      /\ ToSet(Deliver(order, ranking)) \subseteq ToSet(order)
      /\ \/ db'.shown = db.shown \cup ToSet(Deliver(order, ranking))
         \/ query \notin Listed(db) /\ db'.shown = db.shown
  BY <1>2, <1>5, <1>6, FinishProperties
<1> QED BY <1>5, <1>6, <1>7, <1>8

\* Ranking keeps the invariant.
LEMMA RankedInv ==
  ASSUME IInv, Ranked PROVE IInv'
<1> USE DEF IInv
<1>1. /\ db' \in Store /\ Listed(db') = Listed(db)
      /\ ReplyLosesNothing' /\ ExplorersAreUncertain'
  BY RankedFacts
<1>2. IsInjective(<<>>) /\ ToSet(<<>>) = {}
  BY DEF IsInjective, ToSet
<1>3. TypeOK'
  BY <1>1, <1>2 DEF Ranked, TypeOK, Stages
<1>4. RunInHand'
  BY <1>1, <1>2 DEF Ranked, RunInHand
<1> QED BY <1>1, <1>3, <1>4

\* Every step keeps the invariant.
LEMMA NextInv == IInv /\ [Next]_vars => IInv'
<1> SUFFICES ASSUME IInv, [Next]_vars PROVE IInv'
  OBVIOUS
<1>1. CASE Classified
  BY <1>1, ClassifiedInv
<1>2. CASE Expanded
  BY <1>2, ExpandedInv
<1>3. CASE Searched
  BY <1>3, SearchedInv
<1>4. CASE Reconciled
  BY <1>4, ReconciledInv
<1>5. CASE Ranked
  BY <1>5, RankedInv
<1>6. CASE Sent
  BY <1>6, SentInv
<1>7. CASE CallFails
  BY <1>7, CallFailsInv
<1>8. ASSUME NEW q \in Queries, Save(q) \/ DeleteSearch(q) \/ Begin(q) PROVE IInv'
  BY <1>8, SaveInv, DeleteInv, BeginInv
<1>9. CASE UNCHANGED vars
  <2>1. TypeOK'
    BY <1>9 DEF IInv, vars, hand, TypeOK
  <2>2. RunInHand'
    BY <1>9 DEF IInv, vars, hand, RunInHand
  <2> QED BY <2>1, <2>2, <1>9, BatchKept DEF IInv, vars, hand
<1> QED BY <1>1, <1>2, <1>3, <1>4, <1>5, <1>6, <1>7, <1>8, <1>9 DEF Next

\* What runs leave in the store and in hand keeps its shape and belongs together.
THEOREM InvariantHolds == Spec => []IInv
BY InitInv, NextInv, PTL DEF Spec

\* The variables keep their shape, and every stage finds in hand what it needs.
THEOREM TypeCorrect == Spec => []TypeOK
<1>1. IInv => TypeOK
  BY DEF IInv
<1> QED BY <1>1, InvariantHolds, PTL

\* In whatever order the searches' lists arrive, the same urls with the same scores are
\* fused, each score at its place.
THEOREM FusionIsFair == Spec => []FusionIgnoresArrival
<1>1. IInv => FusionIgnoresArrival
  BY FusionIgnoresOrder DEF IInv, RunInHand, FusionIgnoresArrival
<1> QED BY <1>1, InvariantHolds, PTL

\* No reply of the reranker loses or repeats a result, but for those of the head that
\* explorers displace one for one.
THEOREM NothingIsLost == Spec => []ReplyLosesNothing
<1>1. IInv => ReplyLosesNothing
  BY DEF IInv
<1> QED BY <1>1, InvariantHolds, PTL

\* The exploration slots go to the results the taste is least sure of, at the end.
THEOREM ExplorersAreLeastSure == Spec => []ExplorersAreUncertain
<1>1. IInv => ExplorersAreUncertain
  BY DEF IInv
<1> QED BY <1>1, InvariantHolds, PTL

NewOnly ==
  stage = "ranking" /\ stage' = "sending" =>
    LET new == db'.shown \ db.shown
    IN /\ new \subseteq ToSet(unseen)
       /\ new = {} => \/ query \in deleted
                      \/ ranking.max_results_shown <= 0
                      \/ ranking.top_n = 0 /\ ranking.exploration_slots = 0
       /\ new # {} => new = ToSet(Deliver(batch'.order, ranking))

\* A ranked run delivers something, and only what was never delivered.
LEMMA RankedNewOnly ==
  ASSUME IInv, Ranked PROVE NewOnly
<1> DEFINE new == db'.shown \ db.shown
           sent == Deliver(batch'.order, ranking)
<1>1. /\ batch'.order \in Seq(Items) /\ ToSet(batch'.order) \subseteq ToSet(unseen)
      /\ Len(batch'.order) = 0 => ranking.top_n = 0 /\ ranking.exploration_slots = 0
      /\ ToSet(sent) \subseteq ToSet(batch'.order)
      /\ \/ db'.shown = db.shown \cup ToSet(sent)
         \/ query \notin Listed(db) /\ db'.shown = db.shown
  BY RankedFacts
<1>2. /\ ToSet(unseen) \cap db.shown = {} /\ query \in Listed(db) \cup deleted
      /\ ranking \in Setting
  BY RankingAssumption DEF IInv, RunInHand, Ranked, TypeOK, Setting
<1>3. ASSUME ranking.max_results_shown > 0, Len(batch'.order) # 0 PROVE ToSet(sent) # {}
  <2>1. ranking.max_results_shown \in Int
    BY <1>2 DEF Setting
  <2>2. /\ sent \in Seq(Items)
        /\ Len(sent) = HowMany(batch'.order, ranking.max_results_shown)
    BY <1>1, <2>1, FirstOfProperties DEF Deliver
  <2> HIDE DEF sent
  <2>3. Len(sent) >= 1
    BY <2>1, <2>2, <1>1, <1>3 DEF HowMany
  <2>4. sent[1] \in ToSet(sent)
    BY <2>2, <2>3 DEF ToSet
  <2> QED BY <2>4
<1> HIDE DEF sent
<1>4. new \in {ToSet(sent), {}} /\ new \subseteq ToSet(unseen)
  BY <1>1, <1>2
<1>5. ASSUME new = {}
      PROVE  \/ query \in deleted
             \/ ranking.max_results_shown <= 0
             \/ ranking.top_n = 0 /\ ranking.exploration_slots = 0
  <2>1. CASE query \notin Listed(db)
    BY <2>1, <1>2
  <2>2. CASE db'.shown = db.shown \cup ToSet(sent)
    <3>1. ToSet(sent) = {}
      BY <2>2, <1>1, <1>2, <1>5
    <3>2. ~(ranking.max_results_shown > 0) \/ Len(batch'.order) = 0
      BY <3>1, <1>3
    <3>3. ranking.max_results_shown \in Int
      BY <1>2 DEF Setting
    <3> QED BY <3>2, <3>3, <1>1
  <2> QED BY <2>1, <2>2, <1>1
<1> QED BY <1>4, <1>5 DEF NewOnly, sent

\* A run that had unseen results to rank delivers at least one of them and none that was
\* delivered before, unless its search was deleted or its settings leave nothing.
THEOREM OnlyNewIsDelivered == Spec => PassedOverOnlyForNew
<1>1. ASSUME IInv, [Next]_vars PROVE [NewOnly]_vars
  <2>1. CASE Ranked
    BY <2>1, <1>1, RankedNewOnly
  <2>2. CASE ~Ranked
    BY <2>2, <1>1 DEF NewOnly, Next, vars, hand, Classified, Expanded, Searched, Reconciled,
                      Sent, CallFails, Save, DeleteSearch, Begin
  <2> QED BY <2>1, <2>2
<1>2. PassedOverOnlyForNew <=> [][NewOnly]_vars
  BY Zenon DEF PassedOverOnlyForNew, NewOnly
<1> QED BY <1>1, <1>2, InvariantHolds, PTL DEF Spec

-----------------------------------------------------------------------------
(* What Assistant takes a run to deliver. *)

\* Limit and Picks of Assistant, with the settings they stand for.
Limit(cfg) == Min({cfg.top_n, cfg.max_results_shown})
Picks(cfg, results) ==
  {sent \in SUBSET results :
     Cardinality(sent) = IF Limit(cfg) < Cardinality(results) THEN Limit(cfg)
                                                              ELSE Cardinality(results)}

\* The cap and the places bound what is delivered of an order, and nothing else does.
LEMMA DeliveredFills ==
  ASSUME NEW S, NEW results \in Seq(S), IsInjective(results),
         NEW taste \in [ToSet(results) -> Int], NEW reply \in Seq(Int), NEW cfg \in Setting,
         cfg.exploration_slots <= cfg.top_n, cfg.max_results_shown >= 0
  PROVE  ToSet(Deliver(Rank(results, taste, reply, cfg), cfg)) \in Picks(cfg, ToSet(results))
<1> DEFINE order == Rank(results, taste, reply, cfg)
           n == cfg.max_results_shown
           sent == FirstOf(order, n)
<1>1. /\ order \in Seq(S) /\ IsInjective(order) /\ ToSet(order) \subseteq ToSet(results)
      /\ Len(order) = IF cfg.top_n < Len(results) THEN cfg.top_n ELSE Len(results)
  BY RankProperties
<1>2. Deliver(order, cfg) = sent
  BY Zenon DEF Deliver
<1> HIDE DEF order
<1>3. cfg.top_n \in Nat /\ n \in Nat /\ Len(results) \in Nat /\ Len(order) \in Nat
  BY <1>1 DEF Setting
<1> HIDE DEF n
<1>4. /\ sent \in Seq(S) /\ Len(sent) = HowMany(order, n)
      /\ IsInjective(sent) /\ ToSet(sent) \subseteq ToSet(order)
  <2>1. n \in Int
    BY <1>3
  <2>2. /\ sent \in Seq(S) /\ Len(sent) = HowMany(order, n)
        /\ ToSet(sent) \subseteq ToSet(order)
        /\ IsInjective(order) => IsInjective(sent)
    BY <1>1, <2>1, FirstOfProperties
  <2> QED BY <1>1, <2>2
<1> HIDE DEF sent
<1>5. Len(sent) = IF n < Len(order) THEN n ELSE Len(order)
  BY <1>3, <1>4 DEF HowMany
<1>6. Limit(cfg) = IF cfg.top_n < n THEN cfg.top_n ELSE n
  <2>1. cfg.top_n \in Int /\ n \in Int
    BY <1>3
  <2> QED BY <2>1, OfTwo DEF Limit, n
<1>7. Cardinality(ToSet(sent)) = Len(sent) /\ Cardinality(ToSet(results)) = Len(results)
  BY <1>4, ElementCount
<1>8. Len(sent) = IF Limit(cfg) < Len(results) THEN Limit(cfg) ELSE Len(results)
  BY <1>1, <1>3, <1>5, <1>6
<1> QED BY <1>1, <1>2, <1>4, <1>7, <1>8 DEF Picks, order

DeliversPicks ==
  [][stage = "ranking" /\ stage' = "sending"
       /\ ranking.exploration_slots <= ranking.top_n /\ ranking.max_results_shown >= 0
       => ToSet(Deliver(batch'.order, ranking)) \in Picks(ranking, ToSet(unseen))]_vars

\* What a ranked run delivers is what Assistant lets it deliver: of its unseen results as
\* many as the places and the cap allow, provided there are no more exploration slots than
\* places and the cap is not negative.
THEOREM DeliversWhatAssistantPicks == Spec => DeliversPicks
<1> DEFINE Fits == ranking.exploration_slots <= ranking.top_n /\ ranking.max_results_shown >= 0
           A == stage = "ranking" /\ stage' = "sending"
                  /\ ranking.exploration_slots <= ranking.top_n /\ ranking.max_results_shown >= 0
                  => ToSet(Deliver(batch'.order, ranking)) \in Picks(ranking, ToSet(unseen))
<1>1. ASSUME IInv, [Next]_vars PROVE [A]_vars
  <2>1. CASE Ranked /\ Fits
    <3>1. /\ ranking \in Setting /\ unseen \in Seq(Items) /\ IsInjective(unseen)
      BY <1>1, RankingAssumption DEF IInv, TypeOK, RunInHand, Setting
    <3>2. PICK t \in Tastes, reply \in Orders :
            batch'.order = Rank(unseen, Restrict(t, ToSet(unseen)), reply, ranking)
      BY <2>1 DEF Ranked
    <3>3. Restrict(t, ToSet(unseen)) \in [ToSet(unseen) -> Int] /\ reply \in Seq(Int)
      BY <1>1, CurationAssumption DEF Restrict, IInv, TypeOK
    <3> QED BY <2>1, <3>1, <3>2, <3>3, DeliveredFills
  <2>2. CASE ~(Ranked /\ Fits)
    BY <2>2, <1>1 DEF Next, vars, hand, Classified, Expanded, Searched, Reconciled,
                      Sent, CallFails, Save, DeleteSearch, Begin
  <2> QED BY <2>1, <2>2
<1>2. DeliversPicks <=> [][A]_vars
  BY Zenon DEF DeliversPicks
<1> QED BY <1>1, <1>2, InvariantHolds, PTL DEF Spec
=============================================================================
