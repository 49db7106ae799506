------------------------------- MODULE Lists --------------------------------
(***************************************************************************)
(* What Python's lists, sets and sorted give the code, on sequences.  Each *)
(* of them drops elements or puts them in another order, so each says at   *)
(* which place an element comes to stand: after those that go before it.   *)
(***************************************************************************)
EXTENDS Integers, SequencesExt

\* The elements of s at some of its positions, in their order.
At(s, P) ==
  [n \in 1..Cardinality(P) |-> s[CHOOSE k \in P : Cardinality({j \in P : j < k}) + 1 = n]]

\* The elements of s that are in S.
Keep(s, S) == At(s, {k \in DOMAIN s : s[k] \in S})

\* The first occurrence of each element.
Distinct(s) == At(s, {k \in DOMAIN s : \A j \in 1..(k - 1) : s[j] # s[k]})

\* The places of several lists: which list, and where in it.
Places(lists) == UNION {{l} \X (DOMAIN lists[l]) : l \in DOMAIN lists}

\* One list after another.
Flatten(lists) ==
  LET Before(p, q) == p[1] < q[1] \/ (p[1] = q[1] /\ p[2] < q[2])
      places == Places(lists)
      Nth(n) == CHOOSE p \in places : Cardinality({q \in places : Before(q, p)}) + 1 = n
  IN [n \in 1..Cardinality(places) |-> lists[Nth(n)[1]][Nth(n)[2]]]

\* Python's sorted, the greatest key first: elements with one key stay in their order.
StableSort(s, key) ==
  LET Before(i, j) == key[s[i]] > key[s[j]] \/ (key[s[i]] = key[s[j]] /\ i < j)
  IN [n \in DOMAIN s |->
        s[CHOOSE i \in DOMAIN s : Cardinality({j \in DOMAIN s : Before(j, i)}) + 1 = n]]

\* s[:n], which leaves out the last -n elements if n is negative.
FirstOf(s, n) == SubSeq(s, 1, IF n < 0 THEN Len(s) + n ELSE Min({n, Len(s)}))

Abs(n) == IF n < 0 THEN -n ELSE n
=============================================================================
