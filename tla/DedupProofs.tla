---------------------------- MODULE DedupProofs ----------------------------
(***************************************************************************)
(* Proofs about Dedup, for any runs, sightings and fields.                 *)
(*                                                                         *)
(* Every write is a merge of a sighting into a target, and every target is *)
(* a view of its canonical: the stored record or a run's copy of it.  The  *)
(* invariants say what all views of one canonical have in common.          *)
(***************************************************************************)
EXTENDS Dedup, TLAPS

-----------------------------------------------------------------------------
(* The inductive invariant. *)

\* What provenance names is a source, and its value is there.
Truthful(t) ==
  \A f \in Fields :
    t.prov[f] # None =>
      /\ t.prov[f] \in t.sources
      /\ \E p \in Parts : Group[p] = f /\ t.fields[p] = t.prov[f]

AllTruthful ==
  /\ \A c \in Raws : Truthful(corpus[c])
  /\ \A r \in Runs, c \in Raws : Truthful(byId[r][c])

\* Until it is suspended, a run's copies are what is stored.
Current ==
  \A r \in Runs, c \in Raws :
    /\ pc[r] = "start" => byId[r][c] = Absent
    /\ pc[r] = "triage" => byId[r][c] \in {Absent, corpus[c]}

\* A canonical has the sighting it was created from.
OwnSource ==
  /\ \A c \in Raws : corpus[c] = Absent \/ c \in corpus[c].sources
  /\ \A r \in Runs, c \in Raws : byId[r][c] = Absent \/ c \in byId[r][c].sources

\* Some view of canonical c has sighting x.
In(x, c) == x \in corpus[c].sources \/ \E r \in Runs : x \in byId[r][c].sources

OneHome == \A x, c, d \in Raws : In(x, c) /\ In(x, d) => c = d

\* The pairs of a sequence of them, and that no two are about one sighting.
Pairs(s) == {s[i] : i \in 1..Len(s)}

Distinct(s) == \A i, j \in 1..Len(s) : s[i][1] = s[j][1] => i = j

\* What is not reconciled yet is nowhere, and waits in one place.
Waiting ==
  \A r \in Runs :
    /\ \A x \in todo[r] : RunOf[x] = r /\ \A c \in Raws : ~In(x, c)
    /\ \A p \in Pairs(held[r]) :
         /\ RunOf[p[1]] = r
         /\ p[1] \notin todo[r]
         /\ p[2] \in Corpus
         /\ \A c \in Raws : ~In(p[1], c)
    /\ Distinct(held[r])

\* A sighting waits, or is stored, or was exposed.
Accounted ==
  \A x \in Raws :
    \/ x \in todo[RunOf[x]]
    \/ \E p \in Pairs(held[RunOf[x]]) : p[1] = x
    \/ x \in exposed
    \/ \E c \in Raws : x \in corpus[c].sources

\* A run goes on when nothing waits.
InOrder ==
  \A r \in Runs :
    /\ pc[r] \in {"judging", "applying", "done"} => todo[r] = {}
    /\ pc[r] = "done" => held[r] = <<>>

\* What one view has and another lacks was exposed.
Agree(s, t) ==
  /\ s.sources \ t.sources \subseteq exposed
  /\ \A p \in Parts :
       s.fields[p] # None => t.fields[p] = s.fields[p] \/ s.fields[p] \in exposed

Coherent ==
  \A r \in Runs, c \in Raws :
    byId[r][c] # Absent =>
      /\ Agree(corpus[c], byId[r][c])
      /\ Agree(byId[r][c], corpus[c])
      /\ \A o \in Runs : byId[o][c] # Absent => Agree(byId[o][c], byId[r][c])

IInv ==
  /\ TypeOK /\ AllTruthful /\ Current /\ OwnSource /\ OneHome
  /\ Waiting /\ Accounted /\ InOrder /\ Coherent
-----------------------------------------------------------------------------
(* The queue of the judge. *)

\* Appending a pair adds it, and keeps the sightings distinct if its own is new.
LEMMA AppendPair ==
  ASSUME NEW s \in Seq(Raws \X Raws), NEW p \in Raws \X Raws
  PROVE  /\ Pairs(Append(s, p)) = Pairs(s) \cup {p}
         /\ Distinct(s) /\ (\A q \in Pairs(s) : q[1] # p[1]) => Distinct(Append(s, p))
<1>1. /\ Len(Append(s, p)) = Len(s) + 1 /\ Len(s) \in Nat
      /\ \A i \in 1..Len(s) : Append(s, p)[i] = s[i]
      /\ Append(s, p)[Len(s) + 1] = p
  OBVIOUS
<1>2. 1..(Len(s) + 1) = 1..Len(s) \cup {Len(s) + 1} /\ Len(s) + 1 \notin 1..Len(s)
  BY <1>1
<1>3. Pairs(Append(s, p)) = Pairs(s) \cup {p}
  BY <1>1, <1>2 DEF Pairs
<1>4. ASSUME Distinct(s), \A q \in Pairs(s) : q[1] # p[1]
      PROVE  Distinct(Append(s, p))
  <2>1. \A i \in 1..Len(s) : s[i][1] # p[1]
    BY <1>4 DEF Pairs
  <2> QED BY <1>1, <1>2, <1>4, <2>1 DEF Distinct
<1> QED BY <1>3, <1>4

\* The first pair and the others; no other is about the first's sighting.
LEMMA FirstPair ==
  ASSUME NEW s \in Seq(Raws \X Raws), s # <<>>
  PROVE  /\ Head(s) \in Raws \X Raws
         /\ Pairs(s) = Pairs(Tail(s)) \cup {Head(s)}
         /\ Distinct(s) => Distinct(Tail(s)) /\ \A q \in Pairs(Tail(s)) : q[1] # Head(s)[1]
<1>1. /\ Head(s) = s[1] /\ s[1] \in Raws \X Raws /\ Len(s) \in Nat \ {0}
      /\ Len(Tail(s)) = Len(s) - 1
      /\ \A i \in 1..(Len(s) - 1) : Tail(s)[i] = s[i + 1]
  OBVIOUS
<1>2. \A i \in 1..Len(s) : i = 1 \/ (i - 1 \in 1..(Len(s) - 1) /\ (i - 1) + 1 = i)
  BY <1>1
<1>3. \A i \in 1..(Len(s) - 1) : i + 1 \in 1..Len(s) /\ i + 1 # 1
  BY <1>1
<1>4. Pairs(s) \subseteq Pairs(Tail(s)) \cup {Head(s)}
  <2> SUFFICES ASSUME NEW i \in 1..Len(s) PROVE s[i] \in Pairs(Tail(s)) \cup {Head(s)}
    BY DEF Pairs
  <2>1. CASE i = 1
    BY <1>1, <2>1
  <2>2. CASE i - 1 \in 1..(Len(s) - 1) /\ (i - 1) + 1 = i
    <3>1. i - 1 \in 1..Len(Tail(s)) /\ Tail(s)[i - 1] = s[i]
      BY <1>1, <2>2
    <3> QED BY <3>1 DEF Pairs
  <2> QED BY <1>2, <2>1, <2>2
<1>5. Pairs(Tail(s)) \cup {Head(s)} \subseteq Pairs(s)
  BY <1>1, <1>3 DEF Pairs
<1>6. ASSUME Distinct(s) PROVE Distinct(Tail(s))
  BY <1>1, <1>3, <1>6 DEF Distinct
<1>7. ASSUME Distinct(s), NEW q \in Pairs(Tail(s)) PROVE q[1] # Head(s)[1]
  BY <1>1, <1>3, <1>7 DEF Distinct, Pairs
<1> QED BY <1>1, <1>4, <1>5, <1>6, <1>7

-----------------------------------------------------------------------------
(* Survivorship. *)

\* The empty canonical is well formed.
LEMMA AbsentType == Absent \in Canonicals
BY DEF Absent, Canonicals

\* Merging a sighting yields a canonical.
LEMMA MergeType ==
  ASSUME NEW t \in Canonicals, NEW x \in Raws
  PROVE  MergeInto(t, x) \in Canonicals
BY DEF MergeInto, Canonicals

\* Merging a sighting adds it to the sources, and keeps every part that is filled.
LEMMA MergeKeeps ==
  ASSUME NEW t \in Canonicals, NEW x \in Raws
  PROVE  /\ MergeInto(t, x).sources = t.sources \cup {x}
         /\ \A p \in Parts : t.fields[p] # None => MergeInto(t, x).fields[p] = t.fields[p]
         /\ \A p \in Parts : t.fields[p] = None => MergeInto(t, x).fields[p] \in {None, x}
BY DEF MergeInto, Canonicals

\* Merging a sighting keeps provenance truthful.
LEMMA MergeTruthful ==
  ASSUME NEW t \in Canonicals, NEW x \in Raws, Truthful(t)
  PROVE  Truthful(MergeInto(t, x))
<1> SUFFICES ASSUME NEW f \in Fields, MergeInto(t, x).prov[f] # None
             PROVE  /\ MergeInto(t, x).prov[f] \in MergeInto(t, x).sources
                    /\ \E p \in Parts : /\ Group[p] = f
                                        /\ MergeInto(t, x).fields[p] = MergeInto(t, x).prov[f]
  BY DEF Truthful
<1>1. CASE t.prov[f] # None
  <2>1. MergeInto(t, x).prov[f] = t.prov[f]
    BY <1>1 DEF MergeInto
  <2>2. PICK p \in Parts : Group[p] = f /\ t.fields[p] = t.prov[f]
    BY <1>1 DEF Truthful
  <2>3. t.prov[f] \in t.sources
    BY <1>1 DEF Truthful
  <2> QED BY <1>1, <2>1, <2>2, <2>3, MergeKeeps
<1>2. CASE t.prov[f] = None
  <2>1. /\ MergeInto(t, x).prov[f] = x
        /\ \E p \in Given[x] : Group[p] = f /\ t.fields[p] = None
    BY <1>2 DEF MergeInto
  <2>2. PICK p \in Given[x] : Group[p] = f /\ t.fields[p] = None
    BY <2>1
  <2>3. p \in Parts
    BY DedupAssumption
  <2>4. MergeInto(t, x).fields[p] = x
    BY <2>2, <2>3 DEF MergeInto
  <2> QED BY <2>1, <2>2, <2>3, <2>4, MergeKeeps
<1> QED BY <1>1, <1>2

-----------------------------------------------------------------------------
(***************************************************************************)
(* A write: run r merges sighting x into t and stores it as canonical c.   *)
(***************************************************************************)
\* t has what every view of c has.
Base(c, t) ==
  /\ t \in Canonicals
  /\ Truthful(t)
  /\ \A y \in t.sources : In(y, c)
  /\ Agree(t, corpus[c]) /\ Agree(corpus[c], t)
  /\ \A o \in Runs : byId[o][c] # Absent => Agree(t, byId[o][c]) /\ Agree(byId[o][c], t)

Write(r, x, c, t) ==
  /\ Base(c, t)
  /\ c \in t.sources \cup {x}
  /\ \A d \in Raws : ~In(x, d)
  /\ Upsert(r, c, MergeInto(t, x))
  /\ exposed' = exposed \cup {y \in {x} : \E o \in Runs \ {r} : byId[o][c] # Absent}

\* What a write does to the variables.
LEMMA WriteEffect ==
  ASSUME TypeOK, NEW r \in Runs, NEW x \in Raws, NEW c \in Raws, NEW t, Write(r, x, c, t)
  PROVE  /\ corpus' \in [Raws -> Canonicals]
         /\ byId' \in [Runs -> [Raws -> Canonicals]]
         /\ exposed' \subseteq Raws
         /\ exposed \subseteq exposed'
         /\ corpus'[c] = MergeInto(t, x)
         /\ byId'[r][c] = MergeInto(t, x)
         /\ \A d \in Raws : d # c => corpus'[d] = corpus[d]
         /\ \A o \in Runs, d \in Raws : o # r \/ d # c => byId'[o][d] = byId[o][d]
<1> DEFINE n == MergeInto(t, x)
<1>1. n \in Canonicals
  BY MergeType DEF Write, Base
<1>2. corpus' = [corpus EXCEPT ![c] = n] /\ byId' = [byId EXCEPT ![r][c] = n]
  BY DEF Write, Upsert
<1> HIDE DEF n
<1>3. /\ corpus' \in [Raws -> Canonicals]
      /\ corpus'[c] = n
      /\ \A d \in Raws : d # c => corpus'[d] = corpus[d]
  BY <1>1, <1>2 DEF TypeOK
<1>4. byId' \in [Runs -> [Raws -> Canonicals]]
  BY <1>1, <1>2 DEF TypeOK
<1>5. byId'[r][c] = n /\ \A o \in Runs, d \in Raws : o # r \/ d # c => byId'[o][d] = byId[o][d]
  BY <1>2 DEF TypeOK
<1>6. exposed' \subseteq Raws /\ exposed \subseteq exposed'
  BY DEF TypeOK, Write
<1> QED BY <1>3, <1>4, <1>5, <1>6 DEF n

\* A write keeps provenance truthful.
LEMMA WriteTruthful ==
  ASSUME TypeOK, AllTruthful,
         NEW r \in Runs, NEW x \in Raws, NEW c \in Raws, NEW t, Write(r, x, c, t)
  PROVE  AllTruthful'
<1>1. Truthful(MergeInto(t, x))
  BY MergeTruthful DEF Write, Base
<1>2. \A d \in Raws : Truthful(corpus'[d])
  BY <1>1, WriteEffect DEF AllTruthful
<1>3. \A o \in Runs, d \in Raws : Truthful(byId'[o][d])
  BY <1>1, WriteEffect DEF AllTruthful
<1> QED BY <1>2, <1>3 DEF AllTruthful, Truthful

\* A write brings its sighting into its canonical, and nothing else anywhere.
LEMMA WriteHomes ==
  ASSUME TypeOK, OwnSource, OneHome,
         NEW r \in Runs, NEW x \in Raws, NEW c \in Raws, NEW t, Write(r, x, c, t)
  PROVE  /\ OwnSource' /\ OneHome'
         /\ \A y, d \in Raws : In(y, d)' => In(y, d) \/ (y = x /\ d = c)
         /\ Corpus \subseteq Corpus'
<1>1. /\ t \in Canonicals
      /\ MergeInto(t, x).sources = t.sources \cup {x}
  BY MergeKeeps DEF Write, Base
<1>2. \A y, d \in Raws : In(y, d)' => In(y, d) \/ (y = x /\ d = c)
  <2> SUFFICES ASSUME NEW y \in Raws, NEW d \in Raws, In(y, d)'
               PROVE  In(y, d) \/ (y = x /\ d = c)
    OBVIOUS
  <2>1. y \in t.sources => In(y, c)
    BY DEF Write, Base
  <2>2. CASE y \in corpus'[d].sources
    BY <1>1, <2>1, <2>2, WriteEffect DEF In
  <2>3. ASSUME NEW o \in Runs, y \in byId'[o][d].sources
        PROVE  In(y, d) \/ (y = x /\ d = c)
    BY <1>1, <2>1, <2>3, WriteEffect DEF In
  <2> QED BY <2>2, <2>3 DEF In
<1>3. OneHome'
  <2>1. \A d \in Raws : ~In(x, d)
    BY DEF Write
  <2> QED BY <1>2, <2>1 DEF OneHome
<1>4. c \in MergeInto(t, x).sources
  BY <1>1 DEF Write
<1>5. OwnSource'
  BY <1>4, WriteEffect DEF OwnSource
<1>6. Corpus \subseteq Corpus'
  BY <1>4, WriteEffect DEF Corpus
<1> QED BY <1>2, <1>3, <1>5, <1>6
\* A write leaves the views of its canonical in agreement: the run's copy is what is
\* stored, and other copies lack no more than a sighting that is exposed by then.
LEMMA WriteCoherent ==
  ASSUME TypeOK, Coherent,
         NEW r \in Runs, NEW x \in Raws, NEW c \in Raws, NEW t, Write(r, x, c, t)
  PROVE  Coherent'
<1> DEFINE n == MergeInto(t, x)
<1>1. /\ t \in Canonicals
      /\ n.sources = t.sources \cup {x}
      /\ \A p \in Parts : t.fields[p] # None => n.fields[p] = t.fields[p]
      /\ \A p \in Parts : t.fields[p] = None => n.fields[p] \in {None, x}
  BY MergeKeeps DEF Write, Base
<1>2. /\ corpus'[c] = n /\ byId'[r][c] = n /\ exposed \subseteq exposed'
      /\ \A d \in Raws : d # c => corpus'[d] = corpus[d]
      /\ \A o \in Runs, d \in Raws : o # r \/ d # c => byId'[o][d] = byId[o][d]
  BY WriteEffect
<1> HIDE DEF n
<1>3. ASSUME NEW o \in Runs, o # r, byId[o][c] # Absent
      PROVE  Agree(n, byId[o][c])' /\ Agree(byId[o][c], n)'
  <2>1. x \in exposed'
    BY <1>3 DEF Write
  <2>2. Agree(t, byId[o][c]) /\ Agree(byId[o][c], t)
    BY <1>3 DEF Write, Base
  <2>3. byId'[o][c] = byId[o][c]
    BY <1>2, <1>3
  <2>4. Agree(n, byId[o][c])'
    BY <1>1, <1>2, <2>1, <2>2, <2>3 DEF Agree, n
  <2>5. Agree(byId[o][c], n)'
    BY <1>1, <1>2, <2>1, <2>2, <2>3 DEF Agree, n
  <2> QED BY <2>4, <2>5
<1>4. ASSUME NEW o \in Runs, NEW d \in Raws, byId'[o][d] # Absent
      PROVE  /\ Agree(corpus[d], byId[o][d])'
             /\ Agree(byId[o][d], corpus[d])'
             /\ \A q \in Runs : byId'[q][d] # Absent => Agree(byId[q][d], byId[o][d])'
  <2>1. CASE d # c
    <3>1. /\ corpus'[d] = corpus[d]
          /\ \A q \in Runs : byId'[q][d] = byId[q][d]
      BY <1>2, <2>1
    <3>2. /\ Agree(corpus[d], byId[o][d]) /\ Agree(byId[o][d], corpus[d])
          /\ \A q \in Runs : byId[q][d] # Absent => Agree(byId[q][d], byId[o][d])
      BY <1>4, <3>1 DEF Coherent
    <3> QED BY <1>2, <3>1, <3>2 DEF Agree
  <2>2. CASE d = c /\ o = r
    <3>1. Agree(corpus[d], byId[o][d])' /\ Agree(byId[o][d], corpus[d])'
      BY <1>2, <2>2 DEF Agree
    <3>2. ASSUME NEW q \in Runs, byId'[q][d] # Absent
          PROVE  Agree(byId[q][d], byId[o][d])'
      <4>1. CASE q = r
        BY <2>2, <4>1 DEF Agree
      <4>2. CASE q # r
        <5>1. byId'[q][c] = byId[q][c] /\ byId[q][c] # Absent
          BY <1>2, <2>2, <3>2, <4>2
        <5>2. Agree(byId[q][c], n)'
          BY <1>3, <4>2, <5>1
        <5> QED BY <1>2, <2>2, <5>2 DEF Agree, n
      <4> QED BY <4>1, <4>2
    <3> QED BY <3>1, <3>2
  <2>3. CASE d = c /\ o # r
    <3>1. byId'[o][c] = byId[o][c] /\ byId[o][c] # Absent
      BY <1>2, <1>4, <2>3
    <3>2. Agree(n, byId[o][c])' /\ Agree(byId[o][c], n)'
      BY <1>3, <2>3, <3>1
    <3>3. Agree(corpus[d], byId[o][d])' /\ Agree(byId[o][d], corpus[d])'
      BY <1>2, <2>3, <3>2 DEF Agree, n
    <3>4. ASSUME NEW q \in Runs, byId'[q][d] # Absent
          PROVE  Agree(byId[q][d], byId[o][d])'
      <4>1. CASE q = r
        BY <1>2, <2>3, <3>2, <4>1 DEF Agree, n
      <4>2. CASE q # r
        <5>1. byId'[q][c] = byId[q][c] /\ byId[q][c] # Absent
          BY <1>2, <2>3, <3>4, <4>2
        <5>2. Agree(byId[q][c], byId[o][c])
          BY <3>1, <5>1 DEF Coherent
        <5> QED BY <1>2, <2>3, <3>1, <5>1, <5>2 DEF Agree
      <4> QED BY <4>1, <4>2
    <3> QED BY <3>3, <3>4
  <2> QED BY <2>1, <2>2, <2>3
<1> QED BY <1>4 DEF Coherent

\* A write stores its sighting, and loses only what was exposed.
LEMMA WriteAccounts ==
  ASSUME TypeOK, NEW r \in Runs, NEW x \in Raws, NEW c \in Raws, NEW t, Write(r, x, c, t)
  PROVE  /\ x \in corpus'[c].sources
         /\ \A y, d \in Raws :
              y \in corpus[d].sources => y \in exposed' \/ y \in corpus'[d].sources
<1>1. t \in Canonicals /\ MergeInto(t, x).sources = t.sources \cup {x}
  BY MergeKeeps DEF Write, Base
<1>2. corpus[c].sources \ t.sources \subseteq exposed
  BY DEF Write, Base, Agree
<1> QED BY <1>1, <1>2, WriteEffect

\* A write keeps a filled part, unless its value came from what was exposed.
LEMMA WriteFills ==
  ASSUME TypeOK, NEW r \in Runs, NEW x \in Raws, NEW c \in Raws, NEW t, Write(r, x, c, t)
  PROVE  \A d \in Raws, p \in Parts :
           corpus[d].fields[p] # None =>
             corpus'[d].fields[p] = corpus[d].fields[p] \/ corpus[d].fields[p] \in exposed
<1>1. /\ t \in Canonicals
      /\ \A p \in Parts : t.fields[p] # None => MergeInto(t, x).fields[p] = t.fields[p]
  BY MergeKeeps DEF Write, Base
<1>2. Agree(corpus[c], t)
  BY DEF Write, Base
<1> QED BY <1>1, <1>2, WriteEffect DEF Agree

-----------------------------------------------------------------------------
(* The steps that write. *)

\* A run that takes the stored record, with provenance that is truthful, takes a base.
LEMMA StoredIsBase ==
  ASSUME TypeOK, AllTruthful, Coherent, NEW c \in Raws, NEW t \in Canonicals, Truthful(t),
         t.sources = corpus[c].sources, t.fields = corpus[c].fields
  PROVE  Base(c, t)
BY DEF Base, In, Agree, Coherent

\* So does a run that takes its own copy.
LEMMA CopyIsBase ==
  ASSUME TypeOK, AllTruthful, Coherent, NEW r \in Runs, NEW c \in Raws, byId[r][c] # Absent
  PROVE  Base(c, byId[r][c])
<1>1. byId[r][c] \in Canonicals /\ Truthful(byId[r][c])
  BY DEF TypeOK, AllTruthful
<1> QED BY <1>1 DEF Base, In, Coherent

\* An insert merges into the empty record, of which there is no view yet.
LEMMA InsertWrites ==
  ASSUME TypeOK, OwnSource, NEW r \in Runs, NEW x \in Raws, Insert(r, x),
         \A d \in Raws : ~In(x, d)
  PROVE  Write(r, x, x, Absent)
<1>1. corpus[x] = Absent /\ \A o \in Runs : byId[o][x] = Absent
  BY DEF OwnSource, In
<1>2. Truthful(Absent)
  BY DEF Truthful, Absent
<1>3. Agree(Absent, Absent)
  BY DEF Agree
<1>4. \A y \in Absent.sources : In(y, x)
  BY DEF Absent
<1>5. Base(x, Absent)
  BY <1>1, <1>2, <1>3, <1>4, AbsentType DEF Base
<1>6. exposed' = exposed \cup {y \in {x} : \E o \in Runs \ {r} : byId[o][x] # Absent}
  BY <1>1 DEF Insert
<1> QED BY <1>5, <1>6 DEF Write, Insert, NewGolden

\* A merge whose target is a base of a stored canonical is a write.
LEMMA MergeWrites ==
  ASSUME NEW r \in Runs, NEW x \in Raws, NEW c \in Raws, NEW t,
         Base(c, t), c \in t.sources, Merge(r, x, c, t), \A d \in Raws : ~In(x, d)
  PROVE  Write(r, x, c, t)
BY DEF Write, Merge

-----------------------------------------------------------------------------
(* Type correctness. *)

\* Storing a canonical keeps the stores well formed.
LEMMA UpsertType ==
  ASSUME TypeOK, NEW r \in Runs, NEW c \in Raws, NEW n \in Canonicals, Upsert(r, c, n)
  PROVE  corpus' \in [Raws -> Canonicals] /\ byId' \in [Runs -> [Raws -> Canonicals]]
<1>1. corpus' \in [Raws -> Canonicals]
  BY DEF Upsert, TypeOK
<1>2. byId' \in [Runs -> [Raws -> Canonicals]]
  BY DEF Upsert, TypeOK
<1> QED BY <1>1, <1>2

\* So do a merge into a canonical, and an insert.
LEMMA WriterType ==
  ASSUME TypeOK, NEW r \in Runs, NEW x \in Raws,
         \/ Insert(r, x)
         \/ \E c \in Raws, t \in Canonicals : Merge(r, x, c, t)
  PROVE  /\ corpus' \in [Raws -> Canonicals]
         /\ byId' \in [Runs -> [Raws -> Canonicals]]
         /\ exposed' \subseteq Raws
<1>1. CASE Insert(r, x)
  <2>1. NewGolden(x) \in Canonicals
    BY AbsentType, MergeType DEF NewGolden
  <2> QED BY <1>1, <2>1, UpsertType DEF Insert, TypeOK
<1>2. ASSUME NEW c \in Raws, NEW t \in Canonicals, Merge(r, x, c, t)
      PROVE  /\ corpus' \in [Raws -> Canonicals]
             /\ byId' \in [Runs -> [Raws -> Canonicals]]
             /\ exposed' \subseteq Raws
  <2>1. MergeInto(t, x) \in Canonicals
    BY MergeType
  <2> QED BY <1>2, <2>1, UpsertType DEF Merge, TypeOK
<1> QED BY <1>1, <1>2

\* What a run takes for a canonical is one.
LEMMA TargetType ==
  ASSUME TypeOK, NEW r \in Runs, NEW c \in Raws
  PROVE  Nearest(r, c) \in Canonicals /\ Resolve(r, c) \in Canonicals
<1>1. corpus[c] \in Canonicals /\ byId[r][c] \in Canonicals
  BY DEF TypeOK
<1>2. Nearest(r, c) \in Canonicals
  BY <1>1 DEF Nearest, Canonicals
<1>3. Resolve(r, c) \in Canonicals
  BY <1>1 DEF Resolve, Canonicals
<1> QED BY <1>2, <1>3

\* A run that starts or resumes does so alone.
LEMMA OneAtATime ==
  ASSUME TypeOK, NEW r \in Runs, StartTriage(r) \/ JudgeAnswers(r)
  PROVE  TypeOK'
<1>1. PICK s \in {"triage", "applying"} : pc' = [pc EXCEPT ![r] = s]
  BY DEF StartTriage, JudgeAnswers
<1>2. \A o \in Runs : pc[o] \notin {"triage", "applying"}
  BY DEF StartTriage, JudgeAnswers, LoopIsFree
<1>3. \A o \in Runs : o # r => pc'[o] = pc[o]
  BY <1>1 DEF TypeOK
<1>4. pc' \in [Runs -> {"start", "triage", "judging", "applying", "done", "failed"}]
  BY <1>1 DEF TypeOK
<1>5. UNCHANGED <<corpus, todo, held, byId, exposed>>
  BY DEF StartTriage, JudgeAnswers
<1> QED BY <1>2, <1>3, <1>4, <1>5 DEF TypeOK

\* Every step keeps the variables well formed.
LEMMA TypeStep == TypeOK /\ [Next]_vars => TypeOK'
<1> SUFFICES ASSUME TypeOK, [Next]_vars PROVE TypeOK'
  OBVIOUS
<1> USE DedupAssumption
<1>1. ASSUME NEW r \in Runs, StartTriage(r) \/ JudgeAnswers(r) PROVE TypeOK'
  BY <1>1, OneAtATime
<1>2. ASSUME NEW r \in Runs, EndTriage(r) \/ EndApply(r) \/ JudgeFails(r) PROVE TypeOK'
  <2>1. PICK s \in {"done", "judging", "failed"} : pc' = [pc EXCEPT ![r] = s]
    BY <1>2 DEF EndTriage, EndApply, JudgeFails
  <2>2. byId' = byId \/ byId' = [byId EXCEPT ![r] = [c \in Raws |-> Absent]]
    BY <1>2 DEF EndTriage, EndApply, JudgeFails, Forget
  <2>3. [c \in Raws |-> Absent] \in [Raws -> Canonicals]
    BY AbsentType
  <2>4. byId' \in [Runs -> [Raws -> Canonicals]]
    BY <2>2, <2>3 DEF TypeOK
  <2>5. UNCHANGED <<corpus, todo, held, exposed>>
    BY <1>2 DEF EndTriage, EndApply, JudgeFails
  <2> QED BY <2>1, <2>4, <2>5 DEF TypeOK
<1>3. ASSUME NEW x \in Raws, Triage(RunOf[x], x) PROVE TypeOK'
  <2> DEFINE r == RunOf[x]
  <2>1. r \in Runs
    OBVIOUS
  <2>2. CASE (Insert(r, x) \/ \E c \in Corpus : Merge(r, x, c, Nearest(r, c))) /\ UNCHANGED held
    <3>1. \/ Insert(r, x)
          \/ \E c \in Raws, t \in Canonicals : Merge(r, x, c, t)
      BY <2>1, <2>2, TargetType DEF Corpus
    <3> QED BY <1>3, <2>1, <2>2, <3>1, WriterType DEF Triage, TypeOK
  <2>3. CASE \E c \in Corpus : /\ held' = [held EXCEPT ![r] = Append(@, <<x, c>>)]
                               /\ UNCHANGED <<corpus, byId, exposed>>
    <3>1. held' \in [Runs -> Seq(Raws \X Raws)]
      BY <2>1, <2>3 DEF TypeOK, Corpus
    <3> QED BY <1>3, <2>1, <2>3, <3>1 DEF Triage, TypeOK
  <2> QED BY <1>3, <2>2, <2>3 DEF Triage
<1>4. ASSUME NEW r \in Runs, Apply(r) PROVE TypeOK'
  <2>1. held[r] \in Seq(Raws \X Raws) /\ held[r] # <<>>
    BY <1>4 DEF Apply, TypeOK
  <2>2. Head(held[r])[1] \in Raws /\ Head(held[r])[2] \in Raws /\ Tail(held[r]) \in Seq(Raws \X Raws)
    BY <2>1
  <2>3. \/ Insert(r, Head(held[r])[1])
        \/ \E c \in Raws, t \in Canonicals : Merge(r, Head(held[r])[1], c, t)
    BY <1>4, <2>2, TargetType DEF Apply
  <2>4. held' \in [Runs -> Seq(Raws \X Raws)]
    BY <1>4, <2>2 DEF Apply, TypeOK
  <2> QED BY <1>4, <2>2, <2>3, <2>4, WriterType DEF Apply, TypeOK
<1>5. CASE Restart
  BY <1>5, AbsentType DEF Restart, TypeOK
<1>6. CASE UNCHANGED vars
  BY <1>6 DEF vars, TypeOK
<1> QED BY <1>1, <1>2, <1>3, <1>4, <1>5, <1>6 DEF Next

\* Every variable keeps its shape in every behaviour.
THEOREM DedupTypeCorrect == Spec => []TypeOK
<1>1. Init => TypeOK
  BY AbsentType DEF Init, TypeOK
<1> QED BY <1>1, TypeStep, PTL DEF Spec

-----------------------------------------------------------------------------
(***************************************************************************)
(* What a step does to the views.  It writes the sighting in X, if any.    *)
(***************************************************************************)
Effect(X) ==
  /\ AllTruthful' /\ OwnSource' /\ OneHome' /\ Coherent'
  /\ \A y, d \in Raws : In(y, d)' => In(y, d) \/ y \in X
  /\ Corpus \subseteq Corpus'
  /\ exposed \subseteq exposed'
  /\ \A y \in X : \E d \in Raws : y \in corpus'[d].sources
  /\ \A y, d \in Raws : y \in corpus[d].sources => y \in exposed' \/ y \in corpus'[d].sources
  /\ \A d \in Raws, p \in Parts :
       corpus[d].fields[p] # None =>
         corpus'[d].fields[p] = corpus[d].fields[p] \/ corpus[d].fields[p] \in exposed

\* A write has the effect of one.
LEMMA WriteHasEffect ==
  ASSUME IInv, NEW r \in Runs, NEW x \in Raws, NEW c \in Raws, NEW t, Write(r, x, c, t)
  PROVE  Effect({x})
BY WriteEffect, WriteTruthful, WriteHomes, WriteCoherent, WriteAccounts, WriteFills
   DEF IInv, Effect

\* A step that stores nothing, and may forget copies, writes no sighting.
LEMMA QuietHasEffect ==
  ASSUME IInv, UNCHANGED <<corpus, exposed>>,
         \A r \in Runs, c \in Raws : byId'[r][c] \in {byId[r][c], Absent}
  PROVE  Effect({})
<1> USE DEF IInv
<1>1. Truthful(Absent)
  BY DEF Truthful, Absent
<1>2. AllTruthful'
  BY <1>1 DEF AllTruthful, Truthful
<1>3. OwnSource'
  BY DEF OwnSource
<1>4. \A y, d \in Raws : In(y, d)' => In(y, d)
  BY DEF In, Absent
<1>5. OneHome'
  BY <1>4 DEF OneHome
<1>6. Coherent'
  <2> SUFFICES ASSUME NEW r \in Runs, NEW c \in Raws, byId'[r][c] # Absent
               PROVE  /\ Agree(corpus[c], byId[r][c])'
                      /\ Agree(byId[r][c], corpus[c])'
                      /\ \A o \in Runs : byId'[o][c] # Absent => Agree(byId[o][c], byId[r][c])'
    BY DEF Coherent
  <2>1. byId'[r][c] = byId[r][c]
    OBVIOUS
  <2>2. \A o \in Runs : byId'[o][c] # Absent => byId'[o][c] = byId[o][c]
    OBVIOUS
  <2> QED BY <2>1, <2>2 DEF Coherent, Agree
<1>7. Corpus' = Corpus
  BY DEF Corpus
<1> QED BY <1>2, <1>3, <1>4, <1>5, <1>6, <1>7 DEF Effect

\* A triaged sighting is held, or written.
LEMMA TriageWrites ==
  ASSUME IInv, NEW x \in Raws, Triage(RunOf[x], x),
         ~ \E c \in Corpus : /\ held' = [held EXCEPT ![RunOf[x]] = Append(@, <<x, c>>)]
                             /\ UNCHANGED <<corpus, byId, exposed>>
  PROVE  UNCHANGED held /\ \E c \in Raws, t \in Canonicals : Write(RunOf[x], x, c, t)
<1> DEFINE r == RunOf[x]
<1> USE DEF IInv
<1>1. r \in Runs /\ x \in todo[r] /\ pc[r] = "triage"
  BY DedupAssumption DEF Triage
<1>2. \A d \in Raws : ~In(x, d)
  BY <1>1 DEF Waiting
<1>3. CASE Insert(r, x) /\ UNCHANGED held
  BY <1>1, <1>2, <1>3, InsertWrites, AbsentType
<1>4. ASSUME NEW c \in Corpus, Merge(r, x, c, Nearest(r, c)), UNCHANGED held
      PROVE  UNCHANGED held /\ \E d \in Raws, t \in Canonicals : Write(r, x, d, t)
  <2>1. c \in Raws /\ corpus[c] # Absent /\ corpus[c] \in Canonicals /\ byId[r][c] \in Canonicals
    BY <1>1 DEF Corpus, Absent, TypeOK
  <2>2. /\ Nearest(r, c) \in Canonicals
        /\ Nearest(r, c).sources = corpus[c].sources
        /\ Nearest(r, c).fields = corpus[c].fields
        /\ Nearest(r, c).prov = byId[r][c].prov
    BY <1>1, <2>1, TargetType DEF Nearest, Canonicals
  <2>3. Truthful(Nearest(r, c))
    <3>1. CASE byId[r][c] = Absent
      <4>1. \A f \in Fields : byId[r][c].prov[f] = None
        BY <3>1 DEF Absent
      <4> QED BY <2>2, <4>1 DEF Truthful
    <3>2. CASE byId[r][c] = corpus[c]
      BY <2>1, <2>2, <3>2 DEF Truthful, AllTruthful
    <3> QED BY <1>1, <2>1, <3>1, <3>2 DEF Current
  <2>4. Base(c, Nearest(r, c))
    BY <2>1, <2>2, <2>3, StoredIsBase
  <2>5. c \in Nearest(r, c).sources
    BY <2>1, <2>2 DEF OwnSource
  <2> QED BY <1>1, <1>2, <1>4, <2>1, <2>2, <2>4, <2>5, MergeWrites
<1> QED BY <1>3, <1>4 DEF Triage

\* A verdict writes the sighting it is on.
LEMMA ApplyWrites ==
  ASSUME IInv, NEW r \in Runs, Apply(r)
  PROVE  \E c \in Raws, t \in Canonicals : Write(r, Head(held[r])[1], c, t)
<1> DEFINE x == Head(held[r])[1]
           c == Head(held[r])[2]
<1> USE DEF IInv
<1>1. held[r] \in Seq(Raws \X Raws) /\ held[r] # <<>>
  BY DEF TypeOK, Apply
<1>2. x \in Raws /\ c \in Raws /\ Head(held[r]) \in Pairs(held[r])
  BY <1>1, FirstPair
<1>3. (\A d \in Raws : ~In(x, d)) /\ c \in Corpus
  BY <1>2 DEF Waiting
<1>4. Merge(r, x, c, Resolve(r, c)) \/ Insert(r, x)
  BY <1>2 DEF Apply
<1> HIDE DEF x, c
<1>5. CASE Insert(r, x)
  <2>1. Write(r, x, x, Absent)
    BY <1>2, <1>3, <1>5, InsertWrites
  <2> QED BY <1>2, <2>1, AbsentType DEF x
<1>6. CASE Merge(r, x, c, Resolve(r, c))
  <2>1. corpus[c] # Absent /\ corpus[c] \in Canonicals
    BY <1>2, <1>3 DEF Corpus, Absent, TypeOK
  <2>2. Base(c, Resolve(r, c)) /\ c \in Resolve(r, c).sources
    <3>1. CASE byId[r][c] # Absent
      BY <1>2, <3>1, CopyIsBase DEF Resolve, OwnSource
    <3>2. CASE byId[r][c] = Absent
      <4>1. /\ Resolve(r, c) \in Canonicals
            /\ Resolve(r, c).sources = corpus[c].sources
            /\ Resolve(r, c).fields = corpus[c].fields
            /\ Resolve(r, c).prov = [f \in Fields |-> None]
        BY <1>2, <2>1, <3>2, TargetType DEF Resolve, Canonicals
      <4>2. Truthful(Resolve(r, c))
        BY <4>1 DEF Truthful
      <4> QED BY <1>2, <2>1, <4>1, <4>2, StoredIsBase DEF OwnSource
    <3> QED BY <3>1, <3>2
  <2>3. Write(r, x, c, Resolve(r, c)) /\ Resolve(r, c) \in Canonicals
    BY <1>2, <1>3, <1>6, <2>2, TargetType, MergeWrites
  <2> QED BY <1>2, <2>3 DEF x
<1> QED BY <1>4, <1>5, <1>6

-----------------------------------------------------------------------------
(* The steps, one by one: what waits, and in what order. *)

Order == Waiting /\ Accounted /\ Current /\ InOrder

\* A step that leaves what waits alone keeps all that waits accounted for.
LEMMA NothingMoves ==
  ASSUME IInv, TypeOK', Effect({}), UNCHANGED <<todo, held>>
  PROVE  Waiting' /\ Accounted'
<1>1. Waiting'
  <2> SUFFICES ASSUME NEW r \in Runs
               PROVE  /\ \A x \in todo[r] : RunOf[x] = r /\ \A c \in Raws : ~In(x, c)'
                      /\ \A p \in Pairs(held[r]) :
                           /\ RunOf[p[1]] = r
                           /\ p[1] \notin todo[r]
                           /\ p[2] \in Corpus'
                           /\ \A c \in Raws : ~In(p[1], c)'
                      /\ Distinct(held[r])
    BY DEF Waiting, Pairs, Distinct
  <2>1. \A x, c \in Raws : In(x, c)' => In(x, c)
    BY DEF Effect
  <2>2. todo[r] \subseteq Raws /\ \A p \in Pairs(held[r]) : p[1] \in Raws
    BY DEF IInv, TypeOK, Pairs
  <2> QED BY <2>1, <2>2 DEF IInv, Waiting, Effect
<1>2. Accounted'
  BY DEF IInv, Accounted, Effect, Pairs
<1> QED BY <1>1, <1>2

\* Starting, ending, judging and stopping move nothing.
LEMMA QuietOrder ==
  ASSUME IInv, TypeOK',
         \/ Restart
         \/ UNCHANGED vars
         \/ \E r \in Runs : \/ StartTriage(r) \/ EndTriage(r) \/ JudgeAnswers(r)
                            \/ EndApply(r) \/ JudgeFails(r)
  PROVE  Effect({}) /\ Order'
<1> USE DEF IInv
<1>1. UNCHANGED <<corpus, todo, held, exposed>>
  BY DEF Restart, vars, StartTriage, EndTriage, JudgeAnswers, EndApply, JudgeFails
<1>2. \A r \in Runs, c \in Raws : byId'[r][c] \in {byId[r][c], Absent}
  <2>1. \/ byId' = byId
        \/ \E r \in Runs : byId' = [byId EXCEPT ![r] = [c \in Raws |-> Absent]]
        \/ byId' = [r \in Runs |-> [c \in Raws |-> Absent]]
    BY DEF Restart, vars, StartTriage, EndTriage, JudgeAnswers, EndApply, JudgeFails, Forget
  <2>2. \A r \in Runs : byId'[r] \in {byId[r], [c \in Raws |-> Absent]}
    BY <2>1 DEF TypeOK
  <2>3. \A c \in Raws : [d \in Raws |-> Absent][c] = Absent
    OBVIOUS
  <2> QED BY <2>2, <2>3
<1>3. Effect({})
  BY <1>1, <1>2, QuietHasEffect
<1>4. Waiting' /\ Accounted'
  BY <1>1, <1>3, NothingMoves
<1>5. \A r \in Runs :
        \/ pc'[r] \in {pc[r], "failed"}
        \/ pc[r] = "start" /\ pc'[r] = "triage"
        \/ pc[r] = "triage" /\ todo[r] = {} /\ pc'[r] = "judging"
        \/ pc[r] = "triage" /\ todo[r] = {} /\ held[r] = <<>> /\ pc'[r] = "done"
        \/ pc[r] = "judging" /\ pc'[r] = "applying"
        \/ pc[r] = "applying" /\ held[r] = <<>> /\ pc'[r] = "done"
  BY DEF Restart, vars, StartTriage, EndTriage, JudgeAnswers, EndApply, JudgeFails, TypeOK
<1>6. InOrder'
  BY <1>1, <1>5 DEF InOrder
<1>7. Current'
  BY <1>1, <1>2, <1>5 DEF Current
<1> QED BY <1>3, <1>4, <1>6, <1>7 DEF Order

\* A run that writes in triage goes on with copies that are what is stored.
LEMMA TriageCurrent ==
  ASSUME IInv, NEW r \in Runs, pc[r] = "triage", UNCHANGED pc,
         NEW x \in Raws, NEW c \in Raws, NEW t, Write(r, x, c, t)
  PROVE  Current'
<1> USE DEF IInv
<1>1. \A o \in Runs : pc[o] = "triage" => o = r
  BY DEF TypeOK
<1>2. \A d \in Raws : byId'[r][d] \in {Absent, corpus'[d]}
  BY WriteEffect DEF Current
<1>3. \A o \in Runs, d \in Raws : pc[o] = "start" => byId'[o][d] = Absent
  BY WriteEffect DEF Current
<1> QED BY <1>1, <1>2, <1>3 DEF Current

\* A triaged sighting is stored, or joins those that are held.
LEMMA TriageOrder ==
  ASSUME IInv, TypeOK', NEW x \in Raws, Triage(RunOf[x], x)
  PROVE  Order' /\ \E X : Effect(X)
<1> DEFINE r == RunOf[x]
<1> USE DEF IInv
<1>1. /\ r \in Runs /\ x \in todo[r] /\ pc[r] = "triage"
      /\ todo' = [todo EXCEPT ![r] = @ \ {x}]
      /\ UNCHANGED pc
  BY DedupAssumption DEF Triage
<1>2. /\ todo'[r] = todo[r] \ {x}
      /\ \A o \in Runs : todo'[o] \subseteq todo[o] /\ (o # r => todo'[o] = todo[o])
      /\ \A o \in Runs : todo[o] \subseteq Raws
      /\ \A o \in Runs : \A p \in Pairs(held[o]) : p[1] \in Raws
  BY <1>1 DEF TypeOK, Pairs
<1>3. \A y \in Raws : RunOf[y] \in Runs /\ (y # x /\ y \in todo[RunOf[y]] => y \in todo'[RunOf[y]])
  BY <1>2, DedupAssumption
<1>4. ASSUME NEW c \in Corpus,
             held' = [held EXCEPT ![r] = Append(@, <<x, c>>)],
             UNCHANGED <<corpus, byId, exposed>>
      PROVE  Order' /\ \E X : Effect(X)
  <2>1. held[r] \in Seq(Raws \X Raws) /\ <<x, c>> \in Raws \X Raws
    BY <1>1 DEF TypeOK, Corpus
  <2>2. held'[r] = Append(held[r], <<x, c>>) /\ \A o \in Runs : o # r => held'[o] = held[o]
    BY <1>1, <1>4 DEF TypeOK
  <2>3. Effect({})
    BY <1>4, QuietHasEffect
  <2>4. \A y, d \in Raws : In(y, d)' => In(y, d)
    BY <2>3 DEF Effect
  <2>5. Corpus' = Corpus
    BY <1>4 DEF Corpus
  <2>6. \A p \in Pairs(held[r]) : p[1] # x
    BY <1>1 DEF Waiting
  <2>7. Pairs(held'[r]) = Pairs(held[r]) \cup {<<x, c>>} /\ Distinct(held'[r])
    <3>1. Distinct(held[r])
      BY <1>1 DEF Waiting
    <3>2. \A p \in Pairs(held[r]) : p[1] # <<x, c>>[1]
      BY <2>6
    <3> HIDE DEF r
    <3> QED BY <2>1, <2>2, <3>1, <3>2, AppendPair
  <2>8. ASSUME NEW o \in Runs
        PROVE  /\ \A y \in todo'[o] : RunOf[y] = o /\ \A d \in Raws : ~In(y, d)'
               /\ \A p \in Pairs(held'[o]) :
                    /\ RunOf[p[1]] = o
                    /\ p[1] \notin todo'[o]
                    /\ p[2] \in Corpus'
                    /\ \A d \in Raws : ~In(p[1], d)'
               /\ Distinct(held'[o])
    <3>1. CASE o # r
      <4>1. held'[o] = held[o] /\ todo'[o] = todo[o]
        BY <1>2, <2>2, <3>1
      <4> QED BY <1>2, <2>4, <2>5, <4>1 DEF Waiting
    <3>2. CASE o = r
      <4>1. \A y \in todo'[o] : RunOf[y] = o /\ \A d \in Raws : ~In(y, d)'
        BY <1>2, <2>4 DEF Waiting
      <4>2. ASSUME NEW p \in Pairs(held[r])
            PROVE  /\ RunOf[p[1]] = o
                   /\ p[1] \notin todo'[o]
                   /\ p[2] \in Corpus'
                   /\ \A d \in Raws : ~In(p[1], d)'
        BY <1>1, <1>2, <2>4, <2>5, <3>2 DEF Waiting
      <4>3. x \notin todo'[o] /\ \A d \in Raws : ~In(x, d)'
        BY <1>1, <1>2, <2>4, <3>2 DEF Waiting
      <4> QED BY <2>5, <2>7, <3>2, <4>1, <4>2, <4>3
    <3> QED BY <3>1, <3>2
  <2>9. Waiting'
    BY <2>8 DEF Waiting, Pairs, Distinct
  <2>10. \A y \in Raws : \/ y \in todo'[RunOf[y]]
                         \/ \E p \in Pairs(held'[RunOf[y]]) : p[1] = y
                         \/ y \in exposed'
                         \/ \E d \in Raws : y \in corpus'[d].sources
    <3> SUFFICES ASSUME NEW y \in Raws
                 PROVE  \/ y \in todo'[RunOf[y]]
                        \/ \E p \in Pairs(held'[RunOf[y]]) : p[1] = y
                        \/ y \in exposed
                        \/ \E d \in Raws : y \in corpus[d].sources
      BY <1>4
    <3>1. Pairs(held[RunOf[y]]) \subseteq Pairs(held'[RunOf[y]])
      BY <1>3, <2>2, <2>7
    <3>2. CASE y = x
      <4>1. <<x, c>> \in Pairs(held'[r]) /\ <<x, c>>[1] = x
        BY <2>7
      <4> QED BY <3>2, <4>1
    <3>3. CASE y # x
      BY <1>3, <3>1, <3>3 DEF Accounted
    <3> QED BY <3>2, <3>3
  <2>11. Accounted'
    BY <2>10 DEF Accounted, Pairs
  <2>12. Current'
    BY <1>1, <1>4 DEF Current
  <2>13. InOrder'
    BY <1>1, <1>2, <2>2 DEF InOrder
  <2> QED BY <2>3, <2>9, <2>11, <2>12, <2>13 DEF Order
<1>5. ASSUME NEW c \in Raws, NEW t \in Canonicals, Write(r, x, c, t), UNCHANGED held
      PROVE  Order' /\ \E X : Effect(X)
  <2>1. Effect({x})
    BY <1>1, <1>5, WriteHasEffect
  <2>2. \A y, d \in Raws : In(y, d)' => In(y, d) \/ y = x
    BY <2>1 DEF Effect
  <2>3. ASSUME NEW o \in Runs
        PROVE  /\ x \notin todo'[o]
               /\ \A p \in Pairs(held[o]) : p[1] # x
    BY <1>1, <1>2 DEF Waiting
  <2>4. ASSUME NEW o \in Runs
        PROVE  /\ \A y \in todo'[o] : RunOf[y] = o /\ \A d \in Raws : ~In(y, d)'
               /\ \A p \in Pairs(held'[o]) :
                    /\ RunOf[p[1]] = o
                    /\ p[1] \notin todo'[o]
                    /\ p[2] \in Corpus'
                    /\ \A d \in Raws : ~In(p[1], d)'
               /\ Distinct(held'[o])
    BY <1>2, <1>5, <2>1, <2>2, <2>3 DEF Waiting, Effect
  <2>5. Waiting'
    BY <2>4 DEF Waiting, Pairs, Distinct
  <2>6. Accounted'
    BY <1>3, <1>5, <2>1 DEF Accounted, Effect, Pairs
  <2>7. Current'
    BY <1>1, <1>5, TriageCurrent
  <2>8. InOrder'
    BY <1>1, <1>2, <1>5 DEF InOrder
  <2> QED BY <2>1, <2>5, <2>6, <2>7, <2>8 DEF Order
<1> QED BY <1>4, <1>5, TriageWrites

\* A sighting that was ruled on leaves the queue, and is stored.
LEMMA ApplyOrder ==
  ASSUME IInv, TypeOK', NEW r \in Runs, Apply(r)
  PROVE  Order' /\ \E X : Effect(X)
<1> DEFINE x == Head(held[r])[1]
<1> USE DEF IInv
<1>1. /\ pc[r] = "applying" /\ held[r] # <<>> /\ held[r] \in Seq(Raws \X Raws)
      /\ held' = [held EXCEPT ![r] = Tail(@)]
      /\ UNCHANGED <<pc, todo>>
  BY DEF Apply, TypeOK
<1>2. /\ x \in Raws
      /\ Head(held[r]) \in Pairs(held[r])
      /\ Pairs(held[r]) = Pairs(Tail(held[r])) \cup {Head(held[r])}
      /\ Distinct(Tail(held[r]))
      /\ \A q \in Pairs(Tail(held[r])) : q[1] # x
  BY <1>1, FirstPair DEF Waiting
<1> HIDE DEF x
<1>3. held'[r] = Tail(held[r]) /\ \A o \in Runs : o # r => held'[o] = held[o]
  BY <1>1 DEF TypeOK
<1>4. PICK c \in Raws, t \in Canonicals : Write(r, x, c, t)
  BY ApplyWrites DEF x
<1>5. Effect({x})
  BY <1>2, <1>4, WriteHasEffect
<1>6. RunOf[x] = r /\ x \notin todo[r]
  BY <1>2 DEF Waiting, x
<1>7. \A y, d \in Raws : In(y, d)' => In(y, d) \/ y = x
  BY <1>5 DEF Effect
<1>8. ASSUME NEW o \in Runs
      PROVE  /\ Pairs(held'[o]) \subseteq Pairs(held[o])
             /\ \A p \in Pairs(held'[o]) : p[1] # x /\ p[1] \in Raws
             /\ x \notin todo[o] /\ todo[o] \subseteq Raws
             /\ Distinct(held'[o])
  <2>1. \A p \in Pairs(held[o]) : p[1] \in Raws
    BY DEF TypeOK, Pairs
  <2>2. CASE o = r
    BY <1>2, <1>3, <1>6, <2>1, <2>2 DEF TypeOK
  <2>3. CASE o # r
    BY <1>3, <1>6, <2>1, <2>3 DEF Waiting, TypeOK
  <2> QED BY <2>2, <2>3
<1>9. ASSUME NEW o \in Runs
      PROVE  /\ \A y \in todo[o] : RunOf[y] = o /\ \A d \in Raws : ~In(y, d)'
             /\ \A p \in Pairs(held'[o]) :
                  /\ RunOf[p[1]] = o
                  /\ p[1] \notin todo[o]
                  /\ p[2] \in Corpus'
                  /\ \A d \in Raws : ~In(p[1], d)'
  <2>1. \A y \in todo[o] : RunOf[y] = o /\ \A d \in Raws : ~In(y, d)'
    BY <1>7, <1>8 DEF Waiting
  <2>2. ASSUME NEW p \in Pairs(held'[o])
        PROVE  /\ RunOf[p[1]] = o
               /\ p[1] \notin todo[o]
               /\ p[2] \in Corpus'
               /\ \A d \in Raws : ~In(p[1], d)'
    <3>1. p \in Pairs(held[o]) /\ p[1] # x /\ p[1] \in Raws
      BY <1>8
    <3>2. RunOf[p[1]] = o /\ p[1] \notin todo[o] /\ p[2] \in Corpus
      BY <3>1 DEF Waiting
    <3>3. \A d \in Raws : ~In(p[1], d)
      BY <3>1 DEF Waiting
    <3> QED BY <1>5, <1>7, <3>1, <3>2, <3>3 DEF Effect
  <2> QED BY <2>1, <2>2
<1>10. Waiting'
  BY <1>1, <1>8, <1>9 DEF Waiting, Pairs, Distinct
<1>11. \A y \in Raws : \/ y \in todo[RunOf[y]]
                       \/ \E p \in Pairs(held'[RunOf[y]]) : p[1] = y
                       \/ y \in exposed'
                       \/ \E d \in Raws : y \in corpus'[d].sources
  <2> SUFFICES ASSUME NEW y \in Raws
               PROVE  \/ y \in todo[RunOf[y]]
                      \/ \E p \in Pairs(held'[RunOf[y]]) : p[1] = y
                      \/ y \in exposed'
                      \/ \E d \in Raws : y \in corpus'[d].sources
    OBVIOUS
  <2>1. RunOf[y] \in Runs
    BY DedupAssumption
  <2>2. CASE y = x
    BY <1>5, <2>2 DEF Effect
  <2>3. ASSUME y # x, NEW p \in Pairs(held[RunOf[y]]), p[1] = y
        PROVE  p \in Pairs(held'[RunOf[y]])
    BY <1>2, <1>3, <2>1, <2>3 DEF x
  <2>4. CASE y # x
    BY <1>5, <2>3, <2>4 DEF Accounted, Effect
  <2> QED BY <2>2, <2>4
<1>12. Accounted'
  BY <1>1, <1>11 DEF Accounted, Pairs
<1>13. Current'
  <2>1. \A o \in Runs : pc[o] # "triage" /\ (pc[o] = "start" => o # r)
    BY <1>1 DEF TypeOK
  <2> QED BY <1>1, <1>2, <1>4, <2>1, WriteEffect DEF Current
<1>14. InOrder'
  BY <1>1, <1>3 DEF InOrder
<1> QED BY <1>5, <1>10, <1>12, <1>13, <1>14 DEF Order

-----------------------------------------------------------------------------
(* The invariant, and what follows from it. *)

\* Every step has the effect of a write or of none, and keeps the order.
LEMMA StepEffect ==
  ASSUME IInv, [Next]_vars
  PROVE  Order' /\ \E X : Effect(X)
<1>1. TypeOK'
  BY TypeStep DEF IInv
<1>2. ASSUME NEW x \in Raws, Triage(RunOf[x], x) PROVE Order' /\ \E X : Effect(X)
  BY <1>1, <1>2, TriageOrder
<1>3. ASSUME NEW r \in Runs, Apply(r) PROVE Order' /\ \E X : Effect(X)
  BY <1>1, <1>3, ApplyOrder
<1>4. CASE \/ Restart
           \/ UNCHANGED vars
           \/ \E r \in Runs : \/ StartTriage(r) \/ EndTriage(r) \/ JudgeAnswers(r)
                              \/ EndApply(r) \/ JudgeFails(r)
  BY <1>1, <1>4, QuietOrder
<1> QED BY <1>2, <1>3, <1>4 DEF Next

\* The invariant is inductive.
LEMMA InvStep == IInv /\ [Next]_vars => IInv'
<1> SUFFICES ASSUME IInv, [Next]_vars PROVE IInv'
  OBVIOUS
<1>1. TypeOK'
  BY TypeStep DEF IInv
<1>2. Order' /\ AllTruthful' /\ OwnSource' /\ OneHome' /\ Coherent'
  BY StepEffect DEF Effect
<1> QED BY <1>1, <1>2 DEF IInv, Order

\* The invariant holds at first.
LEMMA InvInit == Init => IInv
<1> SUFFICES ASSUME Init PROVE IInv
  OBVIOUS
<1>1. /\ \A c \in Raws : corpus[c] = Absent
      /\ \A r \in Runs : pc[r] = "start" /\ held[r] = <<>>
      /\ \A r \in Runs : todo[r] = {x \in Raws : RunOf[x] = r}
      /\ \A r \in Runs, c \in Raws : byId[r][c] = Absent
  BY DEF Init
<1>2. TypeOK
  BY AbsentType DEF Init, TypeOK
<1>3. Truthful(Absent)
  BY DEF Truthful, Absent
<1>4. AllTruthful /\ Current /\ OwnSource
  BY <1>1, <1>3 DEF AllTruthful, Current, OwnSource
<1>5. \A x, c \in Raws : ~In(x, c)
  BY <1>1 DEF In, Absent
<1>6. OneHome
  BY <1>5 DEF OneHome
<1>7. \A r \in Runs : Pairs(held[r]) = {} /\ Distinct(held[r])
  BY <1>1 DEF Pairs, Distinct
<1>8. Waiting
  BY <1>1, <1>5, <1>7 DEF Waiting
<1>9. Accounted
  BY <1>1, DedupAssumption DEF Accounted
<1>10. InOrder /\ Coherent
  BY <1>1 DEF InOrder, Coherent
<1> QED BY <1>2, <1>4, <1>6, <1>8, <1>9, <1>10 DEF IInv

\* The invariant holds in every behaviour.
THEOREM DedupInvariant == Spec => []IInv
BY InvInit, InvStep, PTL DEF Spec

\* However runs overwrite each other's canonicals, what provenance names is a source of
\* the canonical and its value is there.
THEOREM ProvenanceAlwaysTrue == Spec => []ProvenanceNeverLies
<1>1. IInv => ProvenanceNeverLies
  BY DEF IInv, AllTruthful, Truthful, ProvenanceNeverLies
<1> QED BY <1>1, DedupInvariant, PTL

\* No sighting is ever in two canonicals.
THEOREM SightingsLandOnce == Spec => []LandsOnce
<1>1. IInv => LandsOnce
  BY DEF IInv, TypeOK, Canonicals, OneHome, In, LandsOnce
<1> QED BY <1>1, DedupInvariant, PTL

\* A sighting of a run that is done is stored, unless it was merged while another run
\* held a copy of its canonical.
THEOREM LostWereAlwaysExposed == Spec => []LostWereExposed
<1>1. ASSUME IInv PROVE LostWereExposed
  <2> SUFFICES ASSUME NEW x \in Raws, pc[RunOf[x]] = "done"
               PROVE  x \in exposed \/ \E c \in Raws : x \in corpus[c].sources
    BY DEF LostWereExposed
  <2>1. RunOf[x] \in Runs
    BY DedupAssumption
  <2>2. todo[RunOf[x]] = {} /\ Pairs(held[RunOf[x]]) = {}
    BY <1>1, <2>1 DEF IInv, InOrder, Pairs
  <2> QED BY <1>1, <2>2 DEF IInv, Accounted
<1> QED BY <1>1, DedupInvariant, PTL

\* A filled part keeps its value, unless the value came from an exposed sighting.
THEOREM FilledPartsStayFilled == Spec => FilledStaysFilled
<1>1. IInv /\ [Next]_vars =>
        [\A c \in Raws, p \in Parts :
           corpus[c].fields[p] # None =>
             \/ corpus'[c].fields[p] = corpus[c].fields[p]
             \/ corpus[c].fields[p] \in exposed]_vars
  BY StepEffect DEF Effect
<1> QED BY <1>1, DedupInvariant, PTL DEF Spec, FilledStaysFilled

NothingExposed == exposed = {}

\* While no sighting is merged under another run's copy, as when runs take turns, every
\* sighting of a finished run is referenced.
THEOREM RunsApartLoseNothing == Spec /\ []NothingExposed => []SightingsAreReferenced
<1>1. LostWereExposed /\ NothingExposed => SightingsAreReferenced
  BY DEF LostWereExposed, NothingExposed, SightingsAreReferenced
<1> QED BY <1>1, LostWereAlwaysExposed, PTL

=============================================================================
