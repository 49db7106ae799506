------------------------------- MODULE Dedup -------------------------------
(***************************************************************************)
(* Reconciling the sightings of a run with the corpus of canonical         *)
(* results, while other runs do the same.  A reconcile suspends at the     *)
(* judge only: triage, and the application of the verdicts, hold the event *)
(* loop, but every upsert in them is committed on its own.                 *)
(*                                                                         *)
(* How similar two results are is not modelled: a sighting may match any   *)
(* canonical, in any tier.  A canonical result is named by the sighting it *)
(* was created from, and a field's value by the sighting it came from.     *)
(***************************************************************************)
EXTENDS Naturals, Sequences, FiniteSets

CONSTANTS
  Raws,      \* raw results; each has a uuid of its own
  Runs,      \* reconciles
  RunOf,     \* RunOf[x]: the run whose search found x
  Parts,     \* what survives one by one: scalar fields, parts of geo, attribute keys
  Group,     \* Group[p]: the field provenance knows p under
  Given,     \* Given[x]: the parts that are not empty in x
  None,      \* the value of an empty part
  Events     \* the disturbances a run of the model allows

Fields == {Group[p] : p \in Parts}

ASSUME DedupAssumption ==
  /\ RunOf \in [Raws -> Runs]
  /\ DOMAIN Group = Parts
  /\ Given \in [Raws -> SUBSET Parts]
  /\ None \notin Raws
  /\ Events \subseteq {"call", "crash"}

VARIABLES
  corpus,   \* canonical_results and provenance
  pc,       \* where each reconcile is
  todo,     \* the candidates it has not triaged
  held,     \* its pairs (sighting, canonical) for the judge, in order
  byId,     \* RunState: the canonicals and provenance in play in it
  exposed   \* history: sightings merged while another run held a copy of the canonical

vars == <<corpus, pc, todo, held, byId, exposed>>

\* No canonical result; also what a run remembers of one it has not touched.
Absent == [sources |-> {},
           fields  |-> [p \in Parts |-> None],
           prov    |-> [f \in Fields |-> None]]

Init ==
  /\ corpus = [c \in Raws |-> Absent]
  /\ pc = [r \in Runs |-> "start"]
  /\ todo = [r \in Runs |-> {x \in Raws : RunOf[x] = r}]
  /\ held = [r \in Runs |-> <<>>]
  /\ byId = [r \in Runs |-> [c \in Raws |-> Absent]]
  /\ exposed = {}

Corpus == {c \in Raws : corpus[c].sources # {}}

(***************************************************************************)
(* Survivorship.                                                           *)
(***************************************************************************)
\* Mutant: the last sighting wins.
MergeIntoLast(t, x) ==
  [sources |-> t.sources \cup {x},
   fields  |-> [p \in Parts |-> IF p \in Given[x] THEN x ELSE t.fields[p]],
   prov    |-> [f \in Fields |->
                  IF \E p \in Given[x] : Group[p] = f THEN x ELSE t.prov[f]]]

\* Mutant: provenance is taken for every field the sighting has, filled or not.
MergeIntoClaimingAll(t, x) ==
  [sources |-> t.sources \cup {x},
   fields  |-> [p \in Parts |-> IF t.fields[p] = None /\ p \in Given[x]
                                  THEN x ELSE t.fields[p]],
   prov    |-> [f \in Fields |->
                  IF t.prov[f] = None /\ \E p \in Given[x] : Group[p] = f
                    THEN x ELSE t.prov[f]]]

\* merge_into: the sighting fills what is empty, and provenance names the first one of
\* the run that filled anything of a field (for a scalar field the code overwrites the
\* entry, but an empty scalar has none).
MergeInto(t, x) ==
  [sources |-> t.sources \cup {x},
   fields  |-> [p \in Parts |-> IF t.fields[p] = None /\ p \in Given[x]
                                  THEN x ELSE t.fields[p]],
   prov    |-> [f \in Fields |->
                  IF t.prov[f] = None
                       /\ \E p \in Given[x] : Group[p] = f /\ t.fields[p] = None
                    THEN x ELSE t.prov[f]]]

\* new_golden: every part the sighting has is its own.
NewGolden(x) == MergeInto(Absent, x)

\* upsert_canonical and RunState.remember.
Upsert(r, c, canonical) ==
  /\ corpus' = [corpus EXCEPT ![c] = canonical]
  /\ byId' = [byId EXCEPT ![r][c] = canonical]

\* _merge into what the run takes for the canonical.
Merge(r, x, c, target) ==
  /\ Upsert(r, c, MergeInto(target, x))
  /\ exposed' = exposed \cup {y \in {x} : \E o \in Runs \ {r} : byId[o][c] # Absent}

Insert(r, x) ==
  /\ Upsert(r, x, NewGolden(x))
  /\ UNCHANGED exposed

(***************************************************************************)
(* Pass 1.  No other task runs until the candidates are triaged.           *)
(***************************************************************************)
LoopIsFree == \A r \in Runs : pc[r] \notin {"triage", "applying"}

\* The candidates were embedded: the run starts from an empty RunState.
StartTriage(r) ==
  /\ pc[r] = "start"
  /\ LoopIsFree
  /\ pc' = [pc EXCEPT ![r] = "triage"]
  /\ UNCHANGED <<corpus, todo, held, byId, exposed>>

\* The provenance of this run goes with the canonical that nearest returned.
Nearest(r, c) == [corpus[c] EXCEPT !.prov = byId[r][c].prov]

\* One candidate: it is inserted, merged into the best match, or held for the judge.
\* A sighting whose URL the run has met is merged without being compared.
Triage(r, x) ==
  /\ pc[r] = "triage"
  /\ x \in todo[r]
  /\ todo' = [todo EXCEPT ![r] = @ \ {x}]
  /\ \/ Insert(r, x) /\ UNCHANGED held
     \/ \E c \in Corpus : Merge(r, x, c, Nearest(r, c)) /\ UNCHANGED held
     \/ \E c \in Corpus :
          /\ held' = [held EXCEPT ![r] = Append(@, <<x, c>>)]
          /\ UNCHANGED <<corpus, byId, exposed>>
  /\ UNCHANGED pc

\* The run's copies are of no use once it is over.
Forget(r) == byId' = [byId EXCEPT ![r] = [c \in Raws |-> Absent]]

EndTriage(r) ==
  /\ pc[r] = "triage"
  /\ todo[r] = {}
  /\ \/ /\ held[r] = <<>>
        /\ pc' = [pc EXCEPT ![r] = "done"]
        /\ Forget(r)
     \/ /\ held[r] # <<>>
        /\ pc' = [pc EXCEPT ![r] = "judging"]
        /\ UNCHANGED byId
  /\ UNCHANGED <<corpus, todo, held, exposed>>

(***************************************************************************)
(* Pass 2.  The judge was awaited: other runs may have changed the corpus. *)
(***************************************************************************)
\* Mutant: the verdicts are applied while another run triages or applies.
JudgeAnswersAtOnce(r) ==
  /\ pc[r] = "judging"
  /\ pc' = [pc EXCEPT ![r] = "applying"]
  /\ UNCHANGED <<corpus, todo, held, byId, exposed>>

JudgeAnswers(r) ==
  /\ pc[r] = "judging"
  /\ LoopIsFree
  /\ pc' = [pc EXCEPT ![r] = "applying"]
  /\ UNCHANGED <<corpus, todo, held, byId, exposed>>

\* _resolve: the run's copy before the stored one.  No canonical is ever deleted.
Resolve(r, c) ==
  IF byId[r][c] # Absent THEN byId[r][c]
  ELSE [corpus[c] EXCEPT !.prov = [f \in Fields |-> None]]

\* Mutant: a sighting that was ruled distinct is dropped.
ApplyDropping(r) ==
  /\ pc[r] = "applying"
  /\ held[r] # <<>>
  /\ LET x == Head(held[r])[1]
         c == Head(held[r])[2] IN
     \/ Merge(r, x, c, Resolve(r, c))
     \/ UNCHANGED <<corpus, byId, exposed>>
  /\ held' = [held EXCEPT ![r] = Tail(@)]
  /\ UNCHANGED <<pc, todo>>

\* Mutant: a sighting that was ruled the same is inserted as well.
ApplyTwice(r) ==
  /\ pc[r] = "applying"
  /\ held[r] # <<>>
  /\ LET x == Head(held[r])[1]
         c == Head(held[r])[2]
         merged == MergeInto(Resolve(r, c), x) IN
     /\ corpus' = [corpus EXCEPT ![c] = merged, ![x] = NewGolden(x)]
     /\ byId' = [byId EXCEPT ![r] = [@ EXCEPT ![c] = merged, ![x] = NewGolden(x)]]
  /\ held' = [held EXCEPT ![r] = Tail(@)]
  /\ UNCHANGED <<pc, todo, exposed>>

\* The verdict on the first held pair: the same item, or another (as is a pair the reply
\* omits, and every pair of a malformed reply).
Apply(r) ==
  /\ pc[r] = "applying"
  /\ held[r] # <<>>
  /\ LET x == Head(held[r])[1]
         c == Head(held[r])[2] IN
     \/ Merge(r, x, c, Resolve(r, c))
     \/ Insert(r, x)
  /\ held' = [held EXCEPT ![r] = Tail(@)]
  /\ UNCHANGED <<pc, todo>>

EndApply(r) ==
  /\ pc[r] = "applying"
  /\ held[r] = <<>>
  /\ pc' = [pc EXCEPT ![r] = "done"]
  /\ Forget(r)
  /\ UNCHANGED <<corpus, todo, held, exposed>>

(***************************************************************************)
(* Failures.                                                               *)
(***************************************************************************)
\* The judge raises: what was held is never reconciled.
JudgeFails(r) ==
  /\ "call" \in Events
  /\ pc[r] = "judging"
  /\ LoopIsFree
  /\ pc' = [pc EXCEPT ![r] = "failed"]
  /\ Forget(r)
  /\ UNCHANGED <<corpus, todo, held, exposed>>

\* The process stops, possibly between two upserts, and starts again.
Restart ==
  /\ "crash" \in Events
  /\ pc' = [r \in Runs |-> IF pc[r] \in {"start", "done"} THEN pc[r] ELSE "failed"]
  /\ byId' = [r \in Runs |-> [c \in Raws |-> Absent]]
  /\ UNCHANGED <<corpus, todo, held, exposed>>

Next ==
  \/ \E r \in Runs : \/ StartTriage(r) \/ EndTriage(r) \/ JudgeAnswers(r)
                     \/ Apply(r) \/ EndApply(r) \/ JudgeFails(r)
  \/ \E x \in Raws : Triage(RunOf[x], x)
  \/ Restart

Spec == Init /\ [][Next]_vars

-----------------------------------------------------------------------------
(* Properties the code has. *)

Canonicals == [sources : SUBSET Raws,
               fields  : [Parts -> Raws \cup {None}],
               prov    : [Fields -> Raws \cup {None}]]

\* The variables keep their shape, and at most one reconcile holds the event loop.
TypeOK ==
  /\ corpus \in [Raws -> Canonicals]
  /\ pc \in [Runs -> {"start", "triage", "judging", "applying", "done", "failed"}]
  /\ todo \in [Runs -> SUBSET Raws]
  /\ held \in [Runs -> Seq(Raws \X Raws)]
  /\ byId \in [Runs -> [Raws -> Canonicals]]
  /\ exposed \subseteq Raws
  /\ \A r, o \in Runs :
       pc[r] \in {"triage", "applying"} /\ pc[o] \in {"triage", "applying"} => r = o

\* Where provenance names a sighting for a field, the canonical has a part of that field
\* from it, and the sighting is among its sources, whatever runs overwrite each other.
ProvenanceNeverLies ==
  \A c \in Raws, f \in Fields :
    corpus[c].prov[f] # None =>
      /\ corpus[c].prov[f] \in corpus[c].sources
      /\ \E p \in Parts : Group[p] = f /\ corpus[c].fields[p] = corpus[c].prov[f]

\* A sighting lands in one canonical at most.
LandsOnce ==
  \A c, d \in Raws : corpus[c].sources \cap corpus[d].sources # {} => c = d

\* A sighting of a run that is done is in some canonical, unless it was merged while
\* another run held a copy of that canonical and wrote the copy back.
LostWereExposed ==
  \A x \in Raws :
    pc[RunOf[x]] = "done" => x \in exposed \/ \E c \in Raws : x \in corpus[c].sources

\* First non-empty wins: a part once filled keeps its value, unless the value came from
\* a sighting that was merged under another run's copy.
FilledStaysFilled ==
  [][\A c \in Raws, p \in Parts :
       corpus[c].fields[p] # None =>
         \/ corpus'[c].fields[p] = corpus[c].fields[p]
         \/ corpus[c].fields[p] \in exposed]_vars

-----------------------------------------------------------------------------
(* A property the documentation claims and the code lacks. *)

\* storage.md: raw results are never discarded, the canonical references them.
SightingsAreReferenced ==
  \A x \in Raws : pc[RunOf[x]] = "done" => \E c \in Raws : x \in corpus[c].sources
=============================================================================
