--------------------------- MODULE FeedbackProofs ---------------------------
(***************************************************************************)
(* Proofs about Feedback, for any labels on any searches.                  *)
(***************************************************************************)
EXTENDS Feedback, TLAPS

-----------------------------------------------------------------------------
(* Type correctness. *)

\* A new profile is well formed.
LEMMA FreshType == Fresh \in ProfileType
BY DEF Fresh, ProfileType

\* Folding a label into a profile yields a profile.
LEMMA FoldType ==
  ASSUME NEW p \in ProfileType, NEW l \in Labels
  PROVE  Fold(p, l) \in ProfileType
BY DEF Fold, ProfileType

\* Every step keeps the variables well formed.
LEMMA TypeStep == TypeOK /\ [Next]_vars => TypeOK'
<1> SUFFICES ASSUME TypeOK, [Next]_vars PROVE TypeOK'
  OBVIOUS
<1> USE FreshType, FeedbackAssumption DEF TypeOK
<1>1. ASSUME NEW l \in Labels, Tap(l) PROVE TypeOK'
  BY <1>1 DEF Tap
<1>2. ASSUME NEW l \in Labels, TapRefused(l) PROVE TypeOK'
  BY <1>2 DEF TapRefused
<1>3. ASSUME NEW l \in Labels, Learned(l) PROVE TypeOK'
  <2>1. Fold(copy[l], l) \in ProfileType
    BY FoldType
  <2>2. profile' \in [Queries -> ProfileType]
    BY <1>3, <2>1 DEF Learned
  <2> QED BY <1>3, <2>2 DEF Learned
<1>4. ASSUME NEW l \in Labels, CallFails(l) PROVE TypeOK'
  BY <1>4 DEF CallFails
<1>5. ASSUME NEW q \in Queries, DeleteSearch(q) PROVE TypeOK'
  BY <1>5 DEF DeleteSearch
<1>6. CASE Restart
  BY <1>6 DEF Restart
<1>7. CASE UNCHANGED vars
  BY <1>7 DEF vars
<1> QED BY <1>1, <1>2, <1>3, <1>4, <1>5, <1>6, <1>7 DEF Next

\* Every variable keeps its shape in every behaviour.
THEOREM FeedbackTypeCorrect == Spec => []TypeOK
<1>1. Init => TypeOK
  BY FreshType DEF Init, TypeOK
<1> QED BY <1>1, TypeStep, PTL DEF Spec

-----------------------------------------------------------------------------
(***************************************************************************)
(* What a profile stands for.  A copy is a former profile, so both satisfy *)
(* the same conditions.                                                    *)
(***************************************************************************)
Sound(labels, p, q) ==
  /\ p.liked \subseteq {l \in labels : Of[l] = q /\ Kind[l] = "like"}
  /\ p.disliked \subseteq {l \in labels : Of[l] = q /\ Kind[l] = "dislike"}
  /\ p.summary = p.liked \cup p.disliked

SoundInv ==
  /\ \A q \in Queries : Sound(log, profile[q], q)
  /\ \A l \in Labels : Sound(log, copy[l], Of[l])
  /\ \A l \in Labels : Learning(l) => l \in log

\* A new profile stands for nothing.
LEMMA FreshSound == ASSUME NEW labels, NEW q PROVE Sound(labels, Fresh, q)
BY DEF Sound, Fresh

\* A logged label may be folded into what stands for its search.
LEMMA FoldSound ==
  ASSUME NEW labels, NEW p \in ProfileType, NEW l \in Labels, l \in labels,
         Sound(labels, p, Of[l])
  PROVE  Sound(labels, Fold(p, l), Of[l])
BY FeedbackAssumption DEF Sound, Fold, ProfileType

\* A profile goes on standing for what it did when the log grows.
LEMMA LogGrows ==
  ASSUME NEW labels, NEW more, labels \subseteq more, NEW q, NEW p, Sound(labels, p, q)
  PROVE  Sound(more, p, q)
BY DEF Sound

\* The soundness of profiles and copies is inductive.
LEMMA SoundStep == TypeOK /\ SoundInv /\ [Next]_vars => SoundInv'
<1> SUFFICES ASSUME TypeOK, SoundInv, [Next]_vars PROVE SoundInv'
  OBVIOUS
<1>1. ASSUME NEW l \in Labels, Tap(l) PROVE SoundInv'
  <2>1. Of[l] \in Queries /\ log \subseteq log'
    BY <1>1, FeedbackAssumption DEF Tap
  <2>2. \A q \in Queries : Sound(log', profile'[q], q)
    BY <1>1, <2>1, LogGrows DEF Tap, SoundInv
  <2>3. \A k \in Labels : Sound(log', copy'[k], Of[k])
    BY <1>1, <2>1, LogGrows DEF Tap, SoundInv, TypeOK
  <2>4. \A k \in Labels : Learning(k)' => k \in log'
    BY <1>1 DEF Tap, Learning, TypeOK, SoundInv
  <2> QED BY <2>2, <2>3, <2>4 DEF SoundInv
<1>2. ASSUME NEW l \in Labels, Learned(l) PROVE SoundInv'
  <2>1. Sound(log, Fold(copy[l], l), Of[l])
    BY <1>2, FoldSound DEF Learned, SoundInv, TypeOK
  <2>2. \A q \in Queries : Sound(log', profile'[q], q)
    BY <1>2, <2>1 DEF Learned, TypeOK, SoundInv
  <2>3. \A k \in Labels : Sound(log', copy'[k], Of[k])
    BY <1>2, FreshSound DEF Learned, TypeOK, SoundInv
  <2>4. \A k \in Labels : Learning(k)' => k \in log'
    BY <1>2 DEF Learned, Learning, TypeOK, SoundInv
  <2> QED BY <2>2, <2>3, <2>4 DEF SoundInv
<1>3. ASSUME UNCHANGED <<profile, log>>,
             \A k \in Labels : copy'[k] = copy[k] \/ copy'[k] = Fresh,
             \A k \in Labels : Learning(k)' => Learning(k)
      PROVE  SoundInv'
  BY <1>3, FreshSound DEF SoundInv
<1>4. ASSUME NEW l \in Labels, TapRefused(l) PROVE SoundInv'
  BY <1>3, <1>4 DEF TapRefused, Learning, TypeOK
<1>5. ASSUME NEW l \in Labels, CallFails(l) PROVE SoundInv'
  BY <1>3, <1>5 DEF CallFails, Learning, TypeOK
<1>6. ASSUME NEW q \in Queries, DeleteSearch(q) PROVE SoundInv'
  BY <1>3, <1>6 DEF DeleteSearch, Learning
<1>7. CASE Restart
  BY <1>3, <1>7 DEF Restart, Learning
<1>8. CASE UNCHANGED vars
  BY <1>3, <1>8 DEF vars, Learning
<1> QED BY <1>1, <1>2, <1>4, <1>5, <1>6, <1>7, <1>8 DEF Next

\* Profiles and copies are sound in every behaviour.
LEMMA SoundInvariant == Spec => [](TypeOK /\ SoundInv)
<1>1. Init => SoundInv
  BY FreshSound DEF Init, SoundInv, Learning
<1> QED BY <1>1, SoundStep, FeedbackTypeCorrect, PTL DEF Spec

\* Each signal of a profile was learned from logged labels of its search and kind.
THEOREM AlwaysLearnedFromItsLog == Spec => []LearnedFromItsLog
<1>1. SoundInv => LearnedFromItsLog
  BY DEF SoundInv, Sound, LearnedFromItsLog
<1> QED BY <1>1, SoundInvariant, PTL

\* The summary stands for exactly the labels behind the centroids.
THEOREM SignalsAlwaysAgree == Spec => []SignalsAgree
<1>1. SoundInv => SignalsAgree
  BY DEF SoundInv, Sound, SignalsAgree
<1> QED BY <1>1, SoundInvariant, PTL

-----------------------------------------------------------------------------
(***************************************************************************)
(* What is forgotten.  A learned label that was not overtaken is in the    *)
(* profile and in the copy of every tap learning on its search: those taps *)
(* began after it was written.                                             *)
(***************************************************************************)
Kept(l) ==
  /\ l \in profile[Of[l]].summary
  /\ \A o \in Labels : Learning(o) /\ Of[o] = Of[l] => l \in copy[o].summary

KeptInv == \A l \in Labels : taps[l] = "learned" /\ l \notin overtaken => Kept(l)

\* What was learned and not overtaken stays learned.
LEMMA KeptStep == TypeOK /\ KeptInv /\ [Next]_vars => KeptInv'
<1> SUFFICES ASSUME TypeOK, KeptInv, [Next]_vars PROVE KeptInv'
  OBVIOUS
<1> USE FeedbackAssumption DEF TypeOK
<1>1. ASSUME NEW l \in Labels, Tap(l) PROVE KeptInv'
  BY <1>1 DEF Tap, KeptInv, Kept, Learning
<1>2. ASSUME NEW l \in Labels, Learned(l) PROVE KeptInv'
  <2> SUFFICES ASSUME NEW k \in Labels, taps'[k] = "learned", k \notin overtaken'
               PROVE  Kept(k)'
    BY DEF KeptInv
  <2>0. Fold(copy[l], l) \in ProfileType
    BY FoldType
  <2>1. /\ profile'[Of[l]].summary = copy[l].summary \cup {l}
        /\ \A q \in Queries \ {Of[l]} : profile'[q] = profile[q]
    BY <1>2 DEF Learned, Fold
  <2>2. \A o \in Labels : Learning(o)' => Learning(o) /\ o # l /\ copy'[o] = copy[o]
    BY <1>2 DEF Learned, Learning
  <2>3. CASE k = l
    <3>1. \A o \in Labels \ {l} : ~(Learning(o) /\ Of[o] = Of[l])
      BY <1>2, <2>3 DEF Learned
    <3> QED BY <2>1, <2>2, <2>3, <3>1 DEF Kept
  <2>4. CASE k # l
    <3>1. taps[k] = "learned" /\ k \notin overtaken
      BY <1>2, <2>4 DEF Learned
    <3>2. Kept(k)
      BY <3>1 DEF KeptInv
    <3>3. Of[k] = Of[l] => k \in copy[l].summary
      BY <1>2, <3>2 DEF Kept, Learned
    <3> QED BY <2>1, <2>2, <3>2, <3>3 DEF Kept
  <2> QED BY <2>3, <2>4
<1>3. ASSUME UNCHANGED <<profile, overtaken>>,
             \A k \in Labels : taps'[k] = "learned" => taps[k] = "learned",
             \A k \in Labels : Learning(k)' => Learning(k) /\ copy'[k] = copy[k]
      PROVE  KeptInv'
  BY <1>3 DEF KeptInv, Kept
<1>4. ASSUME NEW l \in Labels, TapRefused(l) \/ CallFails(l) PROVE KeptInv'
  BY <1>3, <1>4 DEF TapRefused, CallFails, Learning
<1>5. ASSUME NEW q \in Queries, DeleteSearch(q) PROVE KeptInv'
  BY <1>3, <1>5 DEF DeleteSearch, Learning
<1>6. CASE Restart
  BY <1>3, <1>6 DEF Restart, Learning
<1>7. CASE UNCHANGED vars
  BY <1>3, <1>7 DEF vars, Learning
<1> QED BY <1>1, <1>2, <1>4, <1>5, <1>6, <1>7 DEF Next

\* The account of what is kept always holds.
LEMMA KeptInvariant == Spec => [](TypeOK /\ KeptInv)
<1>1. Init => KeptInv
  BY DEF Init, KeptInv
<1> QED BY <1>1, KeptStep, FeedbackTypeCorrect, PTL DEF Spec

\* A learned label is forgotten only if it was overtaken.
THEOREM ForgottenWereAlwaysOvertaken == Spec => []ForgottenWereOvertaken
<1>1. KeptInv => ForgottenWereOvertaken
  BY DEF KeptInv, Kept, ForgottenWereOvertaken
<1> QED BY <1>1, KeptInvariant, PTL

\* No two taps on one search are being learned at once.
TapsInTurn ==
  \A l, o \in Labels : Learning(l) /\ Learning(o) /\ Of[l] = Of[o] => l = o

NothingOvertaken == overtaken = {}

NothingForgotten == \A l \in Labels : taps[l] = "learned" => l \in profile[Of[l]].summary

\* If the taps on a search never overlap, whatever is learned is remembered for good:
\* a lock per search around record would be enough.
THEOREM TapsInTurnForgetNothing ==
  Spec /\ []TapsInTurn => []NothingForgotten
<1>1. Init => NothingOvertaken
  BY DEF Init, NothingOvertaken
<1>2. TapsInTurn /\ NothingOvertaken /\ [Next]_vars => NothingOvertaken'
  <2> SUFFICES ASSUME TapsInTurn, overtaken = {}, [Next]_vars PROVE overtaken' = {}
    BY DEF NothingOvertaken
  <2>1. ASSUME NEW l \in Labels, Learned(l) PROVE overtaken' = {}
    <3>1. ~\E o \in Labels \ {l} : Learning(o) /\ Of[o] = Of[l]
      BY <2>1 DEF Learned, TapsInTurn
    <3> QED BY <2>1, <3>1 DEF Learned
  <2>2. ASSUME NEW l \in Labels, Tap(l) \/ TapRefused(l) \/ CallFails(l)
        PROVE  overtaken' = {}
    BY <2>2 DEF Tap, TapRefused, CallFails
  <2>3. ASSUME NEW q \in Queries, DeleteSearch(q) PROVE overtaken' = {}
    BY <2>3 DEF DeleteSearch
  <2> QED BY <2>1, <2>2, <2>3 DEF Next, Restart, vars
<1>3. NothingOvertaken /\ ForgottenWereOvertaken => NothingForgotten
  BY DEF NothingOvertaken, ForgottenWereOvertaken, NothingForgotten
<1> QED
  BY <1>1, <1>2, <1>3, ForgottenWereAlwaysOvertaken, PTL DEF Spec
=============================================================================
