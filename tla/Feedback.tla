------------------------------ MODULE Feedback ------------------------------
(***************************************************************************)
(* Learning from likes and dislikes.  Each tap on a feedback button is a   *)
(* task of its own: it logs its label, reads the profile of the search,    *)
(* awaits the embedder and the summarizer, and writes the profile back.    *)
(*                                                                         *)
(* A centroid is the exact mean of the labels folded into it and its count *)
(* is their number, so a profile is given by the labels behind each        *)
(* signal.  Canonical results are never deleted, hence the label's result  *)
(* is always found.                                                        *)
(***************************************************************************)
EXTENDS Naturals, FiniteSets

CONSTANTS
  Queries,   \* saved-query ids
  Labels,    \* feedback ids; each is a uuid4, one per tap
  Of,        \* Of[l]: the search the tapped message came from
  Kind,      \* Kind[l]: "like" or "dislike"
  Events     \* the disturbances a run of the model allows

ASSUME FeedbackAssumption ==
  /\ Of \in [Labels -> Queries]
  /\ Kind \in [Labels -> {"like", "dislike"}]
  /\ Events \subseteq {"call", "crash", "delete"}

VARIABLES
  live,      \* the saved searches that are there
  log,       \* the feedback table
  profile,   \* the preferences table
  taps,      \* where the task of each label is
  copy,      \* the profile the task of a label read
  overtaken  \* history: labels written while another tap on the search was learning

vars == <<live, log, profile, taps, copy, overtaken>>

\* PreferenceProfile(saved_query_id=...): nothing learned yet.
Fresh == [liked |-> {}, disliked |-> {}, summary |-> {}]

Init ==
  /\ live = Queries
  /\ log = {}
  /\ profile = [q \in Queries |-> Fresh]
  /\ taps = [l \in Labels |-> "untapped"]
  /\ copy = [l \in Labels |-> Fresh]
  /\ overtaken = {}

Learning(l) == taps[l] = "learning"

\* Mutant: a dislike advances the liked centroid.
FoldUnsigned(p, l) ==
  [liked    |-> p.liked \cup {l},
   disliked |-> p.disliked,
   summary  |-> p.summary \cup {l}]

\* Mutant: the kind is folded in where the label belongs.
FoldSwapped(p, l) ==
  [liked    |-> p.liked \cup {x \in {Kind[l]} : x = "like"},
   disliked |-> p.disliked \cup {x \in {Kind[l]} : x = "dislike"},
   summary  |-> p.summary \cup {l}]

\* fold_feedback: the matching centroid advances, the summary is rewritten from the
\* prior one and the label.
Fold(p, l) ==
  [liked    |-> p.liked \cup {x \in {l} : Kind[x] = "like"},
   disliked |-> p.disliked \cup {x \in {l} : Kind[x] = "dislike"},
   summary  |-> p.summary \cup {l}]

\* Up to the first await: the search is there, the label is logged, the profile read.
Tap(l) ==
  /\ taps[l] = "untapped"
  /\ Of[l] \in live
  /\ log' = log \cup {l}
  /\ copy' = [copy EXCEPT ![l] = profile[Of[l]]]
  /\ taps' = [taps EXCEPT ![l] = "learning"]
  /\ UNCHANGED <<live, profile, overtaken>>

\* The search was deleted: the owner is told, nothing is recorded.
TapRefused(l) ==
  /\ taps[l] = "untapped"
  /\ Of[l] \notin live
  /\ taps' = [taps EXCEPT ![l] = "refused"]
  /\ UNCHANGED <<live, log, profile, copy, overtaken>>

\* Mutant: the centroids are folded into the current profile, while the summary was
\* written from the copy.
LearnedHalfFresh(l) ==
  /\ Learning(l)
  /\ LET fresh == Fold(profile[Of[l]], l)
         stale == Fold(copy[l], l) IN
     profile' = [profile EXCEPT ![Of[l]] = [fresh EXCEPT !.summary = stale.summary]]
  /\ taps' = [taps EXCEPT ![l] = "learned"]
  /\ copy' = [copy EXCEPT ![l] = Fresh]
  /\ overtaken' = overtaken \cup
       {x \in {l} : \E o \in Labels \ {l} : Learning(o) /\ Of[o] = Of[l]}
  /\ UNCHANGED <<live, log>>

\* Mutant: every tap starts from a new profile.
LearnedFromNothing(l) ==
  /\ Learning(l)
  /\ profile' = [profile EXCEPT ![Of[l]] = Fold(Fresh, l)]
  /\ taps' = [taps EXCEPT ![l] = "learned"]
  /\ copy' = [copy EXCEPT ![l] = Fresh]
  /\ overtaken' = overtaken \cup
       {x \in {l} : \E o \in Labels \ {l} : Learning(o) /\ Of[o] = Of[l]}
  /\ UNCHANGED <<live, log>>

\* Both calls answered: the copy, with the label folded in, is upserted.  Nobody asks
\* again whether the search is still there.
Learned(l) ==
  /\ Learning(l)
  /\ profile' = [profile EXCEPT ![Of[l]] = Fold(copy[l], l)]
  /\ taps' = [taps EXCEPT ![l] = "learned"]
  /\ copy' = [copy EXCEPT ![l] = Fresh]
  /\ overtaken' = overtaken \cup
       {x \in {l} : \E o \in Labels \ {l} : Learning(o) /\ Of[o] = Of[l]}
  /\ UNCHANGED <<live, log>>

\* The embedder or the summarizer raises, or its extra is not installed.
CallFails(l) ==
  /\ "call" \in Events
  /\ Learning(l)
  /\ taps' = [taps EXCEPT ![l] = "failed"]
  /\ copy' = [copy EXCEPT ![l] = Fresh]
  /\ UNCHANGED <<live, log, profile, overtaken>>

\* The process stops and is started again on the same database.
Restart ==
  /\ "crash" \in Events
  /\ taps' = [l \in Labels |-> IF Learning(l) THEN "failed" ELSE taps[l]]
  /\ copy' = [l \in Labels |-> Fresh]
  /\ UNCHANGED <<live, log, profile, overtaken>>

\* Deleting a search removes its row and its links; labels and profile stay.
DeleteSearch(q) ==
  /\ "delete" \in Events
  /\ q \in live
  /\ live' = live \ {q}
  /\ UNCHANGED <<log, profile, taps, copy, overtaken>>

Next ==
  \/ \E l \in Labels : Tap(l) \/ TapRefused(l) \/ Learned(l) \/ CallFails(l)
  \/ \E q \in Queries : DeleteSearch(q)
  \/ Restart

Spec == Init /\ [][Next]_vars

-----------------------------------------------------------------------------
(* Properties the code has. *)

ProfileType == [liked : SUBSET Labels, disliked : SUBSET Labels, summary : SUBSET Labels]

\* The variables keep their shape.
TypeOK ==
  /\ live \subseteq Queries
  /\ log \subseteq Labels
  /\ profile \in [Queries -> ProfileType]
  /\ taps \in [Labels -> {"untapped", "refused", "learning", "learned", "failed"}]
  /\ copy \in [Labels -> ProfileType]
  /\ overtaken \subseteq Labels

\* Whatever tasks overlap or fail, each signal of a profile was learned from logged
\* labels of its own search and of the right kind.
LearnedFromItsLog ==
  \A q \in Queries :
    /\ profile[q].liked \subseteq {l \in log : Of[l] = q /\ Kind[l] = "like"}
    /\ profile[q].disliked \subseteq {l \in log : Of[l] = q /\ Kind[l] = "dislike"}

\* The two signals are updated together: the summary the reranker is given stands for
\* exactly the labels behind the centroids, however taps overlap.
SignalsAgree ==
  \A q \in Queries : profile[q].summary = profile[q].liked \cup profile[q].disliked

\* A label that was learned is forgotten only if another tap on its search was already
\* learning when it was written, and so wrote back an older copy.
ForgottenWereOvertaken ==
  \A l \in Labels :
    taps[l] = "learned" /\ l \notin profile[Of[l]].summary => l \in overtaken
=============================================================================
