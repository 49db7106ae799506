--------------------------- MODULE DialogueProofs ---------------------------
(***************************************************************************)
(* Proofs about Dialogue and the gate before it, for any texts, strangers, *)
(* bounds and disturbances.                                                *)
(***************************************************************************)
EXTENDS Dialogue, TLAPS

-----------------------------------------------------------------------------
(***************************************************************************)
(* The gate.  Whatever the dialogue does, it touches the state of the gate *)
(* only by letting the owner in, and by the restart of the process.        *)
(***************************************************************************)
GateSteps ==
  \/ UNCHANGED gateVars
  \/ Admit
  \/ GateRestart
  \/ \E s \in Strangers : Knock(s) \/ Told(s) \/ TellingFails(s)

\* Every step of the dialogue is one of those.
LEMMA OnlyGateSteps == [Next]_vars => GateSteps
BY DEF GateSteps, Next, vars, GateNext, Look, Start, Leave, Confirm, Restart, Say, TurnReturns,
       TurnFails, Answered, AnswerFails

\* Every step keeps the variables of the gate well formed.
LEMMA GateTypeStep == GateTypeOK /\ GateSteps => GateTypeOK'
<1> SUFFICES ASSUME GateTypeOK, GateSteps PROVE GateTypeOK'
  OBVIOUS
<1> USE GateAssumption DEF GateTypeOK
<1>1. CASE UNCHANGED gateVars
  BY <1>1 DEF gateVars
<1>2. CASE Admit
  BY <1>2 DEF Admit, UpsertUser
<1>3. CASE GateRestart
  <2>1. PICK reached \in SUBSET {s \in Strangers : telling[s] > 0} :
          told' = [s \in Strangers |-> IF s \in reached THEN told[s] + telling[s] ELSE told[s]]
    BY <1>3 DEF GateRestart
  <2>2. told' \in [Strangers -> Nat]
    BY <2>1
  <2> QED BY <1>3, <2>2 DEF GateRestart
<1>4. ASSUME NEW s \in Strangers, Knock(s) PROVE GateTypeOK'
  BY <1>4 DEF Knock
<1>5. ASSUME NEW s \in Strangers, Told(s) PROVE GateTypeOK'
  BY <1>5 DEF Told
<1>6. ASSUME NEW s \in Strangers, TellingFails(s) PROVE GateTypeOK'
  <2>1. telling' \in [Strangers -> Nat]
    BY <1>6 DEF TellingFails
  <2>2. told' \in [Strangers -> Nat]
    BY <1>6 DEF TellingFails
  <2> QED BY <1>6, <2>1, <2>2 DEF TellingFails
<1> QED BY <1>1, <1>2, <1>3, <1>4, <1>5, <1>6 DEF GateSteps

\* A stranger nobody remembers has not been told of in this life of the process.
ToldInv ==
  \A s \in Strangers : told[s] + telling[s] + (IF s \in notified THEN 0 ELSE 1) <= lives

\* The count of notifications keeps pace with the lives of the process.
LEMMA ToldStep == GateTypeOK /\ ToldInv /\ GateSteps => ToldInv'
<1> SUFFICES ASSUME GateTypeOK, ToldInv, GateSteps, NEW x \in Strangers
             PROVE  told'[x] + telling'[x] + (IF x \in notified' THEN 0 ELSE 1) <= lives'
  BY DEF ToldInv
<1> USE DEF GateTypeOK, ToldInv
<1>1. CASE UNCHANGED gateVars
  BY <1>1 DEF gateVars
<1>2. CASE Admit
  BY <1>2 DEF Admit, UpsertUser
<1>3. CASE GateRestart
  <2>1. PICK reached \in SUBSET {s \in Strangers : telling[s] > 0} :
          told' = [s \in Strangers |-> IF s \in reached THEN told[s] + telling[s] ELSE told[s]]
    BY <1>3 DEF GateRestart
  <2>2. told'[x] <= told[x] + telling[x]
    BY <2>1
  <2>3. told'[x] \in Nat
    BY <2>1
  <2> QED BY <1>3, <2>2, <2>3 DEF GateRestart
<1>4. ASSUME NEW s \in Strangers, Knock(s)
      PROVE  told'[x] + telling'[x] + (IF x \in notified' THEN 0 ELSE 1) <= lives'
  BY <1>4 DEF Knock
<1>5. ASSUME NEW s \in Strangers, Told(s)
      PROVE  told'[x] + telling'[x] + (IF x \in notified' THEN 0 ELSE 1) <= lives'
  BY <1>5 DEF Told
<1>6. ASSUME NEW s \in Strangers, TellingFails(s)
      PROVE  told'[x] + telling'[x] + (IF x \in notified' THEN 0 ELSE 1) <= lives'
  BY <1>6 DEF TellingFails
<1> QED BY <1>1, <1>2, <1>3, <1>4, <1>5, <1>6 DEF GateSteps

\* Only a failed send silences the gate.
LEMMA SilenceStep ==
  GateTypeOK /\ SilenceIsAFailedSend /\ GateSteps => SilenceIsAFailedSend'
<1> SUFFICES ASSUME GateTypeOK, SilenceIsAFailedSend, GateSteps PROVE SilenceIsAFailedSend'
  OBVIOUS
<1> USE DEF GateTypeOK, SilenceIsAFailedSend
<1>1. CASE UNCHANGED gateVars
  BY <1>1 DEF gateVars
<1>2. CASE Admit
  BY <1>2 DEF Admit, UpsertUser
<1>3. CASE GateRestart
  BY <1>3 DEF GateRestart
<1>4. ASSUME NEW s \in Strangers, Knock(s) PROVE SilenceIsAFailedSend'
  BY <1>4 DEF Knock
<1>5. ASSUME NEW s \in Strangers, Told(s) PROVE SilenceIsAFailedSend'
  BY <1>5 DEF Told
<1>6. ASSUME NEW s \in Strangers, TellingFails(s) PROVE SilenceIsAFailedSend'
  BY <1>6 DEF TellingFails
<1> QED BY <1>1, <1>2, <1>3, <1>4, <1>5, <1>6 DEF GateSteps

\* In the beginning nobody knocked.
LEMMA GateStart == GateInit => GateTypeOK /\ ToldInv /\ SilenceIsAFailedSend
<1> SUFFICES ASSUME GateInit PROVE GateTypeOK /\ ToldInv /\ SilenceIsAFailedSend
  OBVIOUS
<1> USE DEF GateInit
<1>1. GateTypeOK
  <2>1. 0 \in 0..MaxKnocks /\ 1 \in 1..MaxLives
    BY GateAssumption
  <2> QED BY <2>1 DEF GateTypeOK
<1>2. ToldInv
  BY DEF ToldInv
<1>3. SilenceIsAFailedSend
  BY DEF SilenceIsAFailedSend
<1> QED BY <1>1, <1>2, <1>3

\* The invariants of the gate hold in every behaviour.
LEMMA GateInvariant == Spec => [](GateTypeOK /\ ToldInv /\ SilenceIsAFailedSend)
<1>1. Init => GateTypeOK /\ ToldInv /\ SilenceIsAFailedSend
  BY GateStart DEF Init
<1> QED BY <1>1, OnlyGateSteps, GateTypeStep, ToldStep, SilenceStep, PTL DEF Spec

\* However many updates of a stranger are handled at once, the owner is told of the
\* stranger at most once in a life of the process.
THEOREM AlwaysToldOncePerLife == Spec => []ToldOncePerLife
<1>1. GateTypeOK /\ ToldInv => ToldOncePerLife
  BY DEF GateTypeOK, ToldInv, ToldOncePerLife
<1> QED BY <1>1, GateInvariant, PTL

\* A stranger who is ignored unheard owes it to a send that failed.
THEOREM SilenceIsAlwaysAFailedSend == Spec => []SilenceIsAFailedSend
BY GateInvariant, PTL

-----------------------------------------------------------------------------
(* Type correctness of the dialogue. *)

TurnType ==
  [pc : {"none", "asking", "answering", "over"}, talk : Seq(Texts), outcome : Outcomes]

DialogueTypeOK ==
  /\ fsm \in {"none", "collecting"}
  /\ talk \in Seq(Texts)
  /\ draft \in Texts \cup {NoDraft}
  /\ turns \in [Texts -> TurnType]
  /\ cards \subseteq Texts
  /\ saved \in [Texts -> Nat]
  /\ heard \subseteq Texts
  /\ late \subseteq Texts
  /\ raced \subseteq Texts

\* The types of the turns.
LEMMA TurnTypes ==
  /\ NoTurn \in TurnType
  /\ [NoTurn EXCEPT !.pc = "over"] \in TurnType
  /\ \A s \in Seq(Texts) : [pc |-> "asking", talk |-> s, outcome |-> "ask"] \in TurnType
  /\ \A o \in Outcomes : [pc |-> "answering", talk |-> <<>>, outcome |-> o] \in TurnType
  /\ \A turn \in TurnType : [turn EXCEPT !.pc = "over"] \in TurnType
  /\ \A turn \in TurnType : [turn EXCEPT !.pc = "over", !.talk = <<>>] \in TurnType
<1>1. <<>> \in Seq(Texts)
  OBVIOUS
<1> QED BY <1>1 DEF NoTurn, TurnType, Outcomes

\* What is emptied is well formed.
LEMMA EmptiedType ==
  ASSUME DialogueTypeOK, Emptied
  PROVE  /\ talk' \in Seq(Texts)
         /\ draft' \in Texts \cup {NoDraft}
         /\ heard' \subseteq Texts
         /\ late' \subseteq Texts
BY DEF DialogueTypeOK, Emptied, InFlight

\* Every step keeps the variables of the dialogue well formed.
LEMMA DialogueTypeStep == DialogueTypeOK /\ [Next]_vars => DialogueTypeOK'
<1> SUFFICES ASSUME DialogueTypeOK, [Next]_vars PROVE DialogueTypeOK'
  OBVIOUS
<1> USE DEF DialogueTypeOK
<1>1. CASE UNCHANGED dialogueVars
  BY <1>1 DEF dialogueVars
<1>2. CASE Start
  BY <1>2, EmptiedType DEF Start
<1>3. CASE Leave
  BY <1>3, EmptiedType DEF Leave
<1>4. CASE Confirm
  BY <1>4, EmptiedType DEF Confirm
<1>5. CASE Restart
  <2>1. turns' \in [Texts -> TurnType]
    BY <1>5, TurnTypes DEF Restart
  <2> QED BY <1>5, <2>1, EmptiedType DEF Restart
<1>6. ASSUME NEW t \in Texts, Say(t) PROVE DialogueTypeOK'
  <2>1. Append(talk, t) \in Seq(Texts)
    OBVIOUS
  <2>2. turns' \in [Texts -> TurnType]
    BY <1>6, <2>1, TurnTypes DEF Say
  <2> QED BY <1>6, <2>2 DEF Say, InFlight
<1>7. ASSUME NEW t \in Texts, TurnReturns(t) PROVE DialogueTypeOK'
  <2>1. turns' \in [Texts -> TurnType]
    BY <1>7, TurnTypes DEF TurnReturns
  <2>2. turns[t].talk \in Seq(Texts)
    BY DEF TurnType
  <2> QED BY <1>7, <2>1, <2>2 DEF TurnReturns
<1>8. ASSUME NEW t \in Texts, TurnFails(t) PROVE DialogueTypeOK'
  BY <1>8, TurnTypes DEF TurnFails
<1>9. ASSUME NEW t \in Texts, Answered(t) PROVE DialogueTypeOK'
  <2>1. turns' \in [Texts -> TurnType]
    BY <1>9, TurnTypes DEF Answered
  <2> QED BY <1>9, <2>1 DEF Answered, CardOf
<1>10. ASSUME NEW t \in Texts, AnswerFails(t) PROVE DialogueTypeOK'
  <2>1. turns' \in [Texts -> TurnType]
    BY <1>10, TurnTypes DEF AnswerFails
  <2> QED BY <1>10, <2>1 DEF AnswerFails, CardOf
<1> QED BY <1>1, <1>2, <1>3, <1>4, <1>5, <1>6, <1>7, <1>8, <1>9, <1>10 DEF Next, vars, Look

\* Only the owner, let in, saves a search.
LEMMA OwnerStep ==
  DialogueTypeOK /\ ((\E t \in Texts : saved[t] > 0) => userRow) /\ [Next]_vars
    => ((\E t \in Texts : saved'[t] > 0) => userRow')
<1> SUFFICES ASSUME DialogueTypeOK, (\E t \in Texts : saved[t] > 0) => userRow, [Next]_vars
             PROVE  (\E t \in Texts : saved'[t] > 0) => userRow'
  OBVIOUS
<1>1. userRow' \/ userRow' = userRow
  BY OnlyGateSteps
     DEF GateSteps, gateVars, Admit, UpsertUser, GateRestart, Knock, Told, TellingFails
<1>2. userRow' \/ saved' = saved
  BY DEF Next, vars, dialogueVars, Look, Start, Leave, Confirm, Admit, UpsertUser, Restart, Say, TurnReturns,
         TurnFails, Answered, AnswerFails
<1> QED BY <1>1, <1>2

\* In the beginning everything is empty.
LEMMA InitType == Init => TypeOK
<1> SUFFICES ASSUME Init PROVE TypeOK
  OBVIOUS
<1>1. <<>> \in Seq(Texts)
  OBVIOUS
<1>2. turns \in [Texts -> TurnType]
  BY TurnTypes DEF Init
<1> QED BY <1>1, <1>2, GateStart DEF Init, TypeOK, TurnType

\* Every variable keeps its shape, and no saved search is without its user.
THEOREM DialogueTypeCorrect == Spec => []TypeOK
<1>1. TypeOK <=> GateTypeOK /\ DialogueTypeOK /\ ((\E t \in Texts : saved[t] > 0) => userRow)
  BY DEF TypeOK, DialogueTypeOK, TurnType
<1>2. TypeOK /\ [Next]_vars => TypeOK'
  <2> SUFFICES ASSUME TypeOK, [Next]_vars PROVE TypeOK'
    OBVIOUS
  <2>1. GateTypeOK'
    BY <1>1, OnlyGateSteps, GateTypeStep
  <2>2. DialogueTypeOK'
    BY <1>1, DialogueTypeStep
  <2>3. (\E t \in Texts : saved'[t] > 0) => userRow'
    BY <1>1, OwnerStep
  <2> QED BY <2>1, <2>2, <2>3 DEF TypeOK, DialogueTypeOK, TurnType
<1> QED BY <1>2, InitType, PTL DEF Spec

\* The types of the dialogue, in every behaviour.
LEMMA DialogueTypes == Spec => []DialogueTypeOK
<1>1. TypeOK => DialogueTypeOK
  BY DEF TypeOK, DialogueTypeOK, TurnType
<1> QED BY <1>1, DialogueTypeCorrect, PTL

-----------------------------------------------------------------------------
(***************************************************************************)
(* What is saved, and what is left on offer.  A turn returns once, so its  *)
(* draft is stored once, and a draft that is stored has not been saved.    *)
(***************************************************************************)
SavedInv ==
  \A t \in Texts :
    /\ saved[t] <= 1
    /\ turns[t].pc \in {"none", "asking"} => saved[t] = 0 /\ draft # t
    /\ draft = t => saved[t] = 0

\* Outside a dialogue every turn in flight is late.
StrayInv ==
  /\ fsm = "none" => InFlight \subseteq late
  /\ StrayDraftsAreLate

\* A draft is saved at most once.
LEMMA SavedStep == DialogueTypeOK /\ SavedInv /\ [Next]_vars => SavedInv'
<1> SUFFICES ASSUME DialogueTypeOK, SavedInv, [Next]_vars PROVE SavedInv'
  OBVIOUS
<1> USE DialogueAssumption DEF DialogueTypeOK, TurnType, SavedInv
<1>1. CASE UNCHANGED dialogueVars
  BY <1>1 DEF dialogueVars
<1>2. CASE Start
  BY <1>2 DEF Start, Emptied
<1>3. CASE Leave
  BY <1>3 DEF Leave, Emptied
<1>4. CASE Confirm
  <2>1. draft \in Texts /\ draft' = NoDraft /\ UNCHANGED turns
    BY <1>4 DEF Confirm, Emptied
  <2>2. turns[draft].pc \notin {"none", "asking"} /\ saved[draft] = 0
    BY <1>4, <2>1 DEF Confirm
  <2>3. \A t \in Texts : saved'[t] = IF t = draft THEN 1 ELSE saved[t]
    BY <1>4, <2>1, <2>2 DEF Confirm
  <2>4. ASSUME NEW t \in Texts
        PROVE  /\ saved'[t] <= 1
               /\ turns'[t].pc \in {"none", "asking"} => saved'[t] = 0
               /\ draft' # t
    <3>1. CASE t = draft
      BY <2>1, <2>2, <2>3, <3>1
    <3>2. CASE t # draft
      BY <2>1, <2>3, <3>2
    <3> QED BY <3>1, <3>2
  <2> QED BY <2>4
<1>5. CASE Restart
  <2>1. \A t \in Texts : turns'[t].pc \in {"none", "asking"} => turns[t].pc \in {"none", "asking"}
    BY <1>5 DEF Restart
  <2> QED BY <1>5, <2>1 DEF Restart, Emptied
<1>6. ASSUME NEW t \in Texts, Say(t) PROVE SavedInv'
  BY <1>6 DEF Say
<1>7. ASSUME NEW t \in Texts, TurnReturns(t) PROVE SavedInv'
  BY <1>7 DEF TurnReturns
<1>8. ASSUME NEW t \in Texts, TurnFails(t) PROVE SavedInv'
  BY <1>8 DEF TurnFails, NoTurn
<1>9. ASSUME NEW t \in Texts, Answered(t) PROVE SavedInv'
  BY <1>9 DEF Answered
<1>10. ASSUME NEW t \in Texts, AnswerFails(t) PROVE SavedInv'
  BY <1>10 DEF AnswerFails
<1> QED BY <1>1, <1>2, <1>3, <1>4, <1>5, <1>6, <1>7, <1>8, <1>9, <1>10 DEF Next, vars, Look

\* However often the buttons of the drafts in the chat are tapped, and whatever turns come
\* back meanwhile, a draft becomes at most one saved search.
THEOREM AlwaysSavedOnce == Spec => []SavedOnce
<1>1. Init => SavedInv
  BY DialogueAssumption DEF Init, SavedInv
<1>2. SavedInv => SavedOnce
  BY DEF SavedInv, SavedOnce
<1> QED BY <1>1, <1>2, DialogueTypes, SavedStep, PTL DEF Spec

\* A step that empties the dialogue leaves nothing on offer and every turn late.
LEMMA EmptiedStray ==
  ASSUME Emptied, InFlight' \subseteq InFlight
  PROVE  StrayInv'
BY DEF Emptied, StrayInv, StrayDraftsAreLate

\* What is on offer outside a dialogue came late.
LEMMA StrayStep == DialogueTypeOK /\ StrayInv /\ [Next]_vars => StrayInv'
<1> SUFFICES ASSUME DialogueTypeOK, StrayInv, [Next]_vars PROVE StrayInv'
  OBVIOUS
<1> USE DEF DialogueTypeOK, TurnType
<1>1. CASE UNCHANGED dialogueVars
  BY <1>1 DEF dialogueVars, StrayInv, StrayDraftsAreLate, InFlight
<1>2. CASE Start
  BY <1>2, EmptiedStray DEF Start, InFlight
<1>3. CASE Leave
  BY <1>3, EmptiedStray DEF Leave, InFlight
<1>4. CASE Confirm
  BY <1>4, EmptiedStray DEF Confirm, InFlight
<1>5. CASE Restart
  <2>1. InFlight' \subseteq InFlight
    BY <1>5 DEF Restart, InFlight
  <2> QED BY <1>5, <2>1, EmptiedStray DEF Restart
<1>6. ASSUME NEW t \in Texts, Say(t) PROVE StrayInv'
  BY <1>6 DEF Say, StrayInv, StrayDraftsAreLate
<1>7. ASSUME NEW t \in Texts, TurnReturns(t) PROVE StrayInv'
  <2>1. t \in InFlight /\ InFlight' \subseteq InFlight
    BY <1>7 DEF TurnReturns, InFlight
  <2> QED BY <1>7, <2>1 DEF TurnReturns, StrayInv, StrayDraftsAreLate
<1>8. ASSUME NEW t \in Texts, TurnFails(t) PROVE StrayInv'
  <2>1. InFlight' \subseteq InFlight
    BY <1>8 DEF TurnFails, InFlight, NoTurn
  <2> QED BY <1>8, <2>1 DEF TurnFails, StrayInv, StrayDraftsAreLate
<1>9. ASSUME NEW t \in Texts, Answered(t) PROVE StrayInv'
  <2>1. InFlight' \subseteq InFlight
    BY <1>9 DEF Answered, InFlight
  <2> QED BY <1>9, <2>1 DEF Answered, StrayInv, StrayDraftsAreLate
<1>10. ASSUME NEW t \in Texts, AnswerFails(t) PROVE StrayInv'
  <2>1. InFlight' \subseteq InFlight
    BY <1>10 DEF AnswerFails, InFlight
  <2> QED BY <1>10, <2>1 DEF AnswerFails, StrayInv, StrayDraftsAreLate
<1> QED BY <1>1, <1>2, <1>3, <1>4, <1>5, <1>6, <1>7, <1>8, <1>9, <1>10 DEF Next, vars, Look

\* Nothing that was discarded or saved is on offer again, unless a turn that was in flight
\* at that time brings it back.
THEOREM StrayDraftsAreAlwaysLate == Spec => []StrayDraftsAreLate
<1>1. Init => StrayInv
  BY DEF Init, StrayInv, StrayDraftsAreLate, InFlight, NoTurn
<1>2. StrayInv => StrayDraftsAreLate
  BY DEF StrayInv
<1> QED BY <1>1, <1>2, DialogueTypes, StrayStep, PTL DEF Spec

-----------------------------------------------------------------------------
(***************************************************************************)
(* The conversation.  What holds of the stored conversation holds of the   *)
(* copy of every turn in flight, because a copy was the stored one when    *)
(* its turn began: what was heard since is raced, and an older copy is     *)
(* late.                                                                   *)
(***************************************************************************)
Complete(copy) == \A t \in heard : t \in Range(copy) \/ t \in raced

Clean(copy, own) == Range(copy) \subseteq heard \cup own \/ heard \cap late # {}

TalkInv ==
  /\ Complete(talk) /\ Clean(talk, {})
  /\ \A t \in InFlight :
       /\ t \in Range(turns[t].talk)
       /\ Complete(turns[t].talk)
       /\ t \in late \/ Clean(turns[t].talk, {t})
  /\ \A t \in InFlight : InFlight = {t} \/ t \in raced

\* The members of a longer conversation.
LEMMA RangeAppend ==
  ASSUME NEW s \in Seq(Texts), NEW t \in Texts
  PROVE  Range(Append(s, t)) = Range(s) \cup {t}
<1>1. DOMAIN Append(s, t) = 1..(Len(s) + 1) /\ DOMAIN s = 1..Len(s) /\ Len(s) \in Nat
  OBVIOUS
<1>2. \A i \in 1..Len(s) : Append(s, t)[i] = s[i]
  OBVIOUS
<1>3. Append(s, t)[Len(s) + 1] = t
  OBVIOUS
<1> QED BY <1>1, <1>2, <1>3 DEF Range

\* An empty conversation has no members.
LEMMA RangeEmpty == Range(<<>>) = {}
BY DEF Range

\* A dialogue that is emptied has heard nothing, and all turns in flight are late.
LEMMA EmptiedTalk ==
  ASSUME TalkInv, Emptied, UNCHANGED raced, InFlight' \subseteq InFlight,
         \A t \in InFlight' : turns'[t] = turns[t]
  PROVE  TalkInv'
<1>1. Complete(talk)' /\ Clean(talk, {})'
  BY RangeEmpty DEF Emptied, Complete, Clean
<1>2. ASSUME NEW t \in InFlight'
      PROVE  /\ t \in Range(turns'[t].talk)
             /\ Complete(turns[t].talk)'
             /\ t \in late'
  BY <1>2 DEF Emptied, TalkInv, Complete
<1>3. \A t \in InFlight' : InFlight' = {t} \/ t \in raced'
  BY DEF TalkInv
<1> QED BY <1>1, <1>2, <1>3 DEF TalkInv

\* A step that leaves the conversation alone, and starts no turn, disturbs nothing.
LEMMA QuietTalk ==
  ASSUME TalkInv, UNCHANGED <<talk, heard, late, raced>>, InFlight' \subseteq InFlight,
         \A t \in InFlight' : turns'[t] = turns[t]
  PROVE  TalkInv'
<1>1. Complete(talk)' /\ Clean(talk, {})'
  BY DEF TalkInv, Complete, Clean
<1>2. ASSUME NEW t \in InFlight'
      PROVE  /\ t \in Range(turns'[t].talk)
             /\ Complete(turns[t].talk)'
             /\ t \in late' \/ Clean(turns[t].talk, {t})'
  BY <1>2 DEF TalkInv, Complete, Clean
<1>3. \A t \in InFlight' : InFlight' = {t} \/ t \in raced'
  BY DEF TalkInv
<1> QED BY <1>1, <1>2, <1>3 DEF TalkInv

\* A new turn copies the stored conversation.
LEMMA SayTalk ==
  ASSUME DialogueTypeOK, TalkInv, NEW t \in Texts, Say(t)
  PROVE  TalkInv'
<1>1. turns' = [turns EXCEPT ![t] = [pc |-> "asking", talk |-> Append(talk, t),
                                     outcome |-> "ask"]]
  BY DEF Say
<1>2. /\ turns'[t].talk = Append(talk, t)
      /\ \A u \in Texts \ {t} : turns'[u] = turns[u]
      /\ InFlight' = InFlight \cup {t}
      /\ t \notin InFlight
  BY <1>1 DEF DialogueTypeOK, Say, InFlight
<1>3. Range(Append(talk, t)) = Range(talk) \cup {t}
  BY RangeAppend DEF DialogueTypeOK
<1>4. UNCHANGED <<talk, heard, late>> /\ raced \subseteq raced'
  BY DEF Say
<1>5. Complete(talk)' /\ Clean(talk, {})'
  BY <1>4 DEF TalkInv, Complete, Clean
<1>6. ASSUME NEW u \in InFlight'
      PROVE  /\ u \in Range(turns'[u].talk)
             /\ Complete(turns[u].talk)'
             /\ u \in late' \/ Clean(turns[u].talk, {u})'
  <2>1. CASE u = t
    BY <1>2, <1>3, <1>4, <1>6, <2>1 DEF TalkInv, Complete, Clean
  <2>2. CASE u # t
    BY <1>2, <1>4, <1>6, <2>2 DEF TalkInv, Complete, Clean, InFlight
  <2> QED BY <2>1, <2>2
<1>7. \A u \in InFlight' : InFlight' = {u} \/ u \in raced'
  BY <1>2 DEF Say
<1> QED BY <1>5, <1>6, <1>7 DEF TalkInv

\* A turn that returns stores its copy, and was raced by the turns still in flight.
LEMMA ReturnTalk ==
  ASSUME DialogueTypeOK, TalkInv, NEW t \in Texts, TurnReturns(t)
  PROVE  TalkInv'
<1>1. /\ t \in InFlight
      /\ InFlight' = InFlight \ {t}
      /\ \A u \in InFlight' : turns'[u] = turns[u]
  BY DEF DialogueTypeOK, TurnReturns, InFlight
<1>2. talk' = turns[t].talk /\ heard' = heard \cup {t} /\ UNCHANGED <<late, raced>>
  BY DEF TurnReturns
<1>3. /\ t \in Range(turns[t].talk)
      /\ Complete(turns[t].talk)
      /\ t \in late \/ Clean(turns[t].talk, {t})
  BY <1>1 DEF TalkInv
<1>4. Complete(talk)' /\ Clean(talk, {})'
  BY <1>2, <1>3 DEF Complete, Clean
<1>5. ASSUME NEW u \in InFlight'
      PROVE  /\ u \in Range(turns'[u].talk)
             /\ Complete(turns[u].talk)'
             /\ u \in late' \/ Clean(turns[u].talk, {u})'
  <2>1. u \in InFlight /\ u # t /\ turns'[u] = turns[u]
    BY <1>1, <1>5
  <2>2. t \in raced
    BY <1>1, <2>1 DEF TalkInv
  <2>3. /\ u \in Range(turns[u].talk)
        /\ Complete(turns[u].talk)
        /\ u \in late \/ Clean(turns[u].talk, {u})
    BY <2>1 DEF TalkInv
  <2> QED BY <1>2, <2>1, <2>2, <2>3 DEF Complete, Clean
<1>6. \A u \in InFlight' : InFlight' = {u} \/ u \in raced'
  BY <1>1, <1>2 DEF TalkInv
<1> QED BY <1>4, <1>5, <1>6 DEF TalkInv

\* The invariant of the conversation is inductive.
LEMMA TalkStep == DialogueTypeOK /\ TalkInv /\ [Next]_vars => TalkInv'
<1> SUFFICES ASSUME DialogueTypeOK, TalkInv, [Next]_vars PROVE TalkInv'
  OBVIOUS
<1> USE DEF DialogueTypeOK, InFlight
<1>1. CASE UNCHANGED dialogueVars
  BY <1>1, QuietTalk DEF dialogueVars
<1>2. CASE Start
  BY <1>2, EmptiedTalk DEF Start
<1>3. CASE Leave
  BY <1>3, EmptiedTalk DEF Leave
<1>4. CASE Confirm
  BY <1>4, EmptiedTalk DEF Confirm
<1>5. CASE Restart
  <2>1. \A u \in Texts : turns'[u].pc # "asking"
    BY <1>5 DEF Restart, TurnType
  <2>2. InFlight' = {}
    BY <2>1
  <2> QED BY <1>5, <2>2, EmptiedTalk DEF Restart
<1>6. ASSUME NEW t \in Texts, Say(t) PROVE TalkInv'
  BY <1>6, SayTalk
<1>7. ASSUME NEW t \in Texts, TurnReturns(t) PROVE TalkInv'
  BY <1>7, ReturnTalk
<1>8. ASSUME NEW t \in Texts, TurnFails(t) PROVE TalkInv'
  BY <1>8, QuietTalk DEF TurnFails, NoTurn
<1>9. ASSUME NEW t \in Texts, Answered(t) PROVE TalkInv'
  BY <1>9, QuietTalk DEF Answered, TurnType
<1>10. ASSUME NEW t \in Texts, AnswerFails(t) PROVE TalkInv'
  BY <1>10, QuietTalk DEF AnswerFails, TurnType
<1> QED BY <1>1, <1>2, <1>3, <1>4, <1>5, <1>6, <1>7, <1>8, <1>9, <1>10 DEF Next, vars, Look

\* An answered text is missing from the conversation only if its turn overlapped another,
\* and a text of an earlier dialogue is in it only if its turn was late.
THEOREM TalkIsAlwaysWhatWasHeard == Spec => []TalkIsWhatWasHeard
<1>1. Init => TalkInv
  BY RangeEmpty DEF Init, TalkInv, Complete, Clean, InFlight, NoTurn
<1>2. TalkInv => TalkIsWhatWasHeard
  BY DEF TalkInv, TalkIsWhatWasHeard, Complete, Clean
<1> QED BY <1>1, <1>2, DialogueTypes, TalkStep, PTL DEF Spec

\* The corollary for an owner who waits for each answer: if no two turns are ever in flight
\* together, the conversation holds every text answered in the dialogue.
THEOREM TurnsInTurnForgetNothing ==
  Spec => [](raced = {} => heard \subseteq Range(talk))
<1>1. TalkIsWhatWasHeard => (raced = {} => heard \subseteq Range(talk))
  BY DEF TalkIsWhatWasHeard
<1> QED BY <1>1, TalkIsAlwaysWhatWasHeard, PTL
=============================================================================
