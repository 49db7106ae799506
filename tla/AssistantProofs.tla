--------------------------- MODULE AssistantProofs ---------------------------
(***************************************************************************)
(* Proofs about Assistant, for every number of searches, items, tasks,     *)
(* lanes and instants and every set of disturbances.                       *)
(***************************************************************************)
EXTENDS Assistant, TLAPS

RowType == [live : BOOLEAN, cached : BOOLEAN, base : 0..MaxTime]
RunType == [pc : PCs, query : Queries \cup {NoQuery}, base : 0..MaxTime,
            moment : 0..MaxTime, items : SUBSET Items]

-----------------------------------------------------------------------------
(* Type correctness. *)

\* An idle slot is a well-formed task record.
LEMMA IdleType == Idle \in RunType
BY AssistantAssumption DEF Idle, RunType, PCs

\* Entering the pipeline yields a well-formed task record.
LEMMA EnterType ==
  ASSUME TypeOK, NEW q \in Queries, NEW moment \in 0..MaxTime
  PROVE  EnterPipeline(q, moment) \in RunType
BY AssistantAssumption DEF TypeOK, EnterPipeline, RunType, PCs, Waiting

\* Sending one message of a batch leaves a well-formed task record.
LEMMA SentType ==
  ASSUME NEW run \in RunType, NEW i
  PROVE  Sent(run, i) \in RunType
BY IdleType DEF Sent, RunType, PCs

\* A run at work has a query.
WorkHasQuery ==
  \A r \in Runs : runs[r].pc # "idle" => runs[r].query \in Queries

\* The part of the type that a returning run changes.
LEMMA ReturnsType ==
  ASSUME TypeOK, NEW r \in Runs, runs[r].query \in Queries,
         NEW batch \in SUBSET Items, Returns(r, batch)
  PROVE  /\ rows' \in [Queries -> RowType]
         /\ shown' \subseteq Items
         /\ raced' \subseteq Items
         /\ runs' \in [Runs -> RunType]
<1> USE IdleType
<1>1. runs[r] \in RunType /\ rows[runs[r].query] \in RowType
  BY DEF TypeOK, RunType, RowType
<1>2. CASE RunNowReturns(r, batch)
  BY <1>1, <1>2 DEF RunNowReturns, Claim, TypeOK, RunType, RowType, PCs
<1>3. CASE RunNowAsserts(r)
  BY <1>1, <1>3 DEF RunNowAsserts, TypeOK, RunType, RowType
<1>4. CASE RunScheduledReturns(r, batch)
  <2>1. rows' \in [Queries -> RowType]
    BY <1>1, <1>4 DEF RunScheduledReturns, TypeOK, RunType, RowType
  <2>2. shown' \subseteq Items /\ raced' \subseteq Items
    BY <1>4 DEF RunScheduledReturns, Claim, TypeOK
  <2>3. runs' \in [Runs -> RunType]
    BY <1>1, <1>4 DEF RunScheduledReturns, TypeOK, RunType, PCs
  <2> QED BY <2>1, <2>2, <2>3
<1> QED BY <1>2, <1>3, <1>4 DEF Returns

\* An exception leaves well-formed task records behind.
LEMMA RaiseType ==
  ASSUME TypeOK, NEW t \in Runs, Raise(t)
  PROVE  /\ runs' \in [Runs -> RunType]
         /\ loop' \in {"sleeping", "gathering", "sending", "dead"}
BY IdleType DEF Raise, TypeOK, RunType

\* What a returning run does to the tasks: the others keep their state, and its own
\* slot is freed or holds the batch.
LEMMA ReturnsRuns ==
  ASSUME TypeOK, NEW r \in Runs, NEW batch, Returns(r, batch)
  PROVE  /\ \A o \in Runs \ {r} : runs'[o] = runs[o]
         /\ \/ runs'[r] = Idle
            \/ runs'[r] = [runs[r] EXCEPT !.pc = "sending", !.items = batch]
            \/ runs'[r] = [runs[r] EXCEPT !.pc = "done", !.items = batch]
<1> USE DEF TypeOK
<1>1. CASE RunNowReturns(r, batch)
  BY <1>1 DEF RunNowReturns
<1>2. CASE RunNowAsserts(r)
  BY <1>2 DEF RunNowAsserts
<1>3. CASE RunScheduledReturns(r, batch)
  BY <1>3 DEF RunScheduledReturns
<1> QED BY <1>1, <1>2, <1>3 DEF Returns

TypeInv == TypeOK /\ WorkHasQuery

\* The initial state is well formed.
LEMMA TypeInit == Init => TypeInv
BY AssistantAssumption, IdleType
   DEF Init, TypeInv, TypeOK, WorkHasQuery, NoRow, Idle, PCs, RowType

\* Every step keeps the variables well formed and every busy task on a saved query.
LEMMA TypeStep == TypeInv /\ [Next]_vars => TypeInv'
<1> SUFFICES ASSUME TypeInv, [Next]_vars PROVE TypeInv'
  OBVIOUS
<1> USE IdleType
<1>0. TypeOK /\ WorkHasQuery
  BY DEF TypeInv
<1>1. ASSUME NEW q \in Queries, SaveSearch(q) PROVE TypeInv'
  <2>1. TypeOK'
    BY <1>0, <1>1 DEF SaveSearch, NewRow, TypeOK
  <2> QED BY <1>0, <1>1, <2>1 DEF SaveSearch, NewRow, TypeInv, WorkHasQuery
<1>2. ASSUME NEW q \in Queries, DeleteSearch(q) PROVE TypeInv'
  <2>1. NoRow \in RowType
    BY AssistantAssumption DEF NoRow, RowType
  <2>2. TypeOK'
    BY <1>0, <1>2, <2>1 DEF DeleteSearch, TypeOK, RowType
  <2> QED BY <1>0, <1>2, <2>2 DEF DeleteSearch, TypeInv, WorkHasQuery
<1>3. ASSUME NEW r \in Manual, NEW q \in Queries, RunNow(r, q) PROVE TypeInv'
  <2>1. r \in Runs /\ 0 \in 0..MaxTime
    BY AssistantAssumption DEF Runs
  <2>2. EnterPipeline(q, 0) \in RunType
    BY <1>0, <2>1, EnterType
  <2>3. EnterPipeline(q, 0).query = q
    BY DEF EnterPipeline
  <2>4. TypeOK'
    BY <1>0, <1>3, <2>2 DEF RunNow, TypeOK, RunType, store
  <2>5. WorkHasQuery'
    BY <1>0, <1>3, <2>1, <2>3 DEF RunNow, WorkHasQuery, TypeOK
  <2> QED BY <2>4, <2>5 DEF TypeInv
<1>4. ASSUME NEW r \in Runs, Classified(r) PROVE TypeInv'
  <2>1. runs[r].base \in 0..MaxTime /\ 0 \in 0..MaxTime
    BY <1>0, AssistantAssumption DEF TypeOK
  <2>2. [live |-> TRUE, cached |-> TRUE, base |-> runs[r].base] \in RowType
    BY <2>1 DEF RowType
  <2>3. rows' \in [Queries -> RowType]
    BY <1>0, <1>4, <2>2 DEF Classified, TypeOK, RowType
  <2>4. [runs[r] EXCEPT !.pc = "curating", !.base = 0] \in RunType
    BY <1>0, <2>1 DEF TypeOK, RunType, PCs, Waiting
  <2>5. runs' = [runs EXCEPT ![r] = [runs[r] EXCEPT !.pc = "curating", !.base = 0]]
    BY <1>0, <1>4 DEF Classified, TypeOK
  <2>6. runs' \in [Runs -> RunType]
    BY <1>0, <2>4, <2>5 DEF TypeOK, RunType
  <2>7. TypeOK'
    BY <1>0, <1>4, <2>3, <2>6 DEF Classified, TypeOK, RowType, RunType
  <2> QED BY <1>0, <1>4, <2>7 DEF Classified, TypeInv, WorkHasQuery, TypeOK
<1>5. ASSUME NEW r \in Runs, NEW batch \in SUBSET Items, Returns(r, batch),
             runs[r].query \in Queries
      PROVE  WorkHasQuery'
  <2>1. runs'[r].pc # "idle" => runs'[r].query = runs[r].query
    <3>1. /\ [runs[r] EXCEPT !.pc = "sending", !.items = batch].query = runs[r].query
          /\ [runs[r] EXCEPT !.pc = "done", !.items = batch].query = runs[r].query
      BY <1>0 DEF TypeOK
    <3>2. Idle.pc = "idle"
      BY DEF Idle
    <3> QED BY <1>0, <1>5, <3>1, <3>2, ReturnsRuns
  <2>2. \A o \in Runs \ {r} : runs'[o] = runs[o]
    BY <1>0, <1>5, ReturnsRuns
  <2> QED BY <1>0, <1>5, <2>1, <2>2 DEF WorkHasQuery
<1>6. ASSUME NEW r \in Runs, Curated(r) PROVE TypeInv'
  <2>1. runs[r].query \in Queries
    BY <1>0, <1>6 DEF Curated, WorkHasQuery
  <2>2. PICK found \in SUBSET Items :
          LET unseen == (linked[runs[r].query] \cup found) \ shown IN
          /\ linked' = [linked EXCEPT ![runs[r].query] = @ \cup found]
          /\ \/ /\ unseen = {}
                /\ Returns(r, {})
             \/ /\ unseen # {}
                /\ runs' = [runs EXCEPT ![r].pc = "ranking", ![r].items = unseen]
                /\ UNCHANGED <<rows, shown, raced>>
    BY <1>6 DEF Curated
  <2>3. /\ linked' \in [Queries -> SUBSET Items]
        /\ UNCHANGED <<saved, clock, loop, lane, chat>>
    BY <1>0, <1>6, <2>1, <2>2 DEF Curated, TypeOK
  <2>4. CASE Returns(r, {})
    <3>1. {} \in SUBSET Items
      OBVIOUS
    <3> QED BY <1>0, <1>5, <2>1, <2>3, <2>4, <3>1, ReturnsType
            DEF TypeInv, TypeOK, RowType, RunType
  <2>5. CASE /\ runs' = [runs EXCEPT ![r].pc = "ranking",
                              ![r].items = (linked[runs[r].query] \cup found) \ shown]
             /\ UNCHANGED <<rows, shown, raced>>
    <3> DEFINE unseen == (linked[runs[r].query] \cup found) \ shown
    <3>1. unseen \in SUBSET Items
      BY <1>0, <2>1 DEF TypeOK
    <3> HIDE DEF unseen
    <3>2. runs' = [runs EXCEPT ![r].pc = "ranking", ![r].items = unseen]
      BY <2>5 DEF unseen
    <3> DEFINE run == [runs[r] EXCEPT !.pc = "ranking", !.items = unseen]
    <3>5. run \in RunType
      BY <1>0, <3>1 DEF TypeOK, RunType, PCs, Waiting
    <3>6. runs' = [runs EXCEPT ![r] = run]
      BY <1>0, <3>2 DEF TypeOK
    <3> HIDE DEF run
    <3>3. runs' \in [Runs -> RunType]
      BY <1>0, <3>5, <3>6 DEF TypeOK, RunType
    <3>4. TypeOK'
      BY <1>0, <2>3, <2>5, <3>3 DEF TypeOK, RunType
    <3> QED BY <1>0, <2>1, <3>2, <3>4 DEF TypeInv, WorkHasQuery, TypeOK
  <2> QED BY <2>2, <2>4, <2>5
<1>7. ASSUME NEW r \in Runs, Ranked(r) PROVE TypeInv'
  <2>1. runs[r].query \in Queries /\ runs[r].items \subseteq Items
    BY <1>0, <1>7 DEF Ranked, WorkHasQuery, TypeOK
  <2>2. PICK batch \in Picks(runs[r].query, runs[r].items) : Returns(r, batch)
    BY <1>7 DEF Ranked
  <2>3. batch \in SUBSET Items
    BY <2>1 DEF Picks
  <2>4. UNCHANGED <<saved, linked, clock, loop, lane, chat>>
    BY <1>7 DEF Ranked
  <2> QED BY <1>0, <1>5, <2>1, <2>2, <2>3, <2>4, ReturnsType
          DEF TypeInv, TypeOK, RowType, RunType
<1>8. ASSUME NEW r \in Runs, Raise(r), UNCHANGED <<store, clock, lane, chat, raced>>
      PROVE  TypeInv'
  <2>1. TypeOK'
    BY <1>0, <1>8, RaiseType DEF TypeOK, store, RunType
  <2>2. WorkHasQuery'
    BY <1>0, <1>8 DEF Raise, WorkHasQuery, TypeOK, Idle
  <2> QED BY <2>1, <2>2 DEF TypeInv
<1>9. ASSUME NEW r \in Runs, CallFails(r) PROVE TypeInv'
  BY <1>8, <1>9 DEF CallFails
<1>10. ASSUME NEW r \in Manual, SendManual(r) PROVE TypeInv'
  <2>1. r \in Runs
    BY DEF Runs
  <2>2. PICK i \in runs[r].items :
          /\ chat' = [chat EXCEPT ![i] = @ + 1]
          /\ runs' = [runs EXCEPT ![r] = Sent(@, i)]
    BY <1>10 DEF SendManual
  <2>5. runs' \in [Runs -> RunType]
    BY <1>0, <2>1, <2>2, SentType DEF TypeOK, RunType
  <2>6. TypeOK'
    BY <1>0, <1>10, <2>2, <2>5 DEF SendManual, TypeOK, store, RunType
  <2>3. WorkHasQuery'
    BY <1>0, <1>10, <2>1 DEF SendManual, Sent, WorkHasQuery, TypeOK, Idle
  <2> QED BY <2>6, <2>3 DEF TypeInv
<1>11. ASSUME NEW r \in Manual, SendManualFails(r) PROVE TypeInv'
  <2>1. r \in Runs
    BY DEF Runs
  <2>2. TypeOK'
    BY <1>0, <1>11, <2>1 DEF SendManualFails, MaybeReached, TypeOK, store, RunType
  <2>3. WorkHasQuery'
    BY <1>0, <1>11, <2>1 DEF SendManualFails, WorkHasQuery, TypeOK, Idle
  <2> QED BY <2>2, <2>3 DEF TypeInv
<1>12. ASSUME NEW t \in Scheduled, StartScheduled(t) PROVE TypeInv'
  <2>1. t \in Runs /\ runs[t].query \in Queries /\ runs[t].moment \in 0..MaxTime
    BY <1>0, <1>12 DEF Runs, StartScheduled, WorkHasQuery, TypeOK
  <2>2. CASE Raise(t)
    BY <1>8, <1>12, <2>1, <2>2 DEF StartScheduled
  <2>3. CASE /\ runs' = [runs EXCEPT ![t] = EnterPipeline(@.query, @.moment)]
             /\ UNCHANGED loop
    <3>1. EnterPipeline(runs[t].query, runs[t].moment) \in RunType
      BY <1>0, <2>1, EnterType
    <3>2. EnterPipeline(runs[t].query, runs[t].moment).query = runs[t].query
      BY DEF EnterPipeline
    <3>3. TypeOK'
      BY <1>0, <1>12, <2>1, <2>3, <3>1 DEF StartScheduled, TypeOK, RunType, store
    <3>4. WorkHasQuery'
      BY <1>0, <2>1, <2>3, <3>2 DEF WorkHasQuery, TypeOK
    <3> QED BY <3>3, <3>4 DEF TypeInv
  <2> QED BY <1>12, <2>2, <2>3 DEF StartScheduled
<1>13. ASSUME NEW t \in Scheduled, SendBatch(t) PROVE TypeInv'
  <2>1. t \in Runs
    BY DEF Runs
  <2>2. PICK i \in runs[t].items :
          /\ chat' = [chat EXCEPT ![i] = @ + 1]
          /\ runs' = [runs EXCEPT ![t] = Sent(@, i)]
          /\ loop' \in {"sleeping", loop}
    BY <1>13 DEF SendBatch
  <2>4. runs' \in [Runs -> RunType]
    BY <1>0, <2>1, <2>2, SentType DEF TypeOK, RunType
  <2>5. TypeOK'
    BY <1>0, <1>13, <2>2, <2>4 DEF SendBatch, TypeOK, store, RunType
  <2>6. WorkHasQuery'
    BY <1>0, <1>13, <2>1 DEF SendBatch, MaySend, Sent, WorkHasQuery, TypeOK, Idle
  <2> QED BY <2>5, <2>6 DEF TypeInv
<1>14. ASSUME NEW t \in Scheduled, SendBatchFails(t) PROVE TypeInv'
  <2>1. TypeOK'
    BY <1>0, <1>14 DEF SendBatchFails, MaybeReached, TypeOK, store, RunType
  <2>2. WorkHasQuery'
    BY <1>0, <1>14 DEF SendBatchFails, WorkHasQuery, TypeOK, Idle
  <2> QED BY <2>1, <2>2 DEF TypeInv
<1>15. CASE RunDue
  <2>1. PICK k \in Lanes :
          /\ lane' = k
          /\ runs' = [r \in Runs |->
                IF r \in Due \X {k}
                  THEN [Idle EXCEPT !.pc = "queued", !.query = r[1], !.moment = clock]
                  ELSE runs[r]]
    BY <1>15 DEF RunDue
  <2>2. ASSUME NEW q \in Queries
        PROVE  [Idle EXCEPT !.pc = "queued", !.query = q, !.moment = clock] \in RunType
    BY <1>0 DEF TypeOK, RunType, PCs
  <2>3. \A r \in Due \X {k} : r[1] \in Queries
    BY DEF Due
  <2>4. runs' \in [Runs -> RunType]
    <3>1. ASSUME NEW r \in Runs, r \in Due \X {k}
          PROVE  [Idle EXCEPT !.pc = "queued", !.query = r[1], !.moment = clock] \in RunType
      BY <2>2, <2>3, <3>1
    <3>2. \A r \in Runs : runs[r] \in RunType
      BY <1>0 DEF TypeOK, RunType
    <3> QED BY <2>1, <3>1, <3>2
  <2>5. TypeOK'
    BY <1>0, <1>15, <2>1, <2>4 DEF RunDue, TypeOK, RunType, store
  <2>6. WorkHasQuery'
    BY <1>0, <2>1, <2>3 DEF WorkHasQuery, TypeOK, Idle
  <2> QED BY <2>5, <2>6 DEF TypeInv
<1>16. CASE Gathered
  <2>1. TypeOK'
    BY <1>0, <1>16 DEF Gathered, TypeOK, store, RunType
  <2>2. WorkHasQuery'
    BY <1>0, <1>16 DEF Gathered, WorkHasQuery, TypeOK, Idle
  <2> QED BY <2>1, <2>2 DEF TypeInv
<1>17. CASE Tick
  <2>1. clock' \in 0..MaxTime
    BY <1>0, <1>17, AssistantAssumption DEF Tick, TypeOK
  <2> QED BY <1>0, <1>17, <2>1 DEF Tick, TypeInv, TypeOK, WorkHasQuery, store
<1>18. CASE Restart
  <2>0. shown' \subseteq Items
    <3>1. ASSUME NEW t \in Scheduled, NEW batch \in Picks(runs[t].query, runs[t].items)
          PROVE  batch \subseteq Items
      BY <1>0, <3>1 DEF Picks, TypeOK, Runs
    <3>2. shown \subseteq Items
      BY <1>0 DEF TypeOK
    <3> QED BY <1>18, <3>1, <3>2 DEF Restart
  <2>1. TypeOK'
    BY <1>0, <1>18, <2>0 DEF Restart, TypeOK, RunType
  <2>2. WorkHasQuery'
    BY <1>0, <1>18 DEF Restart, WorkHasQuery, Idle
  <2> QED BY <2>1, <2>2 DEF TypeInv
<1>19. CASE UNCHANGED vars
  BY <1>0, <1>19 DEF vars, TypeInv, TypeOK, WorkHasQuery
<1> QED
  BY <1>1, <1>2, <1>3, <1>4, <1>6, <1>7, <1>9, <1>10, <1>11, <1>12, <1>13, <1>14,
     <1>15, <1>16, <1>17, <1>18, <1>19 DEF Next

\* The type invariant, strengthened so that a proof may use it, always holds.
LEMMA TypeInvariant == Spec => []TypeInv
BY TypeInit, TypeStep, PTL DEF Spec

\* Every variable keeps its shape in every behaviour.
THEOREM TypeCorrect == Spec => []TypeOK
<1>1. TypeInv => TypeOK
  BY DEF TypeInv
<1> QED BY <1>1, TypeInvariant, PTL

-----------------------------------------------------------------------------
(***************************************************************************)
(* What reaches the chat.  SentIsLedgered and RepeatsAreRaces are not      *)
(* inductive: a repeat is prepared long before it is sent.  The invariant  *)
(* below follows an item through the three places it can be: among the     *)
(* candidates of a ranking run, in a batch that is still to be sent, and   *)
(* in the chat.                                                            *)
(***************************************************************************)
Pending(r) == runs[r].pc \in {"sending", "done"}

BatchesLedgered ==
  \A r \in Runs : Pending(r) => runs[r].items \subseteq shown

CandidatesFreshOrRaced ==
  \A r \in Runs : runs[r].pc = "ranking" => runs[r].items \cap shown \subseteq raced

SinglyHeld(i) ==
  /\ chat[i] <= 1
  /\ \A r \in Runs : Pending(r) /\ i \in runs[r].items =>
       /\ chat[i] = 0
       /\ \A o \in Runs : Pending(o) /\ i \in runs[o].items => o = r

DeliveryInv ==
  /\ BatchesLedgered
  /\ SentIsLedgered
  /\ CandidatesFreshOrRaced
  /\ \A i \in Items \ raced : SinglyHeld(i)

\* No run gains candidates or messages to send.
Shrinks ==
  \A o \in Runs :
    /\ runs'[o].pc = "ranking" => /\ runs[o].pc = "ranking"
                                 /\ runs'[o].items = runs[o].items
    /\ Pending(o)' => /\ Pending(o)
                      /\ runs'[o].items \subseteq runs[o].items

\* A step that sends nothing and gives no run anything to send keeps the invariant.
LEMMA QuietStep ==
  ASSUME DeliveryInv, Shrinks, UNCHANGED <<shown, chat, raced>>
  PROVE  DeliveryInv'
BY DEF DeliveryInv, Shrinks, BatchesLedgered, SentIsLedgered, CandidatesFreshOrRaced,
       SinglyHeld

\* A message of a batch may reach the chat when the batch no longer holds it after.
LEMMA SendStep ==
  ASSUME TypeOK, DeliveryInv, Shrinks, UNCHANGED <<shown, raced>>,
         NEW r \in Runs, Pending(r), NEW i \in runs[r].items,
         chat' = chat \/ chat' = [chat EXCEPT ![i] = @ + 1],
         Pending(r)' => i \notin runs'[r].items
  PROVE  DeliveryInv'
<1>1. i \in Items /\ i \in shown
  BY DEF TypeOK, DeliveryInv, BatchesLedgered
<1>2. BatchesLedgered' /\ CandidatesFreshOrRaced'
  BY DEF DeliveryInv, Shrinks, BatchesLedgered, CandidatesFreshOrRaced
<1>3. SentIsLedgered'
  BY <1>1 DEF DeliveryInv, SentIsLedgered, TypeOK
<1>4. ASSUME NEW j \in Items \ raced PROVE SinglyHeld(j)'
  <2>1. SinglyHeld(j)
    BY <1>4 DEF DeliveryInv
  <2>2. CASE j # i
    <3>1. chat'[j] = chat[j]
      BY <2>2, <1>4 DEF TypeOK
    <3> QED BY <2>1, <3>1 DEF SinglyHeld, Shrinks
  <2>3. CASE j = i
    <3>1. chat[i] = 0 /\ \A o \in Runs : Pending(o) /\ i \in runs[o].items => o = r
      BY <2>1, <2>3 DEF SinglyHeld
    <3>2. \A o \in Runs : ~(Pending(o)' /\ i \in runs'[o].items)
      BY <3>1 DEF Shrinks
    <3>3. chat'[i] <= 1
      BY <1>1, <3>1 DEF TypeOK
    <3> QED BY <2>3, <3>2, <3>3 DEF SinglyHeld
  <2> QED BY <2>2, <2>3
<1> QED BY <1>2, <1>3, <1>4 DEF DeliveryInv

\* A run that returns claims only items it was ranking: those it alone was ranking are
\* new to the ledger, the others become raced.
LEMMA ClaimStep ==
  ASSUME TypeOK, DeliveryInv, NEW r \in Runs, NEW batch \in SUBSET Items,
         Returns(r, batch), UNCHANGED chat,
         ~Pending(r),
         batch = {} \/ (runs[r].pc = "ranking" /\ batch \subseteq runs[r].items)
  PROVE  DeliveryInv'
<1>1. CASE RunNowAsserts(r)
  <2>1. Shrinks
    BY <1>1 DEF RunNowAsserts, Shrinks, TypeOK, Idle, Pending
  <2> QED BY <1>1, <2>1, QuietStep DEF RunNowAsserts
<1>2. CASE Claim(r, batch)
  <2> USE DEF TypeOK
  <2>1. /\ [runs[r] EXCEPT !.pc = "sending", !.items = batch].items = batch
        /\ [runs[r] EXCEPT !.pc = "sending", !.items = batch].pc = "sending"
        /\ [runs[r] EXCEPT !.pc = "done", !.items = batch].items = batch
        /\ [runs[r] EXCEPT !.pc = "done", !.items = batch].pc = "done"
        /\ Idle.pc = "idle"
    BY DEF Idle
  <2>2. /\ runs'[r].pc # "ranking"
        /\ Pending(r)' => runs'[r].items = batch
        /\ \A o \in Runs \ {r} : runs'[o] = runs[o]
    BY <2>1, ReturnsRuns DEF Pending
  <2>3. /\ shown' = shown \cup batch
        /\ raced \subseteq raced'
        /\ \A i \in batch : \A o \in Runs \ {r} :
             runs[o].pc = "ranking" /\ i \in runs[o].items => i \in raced'
    BY <1>2 DEF Claim
  <2>4. BatchesLedgered'
    BY <2>2, <2>3 DEF DeliveryInv, BatchesLedgered, Pending
  <2>5. SentIsLedgered'
    BY <2>3 DEF DeliveryInv, SentIsLedgered
  <2>6. CandidatesFreshOrRaced'
    <3> SUFFICES ASSUME NEW o \in Runs, runs'[o].pc = "ranking",
                        NEW i \in runs'[o].items, i \in shown'
                 PROVE  i \in raced'
      BY DEF CandidatesFreshOrRaced
    <3>1. o # r /\ runs'[o] = runs[o]
      BY <2>2
    <3>2. CASE i \in shown
      BY <2>3, <3>1, <3>2 DEF DeliveryInv, CandidatesFreshOrRaced
    <3>3. CASE i \in batch
      BY <2>3, <3>1, <3>3
    <3> QED BY <2>3, <3>2, <3>3
  <2>7. ASSUME NEW i \in Items \ raced' PROVE SinglyHeld(i)'
    <3>1. SinglyHeld(i)
      BY <2>3, <2>7 DEF DeliveryInv
    <3>2. CASE i \notin batch
      BY <2>2, <3>1, <3>2 DEF SinglyHeld, Pending
    <3>3. CASE i \in batch
      <4>1. i \notin shown
        BY <2>3, <2>7, <3>3 DEF DeliveryInv, CandidatesFreshOrRaced
      <4>2. chat[i] = 0
        BY <4>1 DEF DeliveryInv, SentIsLedgered
      <4>3. \A o \in Runs : ~(Pending(o) /\ i \in runs[o].items)
        BY <4>1 DEF DeliveryInv, BatchesLedgered
      <4> QED BY <2>2, <4>2, <4>3 DEF SinglyHeld, Pending
    <3> QED BY <3>2, <3>3
  <2> QED BY <2>4, <2>5, <2>6, <2>7 DEF DeliveryInv
<1> QED BY <1>1, <1>2 DEF Returns, RunNowReturns, RunScheduledReturns

\* Nothing is claimed, held or sent at the start.
LEMMA DeliveryInit == Init => DeliveryInv
BY DEF Init, DeliveryInv, BatchesLedgered, SentIsLedgered, CandidatesFreshOrRaced,
       SinglyHeld, Pending, Idle

\* An exception gives no run anything to send.
LEMMA RaiseShrinks ==
  ASSUME TypeOK, NEW t \in Runs, Raise(t)
  PROVE  Shrinks
BY DEF Raise, Shrinks, Pending, TypeOK, Idle

\* Every step keeps the account of what is claimed, held and sent.
LEMMA DeliveryStep == TypeInv /\ DeliveryInv /\ [Next]_vars => DeliveryInv'
<1> SUFFICES ASSUME TypeInv, DeliveryInv, [Next]_vars PROVE DeliveryInv'
  OBVIOUS
<1>0. TypeOK /\ WorkHasQuery
  BY DEF TypeInv
<1>1. ASSUME NEW q \in Queries, SaveSearch(q) \/ DeleteSearch(q) PROVE DeliveryInv'
  BY <1>1, QuietStep DEF SaveSearch, NewRow, DeleteSearch, Shrinks, Pending
<1>2. ASSUME NEW r \in Manual, NEW q \in Queries, RunNow(r, q) PROVE DeliveryInv'
  <2>1. EnterPipeline(q, 0).pc \in {"curating", "classifying"}
    BY DEF EnterPipeline
  <2>2. Shrinks
    BY <1>0, <1>2, <2>1 DEF RunNow, Shrinks, Pending, TypeOK, Runs
  <2> QED BY <1>2, <2>2, QuietStep DEF RunNow, store
<1>3. ASSUME NEW r \in Runs, Classified(r) PROVE DeliveryInv'
  <2>1. Shrinks
    BY <1>0, <1>3 DEF Classified, Shrinks, Pending, TypeOK
  <2> QED BY <1>3, <2>1, QuietStep DEF Classified
<1>4. ASSUME NEW r \in Runs, Curated(r) PROVE DeliveryInv'
  <2>1. PICK found \in SUBSET Items :
          \/ Returns(r, {})
          \/ /\ runs' = [runs EXCEPT ![r].pc = "ranking",
                      ![r].items = (linked[runs[r].query] \cup found) \ shown]
             /\ UNCHANGED <<rows, shown, raced>>
    BY <1>4 DEF Curated
  <2>2. UNCHANGED chat /\ ~Pending(r)
    BY <1>4 DEF Curated, Pending
  <2>3. CASE Returns(r, {})
    <3>1. {} \in SUBSET Items
      OBVIOUS
    <3> QED BY <1>0, <2>2, <2>3, <3>1, ClaimStep
  <2>4. CASE /\ runs' = [runs EXCEPT ![r].pc = "ranking",
                      ![r].items = (linked[runs[r].query] \cup found) \ shown]
             /\ UNCHANGED <<rows, shown, raced>>
    <3> DEFINE unseen == (linked[runs[r].query] \cup found) \ shown
    <3>1. unseen \cap shown = {}
      OBVIOUS
    <3>2. runs' = [runs EXCEPT ![r].pc = "ranking", ![r].items = unseen]
      BY <2>4
    <3> HIDE DEF unseen
    <3>3. /\ runs'[r].pc = "ranking" /\ runs'[r].items = unseen
          /\ \A o \in Runs \ {r} : runs'[o] = runs[o]
      BY <1>0, <3>2 DEF TypeOK
    <3>4. CandidatesFreshOrRaced'
      BY <2>4, <3>1, <3>3 DEF DeliveryInv, CandidatesFreshOrRaced
    <3>5. ~Pending(r)' /\ \A o \in Runs \ {r} : Pending(o)' <=> Pending(o)
      BY <3>3 DEF Pending
    <3>6. BatchesLedgered' /\ SentIsLedgered'
      BY <2>2, <2>4, <3>3, <3>5 DEF DeliveryInv, BatchesLedgered, SentIsLedgered
    <3>7. \A i \in Items \ raced : SinglyHeld(i)'
      BY <2>2, <2>4, <3>3, <3>5 DEF DeliveryInv, SinglyHeld
    <3> QED BY <2>4, <3>4, <3>6, <3>7 DEF DeliveryInv
  <2> QED BY <2>1, <2>3, <2>4
<1>5. ASSUME NEW r \in Runs, Ranked(r) PROVE DeliveryInv'
  <2>1. PICK batch \in Picks(runs[r].query, runs[r].items) : Returns(r, batch)
    BY <1>5 DEF Ranked
  <2>2. batch \subseteq runs[r].items /\ runs[r].items \subseteq Items
    BY <1>0 DEF Picks, TypeOK
  <2>3. batch \in SUBSET Items
    BY <2>2
  <2>4. UNCHANGED chat /\ ~Pending(r) /\ runs[r].pc = "ranking"
    BY <1>5 DEF Ranked, Pending
  <2> QED BY <1>0, <2>1, <2>2, <2>3, <2>4, ClaimStep
<1>6. ASSUME NEW r \in Runs, CallFails(r) PROVE DeliveryInv'
  BY <1>0, <1>6, RaiseShrinks, QuietStep DEF CallFails, store
<1>7. ASSUME NEW r \in Runs, NEW i \in runs[r].items, Pending(r),
             runs' = [runs EXCEPT ![r] = Sent(@, i)]
      PROVE  Shrinks /\ (Pending(r)' => i \notin runs'[r].items)
  <2>1. /\ runs'[r] = Sent(runs[r], i)
        /\ \A o \in Runs \ {r} : runs'[o] = runs[o]
    BY <1>0, <1>7 DEF TypeOK
  <2>2. \/ Sent(runs[r], i).pc = "idle"
        \/ /\ Sent(runs[r], i).pc = "sending"
           /\ Sent(runs[r], i).items = runs[r].items \ {i}
    BY <1>0 DEF Sent, Idle, TypeOK
  <2> QED BY <1>7, <2>1, <2>2 DEF Shrinks, Pending
<1>8. ASSUME NEW r \in Manual, SendManual(r) PROVE DeliveryInv'
  <2>1. r \in Runs /\ Pending(r)
    BY <1>8 DEF SendManual, Runs, Pending
  <2>2. PICK i \in runs[r].items : /\ chat' = [chat EXCEPT ![i] = @ + 1]
                                   /\ runs' = [runs EXCEPT ![r] = Sent(@, i)]
    BY <1>8 DEF SendManual
  <2> QED BY <1>0, <1>7, <1>8, <2>1, <2>2, SendStep DEF SendManual, store
<1>9. ASSUME NEW t \in Scheduled, SendBatch(t) PROVE DeliveryInv'
  <2>1. t \in Runs /\ Pending(t)
    BY <1>9 DEF SendBatch, MaySend, Runs, Pending
  <2>2. PICK i \in runs[t].items : /\ chat' = [chat EXCEPT ![i] = @ + 1]
                                   /\ runs' = [runs EXCEPT ![t] = Sent(@, i)]
    BY <1>9 DEF SendBatch
  <2> QED BY <1>0, <1>7, <1>9, <2>1, <2>2, SendStep DEF SendBatch, store
<1>10. ASSUME NEW r \in Manual, SendManualFails(r) PROVE DeliveryInv'
  <2>1. r \in Runs /\ Pending(r)
    BY <1>10 DEF SendManualFails, Runs, Pending
  <2>2. PICK i \in runs[r].items : MaybeReached(i)
    BY <1>10 DEF SendManualFails
  <2>3. Shrinks /\ ~Pending(r)'
    BY <1>0, <1>10, <2>1 DEF SendManualFails, Shrinks, Pending, TypeOK, Idle
  <2> QED BY <1>0, <1>10, <2>1, <2>2, <2>3, SendStep
          DEF SendManualFails, MaybeReached, store
<1>11. ASSUME NEW t \in Scheduled, SendBatchFails(t) PROVE DeliveryInv'
  <2>1. t \in Runs /\ Pending(t) /\ t \in TasksOf(lane)
    BY <1>11 DEF SendBatchFails, MaySend, Runs, Pending
  <2>2. PICK i \in runs[t].items : MaybeReached(i)
    BY <1>11 DEF SendBatchFails
  <2>3. Shrinks /\ ~Pending(t)'
    BY <1>0, <1>11, <2>1 DEF SendBatchFails, Shrinks, Pending, TypeOK, Idle
  <2> QED BY <1>0, <1>11, <2>1, <2>2, <2>3, SendStep
          DEF SendBatchFails, MaybeReached, store
<1>12. ASSUME NEW t \in Scheduled, StartScheduled(t) PROVE DeliveryInv'
  <2>1. t \in Runs
    BY DEF Runs
  <2>2. CASE Raise(t)
    BY <1>0, <1>12, <2>1, <2>2, RaiseShrinks, QuietStep DEF StartScheduled, store
  <2>3. CASE runs' = [runs EXCEPT ![t] = EnterPipeline(@.query, @.moment)]
    <3>1. EnterPipeline(runs[t].query, runs[t].moment).pc \in {"curating", "classifying"}
      BY DEF EnterPipeline
    <3>2. Shrinks
      BY <1>0, <2>1, <2>3, <3>1 DEF Shrinks, Pending, TypeOK
    <3> QED BY <1>12, <3>2, QuietStep DEF StartScheduled, store
  <2> QED BY <1>12, <2>2, <2>3 DEF StartScheduled
<1>13. CASE RunDue
  <2>1. PICK k \in Lanes :
          runs' = [r \in Runs |->
                IF r \in Due \X {k}
                  THEN [Idle EXCEPT !.pc = "queued", !.query = r[1], !.moment = clock]
                  ELSE runs[r]]
    BY <1>13 DEF RunDue
  <2>2. \A q : [Idle EXCEPT !.pc = "queued", !.query = q, !.moment = clock].pc = "queued"
    BY DEF Idle
  <2>3. Shrinks
    BY <2>1, <2>2 DEF Shrinks, Pending
  <2> QED BY <1>13, <2>3, QuietStep DEF RunDue, store
<1>14. CASE Gathered
  <2>1. Shrinks
    BY <1>14 DEF Gathered, Shrinks, Pending, Idle
  <2> QED BY <1>14, <2>1, QuietStep DEF Gathered, store
<1>15. CASE Tick
  BY <1>15, QuietStep DEF Tick, Shrinks, Pending, store
<1>16. CASE Restart
  <2>1. \A o \in Runs : ~Pending(o)' /\ runs'[o].pc # "ranking"
    BY <1>16 DEF Restart, Pending, Idle
  <2>2. shown \subseteq shown' /\ UNCHANGED <<chat, raced>>
    BY <1>16 DEF Restart
  <2> QED
    BY <2>1, <2>2 DEF DeliveryInv, BatchesLedgered, SentIsLedgered,
       CandidatesFreshOrRaced, SinglyHeld
<1>17. CASE UNCHANGED vars
  BY <1>17, QuietStep DEF vars, Shrinks, Pending
<1> QED
  BY <1>1, <1>2, <1>3, <1>4, <1>5, <1>6, <1>8, <1>9, <1>10, <1>11, <1>12, <1>13,
     <1>14, <1>15, <1>16, <1>17 DEF Next

\* The account of what is claimed, held and sent always balances.
LEMMA DeliveryInvariant == Spec => [](TypeInv /\ DeliveryInv)
BY TypeInit, TypeStep, DeliveryInit, DeliveryStep, PTL DEF Spec

\* Whatever reached the chat is in the ledger, through crashes and failed sends.
THEOREM SentIsAlwaysLedgered == Spec => []SentIsLedgered
<1>1. DeliveryInv => SentIsLedgered
  BY DEF DeliveryInv
<1> QED BY <1>1, DeliveryInvariant, PTL

\* An item is repeated only when two runs ranked it at once.
THEOREM RepeatsAreAlwaysRaces == Spec => []RepeatsAreRaces
<1>1. TypeInv /\ DeliveryInv => RepeatsAreRaces
  <2> SUFFICES ASSUME TypeInv, DeliveryInv, NEW i \in Items, i \notin raced
               PROVE  ~(chat[i] > 1)
    BY DEF RepeatsAreRaces
  <2>1. chat[i] <= 1 /\ chat[i] \in Nat
    BY DEF DeliveryInv, SinglyHeld, TypeInv, TypeOK
  <2> QED BY <2>1
<1> QED BY <1>1, DeliveryInvariant, PTL

-----------------------------------------------------------------------------
(***************************************************************************)
(* Rankings that do not overlap.  A lock around the ranking of unseen      *)
(* results would give the documented guarantee: with one run ranking at a  *)
(* time nothing is ever raced, and so nothing is delivered twice.          *)
(***************************************************************************)
OneRanking ==
  \A r, o \in Runs : runs[r].pc = "ranking" /\ runs[o].pc = "ranking" => r = o

NothingRaced == raced = {}

\* If no two runs rank at once, before or after a step, the step races nothing.
LEMMA NothingRacedStep ==
  TypeInv /\ OneRanking /\ NothingRaced /\ [Next]_vars => NothingRaced'
<1> SUFFICES ASSUME TypeInv, OneRanking, raced = {}, [Next]_vars PROVE raced' = {}
  BY DEF NothingRaced
<1>1. ASSUME NEW r \in Runs, NEW batch, Returns(r, batch),
             batch = {} \/ runs[r].pc = "ranking"
      PROVE  raced' = {}
  BY <1>1 DEF Returns, RunNowReturns, RunNowAsserts, RunScheduledReturns, Claim, OneRanking
<1>2. ASSUME NEW r \in Runs, Curated(r) \/ Ranked(r) PROVE raced' = {}
  BY <1>1, <1>2 DEF Curated, Ranked
<1>3. ASSUME NEW q \in Queries, SaveSearch(q) \/ DeleteSearch(q) PROVE raced' = raced
  BY <1>3 DEF SaveSearch, NewRow, DeleteSearch
<1>8. ASSUME NEW r \in Manual, NEW q \in Queries, RunNow(r, q) PROVE raced' = raced
  BY <1>8 DEF RunNow
<1>4. ASSUME NEW r \in Runs, Classified(r) \/ CallFails(r) PROVE raced' = raced
  BY <1>4 DEF Classified, CallFails
<1>5. ASSUME NEW r \in Manual, SendManual(r) \/ SendManualFails(r) PROVE raced' = raced
  BY <1>5 DEF SendManual, SendManualFails
<1>6. ASSUME NEW t \in Scheduled, StartScheduled(t) \/ SendBatch(t) \/ SendBatchFails(t)
      PROVE  raced' = raced
  BY <1>6 DEF StartScheduled, SendBatch, SendBatchFails
<1>7. CASE RunDue \/ Gathered \/ Tick \/ Restart \/ UNCHANGED vars
  BY <1>7 DEF RunDue, Gathered, Tick, Restart, vars
<1> QED
  BY <1>2, <1>3, <1>4, <1>5, <1>6, <1>7, <1>8 DEF Next

\* If no two runs ever rank at the same time, no item is ever delivered twice.
THEOREM SerialRankingNeverRepeats ==
  Spec /\ []OneRanking => []NeverDeliveredTwice
<1>1. Init => NothingRaced
  BY DEF Init, NothingRaced
<1>2. TypeInv /\ DeliveryInv /\ NothingRaced => NeverDeliveredTwice
  BY DEF NothingRaced, DeliveryInv, SinglyHeld, NeverDeliveredTwice
<1> QED
  BY <1>1, <1>2, NothingRacedStep, DeliveryInvariant, PTL DEF Spec

-----------------------------------------------------------------------------
(***************************************************************************)
(* The schedule.  An awaited task carries the latest instant anything on   *)
(* its search can write: every base and moment in flight was read off the  *)
(* clock at the tick or before it, because a search saved later is not     *)
(* among those the tick found due.                                         *)
(***************************************************************************)
Latest(q, m) ==
  /\ rows[q].base <= m
  /\ \A o \in Runs : runs[o].query = q => runs[o].base <= m /\ runs[o].moment <= m

OnlySaved ==
  /\ \A q \in Queries : rows[q].live => q \in saved
  /\ \A r \in Runs : runs[r].query \in saved \cup {NoQuery}

AtWork(t) == Awaited(t) /\ runs[t].pc \in {"queued"} \cup Waiting

ScheduleInv ==
  /\ OnlySaved
  /\ \A q \in Queries : Latest(q, clock)
  /\ \A t \in Runs : AtWork(t) => Latest(runs[t].query, runs[t].moment)

\* No run is under way at the start, so none can regress a schedule.
LEMMA ScheduleInit == Init => ScheduleInv
BY AssistantAssumption DEF Init, ScheduleInv, Latest, OnlySaved, AtWork, Awaited, NoRow, Idle

\* No task is newly at work for the loop, and nothing newer than before is in flight.
NothingNewer ==
  /\ \A t \in Runs : AtWork(t)' => /\ AtWork(t)
                                   /\ runs'[t].query = runs[t].query
                                   /\ runs'[t].moment = runs[t].moment
  /\ \A q \in Queries, m \in Nat : Latest(q, m) => Latest(q, m)'

\* A step that starts no run and leaves the bases alone leaves nothing newer behind.
LEMMA NothingNewerStep ==
  ASSUME TypeInv, ScheduleInv, NothingNewer, UNCHANGED clock
  PROVE  /\ \A q \in Queries : Latest(q, clock)'
         /\ \A t \in Runs : AtWork(t)' => Latest(runs[t].query, runs[t].moment)'
<1>1. clock \in Nat /\ \A t \in Runs : runs[t].moment \in Nat
  BY AssistantAssumption DEF TypeInv, TypeOK
<1>2. \A q \in Queries : Latest(q, clock)'
  <2>1. ASSUME NEW q \in Queries, NEW m \in Nat, clock' = m, Latest(q, m)'
        PROVE  Latest(q, clock)'
    BY <2>1 DEF Latest
  <2> QED BY <1>1, <2>1 DEF ScheduleInv, NothingNewer
<1>3. ASSUME NEW t \in Runs, AtWork(t)' PROVE Latest(runs[t].query, runs[t].moment)'
  <2>1. /\ AtWork(t) /\ runs'[t].query = runs[t].query
        /\ runs'[t].moment = runs[t].moment
    BY <1>3 DEF NothingNewer
  <2>2. runs[t].query \in Queries
    BY <2>1 DEF AtWork, Waiting, TypeInv, WorkHasQuery
  <2>3. ASSUME NEW q \in Queries, NEW m \in Nat, runs'[t].query = q, runs'[t].moment = m,
               Latest(q, m)'
        PROVE  Latest(runs[t].query, runs[t].moment)'
    BY <2>3 DEF Latest
  <2>4. Latest(runs[t].query, runs[t].moment)
    BY <2>1 DEF ScheduleInv
  <2> QED BY <1>1, <2>1, <2>2, <2>3, <2>4 DEF NothingNewer
<1> QED BY <1>2, <1>3

\* Every step keeps what an awaited task knows at least as recent as its row.
LEMMA ScheduleStep == TypeInv /\ ScheduleInv /\ [Next]_vars => ScheduleInv'
<1> SUFFICES ASSUME TypeInv, ScheduleInv, [Next]_vars PROVE ScheduleInv'
  OBVIOUS
<1> USE DEF ScheduleInv
<1>0. TypeOK /\ WorkHasQuery /\ OnlySaved /\ NoQuery \notin Queries
  BY AssistantAssumption DEF TypeInv
<1>00. /\ Idle.pc = "idle" /\ Idle.query = NoQuery /\ Idle.base = 0 /\ Idle.moment = 0
  BY DEF Idle
<1>1. ASSUME NothingNewer, OnlySaved', UNCHANGED clock PROVE ScheduleInv'
  BY <1>1, NothingNewerStep
<1>2. ASSUME NEW q \in Queries, SaveSearch(q) PROVE ScheduleInv'
  <2>1. \A r \in Runs : runs[r].query # q
    BY <1>0, <1>2 DEF SaveSearch, NewRow, OnlySaved
  <2>2. /\ rows' = [rows EXCEPT ![q] = [live |-> TRUE, cached |-> FALSE, base |-> clock]]
        /\ UNCHANGED <<clock, runs, loop, lane>>
    BY <1>2 DEF SaveSearch, NewRow
  <2>3. \A p \in Queries \ {q} : rows'[p] = rows[p]
    BY <1>0, <2>2 DEF TypeOK
  <2>4. rows'[q].base = clock /\ clock \in Nat
    BY <1>0, <2>2, AssistantAssumption DEF TypeOK
  <2>5. OnlySaved'
    BY <1>0, <1>2, <2>3 DEF SaveSearch, NewRow, OnlySaved
  <2>6. \A p \in Queries : Latest(p, clock)'
    BY <2>1, <2>2, <2>3, <2>4 DEF Latest
  <2>7. ASSUME NEW t \in Runs, AtWork(t)' PROVE Latest(runs[t].query, runs[t].moment)'
    <3>1. AtWork(t) /\ runs[t].query \in Queries
      BY <1>0, <2>2, <2>7 DEF AtWork, Awaited, Waiting, WorkHasQuery
    <3> QED BY <2>1, <2>2, <2>3, <3>1 DEF Latest
  <2> QED BY <2>5, <2>6, <2>7
<1>3. ASSUME NEW q \in Queries, DeleteSearch(q) PROVE ScheduleInv'
  <2>1. /\ rows' = [rows EXCEPT ![q] = NoRow]
        /\ UNCHANGED <<saved, clock, runs, loop, lane>>
    BY <1>3 DEF DeleteSearch
  <2>2. NoRow.base = 0 /\ ~NoRow.live
    BY DEF NoRow
  <2>3. NothingNewer
    BY <1>0, <2>1, <2>2 DEF NothingNewer, Latest, AtWork, Awaited, TypeOK
  <2>4. OnlySaved'
    BY <1>0, <2>1, <2>2 DEF OnlySaved, TypeOK
  <2> QED BY <1>1, <2>1, <2>3, <2>4
\* One task changes; the others and the loop do not.
<1>4. ASSUME NEW r \in Runs, NEW q \in Queries, UNCHANGED <<clock, loop, lane>>,
             \A o \in Runs \ {r} : runs'[o] = runs[o],
             AtWork(r)' => /\ AtWork(r)
                           /\ runs'[r].query = runs[r].query
                           /\ runs'[r].moment = runs[r].moment,
             \A p \in Queries \ {q} : rows'[p] = rows[p],
             runs'[r].query \in {q, NoQuery},
             \A m \in Nat : Latest(q, m) => /\ rows'[q].base <= m
                                           /\ runs'[r].base <= m
                                           /\ runs'[r].moment <= m
      PROVE  NothingNewer
  <2>1. \A t \in Runs \ {r} : AtWork(t)' => AtWork(t)
    BY <1>4 DEF AtWork, Awaited
  <2>2. ASSUME NEW p \in Queries, NEW m \in Nat, Latest(p, m) PROVE Latest(p, m)'
    <3>1. CASE p = q
      BY <1>4, <2>2, <3>1 DEF Latest
    <3>2. CASE p # q
      BY <1>0, <1>4, <2>2, <3>2 DEF Latest
    <3> QED BY <3>1, <3>2
  <2> QED BY <1>4, <2>1, <2>2 DEF NothingNewer
<1>5. ASSUME NEW r \in Manual, NEW q \in Queries, RunNow(r, q) PROVE ScheduleInv'
  <2>1. /\ r \in Runs /\ r \notin Scheduled
        /\ runs' = [runs EXCEPT ![r] = EnterPipeline(q, 0)]
        /\ UNCHANGED <<rows, saved, clock, loop, lane>>
        /\ rows[q].live
    BY <1>5, AssistantAssumption DEF RunNow, store, Runs
  <2>2. /\ runs'[r] = EnterPipeline(q, 0)
        /\ \A o \in Runs \ {r} : runs'[o] = runs[o]
    BY <1>0, <2>1 DEF TypeOK
  <2>3. /\ runs'[r].query = q /\ runs'[r].moment = 0
        /\ runs'[r].base \in {0, rows[q].base}
    BY <2>2 DEF EnterPipeline
  <2>4. ~AtWork(r)'
    BY <2>1 DEF AtWork, Awaited
  <2>5. \A m \in Nat : Latest(q, m) => /\ rows'[q].base <= m
                                       /\ runs'[r].base <= m
                                       /\ runs'[r].moment <= m
    BY <2>1, <2>3 DEF Latest
  <2>6. NothingNewer
    BY <1>4, <2>1, <2>2, <2>3, <2>4, <2>5
  <2>7. OnlySaved'
    BY <1>0, <2>1, <2>2, <2>3 DEF OnlySaved
  <2> QED BY <1>1, <2>1, <2>6, <2>7
<1>6. ASSUME NEW r \in Runs, Classified(r) PROVE ScheduleInv'
  <2> DEFINE q == runs[r].query
  <2>1. q \in Queries
    BY <1>0, <1>6 DEF Classified, WorkHasQuery
  <2>2. /\ rows' = [rows EXCEPT ![q] = [live |-> TRUE, cached |-> TRUE, base |-> runs[r].base]]
        /\ runs' = [runs EXCEPT ![r].pc = "curating", ![r].base = 0]
        /\ UNCHANGED <<saved, clock, loop, lane>>
    BY <1>6 DEF Classified
  <2>3. /\ runs'[r].query = q /\ runs'[r].moment = runs[r].moment /\ runs'[r].base = 0
        /\ \A o \in Runs \ {r} : runs'[o] = runs[o]
        /\ rows'[q].base = runs[r].base
        /\ \A p \in Queries \ {q} : rows'[p] = rows[p]
    BY <1>0, <2>1, <2>2 DEF TypeOK
  <2>4. AtWork(r)' => AtWork(r)
    BY <1>6, <2>2 DEF AtWork, Awaited, Classified, Waiting
  <2>5. \A m \in Nat : Latest(q, m) => /\ rows'[q].base <= m
                                       /\ runs'[r].base <= m
                                       /\ runs'[r].moment <= m
    BY <2>3 DEF Latest
  <2>6. NothingNewer
    BY <1>4, <2>1, <2>2, <2>3, <2>4, <2>5
  <2>7. OnlySaved'
    BY <1>0, <2>1, <2>2, <2>3 DEF OnlySaved
  <2> QED BY <1>1, <2>2, <2>6, <2>7
<1>7. ASSUME NEW r \in Runs, NEW batch, Returns(r, batch), runs[r].pc \in Waiting,
             UNCHANGED <<saved, clock, loop, lane>>
      PROVE  ScheduleInv'
  <2> DEFINE q == runs[r].query
  <2>1. q \in Queries
    BY <1>0, <1>7 DEF Waiting, WorkHasQuery
  <2>2. /\ [runs[r] EXCEPT !.pc = "sending", !.items = batch].query = q
        /\ [runs[r] EXCEPT !.pc = "sending", !.items = batch].base = runs[r].base
        /\ [runs[r] EXCEPT !.pc = "sending", !.items = batch].moment = runs[r].moment
        /\ [runs[r] EXCEPT !.pc = "sending", !.items = batch].pc = "sending"
        /\ [runs[r] EXCEPT !.pc = "done", !.items = batch].query = q
        /\ [runs[r] EXCEPT !.pc = "done", !.items = batch].base = runs[r].base
        /\ [runs[r] EXCEPT !.pc = "done", !.items = batch].moment = runs[r].moment
        /\ [runs[r] EXCEPT !.pc = "done", !.items = batch].pc = "done"
    BY <1>0 DEF TypeOK
  <2>3. /\ runs'[r].pc \in {"idle", "sending", "done"}
        /\ \/ /\ runs'[r].query = NoQuery /\ runs'[r].base = 0 /\ runs'[r].moment = 0
           \/ /\ runs'[r].query = q /\ runs'[r].base = runs[r].base
              /\ runs'[r].moment = runs[r].moment
        /\ \A o \in Runs \ {r} : runs'[o] = runs[o]
    <3>1. /\ \A o \in Runs \ {r} : runs'[o] = runs[o]
          /\ \/ runs'[r] = Idle
             \/ runs'[r] = [runs[r] EXCEPT !.pc = "sending", !.items = batch]
             \/ runs'[r] = [runs[r] EXCEPT !.pc = "done", !.items = batch]
      BY <1>0, <1>7, ReturnsRuns
    <3>2. CASE runs'[r] = Idle
      BY <1>00, <3>1, <3>2
    <3>3. CASE runs'[r] = [runs[r] EXCEPT !.pc = "sending", !.items = batch]
      BY <2>2, <3>1, <3>3
    <3>4. CASE runs'[r] = [runs[r] EXCEPT !.pc = "done", !.items = batch]
      BY <2>2, <3>1, <3>4
    <3> QED BY <3>1, <3>2, <3>3, <3>4
  <2>4. /\ rows'[q].base \in {rows[q].base, runs[r].moment}
        /\ rows'[q].live = rows[q].live
        /\ \A p \in Queries \ {q} : rows'[p] = rows[p]
    BY <1>0, <1>7, <2>1
       DEF Returns, RunNowReturns, RunNowAsserts, RunScheduledReturns, TypeOK
  <2>5. \A m \in Nat : Latest(q, m) => /\ rows'[q].base <= m
                                       /\ runs'[r].base <= m
                                       /\ runs'[r].moment <= m
    BY <2>3, <2>4 DEF Latest
  <2>6. ~AtWork(r)'
    BY <2>3 DEF AtWork, Waiting
  <2>7. NothingNewer
    BY <1>4, <1>7, <2>1, <2>3, <2>4, <2>5, <2>6
  <2>8. OnlySaved'
    BY <1>0, <1>7, <2>1, <2>3, <2>4 DEF OnlySaved
  <2> QED BY <1>1, <1>7, <2>7, <2>8
\* Some tasks end, none starts, the rows stay.
<1>8. ASSUME UNCHANGED <<rows, saved, clock>>,
             \A r \in Runs : \/ runs'[r] = Idle
                            \/ /\ runs'[r].query = runs[r].query
                               /\ runs'[r].base = runs[r].base
                               /\ runs'[r].moment = runs[r].moment
                               /\ AtWork(r)' => AtWork(r)
      PROVE  ScheduleInv'
  <2>1. \A r \in Runs : ~(runs'[r] = Idle /\ AtWork(r)')
    BY <1>00 DEF AtWork, Waiting
  <2>2. \A q \in Queries, m \in Nat : Latest(q, m) => Latest(q, m)'
    BY <1>0, <1>00, <1>8 DEF Latest
  <2>3. NothingNewer
    BY <1>8, <2>1, <2>2 DEF NothingNewer
  <2>4. OnlySaved'
    BY <1>0, <1>00, <1>8 DEF OnlySaved
  <2> QED BY <1>1, <1>8, <2>3, <2>4
<1>9. ASSUME NEW r \in Runs, Curated(r) PROVE ScheduleInv'
  <2>1. PICK found \in SUBSET Items :
          \/ Returns(r, {})
          \/ /\ runs' = [runs EXCEPT ![r].pc = "ranking",
                      ![r].items = (linked[runs[r].query] \cup found) \ shown]
             /\ UNCHANGED <<rows, shown, raced>>
    BY <1>9 DEF Curated
  <2>2. runs[r].pc = "curating" /\ UNCHANGED <<saved, clock, loop, lane>>
    BY <1>9 DEF Curated
  <2>3. CASE Returns(r, {})
    BY <1>7, <2>2, <2>3 DEF Waiting
  <2>4. CASE /\ runs' = [runs EXCEPT ![r].pc = "ranking",
                      ![r].items = (linked[runs[r].query] \cup found) \ shown]
             /\ UNCHANGED <<rows, shown, raced>>
    <3>1. /\ runs'[r].query = runs[r].query /\ runs'[r].base = runs[r].base
          /\ runs'[r].moment = runs[r].moment
          /\ \A o \in Runs \ {r} : runs'[o] = runs[o]
      BY <1>0, <2>4 DEF TypeOK
    <3>2. \A o \in Runs : AtWork(o)' => AtWork(o)
      BY <2>2, <3>1 DEF AtWork, Awaited, Waiting
    <3> QED BY <1>8, <2>2, <2>4, <3>1, <3>2
  <2> QED BY <2>1, <2>3, <2>4
<1>10. ASSUME NEW r \in Runs, Ranked(r) PROVE ScheduleInv'
  BY <1>7, <1>10 DEF Ranked, Waiting
<1>11. ASSUME NEW t \in Runs, Raise(t), UNCHANGED <<rows, saved, clock, lane>>
       PROVE  ScheduleInv'
  <2>1. CASE loop' = "sleeping" /\ \A r \in Runs : runs'[r] \in {Idle, runs[r]}
    BY <1>8, <1>11, <2>1 DEF AtWork, Awaited
  <2>2. CASE UNCHANGED loop /\ \A r \in Runs : runs'[r] \in {Idle, runs[r]}
    BY <1>8, <1>11, <2>2 DEF AtWork, Awaited
  <2> QED BY <1>0, <1>11, <2>1, <2>2 DEF Raise, TypeOK
<1>12. ASSUME NEW r \in Runs, CallFails(r) PROVE ScheduleInv'
  BY <1>11, <1>12 DEF CallFails, store
<1>13. ASSUME NEW r \in Runs, NEW i, runs' = [runs EXCEPT ![r] = Sent(@, i)],
              UNCHANGED <<rows, saved, clock, lane>>,
              loop' # "gathering" \/ (UNCHANGED loop /\ ~AtWork(r))
       PROVE  ScheduleInv'
  <2>1. /\ runs'[r] = Sent(runs[r], i)
        /\ \A o \in Runs \ {r} : runs'[o] = runs[o]
    BY <1>0, <1>13 DEF TypeOK
  <2>2. \/ runs'[r] = Idle
        \/ /\ runs'[r].pc = "sending" /\ runs'[r].query = runs[r].query
           /\ runs'[r].base = runs[r].base /\ runs'[r].moment = runs[r].moment
    BY <1>0, <2>1 DEF Sent, TypeOK
  <2>3. ~AtWork(r)'
    BY <1>00, <2>2 DEF AtWork, Waiting
  <2>4. \A o \in Runs \ {r} : AtWork(o)' => AtWork(o)
    BY <1>13, <2>1 DEF AtWork, Awaited
  <2> QED BY <1>8, <1>13, <2>1, <2>2, <2>3, <2>4
<1>14. ASSUME NEW r \in Manual, SendManual(r) PROVE ScheduleInv'
  <2>1. r \in Runs /\ ~AtWork(r)
    BY <1>14 DEF SendManual, AtWork, Waiting, Runs
  <2> QED BY <1>13, <1>14, <2>1 DEF SendManual, store
<1>15. ASSUME NEW r \in Manual, SendManualFails(r) PROVE ScheduleInv'
  <2>1. \A o \in Runs : runs'[o] \in {Idle, runs[o]}
    BY <1>0, <1>15 DEF SendManualFails, TypeOK
  <2> QED BY <1>8, <1>15, <2>1 DEF SendManualFails, AtWork, Awaited, store
<1>16. ASSUME NEW t \in Scheduled, SendBatch(t) PROVE ScheduleInv'
  <2>1. t \in Runs /\ loop' # "gathering"
    BY <1>16 DEF SendBatch, MaySend, Runs
  <2> QED BY <1>13, <1>16, <2>1 DEF SendBatch, store
<1>17. ASSUME NEW t \in Scheduled, SendBatchFails(t) PROVE ScheduleInv'
  <2>1. \A o \in Runs : runs'[o] \in {Idle, runs[o]} /\ ~AtWork(o)'
    BY <1>17 DEF SendBatchFails, AtWork, Awaited
  <2> QED BY <1>8, <1>17, <2>1 DEF SendBatchFails, store
<1>18. ASSUME NEW t \in Scheduled, StartScheduled(t) PROVE ScheduleInv'
  <2> DEFINE q == runs[t].query
  <2>1. t \in Runs /\ q \in Queries /\ runs[t].pc = "queued"
        /\ UNCHANGED <<rows, saved, clock, lane>>
    BY <1>0, <1>18 DEF StartScheduled, WorkHasQuery, Runs, store
  <2>2. CASE Raise(t)
    BY <1>11, <2>1, <2>2
  <2>3. CASE /\ runs' = [runs EXCEPT ![t] = EnterPipeline(@.query, @.moment)]
             /\ UNCHANGED loop
    <3>1. /\ runs'[t] = EnterPipeline(q, runs[t].moment)
          /\ \A o \in Runs \ {t} : runs'[o] = runs[o]
      BY <1>0, <2>1, <2>3 DEF TypeOK
    <3>2. /\ runs'[t].query = q /\ runs'[t].moment = runs[t].moment
          /\ runs'[t].base \in {0, rows[q].base}
      BY <3>1 DEF EnterPipeline
    <3>3. AtWork(t)' => AtWork(t)
      BY <2>1, <2>3 DEF AtWork, Awaited
    <3>4. \A m \in Nat : Latest(q, m) => /\ rows'[q].base <= m
                                         /\ runs'[t].base <= m
                                         /\ runs'[t].moment <= m
      BY <2>1, <3>2 DEF Latest
    <3>5. NothingNewer
      BY <1>4, <2>1, <2>3, <3>1, <3>2, <3>3, <3>4
    <3>6. OnlySaved'
      BY <1>0, <2>1, <3>1, <3>2 DEF OnlySaved
    <3> QED BY <1>1, <2>1, <3>5, <3>6
  <2> QED BY <1>18, <2>2, <2>3 DEF StartScheduled
<1>19. CASE RunDue
  <2>1. PICK k \in Lanes :
          /\ runs' = [r \in Runs |->
                IF r \in Due \X {k}
                  THEN [Idle EXCEPT !.pc = "queued", !.query = r[1], !.moment = clock]
                  ELSE runs[r]]
          /\ lane' = k
          /\ \A q \in Queries : runs[<<q, k>>].pc = "idle"
    BY <1>19 DEF RunDue
  <2>2. UNCHANGED <<rows, saved, clock>> /\ clock \in Nat
    <3>1. clock \in Nat
      BY <1>0, AssistantAssumption DEF TypeOK
    <3> QED BY <1>19, <3>1 DEF RunDue, store
  <2>3. ASSUME NEW r \in Runs, r \in Due \X {k}
        PROVE  /\ runs'[r].query \in Queries /\ runs'[r].query \in saved
               /\ runs'[r].base = 0 /\ runs'[r].moment = clock
    BY <1>0, <2>1, <2>3 DEF Due, IsDue, OnlySaved, Idle
  <2>4. ASSUME NEW r \in Runs, r \notin Due \X {k}
        PROVE  runs'[r] = runs[r]
    BY <2>1, <2>4
  <2>5. OnlySaved'
    BY <1>0, <2>2, <2>3, <2>4 DEF OnlySaved
  <2>6. \A q \in Queries : Latest(q, clock) => Latest(q, clock)'
    BY <2>2, <2>3, <2>4 DEF Latest
  <2>7. ASSUME NEW t \in Runs, AtWork(t)' PROVE Latest(runs[t].query, runs[t].moment)'
    <3>1. t \in Scheduled /\ t[2] = k /\ runs'[t].pc # "idle"
      BY <2>1, <2>7 DEF AtWork, Awaited, Waiting
    <3>2. \A q \in Queries : t = <<q, k>> => runs[t].pc = "idle"
      BY <2>1
    <3>3. \E q \in Queries : t = <<q, k>>
      BY <3>1 DEF Scheduled
    <3>4. t \in Due \X {k}
      BY <2>4, <3>1, <3>2, <3>3
    <3>5. runs'[t].query \in Queries /\ runs'[t].moment = clock
      BY <2>3, <3>4
    <3>6. ASSUME NEW q \in Queries, NEW m, runs'[t].query = q, runs'[t].moment = m,
                 clock' = m, Latest(q, clock)'
          PROVE  Latest(runs[t].query, runs[t].moment)'
      BY <3>6 DEF Latest
    <3> QED BY <2>2, <2>6, <3>5, <3>6
  <2> QED BY <2>5, <2>6, <2>7
<1>20. CASE Gathered
  <2>1. /\ \A o \in Runs : runs'[o] \in {Idle, runs[o]} /\ loop' # "gathering"
        /\ UNCHANGED <<rows, saved, clock>>
    BY <1>20 DEF Gathered, store
  <2> QED BY <1>8, <2>1 DEF AtWork, Awaited
<1>21. CASE Tick
  <2>1. clock \in Nat /\ clock' = clock + 1 /\ UNCHANGED <<rows, saved, runs, loop, lane>>
    BY <1>0, <1>21, AssistantAssumption DEF Tick, TypeOK, store
  <2>2. OnlySaved'
    BY <1>0, <2>1 DEF OnlySaved
  <2>3. \A q \in Queries : rows[q].base \in Nat
    BY <1>0, AssistantAssumption DEF TypeOK
  <2>4. \A r \in Runs : runs[r].base \in Nat /\ runs[r].moment \in Nat
    BY <1>0, AssistantAssumption DEF TypeOK
  <2>5. \A q \in Queries : Latest(q, clock)'
    BY <2>1, <2>3, <2>4 DEF Latest
  <2>6. ASSUME NEW t \in Runs, AtWork(t)' PROVE Latest(runs[t].query, runs[t].moment)'
    <3>1. AtWork(t)
      BY <2>1, <2>6 DEF AtWork, Awaited
    <3> QED BY <2>1, <3>1 DEF Latest
  <2> QED BY <2>2, <2>5, <2>6
<1>22. CASE Restart
  <2>1. /\ \A o \in Runs : runs'[o] = Idle
        /\ UNCHANGED <<rows, saved, clock>>
    BY <1>22 DEF Restart, store
  <2> QED BY <1>8, <2>1
<1>23. CASE UNCHANGED vars
  BY <1>8, <1>23 DEF vars, AtWork, Awaited
<1> QED
  BY <1>2, <1>3, <1>5, <1>6, <1>9, <1>10, <1>12, <1>14, <1>15, <1>16, <1>17, <1>18,
     <1>19, <1>20, <1>21, <1>22, <1>23 DEF Next

\* What an awaited task knows is always at least as recent as its row.
LEMMA ScheduleInvariant == Spec => [](TypeInv /\ ScheduleInv)
BY TypeInit, TypeStep, ScheduleInit, ScheduleStep, PTL DEF Spec

\* Only these steps write a row that stays.
LEMMA BaseStep ==
  ASSUME TypeInv, ScheduleInv, [Next]_vars, NEW q \in Queries,
         rows[q].live, rows'[q].live, rows'[q].base # rows[q].base
  PROVE  \/ \E r \in Runs : runs[r].query = q /\ runs[r].pc = "classifying"
         \/ \E r \in Runs : /\ runs[r].query = q /\ r \in Scheduled
                            /\ runs[r].pc \in {"curating", "ranking"}
                            /\ rows'[q].base = runs[r].moment
<1>0. TypeOK /\ WorkHasQuery
  BY DEF TypeInv
<1>1. ASSUME NEW p \in Queries, SaveSearch(p) \/ DeleteSearch(p), p # q PROVE FALSE
  BY <1>0, <1>1 DEF SaveSearch, NewRow, DeleteSearch, TypeOK
<1>2. ASSUME DeleteSearch(q) PROVE FALSE
  BY <1>0, <1>2 DEF DeleteSearch, NoRow, TypeOK
<1>3. ASSUME NEW r \in Runs, Classified(r), runs[r].query # q PROVE FALSE
  BY <1>0, <1>3 DEF Classified, TypeOK, WorkHasQuery
<1>4. ASSUME NEW r \in Runs, Classified(r), runs[r].query = q
      PROVE  runs[r].query = q /\ runs[r].pc = "classifying"
  BY <1>4 DEF Classified
<1>5. ASSUME NEW r \in Runs, NEW batch, Returns(r, batch), runs[r].query \in Queries
      PROVE  /\ r \in Scheduled /\ runs[r].query = q
             /\ rows'[q].base = runs[r].moment
  BY <1>0, <1>5 DEF Returns, RunNowReturns, RunNowAsserts, RunScheduledReturns, TypeOK
<1>6. ASSUME NEW r \in Runs, Curated(r) \/ Ranked(r)
      PROVE  /\ r \in Scheduled /\ runs[r].query = q
             /\ rows'[q].base = runs[r].moment
             /\ runs[r].pc \in {"curating", "ranking"}
  BY <1>0, <1>5, <1>6 DEF Curated, Ranked, WorkHasQuery
<1>7. ASSUME UNCHANGED rows PROVE FALSE
  BY <1>7
<1>8. ASSUME NEW r \in Manual, NEW p \in Queries, RunNow(r, p) PROVE FALSE
  BY <1>7, <1>8 DEF RunNow, store
<1>9. ASSUME NEW r \in Runs, CallFails(r) PROVE FALSE
  BY <1>7, <1>9 DEF CallFails, store
<1>10. ASSUME NEW r \in Manual, SendManual(r) \/ SendManualFails(r) PROVE FALSE
  BY <1>7, <1>10 DEF SendManual, SendManualFails, store
<1>11. ASSUME NEW t \in Scheduled, StartScheduled(t) \/ SendBatch(t) \/ SendBatchFails(t)
       PROVE  FALSE
  BY <1>7, <1>11 DEF StartScheduled, SendBatch, SendBatchFails, store
<1>12. ASSUME RunDue \/ Gathered \/ Tick \/ Restart \/ UNCHANGED vars PROVE FALSE
  BY <1>7, <1>12 DEF RunDue, Gathered, Tick, Restart, store, vars
<1>13. ASSUME SaveSearch(q) PROVE FALSE
  BY <1>13 DEF SaveSearch, NewRow, ScheduleInv, OnlySaved
<1> QED
  BY <1>1, <1>2, <1>3, <1>4, <1>6, <1>8, <1>9, <1>10, <1>11, <1>12, <1>13 DEF Next

\* last_run_at moves back only when a classification writes an older copy of the row
\* back, or when a task abandoned by an earlier tick finishes.
THEOREM ScheduleRegressesOnlyByRaceAlways == Spec => ScheduleRegressesOnlyByRace
<1> DEFINE RegressIsRace ==
      \A q \in Queries :
        rows[q].live /\ rows'[q].live /\ rows'[q].base < rows[q].base =>
          \E r \in Runs : /\ runs[r].query = q
                         /\ (runs[r].pc = "classifying" \/ Orphan(r))
<1>1. TypeInv /\ ScheduleInv /\ [Next]_vars => [RegressIsRace]_vars
  <2> SUFFICES ASSUME TypeInv, ScheduleInv, [Next]_vars, NEW q \in Queries,
                      rows[q].live, rows'[q].live, rows'[q].base < rows[q].base
               PROVE  \E r \in Runs : /\ runs[r].query = q
                                     /\ (runs[r].pc = "classifying" \/ Orphan(r))
    OBVIOUS
  <2>1. rows[q].base \in Nat
    BY AssistantAssumption DEF TypeInv, TypeOK
  <2>2. rows'[q].base # rows[q].base
    BY <2>1
  <2>3. CASE \E r \in Runs : runs[r].query = q /\ runs[r].pc = "classifying"
    BY <2>3
  <2>4. CASE \E r \in Runs : /\ runs[r].query = q /\ r \in Scheduled
                            /\ runs[r].pc \in {"curating", "ranking"}
                            /\ rows'[q].base = runs[r].moment
    <3>1. PICK r \in Runs : /\ runs[r].query = q /\ r \in Scheduled
                            /\ runs[r].pc \in {"curating", "ranking"}
                            /\ rows'[q].base = runs[r].moment
      BY <2>4
    <3>2. runs[r].moment \in Nat
      BY AssistantAssumption DEF TypeInv, TypeOK
    <3>3. CASE Awaited(r)
      <4>1. AtWork(r)
        BY <3>1, <3>3 DEF AtWork, Waiting
      <4>2. rows[q].base <= runs[r].moment
        BY <3>1, <4>1 DEF ScheduleInv, Latest
      <4> QED BY <2>1, <3>1, <3>2, <4>2
    <3>4. CASE ~Awaited(r)
      BY <3>1, <3>4 DEF Orphan, Waiting
    <3> QED BY <3>3, <3>4
  <2> QED BY <2>2, <2>3, <2>4, BaseStep
<1> QED BY <1>1, ScheduleInvariant, PTL DEF Spec, ScheduleRegressesOnlyByRace

-----------------------------------------------------------------------------
(* Deletion. *)

\* A step from a state in which q is buried leaves its row, its links and its tasks
\* buried: only a task inside the pipeline writes a row or a link of its search.
LEMMA BuriedStep ==
  ASSUME TypeInv, [Next]_vars, NEW q \in Queries, Buried(q)
  PROVE  Buried(q)' /\ linked'[q] = linked[q]
<1>0. TypeOK /\ WorkHasQuery /\ NoQuery \notin Queries /\ Idle.query = NoQuery
  BY AssistantAssumption DEF TypeInv, Idle
<1> DEFINE Gone == {"queued", "sending", "done"}
<1>1. ASSUME q \in saved', ~rows'[q].live, linked'[q] = linked[q],
             \A r \in Runs : runs'[r].query = q => runs'[r].pc \in Gone
      PROVE  Buried(q)' /\ linked'[q] = linked[q]
  BY <1>1 DEF Buried
<1>2. ASSUME NEW p \in Queries, SaveSearch(p) \/ DeleteSearch(p)
      PROVE  Buried(q)' /\ linked'[q] = linked[q]
  <2>1. CASE SaveSearch(p)
    BY <1>0, <1>1, <2>1 DEF SaveSearch, NewRow, Buried, TypeOK
  <2>2. CASE DeleteSearch(p)
    BY <1>0, <1>1, <2>2 DEF DeleteSearch, Buried, TypeOK, NoRow
  <2> QED BY <1>2, <2>1, <2>2
\* One task changes and so do the row and the links of its own search at most.
<1>3. ASSUME NEW r \in Runs, runs[r].query # q,
             UNCHANGED saved, rows'[q] = rows[q], linked'[q] = linked[q],
             \A o \in Runs \ {r} : runs'[o] \in {Idle, runs[o]}, runs'[r].query # q
      PROVE  Buried(q)' /\ linked'[q] = linked[q]
  BY <1>0, <1>1, <1>3 DEF Buried
<1>4. ASSUME NEW r \in Runs, runs[r].pc \in Waiting PROVE runs[r].query # q
  BY <1>4 DEF Buried, Waiting
<1>5. ASSUME NEW r \in Manual, NEW p \in Queries, RunNow(r, p)
      PROVE  Buried(q)' /\ linked'[q] = linked[q]
  <2>1. /\ r \in Runs /\ p # q /\ UNCHANGED <<rows, saved, linked>>
        /\ runs[r].pc = "idle"
    BY <1>5 DEF RunNow, Buried, Runs, store
  <2>2. runs'[r].query = p /\ \A o \in Runs \ {r} : runs'[o] = runs[o]
    BY <1>0, <1>5, <2>1 DEF RunNow, EnterPipeline, TypeOK
  <2>3. runs[r].query # q
    BY <2>1 DEF Buried
  <2> QED BY <1>3, <2>1, <2>2, <2>3
<1>6. ASSUME NEW r \in Runs, Classified(r)
      PROVE  Buried(q)' /\ linked'[q] = linked[q]
  <2>1. runs[r].query # q /\ runs[r].query \in Queries
    BY <1>0, <1>4, <1>6 DEF Classified, Waiting, WorkHasQuery
  <2>2. /\ UNCHANGED <<saved, linked>> /\ rows'[q] = rows[q]
        /\ runs'[r].query = runs[r].query
        /\ \A o \in Runs \ {r} : runs'[o] = runs[o]
    BY <1>0, <1>6, <2>1 DEF Classified, TypeOK
  <2> QED BY <1>3, <2>1, <2>2
<1>7. ASSUME NEW r \in Runs, NEW batch, Returns(r, batch), runs[r].pc \in Waiting,
             UNCHANGED saved, linked'[q] = linked[q]
      PROVE  Buried(q)' /\ linked'[q] = linked[q]
  <2>1. runs[r].query # q /\ runs[r].query \in Queries
    BY <1>0, <1>4, <1>7 DEF Waiting, WorkHasQuery
  <2>2. rows'[q] = rows[q]
    BY <1>0, <1>7, <2>1
       DEF Returns, RunNowReturns, RunNowAsserts, RunScheduledReturns, TypeOK
  <2>3. /\ [runs[r] EXCEPT !.pc = "sending", !.items = batch].query = runs[r].query
        /\ [runs[r] EXCEPT !.pc = "done", !.items = batch].query = runs[r].query
    BY <1>0 DEF TypeOK
  <2>4. runs'[r].query # q /\ \A o \in Runs \ {r} : runs'[o] = runs[o]
    BY <1>0, <1>7, <2>1, <2>3, ReturnsRuns
  <2> QED BY <1>3, <1>7, <2>1, <2>2, <2>4
<1>8. ASSUME NEW r \in Runs, Curated(r)
      PROVE  Buried(q)' /\ linked'[q] = linked[q]
  <2>1. PICK found \in SUBSET Items :
          /\ linked' = [linked EXCEPT ![runs[r].query] = @ \cup found]
          /\ \/ Returns(r, {})
             \/ /\ runs' = [runs EXCEPT ![r].pc = "ranking",
                         ![r].items = (linked[runs[r].query] \cup found) \ shown]
                /\ UNCHANGED <<rows, shown, raced>>
    BY <1>8 DEF Curated
  <2>2. runs[r].pc \in Waiting /\ UNCHANGED saved
    BY <1>8 DEF Curated, Waiting
  <2>3. runs[r].query # q /\ linked'[q] = linked[q]
    BY <1>0, <1>4, <2>1, <2>2 DEF TypeOK
  <2>4. CASE Returns(r, {})
    BY <1>7, <2>2, <2>3, <2>4
  <2>5. CASE /\ runs' = [runs EXCEPT ![r].pc = "ranking",
                         ![r].items = (linked[runs[r].query] \cup found) \ shown]
             /\ UNCHANGED <<rows, shown, raced>>
    <3>1. runs'[r].query = runs[r].query /\ \A o \in Runs \ {r} : runs'[o] = runs[o]
      BY <1>0, <2>5 DEF TypeOK
    <3> QED BY <1>3, <2>2, <2>3, <2>5, <3>1
  <2> QED BY <2>1, <2>4, <2>5
<1>9. ASSUME NEW r \in Runs, Ranked(r)
      PROVE  Buried(q)' /\ linked'[q] = linked[q]
  BY <1>7, <1>9 DEF Ranked, Waiting
\* Tasks end or stay in what is over for the search.
<1>10. ASSUME UNCHANGED <<rows, saved, linked>>,
              \A r \in Runs : runs'[r].query = q =>
                 /\ runs[r].query = q
                 /\ runs'[r].pc \in Gone \/ runs'[r].pc = runs[r].pc
       PROVE  Buried(q)' /\ linked'[q] = linked[q]
  BY <1>1, <1>10 DEF Buried
<1>11. ASSUME NEW t \in Runs, Raise(t), UNCHANGED <<rows, saved, linked>>
       PROVE  Buried(q)' /\ linked'[q] = linked[q]
  <2>1. \A r \in Runs : runs'[r] \in {Idle, runs[r]}
    BY <1>0, <1>11 DEF Raise, TypeOK
  <2> QED BY <1>0, <1>10, <1>11, <2>1
<1>12. ASSUME NEW r \in Runs, CallFails(r)
       PROVE  Buried(q)' /\ linked'[q] = linked[q]
  BY <1>11, <1>12 DEF CallFails, store
<1>13. ASSUME NEW r \in Runs, NEW i, runs' = [runs EXCEPT ![r] = Sent(@, i)],
              UNCHANGED <<rows, saved, linked>>
       PROVE  Buried(q)' /\ linked'[q] = linked[q]
  <2>1. /\ runs'[r] = Sent(runs[r], i)
        /\ \A o \in Runs \ {r} : runs'[o] = runs[o]
    BY <1>0, <1>13 DEF TypeOK
  <2>2. \/ runs'[r] = Idle
        \/ runs'[r].pc = "sending" /\ runs'[r].query = runs[r].query
    BY <1>0, <2>1 DEF Sent, TypeOK
  <2> QED BY <1>0, <1>10, <1>13, <2>1, <2>2
<1>14. ASSUME NEW r \in Manual, SendManual(r) \/ SendManualFails(r)
       PROVE  Buried(q)' /\ linked'[q] = linked[q]
  <2>1. r \in Runs
    BY DEF Runs
  <2>2. CASE SendManual(r)
    BY <1>13, <2>1, <2>2 DEF SendManual, store
  <2>3. CASE SendManualFails(r)
    <3>1. \A o \in Runs : runs'[o] \in {Idle, runs[o]}
      BY <1>0, <2>1, <2>3 DEF SendManualFails, TypeOK
    <3> QED BY <1>0, <1>10, <2>3, <3>1 DEF SendManualFails, store
  <2> QED BY <1>14, <2>2, <2>3
<1>15. ASSUME NEW t \in Scheduled, SendBatch(t) \/ SendBatchFails(t)
       PROVE  Buried(q)' /\ linked'[q] = linked[q]
  <2>1. t \in Runs
    BY DEF Runs
  <2>2. CASE SendBatch(t)
    BY <1>13, <2>1, <2>2 DEF SendBatch, store
  <2>3. CASE SendBatchFails(t)
    BY <1>0, <1>10, <2>3 DEF SendBatchFails, store
  <2> QED BY <1>15, <2>2, <2>3
<1>16. ASSUME NEW t \in Scheduled, StartScheduled(t)
       PROVE  Buried(q)' /\ linked'[q] = linked[q]
  <2>1. t \in Runs /\ UNCHANGED <<rows, saved, linked>>
    BY <1>16 DEF StartScheduled, Runs, store
  <2>2. CASE Raise(t)
    BY <1>11, <2>1, <2>2
  <2>3. CASE /\ rows[runs[t].query].live
             /\ runs' = [runs EXCEPT ![t] = EnterPipeline(@.query, @.moment)]
    <3>1. runs[t].query # q
      BY <2>3 DEF Buried
    <3>2. /\ runs'[t].query = runs[t].query
          /\ \A o \in Runs \ {t} : runs'[o] = runs[o]
      BY <1>0, <2>1, <2>3 DEF EnterPipeline, TypeOK
    <3> QED BY <1>3, <2>1, <3>1, <3>2
  <2> QED BY <1>16, <2>2, <2>3 DEF StartScheduled
<1>17. CASE RunDue
  <2>1. PICK k \in Lanes :
          runs' = [r \in Runs |->
                IF r \in Due \X {k}
                  THEN [Idle EXCEPT !.pc = "queued", !.query = r[1], !.moment = clock]
                  ELSE runs[r]]
    BY <1>17 DEF RunDue
  <2>2. ASSUME NEW r \in Runs, r \in Due \X {k} PROVE runs'[r].query # q
    BY <2>1, <2>2 DEF Due, IsDue, Buried, Idle
  <2>3. ASSUME NEW r \in Runs, r \notin Due \X {k} PROVE runs'[r] = runs[r]
    BY <2>1, <2>3
  <2> QED BY <1>10, <1>17, <2>2, <2>3 DEF RunDue, store
<1>18. CASE Gathered \/ Restart
  <2>1. \A o \in Runs : runs'[o] \in {Idle, runs[o]}
    BY <1>18 DEF Gathered, Restart
  <2> QED BY <1>0, <1>10, <1>18, <2>1 DEF Gathered, Restart, store
<1>19. CASE Tick \/ UNCHANGED vars
  BY <1>10, <1>19 DEF Tick, vars, store
<1> QED
  BY <1>2, <1>5, <1>6, <1>8, <1>9, <1>12, <1>14, <1>15, <1>16, <1>17, <1>18, <1>19 DEF Next

\* Once a deleted search is at rest nothing of it comes back.
THEOREM BuriedAlwaysStaysBuried == Spec => BuriedStaysBuried
<1>1. TypeInv /\ [Next]_vars =>
        [\A q \in Queries : Buried(q) => Buried(q)' /\ linked'[q] = linked[q]]_vars
  BY BuriedStep
<1> QED BY <1>1, TypeInvariant, PTL DEF Spec, BuriedStaysBuried


-----------------------------------------------------------------------------
(***************************************************************************)
(* The ledger of a calm process: nothing fails and nothing is deleted.     *)
(* Whether an item was seen is asked when no task is in flight; on the way *)
(* there a marked item is in a batch that will be sent.  It is, because    *)
(* every scheduled task is one the loop awaits, and finds its search.      *)
(***************************************************************************)
WorksOnLive == \A r \in Runs : runs[r].pc # "idle" => rows[runs[r].query].live

TasksAwaited ==
  \A t \in Scheduled : runs[t].pc # "idle" =>
    /\ t[2] = lane
    /\ loop = "gathering" \/ (loop = "sending" /\ Pending(t))
    /\ runs[t].pc = "sending" => loop = "sending"

OnItsWay(i) == \E r \in Runs : Pending(r) /\ i \in runs[r].items

MarkedIsOnItsWay == \A i \in shown : chat[i] > 0 \/ OnItsWay(i)

CalmInv == WorksOnLive /\ TasksAwaited /\ MarkedIsOnItsWay

\* One task changes: the others keep what they work on and how they are awaited.
LEMMA OneTaskStep ==
  ASSUME TypeInv, CalmInv, NEW r \in Runs,
         \A o \in Runs \ {r} : runs'[o] = runs[o], UNCHANGED <<loop, lane>>,
         \A q \in Queries : rows[q].live => rows'[q].live,
         runs'[r].pc # "idle" => rows'[runs'[r].query].live,
         r \in Scheduled /\ runs'[r].pc # "idle" =>
           /\ r[2] = lane
           /\ loop = "gathering" \/ (loop = "sending" /\ Pending(r)')
           /\ runs'[r].pc = "sending" => loop = "sending"
  PROVE  WorksOnLive' /\ TasksAwaited'
<1>1. WorksOnLive'
  BY DEF CalmInv, WorksOnLive, TypeInv, WorkHasQuery
<1>2. ASSUME NEW t \in Scheduled, runs'[t].pc # "idle"
      PROVE  /\ t[2] = lane'
             /\ loop' = "gathering" \/ (loop' = "sending" /\ Pending(t)')
             /\ runs'[t].pc = "sending" => loop' = "sending"
  <2>1. CASE t = r
    BY <1>2, <2>1
  <2>2. CASE t # r
    <3>1. runs'[t] = runs[t] /\ Pending(t)' = Pending(t)
      BY <2>2 DEF Runs, Pending
    <3> QED BY <1>2, <3>1 DEF CalmInv, TasksAwaited
  <2> QED BY <2>1, <2>2
<1> QED BY <1>1, <1>2 DEF TasksAwaited

\* A task that holds no batch may mark one, if it holds that batch then.
LEMMA MarkStep ==
  ASSUME TypeInv, CalmInv, NEW r \in Runs, ~Pending(r),
         \A o \in Runs \ {r} : runs'[o] = runs[o], UNCHANGED chat,
         NEW batch, shown' = shown \cup batch,
         batch # {} => Pending(r)' /\ runs'[r].items = batch
  PROVE  MarkedIsOnItsWay'
<1> SUFFICES ASSUME NEW i \in shown' PROVE chat[i] > 0 \/ OnItsWay(i)'
  BY DEF MarkedIsOnItsWay
<1>1. CASE i \in batch
  BY <1>1 DEF OnItsWay
<1>2. CASE i \in shown
  <2>1. CASE chat[i] > 0
    BY <2>1
  <2>2. CASE OnItsWay(i)
    <3>1. PICK o \in Runs : Pending(o) /\ i \in runs[o].items
      BY <2>2 DEF OnItsWay
    <3>2. runs'[o] = runs[o]
      BY <3>1
    <3>3. Pending(o)' /\ i \in runs'[o].items
      BY <3>1, <3>2 DEF Pending
    <3> QED BY <3>3 DEF OnItsWay
  <2> QED BY <1>2, <2>1, <2>2 DEF CalmInv, MarkedIsOnItsWay
<1> QED BY <1>1, <1>2

\* A message reaches the chat, and the rest of its batch is still to be sent.
LEMMA SeenStep ==
  ASSUME TypeInv, CalmInv, NEW r \in Runs, NEW i \in runs[r].items,
         \A o \in Runs \ {r} : runs'[o] = runs[o], runs'[r] = Sent(runs[r], i),
         chat' = [chat EXCEPT ![i] = @ + 1], UNCHANGED shown
  PROVE  MarkedIsOnItsWay'
<1>1. chat \in [Items -> Nat] /\ shown \subseteq Items
  BY DEF TypeInv, TypeOK
<1> SUFFICES ASSUME NEW j \in shown PROVE chat'[j] > 0 \/ OnItsWay(j)'
  BY DEF MarkedIsOnItsWay
<1>2. CASE j = i
  BY <1>1, <1>2
<1>3. CASE j # i /\ chat[j] > 0
  BY <1>1, <1>3
<1>4. CASE j # i /\ OnItsWay(j)
  <2>1. PICK o \in Runs : Pending(o) /\ j \in runs[o].items
    BY <1>4 DEF OnItsWay
  <2>2. CASE o = r
    <3>1. runs[r].items # {i}
      BY <1>4, <2>1, <2>2
    <3>2. runs'[r] = [runs[r] EXCEPT !.pc = "sending", !.items = runs[r].items \ {i}]
      BY <3>1 DEF Sent
    <3>3. runs'[r].pc = "sending" /\ runs'[r].items = runs[r].items \ {i}
      BY <3>2 DEF TypeInv, TypeOK
    <3> QED BY <1>4, <2>1, <2>2, <3>3 DEF OnItsWay, Pending
  <2>3. CASE o # r
    <3>1. Pending(o)' /\ j \in runs'[o].items
      BY <2>1, <2>3 DEF Pending
    <3> QED BY <3>1 DEF OnItsWay
  <2> QED BY <2>2, <2>3
<1> QED BY <1>2, <1>3, <1>4 DEF CalmInv, MarkedIsOnItsWay

\* A task in the pipeline that returns frees its slot or holds what it marked, for the
\* loop still awaits it and its search is still there.
LEMMA CalmReturn ==
  ASSUME TypeInv, CalmInv, NEW r \in Runs, runs[r].pc \in {"curating", "ranking"},
         NEW batch \in SUBSET Items, Returns(r, batch), UNCHANGED <<loop, lane, chat>>
  PROVE  CalmInv'
<1>0. TypeOK /\ runs[r].query \in Queries /\ rows[runs[r].query].live
      /\ ~Pending(r) /\ runs[r].pc # "idle"
  BY DEF TypeInv, WorkHasQuery, CalmInv, WorksOnLive, Pending
<1>1. \A o \in Runs \ {r} : runs'[o] = runs[o]
  BY <1>0, ReturnsRuns
<1>2. r \in Scheduled => Awaited(r) /\ r[2] = lane /\ loop = "gathering"
  BY <1>0 DEF CalmInv, TasksAwaited, Awaited
<1>3. Idle.pc = "idle"
  BY DEF Idle
<1>4. CASE RunNowReturns(r, batch)
  <2> DEFINE held == [runs[r] EXCEPT !.pc = "sending", !.items = batch]
  <2>1. /\ shown' = shown \cup batch /\ rows' = rows /\ r \in Manual
        /\ runs'[r] = IF batch = {} THEN Idle ELSE held
    BY <1>0, <1>4 DEF RunNowReturns, Claim, TypeOK
  <2>2. held.pc = "sending" /\ held.items = batch /\ held.query = runs[r].query
    BY <1>0 DEF TypeOK
  <2>3. r \notin Scheduled
    BY <2>1, AssistantAssumption
  <2> HIDE DEF held
  <2>4. WorksOnLive' /\ TasksAwaited'
    BY <1>0, <1>1, <1>3, <2>1, <2>2, <2>3, OneTaskStep
  <2>5. batch # {} => Pending(r)' /\ runs'[r].items = batch
    BY <2>1, <2>2 DEF Pending
  <2>6. MarkedIsOnItsWay'
    BY <1>0, <1>1, <2>1, <2>5, MarkStep
  <2> QED BY <2>4, <2>6 DEF CalmInv
<1>5. CASE RunNowAsserts(r)
  BY <1>0, <1>5 DEF RunNowAsserts
<1>6. CASE RunScheduledReturns(r, batch)
  <2> DEFINE held == [runs[r] EXCEPT !.pc = "done", !.items = batch]
  <2>1. /\ shown' = shown \cup batch /\ r \in Scheduled
        /\ runs'[r] = held
    BY <1>0, <1>2, <1>6 DEF RunScheduledReturns, Claim, TypeOK
  <2>2. held.pc = "done" /\ held.items = batch /\ held.query = runs[r].query
    BY <1>0 DEF TypeOK
  <2>3. \A q \in Queries : rows[q].live => rows'[q].live
    BY <1>0, <1>6 DEF RunScheduledReturns, TypeOK
  <2> HIDE DEF held
  <2>4. Pending(r)' /\ runs'[r].items = batch /\ runs'[r].pc = "done"
    BY <2>1, <2>2 DEF Pending
  <2>5. WorksOnLive' /\ TasksAwaited'
    BY <1>0, <1>1, <1>2, <2>1, <2>2, <2>3, <2>4, OneTaskStep
  <2>6. MarkedIsOnItsWay'
    BY <1>0, <1>1, <2>1, <2>4, MarkStep
  <2> QED BY <2>5, <2>6 DEF CalmInv
<1> QED BY <1>4, <1>5, <1>6 DEF Returns

\* At first nothing is marked and no task is in flight.
LEMMA CalmInit == Init => CalmInv
BY AssistantAssumption DEF Init, CalmInv, WorksOnLive, TasksAwaited, MarkedIsOnItsWay, Idle, Runs

\* As long as nothing fails and nothing is deleted, every step keeps a marked item on its
\* way.
LEMMA CalmStep ==
  ASSUME Events = {}, TypeInv, CalmInv, [Next]_vars
  PROVE  CalmInv'
<1>0. TypeOK /\ WorkHasQuery /\ Idle.pc = "idle"
  BY DEF TypeInv, Idle
\* The rows and the tasks stay, and nothing is marked or sent.
<1>1. ASSUME UNCHANGED <<runs, loop, lane, shown, chat>>,
             \A q \in Queries : rows[q].live => rows'[q].live
      PROVE  CalmInv'
  BY <1>0, <1>1 DEF CalmInv, WorksOnLive, TasksAwaited, MarkedIsOnItsWay, OnItsWay, Pending,
                    WorkHasQuery
<1>2. ASSUME NEW q \in Queries, SaveSearch(q) PROVE CalmInv'
  <2>1. \A p \in Queries : rows[p].live => rows'[p].live
    BY <1>0, <1>2 DEF SaveSearch, NewRow, TypeOK
  <2> QED BY <1>1, <1>2, <2>1 DEF SaveSearch
\* One task goes on in the pipeline: nothing is marked or sent.
<1>3. ASSUME NEW r \in Runs, ~Pending(r), \A o \in Runs \ {r} : runs'[o] = runs[o],
             UNCHANGED <<loop, lane, shown, chat>>,
             \A q \in Queries : rows[q].live => rows'[q].live,
             runs'[r].pc \in Waiting, rows'[runs'[r].query].live,
             r \in Scheduled => runs[r].pc # "idle"
      PROVE  CalmInv'
  <2>1. r \in Scheduled => r[2] = lane /\ loop = "gathering"
    BY <1>3 DEF CalmInv, TasksAwaited
  <2>2. WorksOnLive' /\ TasksAwaited'
    BY <1>3, <2>1, OneTaskStep DEF Waiting
  <2>3. shown' = shown \cup {}
    BY <1>3
  <2>4. MarkedIsOnItsWay'
    BY <1>3, <2>3, MarkStep
  <2> QED BY <2>2, <2>4 DEF CalmInv
<1>4. ASSUME NEW r \in Manual, NEW q \in Queries, RunNow(r, q) PROVE CalmInv'
  <2>1. /\ r \in Runs /\ ~Pending(r) /\ r \notin Scheduled
        /\ UNCHANGED <<rows, loop, lane, shown, chat>> /\ rows[q].live
        /\ runs' = [runs EXCEPT ![r] = EnterPipeline(q, 0)]
    BY <1>4, AssistantAssumption DEF RunNow, Runs, Pending, store
  <2>2. EnterPipeline(q, 0).query = q /\ EnterPipeline(q, 0).pc \in Waiting
    BY DEF EnterPipeline, Waiting
  <2>3. runs'[r] = EnterPipeline(q, 0) /\ \A o \in Runs \ {r} : runs'[o] = runs[o]
    BY <1>0, <2>1 DEF TypeOK
  <2> QED BY <1>3, <2>1, <2>2, <2>3
<1>5. ASSUME NEW r \in Runs, Classified(r) PROVE CalmInv'
  <2>1. /\ runs[r].pc = "classifying" /\ runs[r].query \in Queries
        /\ UNCHANGED <<loop, lane, shown, chat>>
    BY <1>0, <1>5 DEF Classified, WorkHasQuery
  <2>2. /\ rows'[runs[r].query].live
        /\ \A q \in Queries : rows[q].live => rows'[q].live
    BY <1>0, <1>5, <2>1 DEF Classified, TypeOK
  <2>3. /\ runs'[r].pc = "curating" /\ runs'[r].query = runs[r].query
        /\ \A o \in Runs \ {r} : runs'[o] = runs[o]
    BY <1>0, <1>5 DEF Classified, TypeOK
  <2> QED BY <1>3, <2>1, <2>2, <2>3 DEF Waiting, Pending
<1>6. ASSUME NEW r \in Runs, Curated(r) PROVE CalmInv'
  <2>1. PICK found \in SUBSET Items :
          \/ Returns(r, {})
          \/ /\ runs' = [runs EXCEPT ![r].pc = "ranking",
                            ![r].items = (linked[runs[r].query] \cup found) \ shown]
             /\ UNCHANGED <<rows, shown, raced>>
    BY <1>6 DEF Curated
  <2>2. /\ runs[r].pc = "curating" /\ UNCHANGED <<loop, lane, chat>>
        /\ rows[runs[r].query].live
    BY <1>6 DEF Curated, CalmInv, WorksOnLive
  <2>3. CASE Returns(r, {})
    <3>1. {} \in SUBSET Items
      OBVIOUS
    <3> QED BY <2>2, <2>3, <3>1, CalmReturn
  <2>4. CASE /\ runs' = [runs EXCEPT ![r].pc = "ranking",
                            ![r].items = (linked[runs[r].query] \cup found) \ shown]
             /\ UNCHANGED <<rows, shown, raced>>
    <3>1. /\ runs'[r].pc = "ranking" /\ runs'[r].query = runs[r].query
          /\ \A o \in Runs \ {r} : runs'[o] = runs[o]
      BY <1>0, <2>4 DEF TypeOK
    <3> QED BY <1>3, <2>2, <2>4, <3>1 DEF Waiting, Pending
  <2> QED BY <2>1, <2>3, <2>4
<1>7. ASSUME NEW r \in Runs, Ranked(r) PROVE CalmInv'
  <2>1. PICK batch \in Picks(runs[r].query, runs[r].items) : Returns(r, batch)
    BY <1>7 DEF Ranked
  <2>2. batch \in SUBSET Items
    BY <1>0 DEF Picks, TypeOK
  <2> QED BY <1>7, <2>1, <2>2, CalmReturn DEF Ranked
<1>8. ASSUME NEW r \in Manual, SendManual(r) PROVE CalmInv'
  <2>1. PICK i \in runs[r].items : /\ chat' = [chat EXCEPT ![i] = @ + 1]
                                   /\ runs' = [runs EXCEPT ![r] = Sent(@, i)]
    BY <1>8 DEF SendManual
  <2>2. /\ r \in Runs /\ r \notin Scheduled /\ runs[r].pc = "sending"
        /\ UNCHANGED <<rows, shown, loop, lane>>
    BY <1>8, AssistantAssumption DEF SendManual, Runs, store
  <2>3. runs'[r] = Sent(runs[r], i) /\ \A o \in Runs \ {r} : runs'[o] = runs[o]
    BY <1>0, <2>1, <2>2 DEF TypeOK
  <2>4. runs'[r].pc # "idle" => runs'[r].query = runs[r].query
    BY <1>0, <2>2, <2>3 DEF Sent, TypeOK
  <2>5. rows[runs[r].query].live
    BY <2>2 DEF CalmInv, WorksOnLive
  <2>6. WorksOnLive' /\ TasksAwaited'
    BY <2>2, <2>3, <2>4, <2>5, OneTaskStep
  <2>7. MarkedIsOnItsWay'
    BY <2>1, <2>2, <2>3, SeenStep
  <2> QED BY <2>6, <2>7 DEF CalmInv
<1>9. ASSUME NEW t \in Scheduled, StartScheduled(t) PROVE CalmInv'
  <2>1. /\ t \in Runs /\ runs[t].pc = "queued" /\ rows[runs[t].query].live
        /\ UNCHANGED <<rows, shown, lane, chat>>
    BY <1>9 DEF StartScheduled, Runs, CalmInv, WorksOnLive, store
  <2> DEFINE entered == EnterPipeline(runs[t].query, runs[t].moment)
  <2>2. runs' = [runs EXCEPT ![t] = entered] /\ loop' = loop
    BY <1>9, <2>1 DEF StartScheduled
  <2>3. entered.query = runs[t].query /\ entered.pc \in Waiting
    BY DEF EnterPipeline, Waiting
  <2> HIDE DEF entered
  <2>4. runs'[t] = entered /\ \A o \in Runs \ {t} : runs'[o] = runs[o]
    BY <1>0, <2>1, <2>2 DEF TypeOK
  <2> QED BY <1>3, <2>1, <2>2, <2>3, <2>4 DEF Pending
<1>10. ASSUME NEW t \in Scheduled, SendBatch(t) PROVE CalmInv'
  <2>1. PICK i \in runs[t].items :
          /\ chat' = [chat EXCEPT ![i] = @ + 1]
          /\ runs' = [runs EXCEPT ![t] = Sent(@, i)]
          /\ loop' = IF /\ runs[t].items = {i}
                        /\ \A o \in TasksOf(lane) \ {t} : runs[o].pc = "idle"
                       THEN "sleeping" ELSE loop
    BY <1>10 DEF SendBatch
  <2>2. /\ t \in Runs /\ t \in TasksOf(lane) /\ loop = "sending" /\ Pending(t)
        /\ UNCHANGED <<rows, shown, lane>>
    BY <1>10 DEF SendBatch, MaySend, Runs, Pending, store
  <2>3. runs'[t] = Sent(runs[t], i) /\ \A o \in Runs \ {t} : runs'[o] = runs[o]
    BY <1>0, <2>1, <2>2 DEF TypeOK
  <2>4. MarkedIsOnItsWay'
    BY <2>1, <2>2, <2>3, SeenStep
  <2>5. runs'[t].pc # "idle" => runs'[t].query = runs[t].query /\ runs'[t].pc = "sending"
    BY <1>0, <2>2, <2>3 DEF Sent, TypeOK
  <2>6. t[2] = lane /\ rows[runs[t].query].live
    BY <2>2 DEF TasksOf, CalmInv, WorksOnLive, Pending
  <2>7. WorksOnLive'
    <3>1. ASSUME NEW o \in Runs, runs'[o].pc # "idle" PROVE rows'[runs'[o].query].live
      BY <2>2, <2>3, <2>5, <2>6, <3>1 DEF CalmInv, WorksOnLive
    <3> QED BY <3>1 DEF WorksOnLive
  <2>8. ASSUME NEW o \in Scheduled, runs'[o].pc # "idle"
        PROVE  o[2] = lane' /\ loop' = "sending" /\ Pending(o)'
    <3>1. CASE o = t
      <4>1. runs[t].items # {i}
        BY <1>0, <2>3, <2>8, <3>1 DEF Sent
      <4> QED BY <2>1, <2>2, <2>5, <2>6, <2>8, <3>1, <4>1 DEF Pending
    <3>2. CASE o # t
      <4>1. o \in Runs /\ runs'[o] = runs[o]
        BY <2>3, <3>2 DEF Runs
      <4>2. o[2] = lane /\ Pending(o)
        BY <2>2, <2>8, <4>1 DEF CalmInv, TasksAwaited
      <4>3. o \in TasksOf(lane) \ {t}
        BY <3>2, <4>2 DEF TasksOf, Scheduled
      <4> QED BY <2>1, <2>2, <2>8, <4>1, <4>2, <4>3 DEF Pending
    <3> QED BY <3>1, <3>2
  <2>9. TasksAwaited'
    BY <2>8 DEF TasksAwaited
  <2> QED BY <2>4, <2>7, <2>9 DEF CalmInv
<1>11. CASE RunDue
  <2>1. PICK k \in Lanes :
          /\ lane' = k
          /\ runs' = [r \in Runs |->
                IF r \in Due \X {k}
                  THEN [Idle EXCEPT !.pc = "queued", !.query = r[1], !.moment = clock]
                  ELSE runs[r]]
    BY <1>11 DEF RunDue
  <2>2. loop = "sleeping" /\ loop' = "gathering" /\ UNCHANGED <<rows, shown, chat>>
    BY <1>11 DEF RunDue, store
  <2>3. \A t \in Scheduled : runs[t].pc = "idle"
    BY <2>2 DEF CalmInv, TasksAwaited
  <2>4. ASSUME NEW r \in Due \X {k}
        PROVE  /\ r \in Scheduled /\ r \in Runs /\ r[2] = k /\ r[1] \in Queries
               /\ rows[r[1]].live
               /\ runs'[r].pc = "queued" /\ runs'[r].query = r[1]
    BY <2>1 DEF Due, IsDue, Scheduled, Runs, Idle
  <2>5. \A r \in Runs : r \notin Due \X {k} => runs'[r] = runs[r]
    BY <2>1
  <2>6. WorksOnLive'
    BY <2>2, <2>4, <2>5 DEF CalmInv, WorksOnLive
  <2>7. TasksAwaited'
    BY <2>1, <2>2, <2>3, <2>4, <2>5 DEF TasksAwaited, Runs
  <2>8. ASSUME NEW i \in shown PROVE chat[i] > 0 \/ OnItsWay(i)'
    <3>1. CASE OnItsWay(i)
      <4>1. PICK o \in Runs : Pending(o) /\ i \in runs[o].items
        BY <3>1 DEF OnItsWay
      <4>2. o \notin Due \X {k}
        BY <2>3, <2>4, <4>1 DEF Pending
      <4> QED BY <2>5, <4>1, <4>2 DEF OnItsWay, Pending
    <3> QED BY <3>1 DEF CalmInv, MarkedIsOnItsWay
  <2>9. MarkedIsOnItsWay'
    BY <2>2, <2>8 DEF MarkedIsOnItsWay
  <2> QED BY <2>6, <2>7, <2>9 DEF CalmInv
<1>12. CASE Gathered
  <2>1. /\ loop = "gathering" /\ \A t \in TasksOf(lane) : runs[t].pc \in {"idle", "done"}
        /\ runs' = [r \in Runs |-> IF runs[r].pc = "done" /\ runs[r].items = {}
                                     THEN Idle ELSE runs[r]]
        /\ loop' = IF \E t \in TasksOf(lane) : runs[t].items # {} THEN "sending"
                                                                  ELSE "sleeping"
        /\ UNCHANGED <<rows, shown, lane, chat>>
    BY <1>12 DEF Gathered, store
  <2>2. \A r \in Runs : runs'[r] \in {Idle, runs[r]}
    BY <2>1
  <2>3. WorksOnLive'
    BY <1>0, <2>1, <2>2 DEF CalmInv, WorksOnLive
  <2>4. ASSUME NEW t \in Scheduled, runs'[t].pc # "idle"
        PROVE  t[2] = lane /\ loop' = "sending" /\ Pending(t)'
    <3>1. t \in Runs /\ runs'[t] = runs[t]
      BY <1>0, <2>2, <2>4 DEF Runs
    <3>2. t[2] = lane /\ t \in TasksOf(lane)
      BY <2>4, <3>1 DEF CalmInv, TasksAwaited, TasksOf, Scheduled
    <3>3. runs[t].pc = "done" /\ runs[t].items # {}
      BY <1>0, <2>1, <2>4, <3>1, <3>2
    <3> QED BY <2>1, <3>1, <3>2, <3>3 DEF Pending
  <2>5. TasksAwaited'
    BY <2>1, <2>4 DEF TasksAwaited
  <2>6. ASSUME NEW i \in shown PROVE chat[i] > 0 \/ OnItsWay(i)'
    <3>1. CASE OnItsWay(i)
      <4>1. PICK o \in Runs : Pending(o) /\ i \in runs[o].items
        BY <3>1 DEF OnItsWay
      <4>2. runs'[o] = runs[o]
        BY <2>1, <4>1
      <4> QED BY <4>1, <4>2 DEF OnItsWay, Pending
    <3> QED BY <3>1 DEF CalmInv, MarkedIsOnItsWay
  <2>7. MarkedIsOnItsWay'
    BY <2>1, <2>6 DEF MarkedIsOnItsWay
  <2> QED BY <2>3, <2>5, <2>7 DEF CalmInv
<1>13. CASE Tick \/ UNCHANGED vars
  BY <1>1, <1>13 DEF Tick, vars, store
\* What cannot happen.
<1>14. ASSUME NEW q \in Queries, DeleteSearch(q) PROVE FALSE
  BY <1>14 DEF DeleteSearch
<1>15. ASSUME NEW r \in Runs, CallFails(r) PROVE FALSE
  BY <1>15 DEF CallFails
<1>16. ASSUME NEW r, SendManualFails(r) \/ SendBatchFails(r) PROVE FALSE
  BY <1>16 DEF SendManualFails, SendBatchFails
<1>17. ASSUME Restart PROVE FALSE
  BY <1>17 DEF Restart
<1> QED
  BY <1>2, <1>4, <1>5, <1>6, <1>7, <1>8, <1>9, <1>10, <1>11, <1>12, <1>13, <1>14, <1>15,
     <1>16, <1>17 DEF Next

\* Without faults and deletions, whenever no task is in flight the ledger holds only what
\* the owner saw, however manual runs, ticks and their sends overlap.
THEOREM LedgerIsSeenWhenCalm ==
  ASSUME Events = {} PROVE Spec => []LedgerIsWhatWasSeen
<1>1. TypeInv /\ CalmInv /\ [Next]_vars => CalmInv'
  BY CalmStep
<1>2. TypeInv /\ CalmInv => LedgerIsWhatWasSeen
  BY DEF CalmInv, MarkedIsOnItsWay, OnItsWay, Pending, LedgerIsWhatWasSeen
<1> QED BY <1>1, <1>2, CalmInit, TypeInvariant, PTL DEF Spec
=============================================================================
