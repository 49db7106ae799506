----------------------------- MODULE Assistant -----------------------------
(***************************************************************************)
(* The Telegram assistant: one asyncio process in which manual runs (one   *)
(* task per "Run now" tap), the scheduler loop and the tasks it gathers    *)
(* share one SQLite store and one chat with the owner.                     *)
(*                                                                         *)
(* The SQLite store never suspends, so a task is atomic between two awaits *)
(* on the network (classifier, expander, search, embedder, judge, ranker,  *)
(* Telegram); each action below is one such stretch.  Deduplication and    *)
(* ranking are abstracted to the canonical items they may return.          *)
(***************************************************************************)
EXTENDS Naturals, FiniteSets

CONSTANTS
  Queries,   \* saved-query ids; each is a uuid4, so an id is saved at most once
  NoQuery,   \* the query of a task slot that is idle
  Items,     \* canonical search results
  Manual,    \* slots for concurrent manual runs (bounds how many overlap)
  Lanes,     \* slots for scheduler ticks whose tasks may be alive at once
  Fires,     \* Fires[q]: the instants at which the cron of q fires ({}: manual only)
  Limit,     \* Limit[q]: min(top_n of the ranker, max_results_shown of q), where there are
             \* no more exploration slots than places
  MaxTime,   \* bounds the clock
  Events     \* the disturbances a run of the model allows

Scheduled == Queries \X Lanes
Runs == Manual \cup Scheduled

ASSUME AssistantAssumption ==
  /\ NoQuery \notin Queries
  /\ Manual \cap Scheduled = {}
  /\ Lanes # {}
  /\ MaxTime \in Nat
  /\ Fires \in [Queries -> SUBSET (0..MaxTime)]
  /\ Limit \in [Queries -> Nat]
  /\ Events \subseteq {"call", "send", "crash", "delete"}

VARIABLES
  rows,    \* saved_queries: is the row there, is its domain cached, the base of
           \* is_due (last_run_at, or created_at while it never ran)
  saved,   \* the ids ever saved
  linked,  \* query_results
  shown,   \* shown_results, the owner's ledger
  clock,   \* now, in the unit of Fires
  runs,    \* the tasks in flight
  loop,    \* where _scheduler_loop is
  lane,    \* the tasks of this lane are the ones the loop gathers
  chat,    \* how many messages carrying the item reached the chat
  raced    \* history: items claimed while another run was ranking them too

store == <<rows, saved, linked, shown>>
vars == <<rows, saved, linked, shown, clock, runs, loop, lane, chat, raced>>

NoRow == [live |-> FALSE, cached |-> FALSE, base |-> 0]
Idle  == [pc |-> "idle", query |-> NoQuery, base |-> 0, moment |-> 0, items |-> {}]

Waiting == {"classifying", "curating", "ranking"}
PCs == {"idle", "queued", "sending", "done"} \cup Waiting

Init ==
  /\ rows = [q \in Queries |-> NoRow]
  /\ saved = {}
  /\ linked = [q \in Queries |-> {}]
  /\ shown = {}
  /\ clock = 0
  /\ runs = [r \in Runs |-> Idle]
  /\ loop = "sleeping"
  /\ lane \in Lanes
  /\ chat = [i \in Items |-> 0]
  /\ raced = {}

(***************************************************************************)
(* The owner's saved searches.                                             *)
(***************************************************************************)
\* A saved search as it is created: its domain is not known, its schedule starts now.
NewRow == [live |-> TRUE, cached |-> FALSE, base |-> clock]

SaveSearch(q) ==
  /\ q \notin saved
  /\ saved' = saved \cup {q}
  /\ rows' = [rows EXCEPT ![q] = NewRow]
  /\ UNCHANGED <<linked, shown, clock, runs, loop, lane, chat, raced>>

\* Mutant: the ledger is cascaded like the links.
DeleteSearchWithLedger(q) ==
  /\ "delete" \in Events
  /\ rows[q].live
  /\ rows' = [rows EXCEPT ![q] = NoRow]
  /\ linked' = [linked EXCEPT ![q] = {}]
  /\ shown' = shown \ linked[q]
  /\ UNCHANGED <<saved, clock, runs, loop, lane, chat, raced>>

\* The ledger has no query id: deleting a search forgets its links, not what was shown.
DeleteSearch(q) ==
  /\ "delete" \in Events
  /\ rows[q].live
  /\ rows' = [rows EXCEPT ![q] = NoRow]
  /\ linked' = [linked EXCEPT ![q] = {}]
  /\ UNCHANGED <<saved, shown, clock, runs, loop, lane, chat, raced>>

(***************************************************************************)
(* CurationPipeline.run, cut at its awaits.  The task keeps the copy of    *)
(* the row it read on entry (base) until it caches the domain.             *)
(***************************************************************************)
EnterPipeline(q, moment) ==
  [pc |-> IF rows[q].cached THEN "curating" ELSE "classifying",
   query |-> q,
   base |-> IF rows[q].cached THEN 0 ELSE rows[q].base,
   moment |-> moment,
   items |-> {}]

\* The classifier answered: the whole row is written back from the copy.
Classified(r) ==
  /\ runs[r].pc = "classifying"
  /\ rows' = [rows EXCEPT ![runs[r].query] =
                [live |-> TRUE, cached |-> TRUE, base |-> runs[r].base]]
  /\ runs' = [runs EXCEPT ![r].pc = "curating", ![r].base = 0]
  /\ UNCHANGED <<saved, linked, shown, clock, loop, lane, chat, raced>>

\* Mutant: the batch is sent without being marked.
ClaimNothing(r, batch) ==
  /\ UNCHANGED shown
  /\ raced' = raced \cup {i \in batch : \E o \in Runs \ {r} :
                            runs[o].pc = "ranking" /\ i \in runs[o].items}

\* mark_shown, before anything is sent.
Claim(r, batch) ==
  /\ shown' = shown \cup batch
  /\ raced' = raced \cup {i \in batch : \E o \in Runs \ {r} :
                            runs[o].pc = "ranking" /\ i \in runs[o].items}

\* Mutant: cb_run_now forgets to send.
RunNowReturnsUnsent(r, batch) ==
  /\ r \in Manual
  /\ rows[runs[r].query].live
  /\ Claim(r, batch)
  /\ runs' = [runs EXCEPT ![r] = Idle]
  /\ UNCHANGED rows

RunNowReturns(r, batch) ==
  /\ r \in Manual
  /\ rows[runs[r].query].live
  /\ Claim(r, batch)
  /\ runs' = [runs EXCEPT ![r] = IF batch = {} THEN Idle
                                 ELSE [@ EXCEPT !.pc = "sending", !.items = batch]]
  /\ UNCHANGED rows

\* `assert query is not None` fails: the row went away while the pipeline ran.
RunNowAsserts(r) ==
  /\ r \in Manual
  /\ ~rows[runs[r].query].live
  /\ runs' = [runs EXCEPT ![r] = Idle]
  /\ UNCHANGED <<rows, shown, raced>>

\* A task the loop no longer awaits still claims and advances; its batch is lost.
Awaited(r) == loop = "gathering" /\ r \in Scheduled /\ r[2] = lane

\* Mutant: the row is saved with the base the task had read, not with its moment.
RunScheduledKeepsBase(r, batch) ==
  /\ r \in Scheduled
  /\ Claim(r, batch)
  /\ rows' = [rows EXCEPT ![runs[r].query] =
                IF @.live THEN [@ EXCEPT !.base = runs[r].base] ELSE @]
  /\ runs' = [runs EXCEPT ![r] =
                IF Awaited(r) THEN [@ EXCEPT !.pc = "done", !.items = batch] ELSE Idle]

\* Mutant: last_run_at is not advanced.
RunScheduledForgets(r, batch) ==
  /\ r \in Scheduled
  /\ Claim(r, batch)
  /\ UNCHANGED rows
  /\ runs' = [runs EXCEPT ![r] =
                IF Awaited(r) THEN [@ EXCEPT !.pc = "done", !.items = batch] ELSE Idle]

RunScheduledReturns(r, batch) ==
  /\ r \in Scheduled
  /\ Claim(r, batch)
  /\ rows' = [rows EXCEPT ![runs[r].query] =
                IF @.live THEN [@ EXCEPT !.base = runs[r].moment] ELSE @]
  /\ runs' = [runs EXCEPT ![r] =
                IF Awaited(r) THEN [@ EXCEPT !.pc = "done", !.items = batch] ELSE Idle]

Returns(r, batch) ==
  \/ RunNowReturns(r, batch)
  \/ RunNowAsserts(r)
  \/ RunScheduledReturns(r, batch)

\* Search, merge and dedup answered with the canonical items found: they are linked
\* and the ledger is read.  With nothing unseen the ranker returns without an await.
Curated(r) ==
  /\ runs[r].pc = "curating"
  /\ \E found \in SUBSET Items :
       LET unseen == (linked[runs[r].query] \cup found) \ shown IN
       /\ linked' = [linked EXCEPT ![runs[r].query] = @ \cup found]
       /\ \/ /\ unseen = {}
             /\ Returns(r, {})
          \/ /\ unseen # {}
             /\ runs' = [runs EXCEPT ![r].pc = "ranking", ![r].items = unseen]
             /\ UNCHANGED <<rows, shown, raced>>
  /\ UNCHANGED <<saved, clock, loop, lane, chat>>

\* The reranker's order, cut to the cap: any items of that number.
Picks(q, unseen) ==
  {batch \in SUBSET unseen :
     Cardinality(batch) = IF Limit[q] < Cardinality(unseen) THEN Limit[q]
                                                            ELSE Cardinality(unseen)}

Ranked(r) ==
  /\ runs[r].pc = "ranking"
  /\ \E batch \in Picks(runs[r].query, runs[r].items) : Returns(r, batch)
  /\ UNCHANGED <<saved, linked, clock, loop, lane, chat>>

(***************************************************************************)
(* Manual runs: cb_run_now.                                                *)
(***************************************************************************)
RunNow(r, q) ==
  /\ runs[r].pc = "idle"
  /\ rows[q].live
  /\ runs' = [runs EXCEPT ![r] = EnterPipeline(q, 0)]
  /\ UNCHANGED <<store, clock, loop, lane, chat, raced>>

\* One message of the batch is sent; with the last one the task is over.
Sent(run, i) ==
  IF run.items = {i} THEN Idle
  ELSE [run EXCEPT !.pc = "sending", !.items = run.items \ {i}]

SendManual(r) ==
  /\ runs[r].pc = "sending"
  /\ \E i \in runs[r].items :
       /\ chat' = [chat EXCEPT ![i] = @ + 1]
       /\ runs' = [runs EXCEPT ![r] = Sent(@, i)]
  /\ UNCHANGED <<store, clock, loop, lane, raced>>

(***************************************************************************)
(* The scheduler loop: run_due, its gathered tasks, and the deliveries.    *)
(***************************************************************************)
IsDue(q) ==
  /\ rows[q].live
  /\ \E f \in Fires[q] : rows[q].base < f /\ f < clock

Due == {q \in Queries : IsDue(q)}

\* Mutant: the moment recorded is the next instant.
RunDueLate ==
  /\ loop = "sleeping"
  /\ Due # {}
  /\ \E k \in Lanes :
       /\ \A q \in Queries : runs[<<q, k>>].pc = "idle"
       /\ lane' = k
       /\ runs' = [r \in Runs |->
                     IF r \in Due \X {k}
                       THEN [Idle EXCEPT !.pc = "queued", !.query = r[1],
                                         !.moment = clock + 1]
                       ELSE runs[r]]
  /\ loop' = "gathering"
  /\ UNCHANGED <<store, clock, chat, raced>>

RunDue ==
  /\ loop = "sleeping"
  /\ Due # {}
  /\ \E k \in Lanes :
       /\ \A q \in Queries : runs[<<q, k>>].pc = "idle"
       /\ lane' = k
       /\ runs' = [r \in Runs |->
                     IF r \in Due \X {k}
                       THEN [Idle EXCEPT !.pc = "queued", !.query = r[1], !.moment = clock]
                       ELSE runs[r]]
  /\ loop' = "gathering"
  /\ UNCHANGED <<store, clock, chat, raced>>

\* An exception leaves task t.  gather re-raises the first one to the loop, which logs
\* it and sleeps again; what the other tasks returned is dropped, the rest run on.
Raise(t) ==
  \/ /\ Awaited(t)
     /\ loop' = "sleeping"
     /\ runs' = [r \in Runs |-> IF r = t \/ runs[r].pc = "done" THEN Idle ELSE runs[r]]
  \/ /\ ~Awaited(t)
     /\ runs' = [runs EXCEPT ![t] = Idle]
     /\ UNCHANGED loop

\* Mutant: the task does not look whether its query is still there.
StartScheduledUnchecked(t) ==
  /\ runs[t].pc = "queued"
  /\ runs' = [runs EXCEPT ![t] = EnterPipeline(@.query, @.moment)]
  /\ UNCHANGED <<store, clock, loop, lane, chat, raced>>

\* The first step of a gathered task; it asserts that its query is still there.
StartScheduled(t) ==
  /\ runs[t].pc = "queued"
  /\ \/ /\ rows[runs[t].query].live
        /\ runs' = [runs EXCEPT ![t] = EnterPipeline(@.query, @.moment)]
        /\ UNCHANGED loop
     \/ /\ ~rows[runs[t].query].live
        /\ Raise(t)
  /\ UNCHANGED <<store, clock, lane, chat, raced>>

TasksOf(k) == Queries \X {k}

\* Mutant: what the tasks returned is not delivered.
GatheredUndelivered ==
  /\ loop = "gathering"
  /\ \A t \in TasksOf(lane) : runs[t].pc \in {"idle", "done"}
  /\ runs' = [r \in Runs |-> IF runs[r].pc = "done" THEN Idle ELSE runs[r]]
  /\ loop' = "sleeping"
  /\ UNCHANGED <<store, clock, lane, chat, raced>>

\* Every gathered task returned: empty batches are skipped, the others are sent.
Gathered ==
  /\ loop = "gathering"
  /\ \A t \in TasksOf(lane) : runs[t].pc \in {"idle", "done"}
  /\ runs' = [r \in Runs |-> IF runs[r].pc = "done" /\ runs[r].items = {}
                               THEN Idle ELSE runs[r]]
  /\ loop' = IF \E t \in TasksOf(lane) : runs[t].items # {} THEN "sending" ELSE "sleeping"
  /\ UNCHANGED <<store, clock, lane, chat, raced>>

\* A batch is sent to its end before the next one is begun.
MaySend(t) ==
  /\ loop = "sending"
  /\ t \in TasksOf(lane)
  /\ \/ runs[t].pc = "sending"
     \/ /\ runs[t].pc = "done"
        /\ \A o \in TasksOf(lane) : runs[o].pc # "sending"

SendBatch(t) ==
  /\ MaySend(t)
  /\ \E i \in runs[t].items :
       /\ chat' = [chat EXCEPT ![i] = @ + 1]
       /\ runs' = [runs EXCEPT ![t] = Sent(@, i)]
       /\ loop' = IF /\ runs[t].items = {i}
                     /\ \A o \in TasksOf(lane) \ {t} : runs[o].pc = "idle"
                    THEN "sleeping" ELSE loop
  /\ UNCHANGED <<store, clock, lane, raced>>

(***************************************************************************)
(* What the environment may do to the process.                             *)
(***************************************************************************)
Tick ==
  /\ clock < MaxTime
  /\ clock' = clock + 1
  /\ UNCHANGED <<store, runs, loop, lane, chat, raced>>

\* A model, search or embedding call raises.
CallFails(r) ==
  /\ "call" \in Events
  /\ runs[r].pc \in Waiting
  /\ Raise(r)
  /\ UNCHANGED <<store, clock, lane, chat, raced>>

\* send_message raises, whether or not the message got through.
MaybeReached(i) == chat' = chat \/ chat' = [chat EXCEPT ![i] = @ + 1]

SendManualFails(r) ==
  /\ "send" \in Events
  /\ runs[r].pc = "sending"
  /\ \E i \in runs[r].items : MaybeReached(i)
  /\ runs' = [runs EXCEPT ![r] = Idle]
  /\ UNCHANGED <<store, clock, loop, lane, raced>>

\* The sends are outside the loop's try: the exception ends the scheduler task.
SendBatchFails(t) ==
  /\ "send" \in Events
  /\ MaySend(t)
  /\ \E i \in runs[t].items : MaybeReached(i)
  /\ runs' = [r \in Runs |-> IF r \in TasksOf(lane) THEN Idle ELSE runs[r]]
  /\ loop' = "dead"
  /\ UNCHANGED <<store, clock, lane, raced>>

\* The process stops and is started again on the same database.  It may stop between
\* the two commits of a scheduled run: its batch is marked, its moment is not saved.
Restart ==
  /\ "crash" \in Events
  /\ \/ UNCHANGED shown
     \/ \E t \in Scheduled : /\ runs[t].pc = "ranking"
                            /\ \E batch \in Picks(runs[t].query, runs[t].items) :
                                 shown' = shown \cup batch
  /\ runs' = [r \in Runs |-> Idle]
  /\ loop' = "sleeping"
  /\ UNCHANGED <<rows, saved, linked, clock, lane, chat, raced>>

Next ==
  \/ \E q \in Queries : SaveSearch(q) \/ DeleteSearch(q)
  \/ \E r \in Manual, q \in Queries : RunNow(r, q)
  \/ \E r \in Runs : Classified(r) \/ Curated(r) \/ Ranked(r) \/ CallFails(r)
  \/ \E r \in Manual : SendManual(r) \/ SendManualFails(r)
  \/ \E t \in Scheduled : StartScheduled(t) \/ SendBatch(t) \/ SendBatchFails(t)
  \/ RunDue \/ Gathered \/ Tick \/ Restart

Spec == Init /\ [][Next]_vars

(***************************************************************************)
(* Fairness.  Every network call answers or raises within its client's     *)
(* timeout and the event loop is first-in first-out, so a task that can    *)
(* step does; the loop's sleep ends.  Nothing is assumed of the owner, the *)
(* clock or the faults.                                                    *)
(***************************************************************************)
Progress(r) ==
  \/ Classified(r) \/ Curated(r) \/ Ranked(r)
  \/ r \in Manual /\ SendManual(r)
  \/ r \in Scheduled /\ (StartScheduled(r) \/ SendBatch(r))

FairSpec ==
  /\ Spec
  /\ \A r \in Runs : WF_vars(Progress(r))
  /\ WF_vars(RunDue)
  /\ WF_vars(Gathered)

-----------------------------------------------------------------------------
(* Properties the code has. *)

\* The variables keep their shape, and a task or a loop is only ever where the code
\* can suspend it.
TypeOK ==
  /\ rows \in [Queries -> [live : BOOLEAN, cached : BOOLEAN, base : 0..MaxTime]]
  /\ saved \subseteq Queries
  /\ linked \in [Queries -> SUBSET Items]
  /\ shown \subseteq Items
  /\ clock \in 0..MaxTime
  /\ runs \in [Runs -> [pc : PCs, query : Queries \cup {NoQuery}, base : 0..MaxTime,
                        moment : 0..MaxTime, items : SUBSET Items]]
  /\ loop \in {"sleeping", "gathering", "sending", "dead"}
  /\ lane \in Lanes
  /\ chat \in [Items -> Nat]
  /\ raced \subseteq Items

\* Whatever reached the chat is in the ledger: items are marked before they are sent
\* (_deliver), so no crash or failed send leaves a message the ledger does not know.
SentIsLedgered == \A i \in Items : chat[i] > 0 => i \in shown

\* The don't-repeat guarantee as the code keeps it: the owner receives an item twice
\* only if two runs were ranking it at once, so that the second read the ledger
\* before the first marked it.  Crashes, failed calls and sends, deletions and tasks
\* abandoned by a failed tick never cause a repeat.
RepeatsAreRaces == \A i \in Items : chat[i] > 1 => i \in raced

Orphan(t) == t \in Scheduled /\ runs[t].pc \in Waiting /\ ~Awaited(t)

\* last_run_at of a search moves back in two ways only: a run that read the row before
\* writes its copy back when its classification returns, or a task abandoned by an
\* earlier tick finishes late.
ScheduleRegressesOnlyByRace ==
  [][\A q \in Queries :
       rows[q].live /\ rows'[q].live /\ rows'[q].base < rows[q].base =>
         \E r \in Runs : /\ runs[r].query = q
                        /\ (runs[r].pc = "classifying" \/ Orphan(r))]_vars

\* A deleted search that no run is still working on.
Buried(q) ==
  /\ q \in saved
  /\ ~rows[q].live
  /\ \A r \in Runs : runs[r].query = q => runs[r].pc \in {"queued", "sending", "done"}

\* Once a search is deleted and the runs that had begun on it are over, no row and no
\* link of it comes back, whatever was queued by the scheduler at the time.
BuriedStaysBuried ==
  [][\A q \in Queries : Buried(q) => Buried(q)' /\ linked'[q] = linked[q]]_vars

\* Without faults, a search that is due is run: it does not stay due for ever, though
\* overlapping manual runs may set its last_run_at back on the way.
DueIsServed == \A q \in Queries : IsDue(q) ~> ~IsDue(q)

\* Without faults, an item marked in the ledger reaches the chat in the end.
ClaimedIsSeen == \A i \in Items : i \in shown ~> chat[i] > 0

-----------------------------------------------------------------------------
(* Properties the documentation claims and the code lacks, or has only without faults. *)

\* telegram.md: a result delivered to a user is never delivered again, even via a
\* different saved query.
NeverDeliveredTwice == \A i \in Items : chat[i] <= 1

\* telegram.md: the ledger holds only what the user actually saw.  Asked when no task
\* is in flight, so that nothing marked is still on its way.  The code has it as long as
\* no call, no send and no process fails.
LedgerIsWhatWasSeen ==
  (\A r \in Runs : runs[r].pc = "idle") => \A i \in shown : chat[i] > 0

\* telegram.md: the process ticks its scheduler, whatever a tick met with.
SchedulerKeepsTicking == []<>(loop = "sleeping")
=============================================================================
