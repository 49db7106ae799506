------------------------------- MODULE Server -------------------------------
(***************************************************************************)
(* The headless scheduler: one process that wakes, finds the searches that *)
(* are due, runs them all at once and sleeps again when the last is over.  *)
(* Each run catches its own failures.  No other process writes the rows of *)
(* scheduled searches meanwhile: the console owns unscheduled ones and the *)
(* bot is the alternative to this process.                                 *)
(***************************************************************************)
EXTENDS Naturals

CONSTANTS
  Queries,   \* the enabled saved searches that carry a cron
  Fires,     \* Fires[q]: the instants at which the cron of q fires
  Flaky,     \* the searches whose runs may fail
  MaxTime,   \* bounds the clock
  MaxFaults  \* bounds how often the process stops or its store fails

ASSUME ServerAssumption ==
  /\ MaxTime \in Nat
  /\ Fires \in [Queries -> SUBSET (0..MaxTime)]
  /\ Flaky \subseteq Queries
  /\ MaxFaults \in Nat

VARIABLES
  rows,      \* saved_queries: the base of is_due, and whether the domain is cached
  clock,     \* now, in the unit of Fires
  tasks,     \* the gathered run of each search, if any
  loop,      \* run_forever: asleep, or waiting for the runs it gathered
  moment,    \* the now of the current tick
  missed,    \* history: the fires of q since its last run, by the documents' reading
  faults     \* how often the process stopped or its store failed so far

vars == <<rows, clock, tasks, loop, moment, missed, faults>>

Idle == [pc |-> "idle", base |-> 0]
PCs  == {"idle", "classifying", "running"}

\* is_due: the last fire before now (get_prev is strict) is later than the base.
IsDueAt(q, since, now) == \E f \in Fires[q] : since < f /\ f < now
Due == {q \in Queries : IsDueAt(q, rows[q].base, clock)}

\* The database outlives the process: it may hold any rows when the server is started.
Init ==
  /\ clock \in 0..MaxTime
  /\ rows \in [Queries -> [base : 0..clock, cached : BOOLEAN]]
  /\ tasks = [q \in Queries |-> Idle]
  /\ loop = "sleeping"
  /\ moment = 0
  /\ missed = [q \in Queries |-> {f \in Fires[q] : rows[q].base < f /\ f <= clock}]
  /\ faults = 0

\* CurationPipeline.run up to its first await: the row is read; a row without a domain
\* is kept as a copy while the classifier is asked.
EnterPipeline(q) ==
  IF rows[q].cached THEN [Idle EXCEPT !.pc = "running"]
                    ELSE [pc |-> "classifying", base |-> rows[q].base]

\* Mutant: the moment of a run is when it ends.
TickUndated ==
  /\ loop = "sleeping"
  /\ Due # {}
  /\ moment' = clock + 1
  /\ tasks' = [q \in Queries |-> IF q \in Due THEN EnterPipeline(q) ELSE Idle]
  /\ loop' = "gathering"
  /\ UNCHANGED <<rows, clock, missed, faults>>

\* tick: the runs of all due searches start, under one now.
Tick ==
  /\ loop = "sleeping"
  /\ Due # {}
  /\ moment' = clock
  /\ tasks' = [q \in Queries |-> IF q \in Due THEN EnterPipeline(q) ELSE Idle]
  /\ loop' = "gathering"
  /\ UNCHANGED <<rows, clock, missed, faults>>

\* Mutant: the copy is written back with the schedule of a search that never ran.
ClassifiedAfresh(q) ==
  /\ tasks[q].pc = "classifying"
  /\ rows' = [rows EXCEPT ![q] = [base |-> 0, cached |-> TRUE]]
  /\ tasks' = [tasks EXCEPT ![q] = [Idle EXCEPT !.pc = "running"]]
  /\ UNCHANGED <<clock, loop, moment, missed, faults>>

\* The classifier answered: the whole row is written back from the copy.
Classified(q) ==
  /\ tasks[q].pc = "classifying"
  /\ rows' = [rows EXCEPT ![q] = [base |-> tasks[q].base, cached |-> TRUE]]
  /\ tasks' = [tasks EXCEPT ![q] = [Idle EXCEPT !.pc = "running"]]
  /\ UNCHANGED <<clock, loop, moment, missed, faults>>

\* The pipeline returned: the row is read again and its base set to the now of the tick.
RunReturns(q) ==
  /\ tasks[q].pc = "running"
  /\ rows' = [rows EXCEPT ![q].base = moment]
  /\ missed' = [missed EXCEPT ![q] = {f \in @ : f > moment}]
  /\ tasks' = [tasks EXCEPT ![q] = Idle]
  /\ UNCHANGED <<clock, loop, moment, faults>>

\* Mutant: a failed run is put down as done.
RunFailsAsDone(q) ==
  /\ q \in Flaky
  /\ tasks[q].pc # "idle"
  /\ rows' = [rows EXCEPT ![q].base = moment]
  /\ tasks' = [tasks EXCEPT ![q] = Idle]
  /\ UNCHANGED <<clock, loop, moment, missed, faults>>

\* Mutant: the exception leaves the task and the gather.
RunFailsLoudly(q) ==
  /\ q \in Flaky
  /\ tasks[q].pc # "idle"
  /\ tasks' = [p \in Queries |-> Idle]
  /\ loop' = "dead"
  /\ UNCHANGED <<rows, clock, moment, missed, faults>>

\* The pipeline raised: the task logs it and returns, so the search stays due.
RunFails(q) ==
  /\ q \in Flaky
  /\ tasks[q].pc # "idle"
  /\ tasks' = [tasks EXCEPT ![q] = Idle]
  /\ UNCHANGED <<rows, clock, loop, moment, missed, faults>>

\* Every gathered run is over, and the loop sleeps.
Gathered ==
  /\ loop = "gathering"
  /\ \A q \in Queries : tasks[q].pc = "idle"
  /\ loop' = "sleeping"
  /\ UNCHANGED <<rows, clock, tasks, moment, missed, faults>>

\* The reads and writes of the store after a run are outside its try: an error there
\* (a database locked for too long) leaves gather, tick and run_forever, and with them
\* the process and every run of the tick.
StoreFails(q) ==
  /\ faults < MaxFaults
  /\ tasks[q].pc = "running"
  /\ faults' = faults + 1
  /\ tasks' = [p \in Queries |-> Idle]
  /\ loop' = "dead"
  /\ UNCHANGED <<rows, clock, moment, missed>>

Start ==
  /\ tasks' = [q \in Queries |-> Idle]
  /\ loop' = "sleeping"
  /\ UNCHANGED <<rows, clock, moment, missed>>

\* The process is stopped and started again on the same database.
Crash ==
  /\ faults < MaxFaults
  /\ loop # "dead"
  /\ faults' = faults + 1
  /\ Start

\* The process had ended: the restart policy of its container starts it again.
Revive ==
  /\ loop = "dead"
  /\ UNCHANGED faults
  /\ Start

Pass ==
  /\ clock < MaxTime
  /\ clock' = clock + 1
  /\ missed' = [q \in Queries |-> missed[q] \cup (Fires[q] \cap {clock'})]
  /\ UNCHANGED <<rows, tasks, loop, moment, faults>>

Next ==
  \/ Tick \/ Gathered \/ Pass \/ Crash \/ Revive
  \/ \E q \in Queries : Classified(q) \/ RunReturns(q) \/ RunFails(q) \/ StoreFails(q)

Spec == Init /\ [][Next]_vars

(***************************************************************************)
(* Fairness.  Network calls answer or raise within their clients' timeouts *)
(* and the sleep of the loop ends; a search outside Flaky always succeeds, *)
(* one in it may fail for ever.  A stopped process is started again by the *)
(* container's restart policy.                                             *)
(***************************************************************************)
FairSpec ==
  /\ Spec
  /\ WF_vars(Tick)
  /\ WF_vars(Gathered)
  /\ WF_vars(Revive)
  /\ \A q \in Queries : WF_vars(Classified(q) \/ RunReturns(q) \/ RunFails(q))

-----------------------------------------------------------------------------
\* The variables keep their shape: a base is never later than the clock can be, and a run
\* is only ever where the code can suspend it.
TypeOK ==
  /\ clock \in 0..MaxTime
  /\ rows \in [Queries -> [base : 0..MaxTime, cached : BOOLEAN]]
  /\ tasks \in [Queries -> [pc : PCs, base : 0..MaxTime]]
  /\ loop \in {"sleeping", "gathering", "dead"}
  /\ moment \in 0..MaxTime
  /\ missed \in [Queries -> SUBSET (0..MaxTime)]
  /\ faults \in 0..MaxFaults

\* The base stored in the row remembers what the documents call owed, over failed runs,
\* crashes and store errors: the fires up to now that are later than the last run, where
\* a run counts for the fires up to and including the now of its tick.  Whether a tick
\* finds the search due on their account is another matter (TickRunsEveryFire).
OwedIsRemembered ==
  \A q \in Queries :
    missed[q] = {f \in Fires[q] : rows[q].base < f /\ f <= clock}

\* The promise of a scheduler, of which this process shows the bases and the clock.
Promise == INSTANCE Schedule WITH base <- [q \in Queries |-> rows[q].base]

\* The server implements that promise: whatever fails, a base moves only forward, and only
\* when a search that was due has been run.  (The bot's loop does not: its abandoned tasks
\* set a base back.)
KeepsSchedule == Promise!Spec

\* A failing search does not keep the others from their turn: a due search whose own runs
\* succeed is served, though others fail for ever and the process stops now and then.
SteadyIsServed ==
  \A q \in Queries \ Flaky : q \in Due ~> q \notin Due

-----------------------------------------------------------------------------
(* A property the documentation claims and the code lacks. *)

\* Every tick runs the searches whose last fire at or before its now is later than their
\* last run, the fire at that very instant included.
TickRunsEveryFire ==
  [][loop = "sleeping" /\ loop' = "gathering" =>
       \A q \in Queries : missed[q] # {} => tasks'[q].pc # "idle"]_vars
=============================================================================
