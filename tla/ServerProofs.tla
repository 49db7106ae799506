---------------------------- MODULE ServerProofs ----------------------------
(***************************************************************************)
(* Proofs about Server, for any searches, crons and failures: the stored   *)
(* base is the memory of what is owed, and the server implements the       *)
(* abstract schedule.                                                      *)
(***************************************************************************)
EXTENDS Server, TLAPS

-----------------------------------------------------------------------------
(* Type correctness. *)

\* Where a run that starts is suspended, and what it copied.
LEMMA EntryType ==
  ASSUME TypeOK, NEW q \in Queries
  PROVE  EnterPipeline(q) \in [pc : PCs, base : 0..MaxTime]
BY ServerAssumption DEF TypeOK, EnterPipeline, Idle, PCs

\* An idle task is a task.
LEMMA IdleType == Idle \in [pc : PCs, base : 0..MaxTime]
BY ServerAssumption DEF Idle, PCs

\* Every step keeps the variables well formed.
LEMMA TypeStep == TypeOK /\ [Next]_vars => TypeOK'
<1> SUFFICES ASSUME TypeOK, [Next]_vars PROVE TypeOK'
  OBVIOUS
<1> USE ServerAssumption, IdleType DEF TypeOK
<1>1. CASE Tick
  <2>1. tasks' \in [Queries -> [pc : PCs, base : 0..MaxTime]]
    BY <1>1, EntryType DEF Tick
  <2> QED BY <1>1, <2>1 DEF Tick
<1>2. CASE Gathered
  BY <1>2 DEF Gathered
<1>3. CASE Pass
  BY <1>3 DEF Pass
<1>4. CASE Crash
  BY <1>4 DEF Crash, Start
<1>5. CASE Revive
  BY <1>5 DEF Revive, Start
<1>6. ASSUME NEW q \in Queries, Classified(q) PROVE TypeOK'
  <2>1. [base |-> tasks[q].base, cached |-> TRUE] \in [base : 0..MaxTime, cached : BOOLEAN]
    OBVIOUS
  <2>2. [Idle EXCEPT !.pc = "running"] \in [pc : PCs, base : 0..MaxTime]
    BY DEF Idle, PCs
  <2> QED BY <1>6, <2>1, <2>2 DEF Classified
<1>7. ASSUME NEW q \in Queries, RunReturns(q) PROVE TypeOK'
  <2>1. rows' \in [Queries -> [base : 0..MaxTime, cached : BOOLEAN]]
    BY <1>7 DEF RunReturns
  <2>2. missed' \in [Queries -> SUBSET (0..MaxTime)]
    BY <1>7 DEF RunReturns
  <2> QED BY <1>7, <2>1, <2>2 DEF RunReturns
<1>8. ASSUME NEW q \in Queries, RunFails(q) PROVE TypeOK'
  BY <1>8 DEF RunFails
<1>9. ASSUME NEW q \in Queries, StoreFails(q) PROVE TypeOK'
  BY <1>9 DEF StoreFails
<1>10. CASE UNCHANGED vars
  BY <1>10 DEF vars
<1> QED BY <1>1, <1>2, <1>3, <1>4, <1>5, <1>6, <1>7, <1>8, <1>9, <1>10 DEF Next

\* The first state is well formed.
LEMMA InitType == Init => TypeOK
<1> SUFFICES ASSUME Init PROVE TypeOK
  OBVIOUS
<1>1. rows \in [Queries -> [base : 0..MaxTime, cached : BOOLEAN]]
  BY ServerAssumption DEF Init
<1> QED BY <1>1, ServerAssumption, IdleType DEF Init, TypeOK

\* Every variable keeps its shape in every behaviour.
THEOREM ServerTypeCorrect == Spec => []TypeOK
BY InitType, TypeStep, PTL DEF Spec

-----------------------------------------------------------------------------
(***************************************************************************)
(* What a run in flight may write.  OwedIsRemembered is not inductive by itself:  *)
(* a copy of a row is written back, and a base is set to the moment of the *)
(* tick, long after both were read.  The copy still says what the row says *)
(* (only the run of a search writes its row), and the search of a run is   *)
(* still due at the moment of its tick.                                    *)
(***************************************************************************)
InFlight(q) ==
  /\ tasks[q].pc = "classifying" => tasks[q].base = rows[q].base
  /\ tasks[q].pc # "idle" => IsDueAt(q, rows[q].base, moment)

PastInv ==
  /\ moment <= clock
  /\ \A q \in Queries : rows[q].base <= clock

ScheduleInv ==
  /\ PastInv
  /\ \A q \in Queries : InFlight(q)
  /\ OwedIsRemembered

\* The fires a search still owes, as its base and the clock give them.
Owed(q, since, now) == {f \in Fires[q] : since < f /\ f <= now}

\* The first state: nothing is in flight, and what is owed is what the base says.
LEMMA InitSchedule == Init => ScheduleInv
<1> SUFFICES ASSUME Init PROVE ScheduleInv
  OBVIOUS
<1> USE ServerAssumption DEF Init
<1>1. PastInv
  BY DEF PastInv
<1>2. \A q \in Queries : InFlight(q)
  BY DEF InFlight, Idle
<1>3. OwedIsRemembered
  BY DEF OwedIsRemembered
<1> QED BY <1>1, <1>2, <1>3 DEF ScheduleInv

\* A step that leaves the rows and the clock alone, and starts no run, disturbs nothing.
LEMMA QuietStep ==
  ASSUME TypeOK, ScheduleInv, UNCHANGED <<rows, clock, moment, missed>>,
         \A q \in Queries : tasks'[q] = tasks[q] \/ tasks'[q] = Idle
  PROVE  ScheduleInv'
<1>1. PastInv'
  BY DEF ScheduleInv, PastInv
<1>2. \A q \in Queries : InFlight(q)'
  BY DEF ScheduleInv, InFlight, IsDueAt, Idle
<1>3. OwedIsRemembered'
  BY DEF ScheduleInv, OwedIsRemembered
<1> QED BY <1>1, <1>2, <1>3 DEF ScheduleInv

\* The invariant of the schedule is inductive.
LEMMA ScheduleStep == TypeOK /\ ScheduleInv /\ [Next]_vars => ScheduleInv'
<1> SUFFICES ASSUME TypeOK, ScheduleInv, [Next]_vars PROVE ScheduleInv'
  OBVIOUS
<1>1. CASE Tick
  <2>1. PastInv'
    BY <1>1 DEF Tick, ScheduleInv, PastInv, TypeOK
  <2>2. ASSUME NEW q \in Queries PROVE InFlight(q)'
    <3>1. CASE q \in Due
      BY <1>1, <2>2, <3>1 DEF Tick, Due, InFlight, IsDueAt, EnterPipeline, Idle
    <3>2. CASE q \notin Due
      BY <1>1, <2>2, <3>2 DEF Tick, InFlight, Idle
    <3> QED BY <3>1, <3>2
  <2>3. OwedIsRemembered'
    BY <1>1 DEF Tick, ScheduleInv, OwedIsRemembered
  <2> QED BY <2>1, <2>2, <2>3 DEF ScheduleInv
<1>2. CASE Gathered
  BY <1>2, QuietStep DEF Gathered
<1>3. CASE Pass
  <2>1. PastInv'
    BY <1>3 DEF Pass, ScheduleInv, PastInv, TypeOK
  <2>2. \A q \in Queries : InFlight(q)'
    BY <1>3 DEF Pass, ScheduleInv, InFlight, IsDueAt
  <2>3. ASSUME NEW q \in Queries PROVE missed'[q] = Owed(q, rows[q].base, clock + 1)
    <3>1. missed[q] = Owed(q, rows[q].base, clock) /\ rows[q].base <= clock
      BY DEF ScheduleInv, OwedIsRemembered, Owed, PastInv
    <3>2. missed'[q] = missed[q] \cup (Fires[q] \cap {clock + 1})
      BY <1>3 DEF Pass, TypeOK
    <3>3. clock \in Nat /\ rows[q].base \in Nat /\ Fires[q] \subseteq Nat
      BY ServerAssumption DEF TypeOK
    <3> QED BY <3>1, <3>2, <3>3 DEF Owed
  <2>4. OwedIsRemembered'
    BY <1>3, <2>3 DEF Pass, OwedIsRemembered, Owed
  <2> QED BY <2>1, <2>2, <2>4 DEF ScheduleInv
<1>4. CASE Crash
  BY <1>4, QuietStep DEF Crash, Start
<1>5. CASE Revive
  BY <1>5, QuietStep DEF Revive, Start
<1>6. ASSUME NEW q \in Queries, Classified(q) PROVE ScheduleInv'
  <2>1. \A p \in Queries : rows'[p].base = rows[p].base
    BY <1>6 DEF Classified, ScheduleInv, InFlight, TypeOK
  <2>2. \A p \in Queries : tasks'[p].pc # "idle" => tasks[p].pc # "idle"
    BY <1>6 DEF Classified, Idle, TypeOK
  <2>3. \A p \in Queries : tasks'[p].pc = "classifying" => tasks'[p] = tasks[p]
    BY <1>6 DEF Classified, Idle, TypeOK
  <2>4. UNCHANGED <<clock, moment, missed>>
    BY <1>6 DEF Classified
  <2>5. PastInv'
    BY <2>1, <2>4 DEF ScheduleInv, PastInv
  <2>6. \A p \in Queries : InFlight(p)'
    BY <2>1, <2>2, <2>3, <2>4 DEF ScheduleInv, InFlight, IsDueAt
  <2>7. OwedIsRemembered'
    BY <2>1, <2>4 DEF ScheduleInv, OwedIsRemembered
  <2> QED BY <2>5, <2>6, <2>7 DEF ScheduleInv
<1>7. ASSUME NEW q \in Queries, RunReturns(q) PROVE ScheduleInv'
  <2>1. \A p \in Queries : rows'[p].base = IF p = q THEN moment ELSE rows[p].base
    BY <1>7 DEF RunReturns, TypeOK
  <2>2. UNCHANGED <<clock, moment>>
    BY <1>7 DEF RunReturns
  <2>3. PastInv'
    BY <2>1, <2>2 DEF ScheduleInv, PastInv
  <2>4. \A p \in Queries : InFlight(p)'
    BY <1>7, <2>1, <2>2 DEF RunReturns, ScheduleInv, InFlight, IsDueAt, Idle, TypeOK
  <2>5. ASSUME NEW p \in Queries PROVE missed'[p] = Owed(p, rows'[p].base, clock)
    <3>1. missed[p] = Owed(p, rows[p].base, clock)
      BY DEF ScheduleInv, OwedIsRemembered, Owed
    <3>2. CASE p # q
      BY <1>7, <2>1, <3>1, <3>2 DEF RunReturns, TypeOK
    <3>3. CASE p = q
      <4>1. missed'[p] = {f \in missed[p] : f > moment}
        BY <1>7, <3>3 DEF RunReturns, TypeOK
      <4>2. IsDueAt(p, rows[p].base, moment)
        BY <1>7, <3>3 DEF RunReturns, ScheduleInv, InFlight
      <4>3. /\ moment \in Nat /\ rows[p].base \in Nat /\ clock \in Nat
            /\ Fires[p] \subseteq Nat
        BY ServerAssumption DEF TypeOK
      <4>4. rows[p].base < moment
        BY <4>2, <4>3 DEF IsDueAt
      <4> QED BY <2>1, <3>1, <3>3, <4>1, <4>3, <4>4 DEF Owed
    <3> QED BY <3>2, <3>3
  <2>6. OwedIsRemembered'
    BY <2>2, <2>5 DEF OwedIsRemembered, Owed
  <2> QED BY <2>3, <2>4, <2>6 DEF ScheduleInv
<1>8. ASSUME NEW q \in Queries, RunFails(q) PROVE ScheduleInv'
  BY <1>8, QuietStep DEF RunFails, TypeOK
<1>9. ASSUME NEW q \in Queries, StoreFails(q) PROVE ScheduleInv'
  BY <1>9, QuietStep DEF StoreFails
<1>10. CASE UNCHANGED vars
  BY <1>10, QuietStep DEF vars
<1> QED BY <1>1, <1>2, <1>3, <1>4, <1>5, <1>6, <1>7, <1>8, <1>9, <1>10 DEF Next

\* Both invariants hold in every behaviour.
LEMMA ServerInvariant == Spec => [](TypeOK /\ ScheduleInv)
BY InitType, InitSchedule, TypeStep, ScheduleStep, PTL DEF Spec

\* Whatever fails and however often the process stops, the stored base tells exactly which
\* fires up to now are later than the last run: no failure drops one, none brings one back.
THEOREM OwedIsAlwaysRemembered == Spec => []OwedIsRemembered
<1>1. ScheduleInv => OwedIsRemembered
  BY DEF ScheduleInv
<1> QED BY <1>1, ServerInvariant, PTL

-----------------------------------------------------------------------------
(***************************************************************************)
(* The refinement: the end of a run serves its search as of the moment of  *)
(* its tick, time passes in both, and every other step stutters.           *)
(***************************************************************************)
Bases == [q \in Queries |-> rows[q].base]

\* The first states are first states of the schedule.
LEMMA InitRefines == Init => Promise!Init
<1> SUFFICES ASSUME Init PROVE Promise!Init
  OBVIOUS
<1>1. Bases \in [Queries -> 0..MaxTime]
  BY InitType DEF Bases, TypeOK
<1> QED BY <1>1, ServerAssumption DEF Init, Promise!Init, Bases

\* Steps that leave bases and clock alone stutter.
LEMMA QuietRefines ==
  ASSUME UNCHANGED clock, \A q \in Queries : rows'[q].base = rows[q].base
  PROVE  [Promise!Next]_(Promise!scheduleVars)
BY DEF Promise!scheduleVars

\* The end of a run serves its search.
LEMMA ReturnServes ==
  ASSUME TypeOK, ScheduleInv, NEW q \in Queries, RunReturns(q)
  PROVE  Promise!Serve(q)
<1>1. moment \in 0..clock
  BY DEF TypeOK, ScheduleInv, PastInv
<1>2. IsDueAt(q, rows[q].base, moment)
  BY DEF RunReturns, ScheduleInv, InFlight
<1>3. Bases' = [Bases EXCEPT ![q] = moment]
  BY DEF RunReturns, Bases, TypeOK
<1> QED BY <1>1, <1>2, <1>3 DEF Promise!Serve, Promise!IsDueAt, IsDueAt, Bases, RunReturns

\* Every step of the server is a step of the schedule, or a stutter.
LEMMA StepRefines ==
  TypeOK /\ ScheduleInv /\ [Next]_vars => [Promise!Next]_(Promise!scheduleVars)
<1> SUFFICES ASSUME TypeOK, ScheduleInv, [Next]_vars
             PROVE  [Promise!Next]_(Promise!scheduleVars)
  OBVIOUS
<1>1. CASE Tick
  BY <1>1, QuietRefines DEF Tick
<1>2. CASE Gathered
  BY <1>2, QuietRefines DEF Gathered
<1>3. CASE Pass
  BY <1>3 DEF Pass, Promise!Next, Promise!Pass
<1>4. CASE Crash
  BY <1>4, QuietRefines DEF Crash, Start
<1>5. CASE Revive
  BY <1>5, QuietRefines DEF Revive, Start
<1>6. ASSUME NEW q \in Queries, Classified(q)
      PROVE  [Promise!Next]_(Promise!scheduleVars)
  <2>1. \A p \in Queries : rows'[p].base = rows[p].base
    BY <1>6 DEF Classified, ScheduleInv, InFlight, TypeOK
  <2> QED BY <1>6, <2>1, QuietRefines DEF Classified
<1>7. ASSUME NEW q \in Queries, RunReturns(q)
      PROVE  [Promise!Next]_(Promise!scheduleVars)
  BY <1>7, ReturnServes DEF Promise!Next
<1>8. ASSUME NEW q \in Queries, RunFails(q) PROVE [Promise!Next]_(Promise!scheduleVars)
  BY <1>8, QuietRefines DEF RunFails
<1>9. ASSUME NEW q \in Queries, StoreFails(q) PROVE [Promise!Next]_(Promise!scheduleVars)
  BY <1>9, QuietRefines DEF StoreFails
<1>10. CASE UNCHANGED vars
  BY <1>10, QuietRefines DEF vars
<1> QED BY <1>1, <1>2, <1>3, <1>4, <1>5, <1>6, <1>7, <1>8, <1>9, <1>10 DEF Next

\* The server implements the abstract schedule: over failed runs, crashes and store errors
\* a base moves only forward, and only when a search that was due has been run.
THEOREM ServerImplementsSchedule == Spec => KeepsSchedule
<1>1. Spec => Promise!Init
  BY InitRefines DEF Spec
<1>2. Spec => [][Promise!Next]_(Promise!scheduleVars)
  BY ServerInvariant, StepRefines, PTL DEF Spec
<1> QED BY <1>1, <1>2, PTL DEF KeepsSchedule, Promise!Spec
=============================================================================
