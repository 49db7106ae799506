------------------------------ MODULE Schedule ------------------------------
(***************************************************************************)
(* What a scheduler of saved searches promises, whatever runs the searches *)
(* and whatever goes wrong while they run: the base from which a search is *)
(* due moves only forward, only while the search is due, and to a moment   *)
(* that is past.  After any downtime a search that missed several fires is *)
(* therefore served once and is then no longer due for any of them.  A     *)
(* fire at the very moment of the run that serves the search makes it due  *)
(* no more either: it is not before that moment, nor after the new base.   *)
(***************************************************************************)
EXTENDS Naturals

CONSTANTS
  Queries,   \* scheduled saved-query ids
  Fires,     \* Fires[q]: the instants at which the cron of q fires
  MaxTime    \* bounds the clock

VARIABLES
  base,      \* last_run_at, or created_at while the search never ran
  clock      \* now, in the unit of Fires

scheduleVars == <<base, clock>>

\* is_due: the last fire strictly before now is later than the base.
IsDueAt(q, since, now) == \E f \in Fires[q] : since < f /\ f < now

IsDue(q) == IsDueAt(q, base[q], clock)

Init ==
  /\ base \in [Queries -> 0..MaxTime]
  /\ clock \in 0..MaxTime
  /\ \A q \in Queries : base[q] <= clock

\* A run of q that began at `moment` is over: no fire up to then makes it due again.
Serve(q) ==
  /\ \E moment \in 0..clock :
       /\ IsDueAt(q, base[q], moment)
       /\ base' = [base EXCEPT ![q] = moment]
  /\ UNCHANGED clock

Pass ==
  /\ clock < MaxTime
  /\ clock' = clock + 1
  /\ UNCHANGED base

Next == Pass \/ \E q \in Queries : Serve(q)

Spec == Init /\ [][Next]_scheduleVars
=============================================================================
