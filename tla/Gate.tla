-------------------------------- MODULE Gate --------------------------------
(***************************************************************************)
(* The owner gate of the Telegram bot: a middleware that lets the updates  *)
(* of the configured owner through and tells the owner once of every other *)
(* chat.  Updates are handled concurrently, a task each.                   *)
(***************************************************************************)
EXTENDS Naturals, FiniteSets

CONSTANTS
  Strangers,  \* chats that are not the owner's
  MaxKnocks,  \* bounds the updates each of them sends
  MaxLives,   \* bounds how often the process is started
  Events      \* the disturbances a run of the model allows

ASSUME GateAssumption ==
  /\ MaxKnocks \in Nat
  /\ MaxLives \in Nat \ {0}
  /\ Events \subseteq {"call", "send", "crash"}

VARIABLES
  userRow,    \* users: is there a row for the owner
  notified,   \* the strangers the middleware remembers as notified
  telling,    \* how many notifications of a stranger are being sent
  told,       \* how many of them reached the owner
  knocks,     \* how many updates each stranger sent
  lives,      \* how often the process was started
  unsent      \* history: the strangers a notification of whom failed

gateVars == <<userRow, notified, telling, told, knocks, lives, unsent>>

GateInit ==
  /\ userRow = FALSE
  /\ notified = {}
  /\ telling = [s \in Strangers |-> 0]
  /\ told = [s \in Strangers |-> 0]
  /\ knocks = [s \in Strangers |-> 0]
  /\ lives = 1
  /\ unsent = {}

\* Mutant: the row of the owner is left to somebody else.
AdmitRowless == UNCHANGED gateVars

\* users.upsert: the row is there, and writing it again changes nothing.
UpsertUser == userRow' = TRUE

\* An update of the owner: authorize makes sure of the owner's row before the handler
\* runs.  Nothing is awaited on the way.
Admit ==
  /\ UpsertUser
  /\ UNCHANGED <<notified, telling, told, knocks, lives, unsent>>

\* Mutant: the stranger is remembered only when the notification was sent.
KnockUnremembered(s) ==
  /\ knocks[s] < MaxKnocks
  /\ knocks' = [knocks EXCEPT ![s] = @ + 1]
  /\ UNCHANGED notified
  /\ telling' = [telling EXCEPT ![s] = IF s \in notified THEN @ ELSE @ + 1]
  /\ UNCHANGED <<userRow, told, lives, unsent>>

\* Mutant: whoever wrote before counts as notified.
KnockTwiceToBeHeard(s) ==
  /\ knocks[s] < MaxKnocks
  /\ knocks' = [knocks EXCEPT ![s] = @ + 1]
  /\ notified' = notified \cup {s}
  /\ telling' = [telling EXCEPT ![s] = IF knocks[s] = 0 THEN @ + 1 ELSE @]
  /\ UNCHANGED <<userRow, told, lives, unsent>>

\* A message or a button of a stranger: remembered, then told to the owner.  The update
\* itself is dropped.
Knock(s) ==
  /\ knocks[s] < MaxKnocks
  /\ knocks' = [knocks EXCEPT ![s] = @ + 1]
  /\ notified' = notified \cup {s}
  /\ telling' = [telling EXCEPT ![s] = IF s \in notified THEN @ ELSE @ + 1]
  /\ UNCHANGED <<userRow, told, lives, unsent>>

Told(s) ==
  /\ telling[s] > 0
  /\ telling' = [telling EXCEPT ![s] = @ - 1]
  /\ told' = [told EXCEPT ![s] = @ + 1]
  /\ UNCHANGED <<userRow, notified, knocks, lives, unsent>>

\* send_message raises, whether or not the message got through; nobody tries again.
TellingFails(s) ==
  /\ "send" \in Events
  /\ telling[s] > 0
  /\ telling' = [telling EXCEPT ![s] = @ - 1]
  /\ told' = told \/ told' = [told EXCEPT ![s] = @ + 1]
  /\ unsent' = unsent \cup {s}
  /\ UNCHANGED <<userRow, notified, knocks, lives>>

\* The process starts again: it remembers nobody; what was being sent may have arrived.
GateRestart ==
  /\ lives < MaxLives
  /\ lives' = lives + 1
  /\ notified' = {}
  /\ telling' = [s \in Strangers |-> 0]
  /\ \E reached \in SUBSET {s \in Strangers : telling[s] > 0} :
       told' = [s \in Strangers |-> IF s \in reached THEN told[s] + telling[s] ELSE told[s]]
  /\ UNCHANGED <<userRow, knocks, unsent>>

GateNext == \E s \in Strangers : Knock(s) \/ Told(s) \/ TellingFails(s)

-----------------------------------------------------------------------------
GateTypeOK ==
  /\ userRow \in BOOLEAN
  /\ notified \subseteq Strangers
  /\ telling \in [Strangers -> Nat]
  /\ told \in [Strangers -> Nat]
  /\ knocks \in [Strangers -> 0..MaxKnocks]
  /\ lives \in 1..MaxLives
  /\ unsent \subseteq Strangers

\* The owner is told of a stranger at most once in a life of the process, however many
\* updates of that stranger are being handled at once.
ToldOncePerLife == \A s \in Strangers : told[s] + telling[s] <= lives

\* A stranger who is ignored without the owner having been told, or being told, owes it
\* to a send that failed: nothing else silences the gate.
SilenceIsAFailedSend ==
  \A s \in notified : told[s] > 0 \/ telling[s] > 0 \/ s \in unsent
=============================================================================
