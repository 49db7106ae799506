------------------------------ MODULE Dialogue ------------------------------
(***************************************************************************)
(* The new-search dialogue of the Telegram bot, behind the owner gate.     *)
(* Every text of the owner is a task that copies the conversation, awaits  *)
(* the language model and writes conversation and draft back; the buttons  *)
(* of any draft ever shown stay in the chat.  Conversation and draft live  *)
(* in memory, saved searches in the database.                              *)
(***************************************************************************)
EXTENDS Gate, Sequences, Functions

CONSTANTS
  Texts,     \* the owner's messages, each sent at most once; a draft is named by the
             \* text whose turn produced it
  NoDraft

ASSUME DialogueAssumption == NoDraft \notin Texts

VARIABLES
  fsm,       \* the state of the dialogue: collecting or none
  talk,      \* the stored conversation, as the owner's texts in it
  draft,     \* the stored draft
  turns,     \* the task of each text
  cards,     \* the drafts whose message, with its buttons, is in the chat
  saved,     \* how many saved searches were made of each draft
  heard,     \* history: the texts whose turns returned since the dialogue was begun
  late,      \* history: the texts whose turns were in flight when a dialogue ended
  raced      \* history: the texts whose turns were in flight together

dialogueVars == <<fsm, talk, draft, turns, cards, saved, heard, late, raced>>
vars == <<gateVars, dialogueVars>>

\* A ready draft has a cron that is valid, or that save_search refuses.
Outcomes == {"ask", "ready", "badcron"}
NoTurn == [pc |-> "none", talk |-> <<>>, outcome |-> "ask"]

Init ==
  /\ GateInit
  /\ fsm = "none"
  /\ talk = <<>>
  /\ draft = NoDraft
  /\ turns = [t \in Texts |-> NoTurn]
  /\ cards = {}
  /\ saved = [t \in Texts |-> 0]
  /\ heard = {}
  /\ late = {}
  /\ raced = {}

InFlight == {t \in Texts : turns[t].pc = "asking"}

\* The data of the dialogue is emptied; turns in flight know nothing of it.
Emptied ==
  /\ talk' = <<>>
  /\ draft' = NoDraft
  /\ heard' = {}
  /\ late' = late \cup InFlight

\* _start_dialogue, from the command or the menu button.
Start ==
  /\ Admit
  /\ fsm' = "collecting"
  /\ Emptied
  /\ UNCHANGED <<turns, cards, saved, raced>>

\* /start, /menu, and the Discard button of any draft.
Leave ==
  /\ Admit
  /\ fsm' = "none"
  /\ Emptied
  /\ UNCHANGED <<turns, cards, saved, raced>>

\* A text while collecting: its task copies the conversation before it awaits.
Say(t) ==
  /\ Admit
  /\ fsm = "collecting"
  /\ turns[t].pc = "none"
  /\ turns' = [turns EXCEPT ![t] = [pc |-> "asking", talk |-> Append(talk, t),
                                    outcome |-> "ask"]]
  /\ raced' = IF InFlight = {} THEN raced ELSE raced \cup InFlight \cup {t}
  /\ UNCHANGED <<fsm, talk, draft, cards, saved, heard, late>>

\* Mutant: the turn stores the answer but not the text it answers.
TurnReturnsTextless(t) ==
  /\ turns[t].pc = "asking"
  /\ \E outcome \in Outcomes :
       /\ turns' = [turns EXCEPT ![t] = [pc |-> "answering", talk |-> <<>>,
                                         outcome |-> outcome]]
       /\ draft' = IF outcome = "ask" THEN NoDraft ELSE t
  /\ UNCHANGED talk
  /\ heard' = heard \cup {t}
  /\ UNCHANGED <<gateVars, fsm, cards, saved, late, raced>>

\* The model answered, and the answer was parsed: conversation and draft are written back
\* without another look at the dialogue.  A malformed or unready answer leaves no draft.
TurnReturns(t) ==
  /\ turns[t].pc = "asking"
  /\ \E outcome \in Outcomes :
       /\ turns' = [turns EXCEPT ![t] = [pc |-> "answering", talk |-> <<>>,
                                         outcome |-> outcome]]
       /\ draft' = IF outcome = "ask" THEN NoDraft ELSE t
  /\ talk' = turns[t].talk
  /\ heard' = heard \cup {t}
  /\ UNCHANGED <<gateVars, fsm, cards, saved, late, raced>>

\* The chat action or the model call raises: the text is lost to the conversation.
TurnFails(t) ==
  /\ Events \cap {"call", "send"} # {}
  /\ turns[t].pc = "asking"
  /\ turns' = [turns EXCEPT ![t] = [NoTurn EXCEPT !.pc = "over"]]
  /\ UNCHANGED <<gateVars, fsm, talk, draft, cards, saved, heard, late, raced>>

CardOf(t) == IF turns[t].outcome = "ask" THEN {} ELSE {t}

\* The reply is in the chat: a question, or the draft with its buttons.
Answered(t) ==
  /\ turns[t].pc = "answering"
  /\ cards' = cards \cup CardOf(t)
  /\ turns' = [turns EXCEPT ![t].pc = "over"]
  /\ UNCHANGED <<gateVars, fsm, talk, draft, saved, heard, late, raced>>

\* The reply raises, whether or not it got through; what the turn stored stays.
AnswerFails(t) ==
  /\ "send" \in Events
  /\ turns[t].pc = "answering"
  /\ cards' = cards \/ cards' = cards \cup CardOf(t)
  /\ turns' = [turns EXCEPT ![t].pc = "over"]
  /\ UNCHANGED <<gateVars, fsm, talk, draft, saved, heard, late, raced>>

\* Mutant: only the state is cleared, not the data.
ConfirmKeepsDraft ==
  /\ Admit
  /\ cards # {}
  /\ draft # NoDraft
  /\ turns[draft].outcome = "ready"
  /\ saved' = [saved EXCEPT ![draft] = @ + 1]
  /\ fsm' = "none"
  /\ late' = late \cup InFlight
  /\ UNCHANGED <<talk, draft, heard, turns, cards, raced>>

\* The Confirm button of any draft in the chat saves the stored one.  With nothing stored,
\* or with a schedule that is not valid, nothing changes.
Confirm ==
  /\ Admit
  /\ cards # {}
  /\ draft # NoDraft
  /\ turns[draft].outcome = "ready"
  /\ saved' = [saved EXCEPT ![draft] = @ + 1]
  /\ fsm' = "none"
  /\ Emptied
  /\ UNCHANGED <<turns, cards, raced>>

\* The process starts again: dialogue, tasks and the memory of the gate are gone.
Restart ==
  /\ "crash" \in Events
  /\ GateRestart
  /\ fsm' = "none"
  /\ Emptied
  /\ turns' = [t \in Texts |-> IF turns[t].pc \in {"asking", "answering"}
                                 THEN [turns[t] EXCEPT !.pc = "over", !.talk = <<>>] ELSE turns[t]]
  /\ UNCHANGED <<cards, saved, raced>>

\* The list of searches, the Edit button, any other text: the owner is let in, and the
\* dialogue stays as it is.
Look == Admit /\ UNCHANGED dialogueVars

Next ==
  \/ GateNext /\ UNCHANGED dialogueVars
  \/ Look
  \/ Start \/ Leave \/ Confirm \/ Restart
  \/ \E t \in Texts : \/ Say(t) \/ TurnReturns(t) \/ TurnFails(t)
                      \/ Answered(t) \/ AnswerFails(t)

Spec == Init /\ [][Next]_vars

-----------------------------------------------------------------------------
(* Properties the code has. *)

\* The variables keep their shape, a task is only ever where the code can suspend it, and
\* behind every saved search there is the row of the user who owns it.
TypeOK ==
  /\ GateTypeOK
  /\ fsm \in {"none", "collecting"}
  /\ talk \in Seq(Texts)
  /\ draft \in Texts \cup {NoDraft}
  /\ turns \in [Texts -> [pc : {"none", "asking", "answering", "over"},
                          talk : Seq(Texts), outcome : Outcomes]]
  /\ cards \subseteq Texts
  /\ saved \in [Texts -> Nat]
  /\ heard \subseteq Texts
  /\ late \subseteq Texts
  /\ raced \subseteq Texts
  /\ (\E t \in Texts : saved[t] > 0) => userRow

\* A draft becomes at most one saved search, however often the Confirm buttons of the
\* drafts in the chat are tapped and whatever turns come back meanwhile.
SavedOnce == \A t \in Texts : saved[t] <= 1

\* A draft is on offer outside a dialogue only if its turn was in flight when a dialogue
\* ended: what is discarded or saved stays so unless a late turn brings it back.
StrayDraftsAreLate == draft # NoDraft /\ fsm = "none" => draft \in late

\* The conversation the next turn will see holds every text that was answered in this
\* dialogue, except of turns that were in flight together: one of those overwrites the
\* other's.  And it holds texts of an earlier dialogue only if a late turn put them there.
TalkIsWhatWasHeard ==
  /\ \A t \in heard : t \in Range(talk) \/ t \in raced
  /\ Range(talk) \subseteq heard \/ heard \cap late # {}
=============================================================================
