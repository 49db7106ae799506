# Formal models of events-curator

TLA+ modules that model the code under `src/src/events_curator` (paths below are
relative to it), TLC configurations that check them on small instances, and
TLAPS proofs of what matters most for every instance. `PROJECT.json` maps every
definition to the lines it translates.

## The system

A saved search is run by a pipeline: expand the search, search the web, merge
the lists, deduplicate against the corpus, store, rank by the taste learned for
that search. A Telegram bot with a single owner saves searches, runs them on
request or on a cron, delivers what is new, and learns from likes and dislikes.

| component | state | operations | correct when |
|---|---|---|---|
| assistant service (`apps/bot/service.py`, `schedule.py`) | none of its own; rows of the store | `save_search`, `delete_search`, `run_now`, `run_due`, `_run_scheduled`, `_deliver`, `record_feedback` | an item is delivered once; what is marked shown is seen; a due search is run, once per fire; a deleted search stays deleted |
| bot process (`apps/telegram/app.py`, `deliver.py`) | the scheduler task, the tasks it gathers, the chat | `_scheduler_loop`, `send_deliveries`, `run_bot` | the scheduler outlives a failed tick and a failed send |
| curation pipeline (`pipeline/orchestrator.py`) | the row it read, the results in hand | `run`, `record_feedback` | what it writes back is not stale |
| store (`storage/`) | saved queries, links, shown ledger, canonical results, provenance, feedback, profiles | one statement or two and a commit per method | both adapters agree |
| deduper (`dedup/`) | per run: canonicals in play, provenance, pairs held for the judge | `reconcile`, `merge_into`, `new_golden` | no sighting is lost; a filled field keeps its value; provenance tells where it came from |
| preference learner (`feedback/`) | log of labels, profile per search | `record`, `fold_feedback` | the profile is the fold of the log |
| dialogue (`apps/telegram/handlers.py`, `search_builder/`) | per chat: state, conversation, draft | message, confirm, edit, discard, menu | what is saved is what was shown, once |
| owner gate (`apps/telegram/middleware.py`, `auth/`) | the strangers already reported | `authorize`, middleware | only the owner is served; each stranger is reported once |
| headless server (`apps/server.py`) | the due searches it gathered, under one `now` | `run_forever`, `tick`, `_run_one` | what a search is owed is remembered over failures and restarts; every tick runs what is due; one failing search does not stop the others |
| expander, classifier, search engines (`expand/`, `search/`) | none | one network call each, and what becomes of the reply | some search is always made, none twice |
| merger (`merge/`) | none | `merge` | the order in which lists arrive decides nothing but ties |
| ranker (`rank/`) | none | `rank` | no reply of the model loses or repeats a result; the exploration slots go to the uncertain |
| matching (`dedup/_match.py`, `_best_match`, `nearest`) | none | what a candidate is compared with and becomes | a stored duplicate is found |
| model and embedding adapters, configuration, console, evaluation, rendering | - | - | see Not modelled |

How they interact. Either the bot or the headless server owns the schedule
(`docker-compose.yml` keeps them apart); both drive the pipeline over the same
SQLite file. The server is one loop that gathers a task per due search. The bot
is one asyncio process. The owner's updates
are concurrent tasks (one per message or button), the scheduler is one more
task, and it gathers a task per due search. All of them share one SQLite
connection whose methods never suspend, so a task is atomic between two awaits
on the network: classifier, expander, search, embedder, judge, ranker,
summarizer, Telegram. Every hard behaviour of the system comes from that: state
read before such an await and used after it, tasks that overtake each other,
exceptions and crashes between two commits, and tasks that `gather` leaves
running.

## Modules

### Assistant

The core: the assistant service, the pipeline cut at its awaits, the scheduler
loop, the chat and the parts of the store they share.

| variable | code |
|---|---|
| `rows[q]` | the row of `saved_queries`: there or not, domain cached or not, and the base of `is_due` (`last_run_at`, or `created_at` before the first run) |
| `saved` | ids ever saved (ids are uuid4, so none is saved twice) |
| `linked[q]`, `shown` | `query_results`, the owner's part of `shown_results` |
| `clock` | `now_utc`, in the unit of the cron fires |
| `runs[r]` | a task: where it is suspended, its search, the copy of the row it still has to write back (`base`), the instant of its tick (`moment`), and the items it ranks, delivers or sends |
| `loop`, `lane` | where `_scheduler_loop` is, and which group of tasks it gathers |
| `chat[i]` | how many messages with item `i` reached the chat |
| `raced` | history variable: items marked by one run while another was ranking them |

Tasks of manual runs are the slots `Manual`. Tasks of the scheduler are pairs of
a search and a lane: a tick uses a lane none of whose slots is busy, so tasks
that an earlier tick left behind live on in theirs. Each action is the stretch
between two suspensions: `EnterPipeline` and `Classified` (the cached domain),
`Curated` (search to ledger filter), `Ranked` (ranking to `mark_shown` and
`last_run_at`), `SendManual`/`SendBatch`, `RunDue`, `StartScheduled`, `Gathered`,
and the faults `CallFails`, `SendManualFails`, `SendBatchFails`, `Restart`.
`Events` says which of the disturbances (failed calls, failed sends, crashes,
deletions) an instance allows.

Abstractions. The canonical items a search finds are any set of items (web
search and deduplication decide); the ranker returns any of them, as many as the
two caps allow. A failed send may or may not have reached the chat. `enabled` is
never set by the code and is left out. A crash may fall between the two commits
of a scheduled run; no other stretch has two commits that a later action can
tell apart.

`MCAssistant` instantiates it; `AssistantProofs` holds the proofs.

### Feedback

The preference learner: every tap on a like or dislike button is a task.

| variable | code |
|---|---|
| `live` | searches that are still there (`record` refuses the others) |
| `log` | the `feedback` table |
| `profile[q]` | the `preferences` row: which labels stand behind the liked centroid, the disliked centroid and the summary |
| `taps[l]`, `copy[l]` | where the task of a label is suspended, and the profile it read before |
| `overtaken` | history variable: labels written while another tap on the search was learning |

A centroid is an exact running mean with its count, so it is given by the set of
labels folded into it; the arithmetic of the mean is left out. `Tap` is the
stretch up to the first await, `Learned` the rest; the two awaits in between
(embedder and summarizer) touch no state and are one.

### Dedup

The deduper: reconciles of several runs share the corpus.

| variable | code |
|---|---|
| `corpus[c]` | `canonical_results` and `provenance`: the sources of a canonical, where each part of it came from, and what provenance says of each field |
| `pc[r]`, `todo[r]` | where a reconcile is, and the candidates it has not triaged |
| `held[r]` | the pairs held back for the judge, in order |
| `byId[r]` | `RunState.by_id` and `RunState.provenance` of the run |
| `exposed` | history variable: sightings merged while another run held a copy of the canonical |

A canonical is named by the sighting it was created from and a value by the
sighting it came from, so survivorship and provenance are sets and functions of
sightings. `Parts` are what survives one by one (scalar fields, parts of `geo`,
attribute keys), `Group` the field that provenance lists them under. How similar
two results are is left open: a triaged sighting may be inserted, merged into, or
held for any stored canonical. Pass 1 and the application of the verdicts hold
the event loop (`LoopIsFree`), but each upsert is committed on its own, so a
crash may fall between any two. The seen-at window is left out.

### Server and Schedule

`Schedule` is the abstract promise of a scheduler: `base[q]`, from which a search
is due (`last_run_at`, or `created_at`), moves only forward, only while the
search is due, and to a moment that is past. `Server` is the headless process
that implements it (`KeepsSchedule`, with `base <- rows[q].base`).

| variable of `Server` | code |
|---|---|
| `rows[q]` | the row: base, and whether the domain is cached |
| `clock`, `moment` | `now_utc`, and the `now` of the current tick |
| `tasks[q]` | `_run_one` of a search: in the classifier (with the copy of the row it will write back), in the rest of the pipeline, or over |
| `loop` | `run_forever`: asleep, in `gather`, or ended by an exception |
| `missed[q]` | history variable: the fires up to now that are later than the last finished run, by the documents' reading: a run counts for the fires up to and including the `now` of its tick |

Actions: `Tick`, `Classified`, `RunReturns`, `RunFails` (caught by the task),
`StoreFails` (the reads and writes after a run are outside its `try`), `Gathered`,
`Crash`, `Revive`, `Pass`. The row is read for the pipeline when the tick starts
its task; nothing is awaited between. A store that fails inside the pipeline is
a run that fails.

### Gate and Dialogue

`Gate` is the middleware and `authorize`; `Dialogue` extends it with the
conversation, one task per text, so that every action of the owner passes the
gate and a restart empties the memory of both.

| variable | code |
|---|---|
| `userRow` | the owner's row of `users` |
| `notified` | `AuthMiddleware._notified` |
| `telling[s]`, `told[s]` | notifications about a stranger that are being sent, that reached the owner |
| `lives`, `knocks`, `unsent` | how often the process was started, updates of each stranger, history of failed sends |
| `fsm`, `talk`, `draft` | the state of the dialogue, the stored conversation and draft (`FSMContext`, in memory) |
| `turns[t]` | the task of a text: in the model, with the conversation it copied; in the reply; or over |
| `cards` | the drafts whose message, with its buttons, is in the chat |
| `saved[t]` | the saved searches made of the draft of a text |
| `heard`, `late`, `raced` | history: turns that returned in this dialogue, were in flight when a dialogue ended, were in flight together |

`Say` to `TurnReturns` to `Answered` are the three stretches of `on_dialogue`;
`TurnFails` and `AnswerFails` the exceptions at its awaits; `Start`, `Leave`
(`/start`, `/menu`, Discard) and `Confirm` the commands and buttons, `Look` the
handlers that only let the owner in (the list, Edit, any other text). The buttons
of every draft stay tappable, and all of them act on the one stored draft.
Replies are kept as the texts they answer: the assistant's half of a conversation
goes with the owner's.

### Harvest, Ranking, Stores, Curation

What one run hands from stage to stage. `Lists` has the few things of Python's
lists the code uses (stable `sorted`, slices with negative ends, `dict.fromkeys`,
comprehensions with a condition). Each drops elements or puts them in another
order, so each is defined by the place an element comes to stand at: the number of
those that go before it. That needs no recursion, so it can be reasoned about for
lists of any length; `MCCuration!ListsAgree` has TLC compare it with the usual
recursive definitions (`SelectSeq`, `FlattenSeq`, folds) on all short lists.

| module | code |
|---|---|
| `Harvest` | `parse_queries` and the fallback (`ParseQueries`, `Expand`), `parse_submission` and `canonicalize_url` (`Rows`, `Search`, `SearchRaises`), reciprocal rank fusion (`Scores`, `Merge`) |
| `Ranking` | `rank`: `ByTaste`, `TasteHead`, the repair of the model's reply (`Repair`), `Explorers`, `Rank`; the cap of `_deliver` (`Deliver`) |
| `Stores` | both adapters: `MemUpsert`/`SqlUpsert`, `MemDelete`/`SqlDelete`, `MemLink`/`SqlLink`, `MarkShown`, `ResultsOf`, `Unseen`, the date blocks `MemBlock`/`SqlBlock` and where memory has none (`MemRaises`) |
| `Curation` | the state machine: `Begin`, `Classified`, `Expanded`, `Searched`, `Reconciled` (fusion to ledger filter), `Ranked` and `Finish` (ranking to `mark_shown` and the row), `Sent`, with `CallFails` and `DeleteSearch` anywhere |

A date is a record: `aware` says whether it has a zone; `hour` is the instant of an
aware date and what the wall clock says for a naive one. `Stamp` is `timestamp()`,
which reads a naive date in the host's zone, so that two naive dates may be farther
apart, or nearer, than they say if the clocks change in between. Two naive dates, or two
aware ones, are equal and are subtracted by their hours; a naive and an aware one are
never equal and cannot be subtracted.

A text, link or url is a member of a small set, the order in which a model
replies any of a chosen set of sequences. Scores are exact: the unit is `1 /
Scale`, a common multiple of all denominators, where the code adds floats (two
sums that differ by rounding only are a tie here). Which sighting of a url
represents it is left out. The order of `batch` is what `ranked` is. The deduper
maps each fused url to any item, several to the same one; `Dedup` says what
happens to the corpus. Runs here come one after another; overlapping runs are
`Assistant`.

### Matching and Adapters

`Matching` is what decides, for a candidate, among the outcomes `Dedup` leaves
open: the nearest stored results of the block by cosine (`Nearest`, where equals
may come in any order), the tiers (`Tier`) and the best of them (`BestMatch`). A
candidate is given by its date, city and venue and its similarities to the stored
results; cities and venues are the trimmed, case-folded names. `Adapters` sends every call of the application
to both adapters and compares what may be read back; over every corpus so
reached it asks `DuplicatesAreFound`.

### Composition

`Dialogue` extends `Gate`, `Curation` extends `Ranking` (which extends `Harvest`)
and `Stores`, `Adapters` extends `Matching` (which extends `Stores`), and `Server`
instantiates `Schedule`. `Assistant`, `Feedback` and `Dedup` do not compose by
`INSTANCE`: they write none of each other's tables (`Feedback` only sees which
searches are there). `Assistant` takes any set of items as what a run finds and
any of them, as many as `Limit` allows, as what it delivers. That this covers what
`Curation` computes is a theorem (`DeliversWhatAssistantPicks`), for caps that are
not negative and no more exploration slots than places. With more slots than
places the code delivers more than `top_n`, which only `Curation` has.

## Runs

| run | module | shows |
|---|---|---|
| `overlap` | `Assistant` | two searches, a manual run and ticks whose tasks may live on into the next, every disturbance: `TypeOK`; `SentIsLedgered` and `RepeatsAreRaces` (a repeat needs two runs ranking at once); `BuriedStaysBuried` (a deleted search at rest stays away); `ScheduleRegressesOnlyByRace` (a base moves back only through a stale copy or an abandoned task) |
| `calm` | `Assistant` | no faults, fairness: `LedgerIsWhatWasSeen`, `DueIsServed`, `ClaimedIsSeen` |
| `repeat` | `Assistant` | violation: two overlapping manual runs deliver an item twice |
| `dead` | `Assistant` | violation: a failed send ends the scheduler for good |
| `taps` | `Feedback` | four taps on two searches, with failures, crashes and deletions: `LearnedFromItsLog` (nothing is learned that was not logged, and under the right sign), `SignalsAgree`, `ForgottenWereOvertaken` (a learned label is forgotten only if another tap was learning meanwhile) |
| `reconcile` | `Dedup` | three reconciles of five sightings, judge failures and crashes: `ProvenanceNeverLies`, `LandsOnce`, `LostWereExposed` and `FilledStaysFilled` (what is lost or overwritten was merged under another run's copy) |
| `headless` | `Server` | one search that may fail for ever, store errors, crashes: `OwedIsRemembered` (the stored base tells which fires the documents call owed, whatever failed), `KeepsSchedule` (the refinement), `SteadyIsServed` (a search whose runs succeed is served, whatever the others do) |
| `onthefire` | `Server` | violation: a tick at the very instant of a fire leaves idle a search that the documents call due |
| `frontdoor` | `Dialogue` | three texts, a stranger, failures and a restart: `ToldOncePerLife`, `SilenceIsAFailedSend`, `SavedOnce`, `StrayDraftsAreLate`, `TalkIsWhatWasHeard` |
| `curation` | `Curation` | runs in turn over whatever the models reply: `FusionIgnoresArrival`, `ReplyLosesNothing`, `ExplorersAreUncertain`, `PassedOverOnlyForNew` (a run that ranks delivers something new) |
| `explorers` | `Curation` | violation: with a cap below the head's size no explorer is ever delivered |
| `adapters` | `Adapters` | every call on both adapters: `RunsReadAlike`, `BlocksAlike` (where memory does not raise, the blocks differ by rounding and zone only), `DuplicatesAreFound` |

Each machine has one type invariant, checked in its widest run.

The violation runs are findings: what a document claims and the code lacks. One needs
a word more. In `onthefire`, a search is due when its last fire "at-or-before now" is
later than its last run (`docs/telegram.md:39-40`, `apps/bot/schedule.py:6-7`,
`tests/test_bot_schedule.py:3-4`); croniter's `get_prev` returns the last fire strictly
before now. So a tick at the very instant of a fire does not run the search for it. The
next tick does, unless that tick ran the search for an earlier fire: the base is then the
fire itself, and no tick ever finds the search due on its account. `OwedIsRemembered`
does not contradict this: it says that the base remembers what the documents call owed
(for them that run counts for the fire), and nothing about which ticks notice.

Divergences that the models show and that have no run of their own:

- Of two taps on one search that overlap at the embedder or the summarizer, the second
  upserts a profile folded from the copy it read before the first, and discards the
  first's label for good (`feedback/__init__.py:86,98`); a failed call leaves its own
  label out the same way. The
  documents have both signals "updated together whenever feedback arrives"
  (`docs/preferences.md:19`). `ForgottenWereOvertaken` says that nothing else forgets a
  learned label.
- A model replies dates with a zone or without, and nothing normalizes them
  (`search/frontier.py:57-59,147`). The in-memory store subtracts a stored date from a
  candidate's (`storage/memory.py:48`), which raises `TypeError` if one is naive and the
  other aware, and the reconcile fails (`MemRaises`); SQLite compares timestamps
  (`storage/sqlite.py:115,164`) and answers, while `docs/storage.md:15-16` has the two
  "behave identically".
- A search deleted during its first run comes back, without links, when the
  classifier's answer is written back (`pipeline/orchestrator.py:107`), while
  `docs/storage.md:46` has `delete` remove it. `BuriedStaysBuried` says that
  nothing else brings it back.
- A search deleted during a manual run fails the assertion at
  `apps/bot/service.py:125`; the run is lost.
- `gather` re-raises the first failure of a tick: batches that its siblings
  already marked as shown are dropped and never surface again, against
  `docs/telegram.md:53-54`. `LedgerIsWhatWasSeen` and `ClaimedIsSeen` therefore
  hold without faults only.
- A run writes its copy of a canonical over sightings another run merged
  meanwhile, and two runs that insert the same item make twins
  (`docs/storage.md:23` has one canonical per item). `LostWereExposed` bounds the
  first.
- A run that merges into a canonical replaces the provenance of earlier runs by
  its own. `ProvenanceNeverLies` says that what is left is true, not complete.
- Confirm under one draft saves the draft that is stored, which may be one whose
  message never reached the chat.
- The merger's docstring has parallel searches "merge in any order without
  changing the result": true of urls and scores (`FusionIgnoresArrival`), not of
  the order of ties. A url that stands twice in one list counts twice.
- One link whose port or brackets cannot be read fails the whole run
  (`SearchRaises`), while invalid rows are skipped.
- Where memory does answer, the two still differ by what `RunsReadAlike` and
  `BlocksAlike` except: repeated links in memory, links kept after a delete, a block in
  whole days rounded down and, for naive dates, in the hours they say rather than in
  their timestamps. The order of rows after an upsert differs too.
- A `max_results_shown` of zero, which the dialogue's model may reply, delivers
  nothing ever; a negative one slices from the end.

### Bounds

`Assistant`: a manual and two scheduled tasks let each race with a scheduled and
a manual opponent, and two lanes let the tasks of one tick meet the next. One
search fires once and the other twice, over three instants, so that a fire can be
missed, caught up and served again. `overlap` has one item, since every property
there speaks of one item or one search at a time; `calm` has two items and a cap
of 1 for one search and 2 for the other, so that a cap leaves items behind.

`Feedback`: three labels of one search, likes and dislikes, let one tap be
overtaken twice, and one label of another search shows that nothing crosses.

`Dedup`: two sightings in each of two runs let one be held for a canonical that
the other created or merged into, a third run with one sighting overtakes both;
one scalar field and one field of two parts tell provenance that fills a gap from
provenance that claims.

`Server`: two searches fire together, then at different instants, so that a fire
is owed while a run of the same search is under way; four instants leave room for
a tick after every fire; two faults can hit a run and its repetition.

`Dialogue`: three texts let a turn be overtaken by one while a third is late from
the dialogue before; two updates of a stranger in two lives let the second come
while the notification is being sent, after it failed, and after a restart.

`Curation`: three links of two pages beyond one page each, a blank and a link that
cannot be split; lists of two places; up to two lists; three items; replies that
are whole, partial, repeating, out of range and unreadable; every order of two
likings and an aversion, and no taste at all; settings with an explorer inside
the cap, beyond it, with more slots than places, and with neither.

`Adapters`: three results, one with an aware date, one with a naive date and one
without; candidates' dates of both sorts in the window, beyond it by less than a day and
farther away, with the clocks of the host going forward between two of the naive ones;
calls of up to three ids; a block limit of two, so that a result can be hidden.

Beyond these, nothing is bounded but clocks, slots and ids. Deadlock is not
checked where the owner may stop, or where a bounded clock or a bounded set of
tasks runs out; `adapters`, which never stops, checks it.

### Fairness

`Assistant!FairSpec`: weak fairness of each task's next step and of the loop.
Network clients have timeouts, so every await returns or raises; the event loop
is first-in first-out, so a task that can step does; `asyncio.sleep` ends.
Nothing is assumed of the owner, of the clock or of faults.

`Server!FairSpec`: weak fairness of the tick, of the gather and of each run's next
step, for the same reasons (a flaky run may take the failing branch for ever), and
of `Revive`: the container restarts the process when it ends
(`restart: unless-stopped`, `docker-compose.yml:23`). Crashes and store errors are
bounded by `MaxFaults`, which stands for their stopping in the end.

## Proofs

For every set of searches, items, slots and lanes, every cron, cap and set of
disturbances, from the assumption `AssistantAssumption` alone (only the last one
asks for more):

- `TypeCorrect`: `Spec => []TypeOK`. Its invariant adds that a busy task has a
  search.
- `SentIsAlwaysLedgered`, `RepeatsAreAlwaysRaces`. Neither is inductive: a repeat
  is prepared when the second run reads the ledger, long before it is sent. The
  invariant `DeliveryInv` follows an item from the candidates of a ranking run
  (those already in the ledger are raced) to a batch (held by one run at most
  and not sent yet, unless raced) to the chat.
- `SerialRankingNeverRepeats`: if no two runs ever rank at once, no item is ever
  delivered twice. It is the documented guarantee under the condition the code
  does not establish, and says that a lock around the ranking would be enough.
- `ScheduleRegressesOnlyByRaceAlways`. The invariant `ScheduleInv` says that an
  awaited task carries the latest instant anything on its search can write: all
  bases and moments in flight are at most its own, because they were read off
  the clock at its tick or earlier and a tick begins only when the loop has
  given up the tasks before it.
- `BuriedAlwaysStaysBuried`: a step argument over the same invariant.
- `LedgerIsSeenWhenCalm`: with `Events = {}`, the ledger is what was seen, as the
  documents have it. `CalmInv` follows a marked item on its way to the chat: it is in
  a batch that will be sent, because every scheduled task is one the loop still
  awaits and the search of every task is there. Each of the four disturbances breaks
  one of these.

`FeedbackProofs`, from `FeedbackAssumption` alone, for any labels on any searches:

- `FeedbackTypeCorrect`, `AlwaysLearnedFromItsLog`, `SignalsAlwaysAgree`: the
  profile and the copies tasks hold satisfy one condition (`Sound`) with respect
  to the log, which a fold keeps and a longer log does not weaken.
- `ForgottenWereAlwaysOvertaken`: a learned label that was not overtaken is in the
  profile and in the copy of every tap learning on its search (`KeptInv`); `TapsInTurnForgetNothing` is its corollary for taps that
  never overlap, again the documented guarantee under a condition.

`DedupProofs`, from `DedupAssumption` alone, for any runs, sightings and fields:

- `DedupTypeCorrect`, with the mutual exclusion of the stretches that write.
- `DedupInvariant`, the inductive invariant `IInv`, and from it
  `ProvenanceAlwaysTrue`, `SightingsLandOnce`, `LostWereAlwaysExposed` and the
  action property `FilledPartsStayFilled`. Every write merges a sighting into a
  *view* of a canonical: the stored record or a run's copy. The invariant says
  what all views of a canonical have in common: they are truthful, they contain
  the sighting the canonical was made from, a sighting is in the views of one
  canonical only, and two views differ by exposed sightings only (`Agree`). One
  lemma (`Write...`) shows each part for every write, whichever step makes it.
- `RunsApartLoseNothing`: while no sighting is merged under another run's copy,
  every sighting of a finished run is referenced.

`ServerProofs`, from `ServerAssumption` alone, for any searches, crons, bounds and
failures:

- `ServerTypeCorrect`; `OwedIsAlwaysRemembered`. `OwedIsRemembered` is not inductive: a copy of a
  row is written back, and a base set to the moment of the tick, long after both
  were read. `ScheduleInv` adds that a copy in flight still says what the row
  says, that the search of a run in flight is due at the moment of its tick, and
  that bases and moments are past.
- `ServerImplementsSchedule`: `Spec => Promise!Spec`. `InitRefines` maps the first
  states; `StepRefines` maps `RunReturns` to `Serve` with the moment of the tick,
  `Pass` to `Pass` and every other action to a stutter.

`DialogueProofs`, from `GateAssumption` and `DialogueAssumption`, for any texts,
strangers and disturbances:

- `DialogueTypeCorrect`.
- `AlwaysToldOncePerLife`, `SilenceIsAlwaysAFailedSend`: a stranger who is not
  remembered has one notification left in this life (`ToldInv`). The dialogue
  touches the gate only as `OnlyGateSteps` says.
- `AlwaysSavedOnce`: a stored draft has not been saved, and a turn stores one only
  when it returns, which it does once (`SavedInv`).
- `StrayDraftsAreAlwaysLate`: outside a dialogue every turn in flight is late.
- `TalkIsAlwaysWhatWasHeard`: what holds of the stored conversation holds of the
  copy of every turn in flight, since a copy was the stored one when its turn
  began; a text heard since then is raced, and a copy from before the dialogue is
  late (`TalkInv`). `TurnsInTurnForgetNothing` is the corollary for an owner who
  waits for each answer.

`CurationProofs`, from the assumptions of `Harvest`, `Ranking`, `Stores` and
`Curation`, for any links, texts, replies, lists, tastes and settings:

- `TypeCorrect`. The inductive invariant `IInv` adds to `TypeOK` that a run in hand
  has a search that was saved, lists of urls, and unseen results none of which was
  shown (`RunInHand`), and that its order has the two properties below.
- `FusionIsFair`. Both orders of arrival fuse the same set of urls, without
  repetition and in descending order of the same scores, since a score is the
  number of units that all sightings of a url bring and a permutation of the lists
  is a bijection of the units (`Units`). Two descending arrangements of one set
  have the same key at every place: `DescendingAtMost`, used both ways.
- `NothingIsLost`, `ExplorersAreLeastSure`: `Repair` yields every place of the head
  once whatever the model replies, so the reordered head is a rearrangement; what
  `FirstOf` cuts off its end is as many as the explorers, or all of it. The
  explorers are exactly as many as the slots, or all of the rest.
- `DeliversWhatAssistantPicks`: from these counts, what a ranked run delivers is,
  for any reply, one of the sets `Assistant` chooses from (`DeliveredFills`). So
  what is proved of `Assistant`, whose runs overlap, holds of the batches that
  `Curation` computes in turn.
- `OnlyNewIsDelivered`: the action property, from the freshness in `RunInHand`. Its
  proof showed a case the property had left out: with `top_n` and
  `exploration_slots` both zero, which the configuration accepts
  (`config.py:87-88`), a run with unseen results delivers nothing. The property
  now names that case and `MCSettings` has it.

`AdaptersProofs`, from the assumptions of `Stores`, `Matching` and `Adapters`, for
any searches, results, dates, cities and similarities, and any calls:

- `TypeCorrect`, `AdaptersReadAlike`. The inductive invariant `IInv` keeps the two
  stores' corpora, deliveries and listed searches equal, and the links of each
  search alike (`LinkedAlike`): the table has what is left of memory's list without
  its repetitions, in the same order, unless the search was deleted, and never
  anything that memory lacks. Linking preserves it because it makes no difference
  whether an id is compared with earlier calls only and repetitions dropped later,
  or with everything at once (`LinkingAlike`); reading preserves it because it makes
  no difference whether repetitions go before or after what is not asked for
  (`DistinctKeep`).
- `AdaptersBlockAlike`: equal corpora and `WholeDays`, which says what rounding
  hours down to days, and a zone that shifts, do to a window on either side of a date.
  It supposes that memory does not raise (`MemRaises`).
  `AwareBlockAlike` is its corollary for aware dates, between which nothing shifts: the
  rounding is then all.
- `StoredIsFound`: whatever is stored. If a result is missing from the nearest,
  they fill the limit (`LimitIsReached`), and all of them are at least as near.

`StoresProofs` has the lemmas both cite: what the operators of `Lists` return, keep
and bound, and what each call leaves in a store. Those about lists all come from one
fact, `ArrangeProperties`: a strict total order of a finite set puts its elements in
a sequence, each once (the place of an element is one more than the number of its
predecessors, which is injective and so onto). `Keep`, `Distinct`, `StableSort` and
`Flatten` are such arrangements of positions (`AtIsClimb`, `SortIsSorting`,
`FlattenIsReading`), and `SameOrder` says that two repetition-free sequences with the
same elements in the same order are equal.

Only model-checked: the liveness properties (`DueIsServed`, `ClaimedIsSeen`,
`SteadyIsServed`), which are out of the prover's reach, and that the definitions of
`Lists` agree with the recursive ones, which is an induction over the data. Every
invariant and every action property of a passing run is a theorem.

## Plan

Done: the machines above and their proofs. What could follow:

1. `Ledger`: an abstract at-most-once delivery that `Assistant` implements when
   rankings do not overlap, as a refinement (`SerialRankingNeverRepeats` is its
   safety part).
2. The console and the bot as two processes on one database: `Dedup` with commits
   that interleave anywhere.
3. A change of the embedder over an existing database.

## Not modelled

- The attribute catalog (`search/attributes.py`): a constant table of domains and
  their instructions; it decides wording only.
- The adapters of language models and embedders (`llm/`, `embed/`): a call that
  answers or raises is all the modules need of them. Vectors and similarity
  scores are inputs.
- Data classes, configuration and wiring (`models/`, `config.py`,
  `pipeline/builder.py`): no state of their own; the settings that matter are
  constants of the modules.
- The Streamlit console: a separate single-user process whose searches have no
  schedule; it drives the same pipeline without the ledger and renders what it
  reads.
- The evaluation harness: offline arithmetic on floats over fixtures.
- Rendering and keyboards: formatting. That the buttons of a draft stay in the
  chat is in `Dialogue`.
- Within the modelled parts: prompts and rationales, signatures, the arithmetic
  of centroids and cosines, the seen-at times of canonical results, and the
  `enabled` flag (never set).
