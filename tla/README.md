# Order-agent, specified

Order-agent takes restaurant orders in conversation. A FastAPI backend
(`src/backend/app`) receives text or speech, keeps a draft order per conversation,
confirms it into a database, and hands the conversation to a (simulated) human when
a safety policy says so. This directory specifies in TLA+ the parts of that backend
where steps of several actors meet, model-checks them with TLC on small instances,
and proves with TLAPS, for every value of the constants, what matters most.

Paths without a prefix are below `src/backend/app/`.

## 1. The system

| Component | Keeps | Operations | Talks to |
|---|---|---|---|
| Turn coordinator `services/text_entry_service.py` | per-session `asyncio.Lock`s | one chat turn: safety preflight, orchestration, postflight audit, handoff, confirmation, save | all of the below |
| Session store `state/session_store.py`, `repositories/session_repository.py` | `conversation_sessions` rows (version, status, `state_json`) | get or create, optimistic save, reset | turn, handoff service |
| Order persistence `services/order_persistence_service.py` | `orders`, `order_confirmations`, `idempotency_records` | `confirm_order`, `invalidate_confirmation` | session row, menu, delivery zones |
| Order lifecycle `services/order_lifecycle_service.py` | - | a table of status transitions | order persistence |
| Handoff service `services/handoff_service.py` | `handoff_cases` and their events | request, simulated assign / connect / resolve / fail, cancel | order and session rows |
| Safety policy `services/safety_decision_service.py` | - | signals, counters and confidence to REFUSE, HANDOFF, CONFIRM or AUTO_DRAFT | audit |
| Safety audit `services/safety_audit_service.py` | `safety_session_counters`, `safety_decisions` | advance the counters, evaluate, record | turn, REST |
| Signal detector `services/safety_signal_detector.py` | - | text to signals | turn |
| REST controls `api/safety.py`, `api/chat.py` | - | POST /handoffs, the simulation controls, /reset | handoff service, session store |
| Orchestrator and agents `agents/` | `SessionState` in memory | route a message, edit the draft, ask, repair, submit | turn |
| Order arithmetic `services/order_service.py` | the draft's lines | add, remove, modify, totals | agents |
| Menus `services/menu_management_service.py`, `repositories/menu_repository.py` | menu versions, the branch's current one | draft, publish, archive | seeds, confirmation |
| Languages `i18n/` | - | detect, parse, translate, render | turn |
| LLM fallback `services/llm_*.py` | - | off by default; propose a structured intent | orchestrator |
| TTS runner `voice/tts/runner.py` | a queue, a worker thread, job records | enqueue, stop, status, shutdown | voice gateway, provider |
| Voice gateway `agents/voice_gateway_agent.py`, `voice/session.py` | voice sessions, processed utterances | events, stop, status | turn, TTS runner |
| Frontend `src/frontend` | React state | push-to-talk, typed chat | the API |

How they interact: a chat message enters `TextEntryService`, which reads the session
row once, keeps the `SessionState` in memory and works through several *units of
work* (database transactions): the safety audit, the handoff request (two of them),
the confirmation, the save. Between any two of them another process, a REST client,
/reset or a crash may come. The session row is protected by an optimistic version;
orders, confirmations and handoff cases are separate rows that five operations write,
each a different subset. Voice adds threads: the TTS worker and the event loop share
the runner's fields under a lock that some steps do not hold.

What is hard here, and the property each part owes, is the list `hazards` of
PROJECT.json. In short:

- confirmation is at most once, whichever way it is retried, and its answer is true;
- order, confirmation and handoff case tell the same story after every commit;
- a session under a safety guard confirms nothing, even from a turn already under way;
- a hold is lifted only by the one operation meant to lift it;
- draft versions only grow and name one content: idempotency keys are made of them;
- a handoff case follows its lifecycle whoever moves it, and ends once;
- the speech queue recovers from any interleaving with `stop()`;
- an utterance is processed once, and a failed one may be repeated.

## 2. The modules

| Module | What it is |
|---|---|
| `SafetyPolicy` | `SafetyDecisionService.evaluate` and the counter update, as operators |
| `HandoffLifecycle` | the states of a case and `ALLOWED_TRANSITIONS` |
| `HandoffCase` | the abstract specification: one case, opened and cancelled under its lock, else moved by transitions that were allowed when they were validated |
| `OrderDesk` | one conversation's rows: the chat turns, the REST controls, failures, /reset |
| `SessionLocks` | the lock table a turn is serialised by, and `asyncio.Lock` |
| `VoiceGateway` | sockets, voice sessions and speech callbacks; extends `SessionLocks` |
| `TTSRunner` | `voice/tts/runner.py`: the event loop's thread, the worker's, the queue between them |
| `VoiceControls` | the push-to-talk panel of the frontend |
| `SemanticRouter` | one utterance to one intent: the rules of `agents/semantic_router.py` in their order |
| `OrderLines` | `services/order_service.py`: what adding, removing and replacing do to the lines |
| `Dialogue` | the orchestrator and its agents over a conversation; uses `OrderLines` |
| `LLMFallback` | when an LLM is asked and what its answer may do |
| `MenuVersions` | publication of menus, statement by statement, and a confirmation that prices from them |
| `MCOrderDesk`, `MCSessionLocks`, `MCVoiceGateway`, `MCMenuVersions`, `MCDialogue` | values of constants and symmetry for TLC |
| `OrderDeskProofs` | proofs: the typing invariant, the safety invariants, hold lifting, the refinement of `HandoffCase`, what a turn may rely on while it holds the session in memory, and what besides depends on turns being serialised |
| `TTSRunnerProofs` | proofs: the runner's inductive invariant, its safety properties |
| `VoiceGatewayProofs` | proofs: first about `SessionLocks`, mutual exclusion and order of turns and the bounded table; then the voice path's invariant, that it implements `SessionLocks`, its safety properties |
| `VoiceControlsProofs` | proofs: the panel's microphones, audio and sockets |
| `DialogueProofs` | proofs: what undo, yes and a submission may do in a conversation of any length |
| `MenuVersionsProofs` | proofs: one published menu, authoritative prices |
| `LLMFallbackProofs` | proofs: the limits of an LLM's answer |
| `SemanticRouterProofs` | proofs: talk changes nothing, places are no dishes, each dish follows its own word, for utterances of any length |

How they fit together. A message reaches `Dialogue` through `SemanticRouter` (and
`LLMFallback`), which decides what becomes of the draft in memory; `OrderDesk` takes
that outcome as a choice and follows it through the database. `OrderDesk` with one
worker is a process whose turns `SessionLocks` serialises; with two it is two processes.
`VoiceGateway` brings messages by speech and queues replies for `TTSRunner`, whose worker
it keeps as three steps. `MenuVersions` is behind one of the reasons for which
`OrderDesk`'s `ConfirmRejected` may occur.

### OrderDesk

State, and the code it stands for:

| Variable | Code |
|---|---|
| `session` | the `conversation_sessions` row: `version`, `status = 'closed'`, `state_json` (draft version, content, submitted, handoff case, safety reason) |
| `counters` | `safety_session_counters` |
| `orders` | `orders` rows, oldest first: status, draft version, content, `safety_hold` and its reason |
| `confirmed`, `invalidated` | `order_confirmations` rows, and those with `invalidated_at` set |
| `idempotency` | `idempotency_records` of confirmations |
| `cases` | `handoff_cases` rows: status, reason, order; `overwritten`, which their `handoff_events` tell: a status was written over one that does not allow it |
| `turn` | per worker, the turn it runs: its step, message, in-memory `SessionState`, the version it was read at |
| `request` | per REST client, its POST /handoffs call or the simulation control it is in |
| `told` | history only, per order taking: the order the customer was last told is confirmed (`order`, a replay included) and the order last placed (`placed`) |

A turn is `ReceiveMessage`; one preflight action (`AnswerBeforePreflight`,
`PreflightPass`, `PreflightGuard`, `PreflightCancel`, `PreflightCancelAgain`); one
orchestration outcome with its audit (`EditDraft`, `SubmitDraft`, `StartNewOrder`,
`AnswerOnly`, `Misunderstand`, `UnparsedMessage`); when the policy hands off,
`TurnRequestsHandoff` and the steps of `TurnSettlesHandoff`; then `SaveTurn`, or for a submission
`ConfirmOrder`, `ConfirmReplay` or `ConfirmRejected`. `TurnFails` may end it anywhere:
an exception rolls back the unit of work it is in and keeps the earlier ones, as the
death of the process does. The REST side is `RestEvaluates`, `RestRequestsHandoff`,
`RestSettlesHandoff`, `RestFails`, the two steps `RestReadsCase` and `RestWritesCase` of
simulate-assign, -connect, -fail and -resolve, and `RestCancel`; `Reset` is POST /reset and
`InvalidateConfirmation` the administrative withdrawal.

A unit of work is one action when it locks the rows it decides on, or checks their version:
the confirmation, the request for a handoff, its cancellation, a save. The transitions of a
case other than the cancellation do neither. `_provider_transition`, `resolve`, the second
unit of work of `request_handoff` and `_mark_summary_failure` read the case with
`_get_scoped` and no `for_update`, validate the transition on what they read, and write the
status by primary key; the row has no version column. PostgreSQL at READ COMMITTED commits
what others do in between, so each of them is two steps here: the read (`RestReadsCase`,
`SettleRequest`) and the write (`WriteStatus`), which overwrites whatever the case has become.
Only `uq_handoff_cases_active_session` may refuse it. A cancellation in between is lost: the
case is active again although its hold was lifted, or is closed a second time.

What is abstracted, and why nothing checked depends on it:

- The locks and version checks named above are taken as they are on PostgreSQL. SQLite ignores
  `with_for_update`, so there the locked units of work could interleave statement by
  statement too; that is the plan's `ConfirmRace`.
- Within one action, though the code reads them without a lock: the latest order in a request
  for a handoff (`services/handoff_service.py:448`), the answer of `_active_after_race`, and
  the order that a resolution changes, read and written in the same step as the status.
- One worker means the turns of the session are serialised, as the per-session lock
  makes them; two workers overlap freely, which is what two processes do, and what two
  turns do should the lock table lose a lock.
- A message is an edit of the draft to a given content, a confirmation with or without
  an idempotency key, a request for a new order, "cancel handoff", something ambiguous,
  something unclear, or one safety signal. Which text is which is the router's business.
- Content of the draft is a model value; everything that must be complete for a
  submission (items, address, phone) is one bit, "not empty". Prices, zones and menus
  enter only as reasons for `ConfirmRejected`.
- A message carries at most one signal of the detector; risk ids and explanation codes
  are left out. Confidences are "missing", "low" or "enough". POST /safety/evaluate,
  which only advances the counters, is not an action.
- The refresh of the in-memory handoff status after a turn and the audit before it are
  one step: both read and write only what belongs to the turn.
- `taking` (how often "start a new order" was said) is history; no guard of the code's
  reads it, except the bound.

### TTSRunner

State: `loop` (the step of the call the event loop is in and the job it enqueues), `worker`
(the step of the worker's thread, its job, its success), `queue` and `unfinished` (the
`queue.Queue`), and the runner's fields by their names: `nextJob`, `generation`, `current`,
`interrupted`, `speaking`, `runStarted` (the age of `_last_run_and_wait_started_monotonic`),
`history` (the status recorded per job), `shut`. `succeeded` and `stopped` are history.

`enqueue` is `Admit`, `Put`, `Record`: the id is given under the lock, the put is not under it,
the record is written afterwards. `stop` is `StopBegin`, `StopDrain` per job and
`StopRelease` under one hold of the lock (the worker can take from the queue but not touch
the fields), then `StopProvider` without. `shutdown` is `Shutdown`. The worker's loop is
`Poll`, `GetTimesOut`, `Dequeue`, `MarkStarted`, `RunAndWaitStarted`, `Spoken`, `Finish`,
`TaskDone`; `TimePasses` makes a speech overdue.

The three calls never overlap each other: only `async` handlers make them, on one event
loop, and none awaits inside (`api/voice.py`, `voice/runtime.py`,
`agents/voice_gateway_agent.py`). The record of a job that the worker finished before
`Record` says "queued" for good; that is what the code does, and `OutcomeIsFinal` says no
more than that an outcome which was recorded stays. Left out: the statistics, the trimming of
the history to ten records, a worker thread killed by the interpreter.

### SessionLocks

| Variable | Code (`services/text_entry_service.py` 27-57, 97) |
|---|---|
| `order`, `lockOf`, `aged` | `SessionLockManager._records`: the records from the oldest, their locks, those past `ttl_seconds` |
| `locked`, `waiters`, `woken` | `asyncio.Lock`: `_locked`, `_waiters`, the waiters whose future is set |
| `turn`, `holds` | the tasks that call `handle_text_message` |
| `lost`, `ahead` | history: sessions whose record was dropped in the gap; who waited before a task |

`GetLock` is `get_lock` with its `_cleanup` and the acquisition up to its first
suspension, one step of the event loop; `Resume` is a woken waiter that runs again;
`Release` the end of a turn; `Age` the passing of time. Between `Release` and `Resume`
the lock is not locked though a waiter is sure to have it: `_cleanup` may then drop the
record and the next message makes a second lock. That is what the code does; `lost` names
the exception and the properties say that there is no other.

### VoiceGateway

`live` and `obj` are the controller's table and the `VoiceSession` objects, which handlers
and callbacks go on using after they were released; `socket` is the handler of each
websocket; `jobs` and `speech` are the runner's queue and worker thread with the object that
each job's callbacks close over. A handler runs from one await to the next: `Connect`,
`Refuse`, `BeginUtterance`, `AudioChunk`, `Disconnect`; a stop is `StopRefused`,
`StopIgnored` or `StartTurn` (the utterance counts as processed before its turn), then
`TurnRuns`, `EndTurn` or `FailTurn`, and `Send`. `Evict` is expiry or the table's limit,
`StopTTS` the REST call, `Take`, `OnStart` and `OnFinish` the worker. What was heard,
whether it echoes the reply being spoken and whether the turn fails are choices; memory is
kept finite by forgetting what nobody can read any more (`Becomes`).

Three things are history: `asked`, the wish for speech that came with each utterance of a
session and whether the session has dropped it; `unheard`, sessions whose socket broke before
the greeting; and a socket's `forgotten`, its turn's utterance no longer among those the session
remembers. The last is why `OneTurnPerUtterance` has an exception: the code refuses a second
turn of an utterance by a bounded list (`voice_gateway_agent.py:170`), so enough other
utterances in between let the same one through again while its first turn is on.

### VoiceControls

One variable per ref of `VoiceControls.tsx` (`starting` is `startingVoiceRef`, and so on),
`call` and `awaits` for where each `startVoice` is suspended, `sock` and `live` for the
sockets' states and the streams with live tracks. Clicks: `StartVoice`, `StopVoice`,
`Refresh`; continuations after an await: `MicGranted`, `AudioFails`, `ModuleLoaded`,
`Opened`, `ConnectFails`, `RefreshDone`; events: `StatusEvent`, `AbortEvent`,
`SocketCloses`; and `Unmount`. WebSocket, getUserMedia and AudioWorklet are external and
do what their standards say.

There are two exceptions, both reachable, each with its history. Two starts may overlap (a
click after an aborted start, before its promise settled): `overlap`. And between the granted
microphone and `streamRef.current = stream` the AudioContext or its source may throw
(`VoiceControls.tsx:463-466`): the catch block cleans up what the refs hold, the stream is in
none of them and stays on, also when the panel goes. `MicGranted` is therefore `HoldsStream`
or `LosesStream`, and `stray` are the streams lost. The AudioContext that the same failure
leaks, if its source threw, is left out.

### MenuVersions

`status` and `active` are the rows of `menu_versions` and the branches' pointer; `pc`,
`target` and `current` are a publisher's transaction. `rowLocks` says which database it
is: PostgreSQL locks the published row and re-reads it after a wait, SQLite has one writer
and a time limit. `CreateDraft`, `BeginPublish`, `BeginCatalog`, `Clones`,
`SelectCurrent`, `SelectAfterWait`, `Finish`, `TimesOut` and `Abandon` are the statements of
`menu_management_service.py` and `menu_repository.py`; `IndexAllows` is the partial unique
index. A customer's confirmation re-reads branch, version and item per line (`ReadBranch`,
`ReadLine`): the session's identity map holds rows weakly, so a second line may or may not
see a newer pointer, and both are modelled.

### SemanticRouter, OrderLines, Dialogue

`SemanticRouter` has the rules as a sequence, tried in order; a phrase is what the token
lists match of it (`Cues`). The two sets of words that overlap in the source (a dish whose
name holds a category word, a shop named after a dish, "bu yao" inside "bu yao le") are
phrases of their own. An utterance is a sequence of distinct phrases.

`Dialogue` has the session's fields in one record. A turn (`Answered`) is: `Understood`
(what the router's intent means with the question that is open), `Expired` (stale
questions are dropped), `Dispatch` (the agent), the check that an intent which may not
change the draft did not, and `Kept` (the undo snapshot). The customer says one member of
`Orders`, `Changes`, `References`, `Deliveries`, `Answers`, `Asides` or the `Complaint`.
`OrderLines` are the operations on lines, with what they lose: replacing a dish drops
further lines of it and resets the quantity. `asked`, `listed`, `earlier` are history: what
the last reply asked for, the order at the time a clear was asked, the draft before.
Left out: ambiguous candidates of a dish's name, options other than one, notes to a dish,
a line's unit and source (so putting a dish in its own place is not said, `Sensible`).

### LLMFallback

`env` is the configuration a process starts with, `dialog` what the fallback looks at in
the session, `message` how the rules read the message and which cues it holds. `Hear`,
`KeepRules`, `Ask`, and then `Observe` (shadow), `Degrade` or `Accept`. An answer is any
of a set of payloads with at most one thing wrong, or a failure, or late.

## 3. The runs

All but `SessionLocks` set `CHECK_DEADLOCK FALSE`: a session that /reset has closed, a
runner shut down, a panel removed or a bound used up really stops.

| Run | Instance | Asks |
|---|---|---|
| `TwoWorkers` | two overlapping turns, one content, client key or none, an explicit human request; 3 draft versions, 4 row versions, 2 orders, 1 case | `TypeOK`; `NoDoubleOrder`; `ToldTheTruth`; `GuardedSessionNeverConfirms`; `DraftVersionGrows` |
| `HandoffControls` | one turn and one REST client, edits and confirmations, a mandatory and a liftable reason; 4 draft versions, 4 row versions, 1 order, 2 cases | `ActiveCaseHolds`; `ConfirmationTracksOrder`; `DraftCanBeConfirmed`; `VersionNamesContent`; `HoldLiftedByCancelOnly`; `CasesImplementLifecycle` (the refinement of `HandoffCase`) |
| `ChatOnly` | no simulation controls (production): two order takings, a severe allergy and an explicit request, low and sufficient confidences; 6 row versions, 2 cases | `MandatoryGuardStays` |
| `TTSRunner` | three jobs, a queue of two, two stops, shutdown at any point | `StoppedNeverSucceeds`; `IdleMeansDone`; `OutcomeIsFinal`; `QueuedJobsEnd` |
| `SessionLocks` | two calls of one session, one of each of two others, a table of one record | `OneTurnAtATime`; `TurnsStartInOrder`; `TableIsBounded`; `WaitersRun` |
| `Voice` | two interchangeable sockets of one session, two such utterances, one id remembered, one job queued, five objects | `VoiceInvariant`; `ProcessedIsAnswered`; `QuietMeansUnmuted`; `PreferenceIsKept` |
| `VoiceControls` | three starts, three sockets | `PanelInvariant`; `AudioInsideUtterance`; `RecordingHasMicrophone`; `StartsEnd` |
| `Menu` | two publishers, one customer, four versions, three publications, two lines, both databases | `MenuInvariant`; `AuthoritativePrices`; `PublicationsEnd` |
| `Router` | forty-three phrases, utterances of three, or four where two dishes are named | `TalkChangesNothing`; `EachDishItsOwnWord`; `PlacesAreNoDishes` |
| `Dialogue` | conversations of five turns over three dishes, quantities and lines up to two, two addresses | `DialogueInvariant`; `UndoIsExact`; `YesAnswersTheQuestion`; `YesClearsWhatWasAsked` |
| `LLM` | every configuration, two dishes | `OnlyWhatTheCustomerSaid`; `SandboxChangesNothing` |
| `ClaimNoDuplicate` | one turn at a time, one case, six row versions, two orders | a reconfirmation creates no duplicate (violated) |

What the properties say:

- `NoDoubleOrder`: a taking places another order only when the one it placed before is no
  longer in force, except in a session whose handoff case was opened before there was an order
  (`ClaimNoDuplicate` shows why that has to be excepted), or where a late transition made a
  case active again: a later request reuses that case, and holds nothing. It rests on the row version
  (`ReadAtThisVersion`) and the idempotency record together: either alone is not enough. It
  speaks of the orders placed, not of those told: with two takings the default key recurs, and
  the second is answered with the order of the first. True for turns that overlap within one
  taking and for serialised turns over any number of takings; false when both come together
  (see the disagreements below).
- `ToldTheTruth`: the answer "confirmed", a replay included, is true in the database at
  the moment it is given and names the draft the customer has. A replay is excepted whose
  order a late resolution changed.
- `GuardedSessionNeverConfirms`: the guard is read at the start of a turn, the
  confirmation comes several units of work later; the version check must close the gap. It
  cannot for a case that a late transition made active or failed again: that writes no session.
- `DraftVersionGrows`: no stale save brings back an old draft version.
- `ConfirmationTracksOrder`, `DraftCanBeConfirmed`, `ActiveCaseHolds`: the joint
  invariant of orders, confirmations and cases. What the lost update of a transition breaks is
  excepted row by row: an overwritten case need not hold its order, and a late resolution that
  changes the draft of an order leaves its confirmation in force (`Disturbed`). Still no two
  cases are active and no draft meets the unique constraint.
- `CasesImplementLifecycle`: each row implements `HandoffCase`. A case is opened and cancelled
  from a state that allows it. Any other transition was allowed when it was validated; once none
  is on its way, a closed case stays closed.
- `VersionNamesContent`: one draft version, one content, which the default key
  `confirm:<session>:<version>` relies on. True when turns are serialised, whatever the REST
  controls do; false when two processes overlap (see the disagreements below).
- `HoldLiftedByCancelOnly`: no resolution, failure, confirmation or edit lifts a hold.
- `MandatoryGuardStays`: every audit overwrites the reason the guard is computed from,
  and still the session loses a mandatory guard only by the resolution of its case or to an
  explicit request: that one overwrites the reason, and what it leaves is the liftable guard
  of an explicit request. True when turns are serialised and the handoff controls disabled, as
  in production; false with the controls, or with overlapping turns (see the disagreements
  below).
- `StoppedNeverSucceeds`: in whichever of the worker's steps a stop() falls, the jobs queued
  or under way are not counted as successes. The job between the dequeue and its start is
  in nobody's books; only its generation tells.
- `IdleMeansDone`: the queue's count of unfinished tasks, which `wait_until_idle` joins on,
  is the number of jobs queued or in hand, although two threads take from the queue.
- `OutcomeIsFinal`: no later stop, and no record written late by enqueue, changes an
  outcome that was recorded.
- `QueuedJobsEnd` (liveness): a queued job is spoken, fails or is interrupted, unless the
  runner is shut down.
- `OneTurnAtATime`, `TurnsStartInOrder`: turns of a session exclude each other and keep
  the order of their messages, unless the record was dropped in the gap.
- `TableIsBounded`: the table outgrows its limit only behind a running turn.
- `WaitersRun` (liveness): a message that waits for the lock is handled.
- `VoiceInvariant`: an utterance sent twice becomes one turn while it is remembered, and no
  recognizer listens for a session without a socket (unless the greeting failed).
- `ProcessedIsAnswered`: what is remembered as processed was answered or is being handled;
  after a failed turn the repetition is taken.
- `QuietMeansUnmuted`: a session is muted only while a reply of its own is being spoken.
- `PreferenceIsKept`: a reply is spoken or not as its utterance asked, unless the
  preference was evicted meanwhile.
- `PanelInvariant`: every live microphone is in the ref a cleanup stops, and neither it nor
  a socket outlives the panel, except the stray streams. `AudioInsideUtterance`: audio is
  sent only between start_utterance and stop_utterance. `RecordingHasMicrophone`: what looks
  like a recording is one. All three under the exception of overlapping starts.
- `StartsEnd` (liveness): a start whose socket is closed under it comes to an end.
- `MenuInvariant`: one published menu at any time, and the branches point at it.
  `AuthoritativePrices`: an order's prices are of menus published during its confirmation.
  `PublicationsEnd` (liveness): publishers never wait for each other for ever.
- `TalkChangesNothing`: plain questions, denials and a wish to skip the confirmation change
  nothing, unless the question also asks for a recommendation (see the disagreements below);
  no utterance changes one dish twice. `EachDishItsOwnWord`: a removal word or a
  number is taken for the dish it follows, unless an unwanted ingredient is named too: within
  eight characters of one, "no more of this" is taken for an option
  (`_has_non_removal_buyao_near_item`). `PlacesAreNoDishes`: a shop named after a dish
  is not an order of it.
- `DialogueInvariant`: nothing incomplete is submitted, and a stage that waits for the phone
  number has the address. `UndoIsExact`: "that was wrong" gives back the draft before the
  last change and nothing else. `YesAnswersTheQuestion`, `YesClearsWhatWasAsked`: a yes
  does what the last question asked; a clear that it completes takes nothing that was
  added since.
- `OnlyWhatTheCustomerSaid`: an LLM adds only a dish that was named or unambiguously
  pointed at, and confirms or cancels only on the customer's word.
  `SandboxChangesNothing`: nothing is sent without the three settings, and a shadow's
  answer has no effect.

Bounds. Versions, orders, cases and takings are bounded by constants in the guards of the
actions that advance them. `Kinds`, `ChatSignals` and `ChatConfidences` choose what the customer
says: each run has the messages its properties are about, and together they have every kind.
Four to six row versions leave room for: build, confirm, handoff, cancel, edit and reconfirm.
Two orders are needed for reuse against creation; two cases for an overwritten reason; two
takings for a recurring key; two workers for every pairwise race of units of work (a third only
repeats the role of the second, since a turn is disturbed through the tables alone). For the
runner, three jobs are one in hand and a full queue of two, and two stops are one that finds the
job and one that comes between two of its steps. For the locks, a table of one record makes
every second session evict, and the two others are one that evicts and one that fills; for
voice, one remembered id makes the second utterance evict the first. Three starts of the panel
are one suspended, one aborted and one that follows. Two publishers are enough for a wait and a
re-check, three publications for a pointer that moves twice during one confirmation of two
lines. Five turns are order, change, question, distraction and answer. Two dishes make a
reference ambiguous. In `HandoffControls` a request that is settled after its cancellation makes
a case active again; a confirmation that a late resolution leaves in force needs five row
versions, and that instance was checked apart, without an error (3.5 million states). The proofs
found what these bounds had hidden, three conditions of `NoDoubleOrder`, `VersionNamesContent`
and `MandatoryGuardStays` that section 4 names; two takings with two workers, or a mandatory
case and an older explicit one with a REST client and six row versions, show them. A bound of
five row versions would have hidden `ClaimNoDuplicate`. Random walks (`tlc -simulate`) of larger
instances of `Dialogue`, `TTSRunner`, `VoiceControls`, `MenuVersions` and `VoiceGateway` found
no violation either. Every property has a mutant of the code, listed in PROJECT.json, that the
same run refutes, so no bound hides the case a property is about.

The models of the router, the orchestrator and the LLM merge were also compared with the
running code: the router's interpretation of each of its utterances, the orchestrator's
session after each transition of a smaller instance, and the merge over a product of
sessions, messages and answers agree. That comparison is not part of this directory.

Fairness. `OrderDesk`, `VoiceGateway`, `Dialogue`, `SemanticRouter` and `LLMFallback` assume
none and claim no liveness: nothing in the code retries a turn, a customer may leave at any
point and a case may wait for a human for ever.
`TTSRunner` assumes that both threads are scheduled (`WF_vars(Call)`: a call of enqueue or
stop returns; `WF_vars(Work)`: the worker goes on with its loop). The code justifies it as
far as the steps are its own: it holds the lock for straight-line code only, polls the queue
with a timeout and calls task_done in a `finally`. That the speech of a job ends is the
audio driver's part and an assumption; `maybe_stuck` exists because it may fail. New calls
(`Admit`, `StopBegin`, `Shutdown`) and the passing of time are not fair.
`LocksFairSpec` assumes that the event loop runs woken tasks and that turns end (`WF` of
`Resume` and `Release`); a turn waits for the database and the LLM with timeouts.
`MenuVersions` assumes weak fairness of a transaction's own next step and strong fairness of
what waits for a lock or a version number (`Clones`, `SelectAfterWait`): PostgreSQL queues
lock waiters, and SQLite's wait ends in `TimesOut`. `VoiceControls` assumes only that a
browser opens a socket or gives up on it; the permission prompt may stay open for ever.

### Disagreements between documents and code

`ClaimNoDuplicate` checks the sentence quoted under `findings` in PROJECT.json and ends in a
counterexample: a case opened before there was an order (`POST /handoffs`, or a turn that
failed between the handoff and its save) is reused by the next request without being bound to
today's order, so its cancellation takes nothing back and the next yes makes a second order
(`services/handoff_service.py:427-447`). The others have no run of their own:

- `docs/phase-3/verification-matrix.md:10` has terminal states closed, and
  `docs/phase-3/handoff-state-machine.md:32` a cancellation that is one transaction. A transition
  that read the case before the cancellation was committed overwrites it
  (`services/handoff_service.py:425-430`, `:231-233`, `:140-155`, `:567-574`): PENDING or
  SIMULATED_AGENT_ASSIGNED bring the case back although its hold was lifted, and a changed draft
  puts the order, confirmed again meanwhile, back to DRAFT with its confirmation in force.
- A start of the panel whose AudioContext cannot be made leaves its microphone on, and no later
  cleanup or removal of the panel stops it (`VoiceControls.tsx:463-466`).
- `README.md:684` says `speaking` is whether a job is being played. A stop() between the
  worker's get and `_mark_job_started` finds no current job; the job then starts under an old
  generation and sets the flag, which `_finish_job` (`voice/tts/runner.py:454`) does not
  reset: with nothing queued behind it, enqueue answers tts_queue_stuck until a restart.
- `docs/phase-3/README.md:33` wants a mandatory hold to stay; a later liftable request
  overwrites its reason and cancelling that one lifts it (`services/handoff_service.py:487`,
  `:442`). With the simulation controls enabled it is lost without such a request: a turn that
  read the row when its case was a cancelled explicit one says "cancel handoff" after a mandatory
  case was requested and cancelled over REST, takes the row's new version and saves its own
  case and reason over the mandatory ones (`services/text_entry_service.py:458`).
- `docs/phase-2/order-lifecycle.md:23`: a new taking uses a new order; the default key
  recurs when draft versions start again, and the old order is answered
  (`services/order_persistence_service.py:76`).
- `docs/phase-2/order-lifecycle.md:13`: a cancelled order stays cancelled; a handoff puts it
  back among the drafts (`services/handoff_service.py:534`).
- `docs/phase-2/tenant-isolation.md:14`: a save over a concurrent one is refused; a turn that
  handed off reads the new version before it saves (`services/text_entry_service.py:458`),
  so with two processes one draft version may name two contents. By the same lines, a repeated
  "cancel handoff" of a process that read the row before another one started a new order
  writes the former taking back, open again although its order is in force, and the next yes
  places a second one.
- `docs/phase-2/menu-versioning.md:13`: an archived menu cannot be published again; `publish`
  reads the status before it waits for the published row
  (`services/menu_management_service.py:39`), so a draft that another process published and
  a third archived meanwhile is published once more.
- `src/frontend/src/components/VoiceControls.test.tsx:598` wants a start to happen once; after
  an aborted start `startingVoiceRef` is cleared while its promise is pending
  (`VoiceControls.tsx:356`, `:438`), and a click starts a second one.
- `README.md:12`: questions only ask; a dish and a delivery question in one utterance are split
  into an order and a question (`agents/semantic_rules.py`, `detect_composite_intent`). A question
  about a dish that also says "推荐" is none to `_interpret_menu_information`
  (`agents/semantic_router.py:583`), and the rules for replacing and modifying do not look for
  question marks: "酸辣土豆丝推荐备注少盐吗" notes less salt on the dish, "推荐酸辣土豆丝换成有没有" puts the
  dish into the place of another.
- `agents/delivery_agent.py:175` tells the customer that a confirmation will submit; a clear
  asked for earlier survives the turns that give a phone number or an address
  (`agents/orchestrator.py:1097-1110`), and the yes then empties the order.
- `docs/phase-1/risk-register.md:26` names numbers given to the wrong field as a risk: digits of
  a phone number in an order become its quantity (`agents/semantic_router.py:1771`).
- `docs/phase-3/handoff-state-machine.md:20` says creating a handoff moves the in-session
  draft back to DRAFT; POST /handoffs (`api/safety.py:199`) does not write the session.
- `agents/orchestrator.py:269` tells the customer an old order will not be modified; a
  handoff requested before the new order is confirmed holds the old one
  (`services/handoff_service.py:460`).
- `services/text_entry_service.py:381` says one can go on after a refusal; if the session
  has a case that is active, failed or cancelled, the refusal's reason is carried into
  every later message (lines 354-359), which is then refused too.
- `docs/phase-2/domain-model.md:37` calls a closed session unmodifiable; cancelling its
  case writes the row (`services/handoff_service.py:341`).
- The same sentence (`docs/phase-3/README.md:31`) also fails after an edit: between the
  cancellation and the reconfirmation the draft version moves on, and a second order is
  created (`services/order_persistence_service.py:186`); the first stays a draft.

## 4. The proofs

Every theorem is for all values of the constants that satisfy the named ASSUME of the
module it is about, and so for any number of workers, sessions, jobs or dishes; the bounds of
the runs are parameters that the proofs do not need to be small. TLC evaluates each ASSUME.

`OrderDeskProofs` (`DeskAssumption`: the bounds are naturals, a draft and a row start at 1,
the empty draft and the missing key are values of their own, signals and reasons are among
the codes). `TypeOK` is not inductive: a step that reads `cases[turn[w].case]` or
`orders[cases[c].order]` needs the row to exist. `DeskInv` adds what each step of a turn
or a request relies on (`DeskInvariant`), and `TypeCorrect` follows.

`SafeInv` is `ConfirmationTracksOrder`, `DraftCanBeConfirmed` and `ActiveCaseHolds`, with the
exceptions for overwritten cases, kept together with `DeskInv`. The three are proved together
because none is inductive alone: a confirmation in force at the order's version needs that a
DRAFT order has none there (`DraftCanBeConfirmed`) when `ConfirmOrder` reuses it; opening a case
keeps `ActiveCaseHolds` only because there is at most one active case, and cancelling one
touches the order of no other. `SafeInvariant` has one step per action and under it one per
conjunct the action can disturb; `ConfirmationInForce`, `DraftsConfirmable` and
`OneActiveCaseHolds` are its parts. `HoldsLiftedByCancel` is the action property, from the
invariant and the same case split. `CasesFollowLifecycle` is the refinement: every initial state
maps to `HandoffCase`'s, every step of `OrderDesk` to a step or a stutter of each case;
`validated` maps to the targets of the turns and requests that stand between their read of the
case and their write.

In the part on turns: a turn writes what it read several steps before. `ToldIsTrue` is about the
replay: the record of a key is compared with the draft, not with the order, so it must still say
what the order holds (`Recorded`); it does, because an order's content changes only when it is
confirmed at a version that was never confirmed, and its version never goes back (`OrdersGrow`).
`DraftNeverGoesBack` and `GuardedNeverConfirms` rest on `TurnInv`: a turn whose version is the
row's has read the row as it is (`Fresh`: its draft is not older and, until it answers, it is
about the same taking and the same case), a state that points at a case that is active or has
failed remembers a reason (`Guarded`), and a turn past the preflight points at no such case. `Fresh`
speaks only of turns at the row's version, since others can neither save nor confirm, and of
the taking and the case only up to the answer: after a cancellation the turn takes over the row's
version and draft version with the rest of its old state. That no case begins to block once it
has ceased to, unless it is overwritten, is `CasesCalm`.

The last two parts of `OrderDeskProofs` need more than an invariant: what they say is false when
turns interleave without bound, so each theorem names what it assumes of them.
`OneOrderPerTaking` assumes one taking or one worker, the two cases that `SettledInv` covers: a
case that is active holds the last order (`CasesBound`), what a taking placed is the last order
and later takings have placed nothing (`PlacedLast`), and an open session that is not submitted
has `Settled` what its taking placed (`RowSettled`): it is no longer confirmed, is held, the
case was there before it, or a late transition has overwritten a case. A turn at the row's
version knows the same of what it will save (`TurnSettled`). Without the assumption, a turn that
takes over the row's version writes an older taking back, which is the counterexample above;
with one taking there is none to write back, and with one worker the turn's taking is the row's
or the next (`TakingKnown`). `VersionIsContent` assumes one worker, for any REST clients: until
it edits the draft, and then it has a new version, a turn has the content of the row
(`ItemsKnown`), and no request or administrator writes the content. `MandatoryStays` assumes one
worker and no REST clients, which is the code with `_require_controls` refusing: only then does
the turn's state point at the same case as the row, so that a save cannot take the reason back
(`GuardKnown`). Each of these invariants was checked with TLC, over two workers where it allows
them, before it was proved.

`TTSRunnerProofs` (`RunnerAssumption`: naturals, the first two positive).
`StoppedNeverSucceeds` is not
inductive: `Finish` adds a job to the successes when its generation is the present one, so
stopped jobs must have an older one (`StoppedAreOlder`); and `StopBegin` adds the jobs queued
or in hand to the stopped, so these must not have succeeded (`SucceededAreDone`), which
rests on ids being handed out in order and the queue keeping that order (`IdsInOrder`).
`IdleMeansDone` needs `WorkerHolds`: the worker has a job exactly between get and task_done.
`RunnerInv` is all of them with `TypeOK`. `OutcomesAreFinal` needs to know what is recorded
of a job by where it is (`OutcomeInv`): the current job is recorded as playing or was stopped
(`CurrentIsPlayed`), the job enqueue is still busy with has no record but the worker's
(`NotRecordedYet`), and one that left the worker has its outcome (`OutcomeIsSettled`).

`VoiceGatewayProofs` begins with the session locks (`SessionLocksAssumption`), which the voice path
extends. `OneTurnAtATime` counts tasks, while the
code's promise is about locks. `LocksInv` says that a lock has at most one running task
(`RunnersHold`) and belongs to one session (`OneSession`), that its waiters are the waiting
tasks, each once (`WaitersWait`), that only the first of them is woken and only of a free
lock (`WokenAlone`), and that the busy tasks of a session not in `lost` all have its record's
lock (`RecordKept`). The last part is where eviction matters: a record whose lock is held is
not dropped, and dropping one in the gap puts the session into `lost`. `TurnsKeepTheirOrder`
adds that a waiting task waits behind exactly those who were `ahead` of it and still wait
(`Queued`). `TableStaysBounded` is about the loop of `_cleanup`, which drops from the oldest
until the table fits: with the table listing each session once (`TableOK`) the ones picked are
as many as it takes, unless a locked record is among the oldest.

Then the voice path (`VoiceAssumption`: finitely many sessions and sockets, at least one
remembered utterance, and more objects than can be referred to at once, so that making one never
fails for want of a name: memory is not what the code runs out of). The theorems about locks
are cited, not proved again: `VoiceUsesLocks` shows that every step of the gateway is a step or
a stutter of `SessionLocks`. `VoiceInv` speaks of the object that a session shows, its own or
the one it would get, since handlers make it on demand. It says that no object is
two sessions' (`Owned`), that what is remembered as processed was answered or is in a turn on that
very object (`Answered`), that a turn's utterance is remembered or `forgotten` (`Recalled`), and
which wish belongs to which utterance (`Wishes`); released objects are where this could go
wrong, as callbacks and turns keep using them. `OneTurnPerUtterance` and
`PreferenceIsKept` were first stated without their exceptions; the attempt to prove them found
the cases that the run's two sockets and one session had hidden (a third socket whose
utterance pushes the first out of a list of one, two sessions that send the same utterance
id), and both now say what the code guarantees.

`VoiceControlsProofs` (`VoiceControlsAssumption`). `PanelInvariant` is not inductive: that the
refs hold every socket and every live microphone that is not `stray` (`OneOwner`) needs that a
start that waits for a socket waits for it alone (`WaitsAlone`), and that a start keeps what it
set up until something cleans up (`SetUp`). Both hold unless two starts overlap, which the panel
allows only after an aborted start; from then on the properties promise nothing, and the
invariant says so.

`DialogueProofs` (`DishesAssumption`, `BoundsAssumption`, `AddressesAssumption`: no address is
the missing one). `DialogueInv` says of the session what the next turn relies on: its types,
among them the shape of a pending question and of a snapshot; that it is `Sound`; that the
snapshot `Restores` the draft before the last change, which makes undo exact; and that an open
question is the last reply's or, when it is whether to clear the order, about portions that were
there when it was asked (`OpenQuestion`). A turn is understanding, expiry, agent, patch
validation, then snapshot or undo. Each has its lemmas: utterances become intents with typed
slots (`Meant`), expiry leaves no question that the agent at hand may not meet (`Timely`), and
each agent's reply is `Fine`, with one lemma per agent's operation; `TurnInv` composes them.
What happens to the lines is proved by induction on positions (`LinesAreCopied`,
`PortionsAreCounted`, `EachIsAdded`): the operations of `OrderLines` are recursive functions
over 0 .. n, `Recursion` shows that such a function exists and `UpTo` is the induction, from the
least counterexample, so that no theorem with an operator parameter is needed.

`MenuVersionsProofs` (`MenuAssumption`). A single published version is kept by a transaction that
archives the one it read; that it read the right one is `RowsAreLocked` on PostgreSQL (no two
transactions are past the lock of one row) and, for both databases, the unique index, which
makes the loser fail. `BranchesFollow` says that the published versions are exactly the one the
branches point at. For the prices, `ReadsAreCurrent` and `ReadsBelong` say that a pointer
read during a confirmation is one of the publications since it began.

`LLMFallbackProofs` (`ItemsAssumption`: "none" is not a dish). The invariant says that the
client was asked for a reason (`AskedWithReason`) and that until an answer is settled the
rules' reading stands (`RulesUntilDone`). `OnlyTheCustomerOrders` then follows the readings an
accepted payload can be turned into, each with its cue.

`SemanticRouterProofs` (`PhrasesAssumption`, `MaxPhrasesAssumption`) is for any phrases of the
table and any length of the utterance. `RouterInv` is that what was heard is the interpretation
of what was said, no phrase of it twice; the rest is about one utterance. `FirstRule` says that
the rule that speaks is the first that matches, and the proofs go through the rules: an answer
changes no dish twice (`AnswersAreFine`); a question about a dish is taken by the eleventh rule,
the ones before it look for other words, and of those after it only two do not look for a
question (`QuestionsAskOnly`); an utterance about a place is taken by the rules about addresses
(`PlacesStayPlaces`); and of the rules that order or remove, plain talk leaves four
(`PlainRules`), of which the one that takes several dishes looks at the text from each to the
next (`WordBelongs`). Both exceptions of `TalkChangesNothing` and `EachDishItsOwnWord` above
were found by these proofs: utterances of four and of six phrases are needed to meet them, the
run has three.

Only model-checked: liveness. The properties `QueuedJobsEnd`, `WaitersRun`, `StartsEnd` and
`PublicationsEnd` rest on fairness and ENABLED, which are out of TLAPS's reach here. Induction
goes as far as above: up to the length of an order, with the step as a function. No module that
is proved about declares a recursive operator.

## 5. Not modelled

- The signal detector's patterns, the multilingual parser with its number parser, the renderer:
  functions of characters; the models take any outcome they can have.
- The statements of the locked units of work (`confirm_order`, a request for a handoff, its
  cancellation) on SQLite, which ignores `with_for_update`: each is one action of `OrderDesk`.
- Raw text that the orchestrator would get without the multilingual parser:
  `runtime.py` always puts it in front, which leaves the router and the validation of an LLM's
  answer the same canonical text (the two strip punctuation differently).
- In `Dialogue`, the fulfilment type as a part of the draft that undo restores, and a few ways
  to refer to a dish.
- Ambiguous dish candidates, notes to a dish, the agents' texts, prices within a draft.
- `ChatWindow.tsx` and the views of the frontend; audio drivers; seeds, offline evaluation and
  scripts; voice text cleaning and configuration.
- The merchant side of an order's lifecycle: the statuses after CUSTOMER_CONFIRMED are set by
  test fixtures only.
- A line of the recogniser, `vosk_asr`, whose final text the second end point of one utterance
  overwrites: what was heard is a choice in `VoiceGateway`.

## 6. The plan

Done: the desk (`OrderDesk` with its abstract `HandoffCase`), the speech queue (`TTSRunner`),
the locks and the voice path (`SessionLocks`, `VoiceGateway`), the panel (`VoiceControls`), the
dialogue from utterance to draft (`SemanticRouter`, `OrderLines`, `Dialogue`, `LLMFallback`), the
menu (`MenuVersions`). What is left, in the order of importance:

1. `ConfirmRace`: `confirm_order` against a handoff and another confirmation, statement by
   statement, with and without the row lock. It refines the atomic action of `OrderDesk`
   where the database locks; where it does not, the unique constraints must suffice.
2. `NumberParser` as operators against a reference definition; `ChatWindow`'s request and reset.
