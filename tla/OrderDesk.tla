------------------------------ MODULE OrderDesk -----------------------------
(* One conversation session: its row, its orders, confirmations, idempotency *)
(* records and handoff cases, written by chat turns (TextEntryService), by   *)
(* the REST handoff controls (api/safety.py), by /reset and by the           *)
(* administrative invalidation of a confirmation.                            *)
(*                                                                           *)
(* A unit of work (`with self.uow_factory() as uow`) that locks the rows it    *)
(* decides on, or checks their version, is one action.  One that reads a      *)
(* handoff case without a lock and writes its status by primary key (every    *)
(* one but the cancellation) is two: others may commit in between.  A chat    *)
(* turn is several units of work, its SessionState held in memory from the    *)
(* first to the last.  With one worker   *)
(* the turns are serialised, as the per-session asyncio lock makes them; with *)
(* two they overlap, as when two processes share the database.                *)
EXTENDS Naturals, Sequences, SafetyPolicy, HandoffLifecycle

CONSTANTS
  Workers,      \* threads that run chat turns of this session
  RestClients,  \* clients of POST /handoffs and of the simulation controls
  Drafts,       \* draft contents a customer can build
  NoItems,      \* the empty draft
  ClientKeys,   \* idempotency keys clients send with a message
  NoKey,        \* the message carries no idempotency key
  Kinds,        \* kinds of messages the customer sends
  ChatSignals,  \* safety signals the detector may hear in a message
  ChatConfidences, \* parser confidences of messages that are evaluated
  RestReasons,  \* reasons POST /handoffs is called with
  MaxDraft,     \* bound on draft versions
  MaxVersion,   \* bound on the session row's version
  MaxOrders,    \* bound on orders of the session
  MaxCases,     \* bound on handoff cases of the session
  MaxTakings    \* bound on order takings ("start a new order")

ASSUME DeskAssumption ==
  /\ MaxDraft \in Nat /\ MaxDraft > 0
  /\ MaxVersion \in Nat /\ MaxVersion > 0
  /\ MaxOrders \in Nat /\ MaxCases \in Nat
  /\ MaxTakings \in Nat /\ MaxTakings > 0
  /\ NoItems \notin Drafts
  /\ NoKey \notin ClientKeys
  /\ ChatSignals \subseteq HandoffReasons \union RefusalReasons
  /\ ChatConfidences \subseteq Confidences
  /\ RestReasons \subseteq HandoffReasons

VARIABLES
  session,        \* conversation_sessions row: version, closed, state_json
  counters,       \* safety_session_counters row
  orders,         \* orders rows, oldest first
  confirmed,      \* order_confirmations rows: <<order, draft version>>
  invalidated,    \* those whose invalidated_at is set
  idempotency,    \* idempotency_records rows
  cases,          \* handoff_cases rows, oldest first, with what their
                  \* handoff_events tell
  turn,           \* the chat turn each worker is running
  request,        \* the POST /handoffs or simulation call each REST client is in
  told            \* history, per order taking: the order the customer was last
                  \* told of, and the order last placed

vars == << session, counters, orders, confirmed, invalidated, idempotency,
           cases, turn, request, told >>
tables == << session, orders, confirmed, invalidated, idempotency, cases >>

-----------------------------------------------------------------------------
(* Types *)

Contents == Drafts \union { NoItems }
DraftVersions == 1 .. MaxDraft
Takings == 1 .. MaxTakings
Reasons == HandoffReasons \union RefusalReasons \union { NoReason }
OrderStatus == { "DRAFT", "CUSTOMER_CONFIRMED", "CANCELLED" }

\* SessionState: draft_version, current_order and delivery fields, submitted
\* (with it confirmation_valid, lifecycle_status, submitted_order_id), the
\* handoff case and the safety reason.  `taking` counts the order takings of
\* the session and is history only.
States == [ dv : DraftVersions, items : Contents, submitted : BOOLEAN,
            handoff : 0 .. MaxCases, reason : Reasons, taking : Takings ]

FreshState(taking) ==
  [ dv |-> 1, items |-> NoItems, submitted |-> FALSE, handoff |-> 0,
    reason |-> NoReason, taking |-> taking ]

Orders == [ status : OrderStatus, dv : DraftVersions, items : Contents,
            hold : BOOLEAN, holdReason : HandoffReasons \union { NoReason } ]

Keys == { << "client", k >> : k \in ClientKeys } \union
        { << "confirm", d >> : d \in DraftVersions }
Records == [ key : Keys, dv : DraftVersions, items : Contents,
             order : 1 .. MaxOrders ]

\* `overwritten`: by its handoff_events, a status was written over one that
\* does not allow it.
Cases == [ status : HandoffStatus, reason : HandoffReasons,
           order : 0 .. MaxOrders, overwritten : BOOLEAN ]

\* What the customer says: build a draft, confirm (with or without an
\* idempotency key), start a new order, cancel the handoff, say something that
\* must be clarified, is not understood, or carries a safety signal.
Messages ==
  [ kind : { "edit" }, arg : Contents ] \union
  [ kind : { "confirm" }, arg : ClientKeys \union { NoKey } ] \union
  [ kind : { "new_order", "cancel_handoff", "ambiguous", "unclear" },
    arg : { NoKey } ] \union
  [ kind : { "signal" }, arg : ChatSignals ]

Steps == { "idle", "preflight", "orchestrate", "handoff", "pending",
           "settle", "fail", "confirm", "save" }
NoMessage == [ kind |-> "none", arg |-> NoKey ]
Turns == [ step : Steps, msg : Messages \union { NoMessage }, state : States,
           version : 0 .. MaxVersion, case : 0 .. MaxCases ]
IdleTurn == [ step |-> "idle", msg |-> NoMessage, state |-> FreshState(1),
              version |-> 0, case |-> 0 ]

\* What the simulation controls write: a call that has read its case is at the
\* step of that name.
ControlTargets == { "SIMULATED_AGENT_ASSIGNED", "SIMULATED_AGENT_CONNECTED",
                    "RESOLVED", "FAILED" }

Requests == [ step : { "idle", "open", "pending", "settle", "fail" } \union ControlTargets,
              reason : HandoffReasons \union { NoReason }, case : 0 .. MaxCases ]
IdleRequest == [ step |-> "idle", reason |-> NoReason, case |-> 0 ]

Answers == [ order : 0 .. MaxOrders, placed : 0 .. MaxOrders ]

\* The variables hold what their tables and objects can hold.
TypeOK ==
  /\ session \in [ version : 1 .. MaxVersion, closed : BOOLEAN, state : States ]
  /\ counters \in Counters
  /\ orders \in Seq(Orders) /\ Len(orders) <= MaxOrders
  /\ confirmed \subseteq (1 .. MaxOrders) \X DraftVersions
  /\ invalidated \subseteq confirmed
  /\ idempotency \subseteq Records
  /\ cases \in Seq(Cases) /\ Len(cases) <= MaxCases
  /\ turn \in [ Workers -> Turns ]
  /\ request \in [ RestClients -> Requests ]
  /\ told \in [ Takings -> Answers ]

-----------------------------------------------------------------------------
(* Helpers *)

Max2(a, b) == IF a >= b THEN a ELSE b

Latest == Len(orders)  \* get_latest_for_session, 0 when there is none
CaseStatus(c) == IF c \in DOMAIN cases THEN cases[c].status ELSE "NOT_REQUIRED"
IsActive(c) == CaseStatus(c) \in Active
ActiveCases == { c \in DOMAIN cases : IsActive(c) }
Valid(o, d) == << o, d >> \in confirmed \ invalidated

\* Bug: the transition is not validated.
MoveCase_Unchecked(c, to) == cases' = [cases EXCEPT ![c].status = to]

\* One more transition of case `c`, as _apply_transition validates it, under
\* the lock of its row.
MoveCase(c, to) ==
  /\ MayMove(cases[c].status, to)
  /\ cases' = [cases EXCEPT ![c].status = to]

\* A transition that was validated on an earlier read: the status is written by
\* primary key, whatever it is by now.  uq_handoff_cases_active_session refuses
\* a second active case.
WriteStatus(c, to) ==
  /\ to \in Active => ActiveCases \subseteq {c}
  /\ cases' = [cases EXCEPT ![c].status = to,
                           ![c].overwritten = @ \/ ~ MayMove(cases[c].status, to)]

\* save_optimistic: the row is written only at the version the state was read.
SaveState(state) ==
  session' = [session EXCEPT !.version = @ + 1, !.state = state]

Goto(w, step, state) ==
  turn' = [turn EXCEPT ![w].step = step, ![w].state = state]
EndTurn(w) == turn' = [turn EXCEPT ![w] = IdleTurn]

\* Bug: the confirmation is left in force.
Invalidate_Forgotten(o) == invalidated

\* invalidated_at is set on the confirmation of order `o` at its version, if any.
Invalidate(o) ==
  IF o = 0 THEN invalidated
  ELSE invalidated \union (confirmed \intersect {<< o, orders[o].dv >>})

-----------------------------------------------------------------------------
(* Handoff requests: HandoffService.request_handoff in two units of work.    *)

\* _create_or_reuse finds an active case: the reason is overwritten.
ReuseCase(c, reason) ==
  /\ IsActive(c)
  /\ cases' = [cases EXCEPT ![c].reason = reason]
  /\ UNCHANGED << orders, invalidated >>

\* Bug: only a confirmed order is held.
HoldOrder_ConfirmedOnly(o, reason) ==
  IF o = 0 \/ orders[o].status # "CUSTOMER_CONFIRMED" THEN orders
  ELSE [orders EXCEPT ![o].hold = TRUE, ![o].holdReason = reason]

HoldOrder(o, reason) ==
  IF o = 0 THEN orders
  ELSE [orders EXCEPT ![o].hold = TRUE, ![o].holdReason = reason]

\* _create_or_reuse opens one, bound to the latest order, which it holds and
\* whose confirmation it invalidates.
OpenCase(reason) ==
  /\ ActiveCases = {}
  /\ Len(cases) < MaxCases
  /\ cases' = Append(cases, [ status |-> "REQUESTED", reason |-> reason,
                              order |-> Latest, overwritten |-> FALSE ])
  /\ orders' = HoldOrder(Latest, reason)
  /\ invalidated' = Invalidate(Latest)

\* The second unit of work reads the case and validates PENDING, to be written
\* once the summary is built; when it fails, _mark_summary_failure reads the
\* case in a third, to write FAILED unless the case has moved on.
SettleRequest(step, c, next) ==
  \/ /\ step = "pending" /\ next = "settle"
     /\ MayMove(cases[c].status, "PENDING")
     /\ UNCHANGED cases
  \/ /\ step \in { "pending", "settle" }
     /\ next = IF cases[c].status \in { "REQUESTED", "PENDING" } THEN "fail" ELSE "done"
     /\ UNCHANGED cases
  \/ step = "settle" /\ next = "done" /\ WriteStatus(c, "PENDING")
  \/ step = "fail" /\ next = "done" /\ WriteStatus(c, "FAILED")

-----------------------------------------------------------------------------
(* Cancellation: HandoffService.cancel, one unit of work.                    *)

\* Bug: the draft version is kept.
AdvancesDraft_Never(o) == FALSE

\* A confirmation at the order's version, even an invalidated one, or a
\* submitted session asks for a new draft version.
AdvancesDraft(o) ==
  \/ o # 0 /\ << o, orders[o].dv >> \in confirmed
  \/ session.state.submitted

\* Bug: any hold is released, whatever it was placed for.
ReleasesHold_AnyReason(c) ==
  cases[c].reason = Explicit /\ orders[cases[c].order].hold

\* Cancelling an explicit request releases a hold placed for that reason only.
ReleasesHold(c) ==
  /\ cases[c].reason = Explicit
  /\ orders[cases[c].order].hold
  /\ orders[cases[c].order].holdReason = Explicit

CancelledState(c, dv) ==
  [session.state EXCEPT !.dv = dv, !.submitted = FALSE, !.handoff = c,
                        !.reason = cases[c].reason]

\* The order of case `c` after its cancellation, at draft version `dv`.
CancelledOrder(c, dv) ==
  LET order == orders[cases[c].order]
      mandatory == cases[c].reason # Explicit
  IN  [order EXCEPT
        !.dv = dv,
        !.status = IF @ = "CUSTOMER_CONFIRMED" THEN "DRAFT" ELSE @,
        !.hold = mandatory \/ (@ /\ ~ ReleasesHold(c)),
        !.holdReason = IF mandatory THEN cases[c].reason
                       ELSE IF ReleasesHold(c) THEN NoReason ELSE @]

\* _apply_cancellation_effects on the order, its confirmation and the session.
CancelCase(c) ==
  LET o == cases[c].order
      step == IF AdvancesDraft(o) THEN 1 ELSE 0
      dv == IF o = 0 THEN session.state.dv + step
            ELSE Max2(orders[o].dv + step, session.state.dv)
  IN  /\ session.version < MaxVersion
      /\ dv \in DraftVersions
      /\ MoveCase(c, "CANCELLED")
      /\ invalidated' = Invalidate(o)
      /\ orders' = IF o = 0 THEN orders ELSE [orders EXCEPT ![o] = CancelledOrder(c, dv)]
      /\ SaveState(CancelledState(c, dv))

-----------------------------------------------------------------------------
(* Chat turns                                                                *)

\* PersistentSessionStore.get under the session lock.
ReceiveMessage(w, msg) ==
  /\ turn[w].step = "idle"
  /\ msg.kind \in Kinds
  /\ ~ session.closed
  /\ session.version < MaxVersion
  /\ turn' = [turn EXCEPT ![w] =
       [ step |-> "preflight", msg |-> msg, state |-> session.state,
         version |-> session.version, case |-> 0 ]]
  /\ UNCHANGED << tables, counters, request, told >>

\* Bug: a failed case no longer blocks.
CarriedSignals_FailedPasses(state) ==
  LET status == CaseStatus(state.handoff)
  IN  IF /\ state.reason # NoReason
         /\ status \in Active \/ (status = "CANCELLED" /\ state.reason # Explicit)
      THEN { state.reason } ELSE {}

\* Bug: any cancelled case lets the session go on.
CarriedSignals_CancelledPasses(state) ==
  IF /\ state.reason # NoReason
     /\ CaseStatus(state.handoff) \in Active \union { "FAILED" }
  THEN { state.reason } ELSE {}

\* The session's own reason still counts while its case blocks the draft, or was
\* mandatory and cancelled.
CarriedSignals(state) ==
  LET status == CaseStatus(state.handoff)
      blocking == status \in Active \union { "FAILED" }
      mandatoryCancelled == status = "CANCELLED" /\ state.reason # Explicit
  IN  IF state.reason # NoReason /\ (blocking \/ mandatoryCancelled)
      THEN { state.reason } ELSE {}

HeardSignals(msg) == IF msg.kind = "signal" THEN { msg.arg } ELSE {}

\* What the safety preflight decides on a message in a given session state.
PreflightDecision(msg, state, c, confidence) ==
  LET signals == HeardSignals(msg) \union CarriedSignals(state)
  IN  Evaluate(signals, c, confidence, signals # {}, msg.kind = "ambiguous")

\* A language switch, or a clarification asked again, is answered and saved
\* before the preflight.
AnswerBeforePreflight(w) ==
  /\ turn[w].step = "preflight"
  /\ turn[w].msg.kind \in { "ambiguous", "unclear" }
  /\ Goto(w, "save", turn[w].state)
  /\ UNCHANGED << tables, counters, request, told >>

\* _handle_safety_preflight finds nothing to evaluate.
PreflightPass(w) ==
  /\ turn[w].step = "preflight"
  /\ turn[w].msg.kind \notin { "signal", "ambiguous" }
  /\ ~ (turn[w].msg.kind = "cancel_handoff" /\ turn[w].state.handoff # 0)
  /\ CarriedSignals(turn[w].state) = {}
  /\ Goto(w, "orchestrate", turn[w].state)
  /\ UNCHANGED << tables, counters, request, told >>

\* It evaluates, always when there is a signal or something to confirm and else
\* when the client sent confidences: REFUSE and CONFIRM answer and save, HANDOFF
\* invalidates the confirmation in memory and goes on to request the handoff,
\* AUTO_DRAFT lets the message through.
PreflightGuard(w, confidence) ==
  LET state == turn[w].state
      msg == turn[w].msg
      signals == HeardSignals(msg) \union CarriedSignals(state)
      c == AdvanceCounters(counters, signals, confidence, signals # {})
      d == PreflightDecision(msg, state, c, confidence)
  IN  /\ turn[w].step = "preflight"
      /\ ~ (msg.kind = "cancel_handoff" /\ state.handoff # 0)
      /\ counters' = c
      /\ IF d.class = "HANDOFF"
         THEN /\ state.submitted => state.dv < MaxDraft
              /\ Goto(w, "handoff",
                   [state EXCEPT !.reason = d.reason, !.submitted = FALSE,
                                 !.dv = IF state.submitted THEN @ + 1 ELSE @])
         ELSE Goto(w, IF d.class = "AUTO_DRAFT" THEN "orchestrate" ELSE "save",
                   [state EXCEPT !.reason = d.reason])
      /\ UNCHANGED << tables, request, told >>

\* "cancel handoff": the active case is cancelled; the in-memory state takes
\* over the row's draft version and is saved again unless the turn was already
\* classified HANDOFF.
PreflightCancel(w) ==
  LET state == turn[w].state
      c == state.handoff
      next == [state EXCEPT !.submitted = FALSE, !.dv = session'.state.dv]
  IN  /\ turn[w].step = "preflight"
      /\ turn[w].msg.kind = "cancel_handoff" /\ c # 0
      /\ IsActive(c)
      /\ CancelCase(c)
      /\ IF state.reason \in HandoffReasons THEN EndTurn(w)
         ELSE turn' = [turn EXCEPT ![w].step = "save", ![w].state = next,
                                   ![w].version = session'.version]
      /\ UNCHANGED << confirmed, idempotency, counters, request, told >>

\* The case is closed already: CANCELLED is an idempotent replay, RESOLVED and
\* FAILED are an invalid transition and the turn fails.
PreflightCancelAgain(w) ==
  LET state == turn[w].state
      row == session.state
      next == [state EXCEPT !.submitted = FALSE, !.dv = row.dv]
  IN  /\ turn[w].step = "preflight"
      /\ turn[w].msg.kind = "cancel_handoff" /\ state.handoff # 0
      /\ ~ IsActive(state.handoff)
      /\ IF CaseStatus(state.handoff) # "CANCELLED" \/ state.reason \in HandoffReasons
         THEN EndTurn(w)
         ELSE IF row.submitted THEN Goto(w, "save", state)
         ELSE turn' = [turn EXCEPT ![w].step = "save", ![w].state = next,
                                   ![w].version = session.version]
      /\ UNCHANGED << tables, counters, request, told >>

\* The postflight audit of an orchestrated turn that hears `signals` and leaves
\* `state`: too many misunderstandings hand the turn off, any other outcome
\* clears the safety reason and goes on to `step`.
Audit(w, signals, state, step) ==
  LET c == AdvanceCounters(counters, signals, "missing", TRUE)
      d == Evaluate(signals, c, "missing", TRUE, FALSE)
  IN  /\ counters' = c
      /\ Goto(w, IF d.class = "HANDOFF" THEN "handoff" ELSE step,
              [state EXCEPT !.reason = d.reason])
      /\ UNCHANGED << tables, request, told >>

Orchestrating(w, submitted) ==
  turn[w].step = "orchestrate" /\ turn[w].state.submitted = submitted

\* Bug: emptying the draft is not a material change.
VersionAfter_EmptyKeeps(state, items) ==
  IF items \in { state.items, NoItems } THEN state.dv ELSE state.dv + 1

\* A material change of the draft is a new draft version.
VersionAfter(state, items) ==
  IF items = state.items THEN state.dv ELSE state.dv + 1

EditDraft(w) ==
  LET state == turn[w].state
      items == turn[w].msg.arg
      dv == VersionAfter(state, items)
  IN  /\ Orchestrating(w, FALSE)
      /\ turn[w].msg.kind = "edit"
      /\ dv \in DraftVersions
      /\ Audit(w, { "UNDERSTOOD" }, [state EXCEPT !.items = items, !.dv = dv], "save")

\* A complete draft is marked submitted in memory, to be confirmed next.
SubmitDraft(w) ==
  /\ Orchestrating(w, FALSE)
  /\ turn[w].msg.kind = "confirm"
  /\ turn[w].state.items # NoItems
  /\ Audit(w, { "UNDERSTOOD", "FINAL_ORDER", "CONFIRMATION_SUCCEEDED" },
           [turn[w].state EXCEPT !.submitted = TRUE], "confirm")

\* "开始新订单" on a submitted session: a fresh state for the next order taking.
StartNewOrder(w) ==
  /\ Orchestrating(w, TRUE)
  /\ turn[w].msg.kind = "new_order"
  /\ turn[w].state.taking < MaxTakings
  /\ Audit(w, { "UNDERSTOOD" }, FreshState(turn[w].state.taking + 1), "save")

\* A locked order, or an incomplete draft (no items, address or phone).
AnswerOnly(w) ==
  /\ \/ Orchestrating(w, TRUE) /\ turn[w].msg.kind # "new_order"
     \/ Orchestrating(w, FALSE) /\ turn[w].msg.kind = "confirm"
  /\ Audit(w, { "UNDERSTOOD" }, turn[w].state, "save")

\* The router understands nothing it can do.
Misunderstand(w) ==
  /\ Orchestrating(w, FALSE)
  /\ turn[w].msg.kind \in { "unclear", "new_order", "cancel_handoff" }
  /\ Audit(w, { "MISUNDERSTANDING" }, turn[w].state, "save")

\* The parser finds no canonical text: answered and saved without an audit.
UnparsedMessage(w) ==
  /\ turn[w].step = "orchestrate"
  /\ turn[w].msg.kind \in { "unclear", "cancel_handoff" }
  /\ Goto(w, "save", turn[w].state)
  /\ UNCHANGED << tables, counters, request, told >>

\* request_handoff within a turn: an active case is reused, or a new one opened
\* and settled next.
TurnRequestsHandoff(w) ==
  LET state == turn[w].state
  IN  /\ turn[w].step = "handoff"
      /\ \/ \E c \in DOMAIN cases :
              /\ ReuseCase(c, state.reason)
              /\ Goto(w, "save", [state EXCEPT !.handoff = c])
         \/ /\ OpenCase(state.reason)
            /\ turn' = [turn EXCEPT ![w].step = "pending", ![w].case = Len(cases')]
      /\ UNCHANGED << session, confirmed, idempotency, counters, request, told >>

TurnSettlesHandoff(w) ==
  LET settled == [turn[w].state EXCEPT !.handoff = turn[w].case]
  IN  /\ turn[w].step \in { "pending", "settle", "fail" }
      /\ \/ \E next \in { "settle", "fail" } :
              SettleRequest(turn[w].step, turn[w].case, next) /\ Goto(w, next, turn[w].state)
         \/ SettleRequest(turn[w].step, turn[w].case, "done") /\ Goto(w, "save", settled)
      /\ UNCHANGED << session, orders, confirmed, invalidated, idempotency,
                      counters, request, told >>

\* Bug: the row is written at any version.
MaySave_AnyVersion(w) == ~ session.closed

\* PersistentSessionStore.set: refused on a closed session or another version.
MaySave(w) == ~ session.closed /\ session.version = turn[w].version

SaveTurn(w) ==
  /\ turn[w].step = "save"
  /\ IF MaySave(w) THEN session.version < MaxVersion /\ SaveState(turn[w].state)
     ELSE UNCHANGED session
  /\ EndTurn(w)
  /\ UNCHANGED << orders, confirmed, invalidated, idempotency, cases,
                  counters, request, told >>

-----------------------------------------------------------------------------
(* Confirmation: OrderPersistenceService.confirm_order                       *)

\* Bug: a missing key is stored as it is.
KeyOf_NoDefault(w) == << "client", turn[w].msg.arg >>

\* The idempotency key of a turn: the client's, or confirm:<session>:<version>.
KeyOf(w) == IF turn[w].msg.arg = NoKey THEN << "confirm", turn[w].state.dv >>
            ELSE << "client", turn[w].msg.arg >>

RecordsOf(w) == { r \in idempotency : r.key = KeyOf(w) }

\* The draft to confirm is the persisted one (_draft_fingerprint).
DraftIsPersisted(w) ==
  /\ session.state.dv = turn[w].state.dv
  /\ session.state.items = turn[w].state.items

\* Bug: confirmed whatever was saved since the turn read the session.
ReadAtThisVersion_Unchecked(w) == TRUE

ReadAtThisVersion(w) == turn[w].version = session.version

\* The request fingerprints are equal.
SameRequest(w, r) == r.dv = turn[w].state.dv /\ r.items = turn[w].state.items

\* Bug: what became of the order since is not looked at.
StillConfirmed_Assumed(w, r) == TRUE

StillConfirmed(w, r) ==
  /\ orders[r.order].status = "CUSTOMER_CONFIRMED"
  /\ Valid(r.order, turn[w].state.dv)

\* Answered again, or placed.
Tell(w, o) == told' = [told EXCEPT ![turn[w].state.taking].order = o]
TellPlaced(w, o) ==
  told' = [told EXCEPT ![turn[w].state.taking] = [ order |-> o, placed |-> o ]]

\* The key is known with the same request, whose order is still confirmed.
ConfirmReplay(w) ==
  /\ turn[w].step = "confirm"
  /\ DraftIsPersisted(w)
  /\ \E r \in RecordsOf(w) :
       /\ SameRequest(w, r)
       /\ StillConfirmed(w, r)
       /\ Tell(w, r.order)
  /\ EndTurn(w)
  /\ UNCHANGED << tables, counters, request >>

\* The latest order is confirmed again if it is a draft of the same version,
\* else a new one is created.
ConfirmOrder(w) ==
  LET state == turn[w].state
      reuse == /\ Latest # 0
               /\ orders[Latest].status = "DRAFT"
               /\ orders[Latest].dv = state.dv
      o == IF reuse THEN Latest ELSE Latest + 1
      order == [ status |-> "CUSTOMER_CONFIRMED", dv |-> state.dv, items |-> state.items,
                 hold |-> FALSE, holdReason |-> NoReason ]
  IN  /\ turn[w].step = "confirm"
      /\ DraftIsPersisted(w)
      /\ RecordsOf(w) = {}
      /\ ReadAtThisVersion(w)
      /\ Latest # 0 => ~ orders[Latest].hold
      /\ << o, state.dv >> \notin confirmed
      /\ o <= MaxOrders /\ session.version < MaxVersion
      /\ orders' = IF reuse THEN [orders EXCEPT ![o].status = "CUSTOMER_CONFIRMED",
                                                ![o].items = state.items]
                   ELSE Append(orders, order)
      /\ confirmed' = confirmed \union {<< o, state.dv >>}
      /\ idempotency' = idempotency \union
           {[ key |-> KeyOf(w), dv |-> state.dv, items |-> state.items, order |-> o ]}
      /\ SaveState(state)
      /\ TellPlaced(w, o)
      /\ EndTurn(w)
      /\ UNCHANGED << invalidated, cases, counters, request >>

\* Any other outcome (a stale draft, a conflict, a hold, or a menu, currency or
\* delivery zone that no longer fits the draft) fails the turn and stores nothing.
ConfirmRejected(w) ==
  /\ turn[w].step = "confirm"
  /\ EndTurn(w)
  /\ UNCHANGED << tables, counters, request, told >>

-----------------------------------------------------------------------------
(* The REST handoff controls, the simulated human side                       *)

\* POST /handoffs: the session is read and the reason audited ...
RestEvaluates(client, reason) ==
  LET c == AdvanceCounters(counters, {reason}, "missing", TRUE)
      d == Evaluate({reason}, c, "missing", TRUE, FALSE)
  IN  /\ request[client].step = "idle"
      /\ ~ session.closed
      /\ counters' = c
      /\ request' = [request EXCEPT ![client] =
                       [ step |-> "open", reason |-> d.reason, case |-> 0 ]]
      /\ UNCHANGED << tables, turn, told >>

\* ... and the handoff requested as in a turn, but the session is not written.
RestRequestsHandoff(client) ==
  LET reason == request[client].reason
  IN  /\ request[client].step = "open"
      /\ \/ /\ \E c \in DOMAIN cases : ReuseCase(c, reason)
            /\ request' = [request EXCEPT ![client] = IdleRequest]
         \/ /\ OpenCase(reason)
            /\ request' = [request EXCEPT ![client].step = "pending",
                                          ![client].case = Len(cases')]
      /\ UNCHANGED << session, confirmed, idempotency, counters, turn, told >>

RestSettlesHandoff(client) ==
  LET call == request[client]
  IN  /\ call.step \in { "pending", "settle", "fail" }
      /\ \/ \E next \in { "settle", "fail" } :
              /\ SettleRequest(call.step, call.case, next)
              /\ request' = [request EXCEPT ![client].step = next]
         \/ /\ SettleRequest(call.step, call.case, "done")
            /\ request' = [request EXCEPT ![client] = IdleRequest]
      /\ UNCHANGED << session, orders, confirmed, invalidated, idempotency,
                      counters, turn, told >>

\* simulate-assign, -connect, -fail and -resolve read the case and validate the
\* transition ...
RestReadsCase(client, c, to) ==
  /\ request[client].step = "idle"
  /\ MayMove(cases[c].status, to)
  /\ request' = [request EXCEPT ![client] =
                   [ step |-> to, reason |-> NoReason, case |-> c ]]
  /\ UNCHANGED << tables, counters, turn, told >>

\* A resolution with a changed draft puts the case's order back to a held draft.
ResolvedOrder(o) ==
  [orders EXCEPT ![o].dv = @ + 1, ![o].status = "DRAFT", ![o].hold = TRUE]

\* ... and write it.
RestWritesCase(client, draftChanged) ==
  LET call == request[client]
      o == cases[call.case].order
  IN  /\ call.step \in ControlTargets
      /\ WriteStatus(call.case, call.step)
      /\ IF draftChanged /\ o # 0
         THEN call.step = "RESOLVED" /\ orders[o].dv < MaxDraft /\ orders' = ResolvedOrder(o)
         ELSE UNCHANGED orders
      /\ request' = [request EXCEPT ![client] = IdleRequest]
      /\ UNCHANGED << session, confirmed, invalidated, idempotency,
                      counters, turn, told >>

\* POST /handoffs/{id}/cancel; of a cancelled case it changes nothing.
RestCancel(c) ==
  /\ CancelCase(c)
  /\ UNCHANGED << confirmed, idempotency, counters, turn, request, told >>

-----------------------------------------------------------------------------
(* Failures, reset and administration                                                 *)

\* A unit of work that fails is rolled back and ends its turn or request; so
\* does the death of the process.  What was committed before stays.
TurnFails(w) ==
  /\ turn[w].step # "idle"
  /\ EndTurn(w)
  /\ UNCHANGED << tables, counters, request, told >>

RestFails(client) ==
  /\ request[client].step # "idle"
  /\ request' = [request EXCEPT ![client] = IdleRequest]
  /\ UNCHANGED << tables, counters, turn, told >>

\* POST /reset closes the session, whatever its version and whoever runs a turn.
Reset ==
  /\ session.version < MaxVersion
  /\ session' = [ version |-> session.version + 1, closed |-> TRUE,
                  state |-> FreshState(session.state.taking) ]
  /\ UNCHANGED << orders, confirmed, invalidated, idempotency, cases,
                  counters, turn, request, told >>

\* invalidate_confirmation: a confirmed order is cancelled.
InvalidateConfirmation(o) ==
  /\ Valid(o, orders[o].dv)
  /\ orders[o].dv < MaxDraft
  /\ invalidated' = invalidated \union {<< o, orders[o].dv >>}
  /\ orders' = [orders EXCEPT ![o].dv = @ + 1, ![o].status = "CANCELLED"]
  /\ UNCHANGED << session, confirmed, idempotency, cases,
                  counters, turn, request, told >>

-----------------------------------------------------------------------------
(* Specification                                                             *)

Init ==
  /\ session = [ version |-> 1, closed |-> FALSE, state |-> FreshState(1) ]
  /\ counters = ZeroCounters
  /\ orders = << >> /\ cases = << >>
  /\ confirmed = {} /\ invalidated = {} /\ idempotency = {}
  /\ turn = [ w \in Workers |-> IdleTurn ]
  /\ request = [ r \in RestClients |-> IdleRequest ]
  /\ told = [ t \in Takings |-> [ order |-> 0, placed |-> 0 ] ]

Preflight(w) ==
  \/ AnswerBeforePreflight(w)
  \/ PreflightPass(w)
  \/ \E confidence \in ChatConfidences : PreflightGuard(w, confidence)
  \/ PreflightCancel(w)
  \/ PreflightCancelAgain(w)

Orchestrate(w) ==
  \/ EditDraft(w)
  \/ SubmitDraft(w)
  \/ StartNewOrder(w)
  \/ AnswerOnly(w)
  \/ Misunderstand(w)
  \/ UnparsedMessage(w)

Turn(w) ==
  \/ \E msg \in Messages : ReceiveMessage(w, msg)
  \/ Preflight(w)
  \/ Orchestrate(w)
  \/ TurnRequestsHandoff(w)
  \/ TurnSettlesHandoff(w)
  \/ SaveTurn(w)
  \/ ConfirmReplay(w)
  \/ ConfirmOrder(w)
  \/ ConfirmRejected(w)
  \/ TurnFails(w)

Rest(client) ==
  \/ \E reason \in RestReasons : RestEvaluates(client, reason)
  \/ RestRequestsHandoff(client)
  \/ RestSettlesHandoff(client)
  \/ \E c \in DOMAIN cases, to \in ControlTargets : RestReadsCase(client, c, to)
  \/ \E draftChanged \in BOOLEAN : RestWritesCase(client, draftChanged)
  \/ RestFails(client)

\* Without REST clients the handoff controls are disabled (_require_controls).
Cancellation ==
  RestClients # {} /\ \E c \in DOMAIN cases : RestCancel(c)

Next ==
  \/ \E w \in Workers : Turn(w)
  \/ \E client \in RestClients : Rest(client)
  \/ Cancellation
  \/ Reset
  \/ \E o \in DOMAIN orders : InvalidateConfirmation(o)

Spec == Init /\ [][Next]_vars

-----------------------------------------------------------------------------
(* Properties                                                                *)

\* A late transition overwrote what case `c`, a case of order `o`, or any case of
\* the session had become.
Overwritten(c) == c \in DOMAIN cases /\ cases[c].overwritten
Disturbed(o) == \E c \in DOMAIN cases : cases[c].order = o /\ cases[c].overwritten
LateTransition == \E c \in DOMAIN cases : cases[c].overwritten

\* A confirmation in force is that of its order's current draft version, and
\* the order is confirmed and not held; an order that is confirmed and not held
\* has such a confirmation.  (confirm_order, request_handoff, cancel, resolve
\* and invalidate_confirmation each write only some of these columns.)  Except
\* for an order disturbed by a late resolution, which changes the draft and
\* leaves its confirmation in force.
ConfirmationTracksOrder ==
  /\ \A p \in confirmed \ invalidated :
       /\ p[1] \in DOMAIN orders
       /\ \/ Disturbed(p[1])
          \/ /\ orders[p[1]].dv = p[2]
             /\ orders[p[1]].status = "CUSTOMER_CONFIRMED"
             /\ ~ orders[p[1]].hold
  /\ \A o \in DOMAIN orders :
       orders[o].status = "CUSTOMER_CONFIRMED" /\ ~ orders[o].hold
         => Valid(o, orders[o].dv)

\* An order still in DRAFT has no confirmation, even invalidated, at its
\* version or a later one: confirming it again never meets the unique
\* constraint on (order_id, draft_version).
DraftCanBeConfirmed ==
  \A p \in confirmed :
    /\ p[1] \in DOMAIN orders
    /\ orders[p[1]].dv >= p[2]
    /\ orders[p[1]].dv = p[2] => orders[p[1]].status # "DRAFT"

\* While a case is active no second case is, and the order it was opened for is
\* held: until it is closed, and a late transition makes it active again.
ActiveCaseHolds ==
  \A c \in DOMAIN cases : IsActive(c) =>
    /\ ActiveCases = {c}
    /\ cases[c].order # 0 => orders[cases[c].order].hold \/ cases[c].overwritten

\* What the customer is told is so when it is told: the order is confirmed, not
\* held, and holds what the customer's draft holds, a replay included.  Except
\* the replay of a confirmation that a late resolution left in force.
ToldTheTruth ==
  [][ \A w \in Workers : ConfirmReplay(w) \/ ConfirmOrder(w) =>
        LET o == told'[turn[w].state.taking].order
        IN  \/ /\ orders'[o].status = "CUSTOMER_CONFIRMED"
               /\ ~ orders'[o].hold
               /\ orders'[o].items = turn[w].state.items
               /\ orders'[o].dv = turn[w].state.dv
            \/ ConfirmReplay(w) /\ Disturbed(o) ]_vars

\* The session's case was opened before there was an order, and so holds none.
CaseOfNoOrder == session.state.handoff # 0 /\ cases[session.state.handoff].order = 0

\* A taking places another order only when the one that it placed before is no
\* longer confirmed: no double order, however often and with whichever key the
\* confirmation is sent.  Except after a handoff whose case was there before the
\* order, or once a late transition made a case active again: a later request
\* reuses it, and holds nothing.  (With turns that overlap within one taking, or
\* with turns of the session serialised.)
NoDoubleOrder ==
  [][ \A t \in Takings :
        LET o == told[t].placed
        IN  o # 0 /\ told'[t].placed # o
              => \/ orders'[o].status # "CUSTOMER_CONFIRMED"
                 \/ orders'[o].hold
                 \/ CaseOfNoOrder
                 \/ LateTransition ]_vars

\* What docs/phase-3/README.md:31 says without that exception: reconfirmation
\* after a cancelled request reuses the local order and creates no duplicate.
NoDuplicate ==
  [][ \A t \in Takings :
        LET o == told[t].placed
        IN  o # 0 /\ told'[t].placed # o
              => orders'[o].status # "CUSTOMER_CONFIRMED" \/ orders'[o].hold ]_vars

\* No order is confirmed while the session row points at a case that is active or
\* has failed, not even by a turn that was already under way.  Except a case that
\* a late transition made active, or failed, again.
GuardedSessionNeverConfirms ==
  [][ CaseStatus(session.state.handoff) \in Active \union { "FAILED" }
        => confirmed' = confirmed \/ Overwritten(session.state.handoff) ]_vars

\* A safety hold is lifted only by cancelling an explicit human request that was
\* opened for that order and holds it for that reason: no resolution, failure or
\* confirmation lifts it.
HoldLiftedByCancelOnly ==
  [][ \A o \in DOMAIN orders : orders[o].hold /\ ~ orders'[o].hold =>
        \E c \in DOMAIN cases :
          /\ cases[c].order = o /\ cases[c].reason = Explicit
          /\ orders[o].holdReason = Explicit
          /\ IsActive(c) /\ cases'[c].status = "CANCELLED" ]_vars

\* A session guarded for a mandatory reason stays guarded, whatever the customer
\* says next and whether its case fails or is cancelled.  Only the resolution of
\* the case, or an explicit request that takes the reason's place, ends it.
\* (With turns of the session serialised and the handoff controls disabled.)
MandatoryGuardStays ==
  [][ CarriedSignals(session.state) \ { Explicit } # {} /\ ~ session'.closed
        => \/ CarriedSignals(session.state)' \ { Explicit } # {}
           \/ session'.state.reason = Explicit
           \/ CaseStatus(session.state.handoff)' = "RESOLVED" ]_vars

\* Within an order taking the persisted draft version never goes back.
DraftVersionGrows ==
  [][ session'.state.taking = session.state.taking /\ ~ session'.closed
        => session'.state.dv >= session.state.dv ]_vars

\* A draft version names one content of the persisted draft, which the default
\* idempotency key relies on.  (With turns of the session serialised.)
VersionNamesContent ==
  [][ (/\ session'.state.taking = session.state.taking /\ ~ session'.closed
       /\ session'.state.dv = session.state.dv)
        => session'.state.items = session.state.items ]_vars

\* Every row of handoff_cases keeps the promise of a case.
Written(step) == CASE step = "settle" -> "PENDING" [] step = "fail" -> "FAILED" [] OTHER -> step
Validated(c) ==
  { Written(turn[w].step) : w \in { v \in Workers :
      turn[v].step \in { "settle", "fail" } /\ turn[v].case = c } } \union
  { Written(request[r].step) : r \in { s \in RestClients :
      request[s].step \in { "settle", "fail" } \union ControlTargets /\ request[s].case = c } }
Case(c) == INSTANCE HandoffCase WITH status <- CaseStatus(c), validated <- Validated(c)
CasesImplementLifecycle ==
  /\ \A c \in 1 .. MaxCases : Case(c)!CaseInit
  /\ [][ \A c \in 1 .. MaxCases :
           [Case(c)!CaseNext]_<< CaseStatus(c), Validated(c) >> ]_vars
=============================================================================
