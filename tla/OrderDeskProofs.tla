--------------------------- MODULE OrderDeskProofs --------------------------
(* Safety of OrderDesk, for every number of workers, REST clients, orders,    *)
(* cases, draft versions and drafts: type correctness, the invariants that    *)
(* tie orders, confirmations and handoff cases together, the action property  *)
(* on safety holds, the refinement of HandoffCase by every case, and what a   *)
(* turn may rely on while it holds the session's state in memory.  The last   *)
(* two sections say what besides depends on how turns interleave: one order   *)
(* per taking, one content per draft version, mandatory guards that stay.     *)
EXTENDS OrderDesk, SequenceTheorems, TLAPS

-----------------------------------------------------------------------------
(* Types: the typing invariant DeskInv, inductive with what a turn or a       *)
(* request at each step relies on, one lemma per action, and TypeCorrect.     *)

\* A non-empty set of the first eighteen indices has a least one (the longest
\* enumeration of the policy has eighteen codes).
LEMMA LeastOfEighteen ==
  ASSUME NEW T, NEW i \in 1 .. 18, i \in T
  PROVE  \E m \in 1 .. 18 : m \in T /\ \A k \in 1 .. (m - 1) : k \notin T
  OBVIOUS

\* The same for the eight refusal codes.
LEMMA LeastOfEight ==
  ASSUME NEW T, NEW i \in 1 .. 8, i \in T
  PROVE  \E m \in 1 .. 8 : m \in T /\ \A k \in 1 .. (m - 1) : k \notin T
  OBVIOUS

\* Foremost finds one of the handoff codes it is given.
LEMMA ForemostHandoff ==
  ASSUME NEW codes, codes \subseteq HandoffReasons, codes # {}
  PROVE  Foremost(HandoffReasonCode, codes) \in HandoffReasons
<1>1. DOMAIN HandoffReasonCode = 1 .. 18
  BY DEF HandoffReasonCode
<1>2. PICK i \in 1 .. 18 : HandoffReasonCode[i] \in codes
  BY <1>1 DEF HandoffReasons, CodesOf
<1> DEFINE T == { j \in 1 .. 18 : HandoffReasonCode[j] \in codes }
           Least(m) == /\ HandoffReasonCode[m] \in codes
                       /\ \A j \in 1 .. (m - 1) : HandoffReasonCode[j] \notin codes
<1>3. \E m \in 1 .. 18 : m \in T /\ \A k \in 1 .. (m - 1) : k \notin T
  <2>1. i \in T
    BY <1>2
  <2> HIDE DEF T
  <2> QED
    BY <2>1, LeastOfEighteen
<1>4. \E m \in DOMAIN HandoffReasonCode : Least(m)
  <2>1. PICK m \in 1 .. 18 : m \in T /\ \A k \in 1 .. (m - 1) : k \notin T
    BY <1>3
  <2>2. \A k \in 1 .. (m - 1) : k \in 1 .. 18
    OBVIOUS
  <2> QED
    BY <1>1, <2>1, <2>2
<1>5. Least(CHOOSE m \in DOMAIN HandoffReasonCode : Least(m))
  <2> HIDE DEF Least
  <2> QED
    BY <1>4
<1> QED
  BY <1>5 DEF Foremost

\* Foremost finds one of the refusal codes it is given.
LEMMA ForemostRefusal ==
  ASSUME NEW codes, codes \subseteq RefusalReasons, codes # {}
  PROVE  Foremost(RefusalReasonCode, codes) \in RefusalReasons
<1>1. DOMAIN RefusalReasonCode = 1 .. 8
  BY DEF RefusalReasonCode
<1>2. PICK i \in 1 .. 8 : RefusalReasonCode[i] \in codes
  BY <1>1 DEF RefusalReasons, CodesOf
<1> DEFINE T == { j \in 1 .. 8 : RefusalReasonCode[j] \in codes }
           Least(m) == /\ RefusalReasonCode[m] \in codes
                       /\ \A j \in 1 .. (m - 1) : RefusalReasonCode[j] \notin codes
<1>3. \E m \in 1 .. 8 : m \in T /\ \A k \in 1 .. (m - 1) : k \notin T
  <2>1. i \in T
    BY <1>2
  <2> HIDE DEF T
  <2> QED
    BY <2>1, LeastOfEight
<1>4. \E m \in DOMAIN RefusalReasonCode : Least(m)
  <2>1. PICK m \in 1 .. 8 : m \in T /\ \A k \in 1 .. (m - 1) : k \notin T
    BY <1>3
  <2>2. \A k \in 1 .. (m - 1) : k \in 1 .. 8
    OBVIOUS
  <2> QED
    BY <1>1, <2>1, <2>2
<1>5. Least(CHOOSE m \in DOMAIN RefusalReasonCode : Least(m))
  <2> HIDE DEF Least
  <2> QED
    BY <1>4
<1> QED
  BY <1>5 DEF Foremost

\* The policy engine decides with a reason of the right enumeration.
LEMMA EvaluateReason ==
  ASSUME NEW signals, NEW c, NEW confidence, NEW deterministic, NEW required
  PROVE  LET d == Evaluate(signals, c, confidence, deterministic, required)
         IN  /\ d.reason \in Reasons
             /\ d.class = "HANDOFF" => d.reason \in HandoffReasons
<1> DEFINE refusals == signals \cap RefusalReasons
           handoffs == (signals \cap HandoffReasons) \union CounterReasons(c)
<1>1. "REPEATED_MISUNDERSTANDING" \in HandoffReasons
  <2>1. HandoffReasonCode[4] = "REPEATED_MISUNDERSTANDING" /\ 4 \in DOMAIN HandoffReasonCode
    BY DEF HandoffReasonCode
  <2> QED
    BY <2>1 DEF HandoffReasons, CodesOf
<1>2. refusals \subseteq RefusalReasons
  OBVIOUS
<1>3. handoffs \subseteq HandoffReasons
  BY <1>1 DEF CounterReasons
<1>4. refusals # {} => Foremost(RefusalReasonCode, refusals) \in RefusalReasons
  BY <1>2, ForemostRefusal
<1>5. handoffs # {} => Foremost(HandoffReasonCode, handoffs) \in HandoffReasons
  BY <1>3, ForemostHandoff
<1> QED
  BY <1>4, <1>5 DEF Evaluate, Decision, Reasons

\* The counters stay within their limit.
LEMMA AdvanceCountersType ==
  ASSUME NEW c \in Counters, NEW signals, NEW confidence, NEW deterministic
  PROVE  AdvanceCounters(c, signals, confidence, deterministic) \in Counters
<1>1. \A n \in 0 .. CounterLimit : \A up, clear : Advance(n, up, clear) \in 0 .. CounterLimit
  BY DEF Advance, CounterLimit
<1> QED
  BY <1>1 DEF AdvanceCounters, Counters

\* A fresh session state is one.
LEMMA FreshStateType ==
  ASSUME NEW taking \in Takings
  PROVE  FreshState(taking) \in States
BY DeskAssumption DEF FreshState, States, DraftVersions, Contents, Reasons, NoReason

\* A worker between turns is in a turn's type.
LEMMA IdleTurnType == IdleTurn \in Turns
<1>1. 1 \in Takings
  BY DeskAssumption DEF Takings
<1> QED
  BY <1>1, FreshStateType, DeskAssumption DEF IdleTurn, Turns, Steps

-----------------------------------------------------------------------------
(* The type invariant, made inductive: what a turn or a request at a given    *)
(* step relies on, and that rows refer to rows that exist.                    *)

\* The steps that settle a requested case.
Settling == { "pending", "settle", "fail" }

\* `rows` are the ids of the handoff cases.
TurnOK(t, rows) ==
  /\ t.step # "idle" => t.msg \in Messages
  /\ t.step = "confirm" => t.msg.kind = "confirm"
  /\ t.step = "handoff" => t.state.reason \in HandoffReasons
  /\ t.step \in Settling => t.case \in rows

RequestOK(r, rows) ==
  /\ r.step = "open" => r.reason \in HandoffReasons
  /\ r.step \in Settling \union ControlTargets => r.case \in rows

RowsOK ==
  /\ \A c \in DOMAIN cases : cases[c].order <= Len(orders)
  /\ \A r \in idempotency : r.order <= Len(orders)

DeskInv ==
  /\ TypeOK
  /\ \A w \in Workers : TurnOK(turn[w], DOMAIN cases)
  /\ \A client \in RestClients : RequestOK(request[client], DOMAIN cases)
  /\ RowsOK

\* It holds initially.
LEMMA InitDesk == Init => DeskInv
<1> SUFFICES ASSUME Init PROVE DeskInv
  OBVIOUS
<1>1. TypeOK
  <2>1. 1 \in Takings /\ 1 \in 1 .. MaxVersion
    BY DeskAssumption DEF Takings
  <2>2. session \in [ version : 1 .. MaxVersion, closed : BOOLEAN, state : States ]
    BY <2>1, FreshStateType DEF Init
  <2>3. counters \in Counters
    BY DEF Init, ZeroCounters, Counters, CounterLimit
  <2>4. turn \in [ Workers -> Turns ]
    BY IdleTurnType DEF Init
  <2>5. IdleRequest \in Requests
    BY DeskAssumption DEF IdleRequest, Requests, NoReason
  <2>6. request \in [ RestClients -> Requests ]
    BY <2>5 DEF Init
  <2> QED
    BY <2>2, <2>3, <2>4, <2>6, DeskAssumption DEF Init, TypeOK, Answers
<1>2. \A w \in Workers : TurnOK(turn[w], DOMAIN cases)
  BY DEF Init, TurnOK, IdleTurn, Settling
<1>3. \A client \in RestClients : RequestOK(request[client], DOMAIN cases)
  BY DEF Init, RequestOK, IdleRequest, Settling, ControlTargets
<1>4. RowsOK
  BY DEF Init, RowsOK
<1> QED
  BY <1>1, <1>2, <1>3, <1>4 DEF DeskInv

\* A worker's turn is set, the rows it refers to still being there: the turns
\* stay well formed.
LEMMA TurnSet ==
  ASSUME DeskInv, NEW w \in Workers, NEW t \in Turns,
         turn' = [turn EXCEPT ![w] = t],
         TurnOK(t, DOMAIN cases'), DOMAIN cases \subseteq DOMAIN cases'
  PROVE  /\ turn' \in [ Workers -> Turns ]
         /\ \A v \in Workers : TurnOK(turn'[v], DOMAIN cases')
<1>1. turn \in [ Workers -> Turns ]
  BY DEF DeskInv, TypeOK
<1>2. turn' \in [ Workers -> Turns ]
  BY <1>1
<1>3. ASSUME NEW v \in Workers PROVE TurnOK(turn'[v], DOMAIN cases')
  <2>1. CASE v = w
    BY <2>1, <1>1 DEF TurnOK
  <2>2. CASE v # w
    BY <2>2, <1>1 DEF DeskInv, TurnOK
  <2> QED
    BY <2>1, <2>2
<1> QED
  BY <1>2, <1>3

\* The same for a client's request.
LEMMA RequestSet ==
  ASSUME DeskInv, NEW client \in RestClients, NEW r \in Requests,
         request' = [request EXCEPT ![client] = r],
         RequestOK(r, DOMAIN cases'), DOMAIN cases \subseteq DOMAIN cases'
  PROVE  /\ request' \in [ RestClients -> Requests ]
         /\ \A other \in RestClients : RequestOK(request'[other], DOMAIN cases')
<1>1. request \in [ RestClients -> Requests ]
  BY DEF DeskInv, TypeOK
<1>2. request' \in [ RestClients -> Requests ]
  BY <1>1
<1>3. ASSUME NEW other \in RestClients PROVE RequestOK(request'[other], DOMAIN cases')
  <2>1. CASE other = client
    BY <2>1, <1>1 DEF RequestOK
  <2>2. CASE other # client
    BY <2>2, <1>1 DEF DeskInv, RequestOK
  <2> QED
    BY <2>1, <2>2
<1> QED
  BY <1>2, <1>3

\* Turns and requests no step touches stay well formed while no case is deleted.
LEMMA TurnsKept ==
  ASSUME DeskInv, UNCHANGED turn, DOMAIN cases \subseteq DOMAIN cases'
  PROVE  turn' \in [ Workers -> Turns ] /\ \A w \in Workers : TurnOK(turn'[w], DOMAIN cases')
BY DEF DeskInv, TypeOK, TurnOK

\* The same for the requests.
LEMMA RequestsKept ==
  ASSUME DeskInv, UNCHANGED request, DOMAIN cases \subseteq DOMAIN cases'
  PROVE  /\ request' \in [ RestClients -> Requests ]
         /\ \A client \in RestClients : RequestOK(request'[client], DOMAIN cases')
BY DEF DeskInv, TypeOK, RequestOK

\* EndTurn and Goto set a turn of the type.
LEMMA EndTurnType ==
  ASSUME DeskInv, NEW w \in Workers, EndTurn(w), DOMAIN cases \subseteq DOMAIN cases'
  PROVE  turn' \in [ Workers -> Turns ] /\ \A v \in Workers : TurnOK(turn'[v], DOMAIN cases')
<1>1. TurnOK(IdleTurn, DOMAIN cases')
  BY DEF TurnOK, IdleTurn, Settling
<1> QED
  BY <1>1, IdleTurnType, TurnSet DEF EndTurn

\* Goto sets one too, when the step it goes to may be gone to.
LEMMA GotoType ==
  ASSUME DeskInv, NEW w \in Workers, NEW step \in Steps, NEW state \in States,
         turn[w].step # "idle", Goto(w, step, state),
         step = "confirm" => turn[w].msg.kind = "confirm",
         step = "handoff" => state.reason \in HandoffReasons,
         step \in { "pending", "settle", "fail" } => turn[w].case \in DOMAIN cases,
         DOMAIN cases \subseteq DOMAIN cases'
  PROVE  turn' \in [ Workers -> Turns ] /\ \A v \in Workers : TurnOK(turn'[v], DOMAIN cases')
<1> DEFINE t == [turn[w] EXCEPT !.step = step, !.state = state]
<1>1. turn[w] \in Turns /\ TurnOK(turn[w], DOMAIN cases)
  BY DEF DeskInv, TypeOK
<1>2. t \in Turns
  BY <1>1 DEF Turns
<1>3. turn' = [turn EXCEPT ![w] = t]
  BY DEF Goto
<1>4. TurnOK(t, DOMAIN cases')
  BY <1>1 DEF TurnOK, Turns, Settling
<1> QED
  BY <1>2, <1>3, <1>4, TurnSet

\* A step that touches only turns, counters and what the customer was told.
LEMMA TurnOnly ==
  ASSUME DeskInv, counters' \in Counters, turn' \in [ Workers -> Turns ],
         \A w \in Workers : TurnOK(turn'[w], DOMAIN cases'),
         told' \in [ Takings -> Answers ], UNCHANGED << tables, request >>
  PROVE  DeskInv'
<1>1. /\ request' \in [ RestClients -> Requests ]
      /\ \A client \in RestClients : RequestOK(request'[client], DOMAIN cases')
  BY RequestsKept DEF tables
<1>2. TypeOK'
  BY <1>1 DEF DeskInv, TypeOK, tables
<1>3. RowsOK'
  BY DEF DeskInv, RowsOK, tables
<1> QED
  BY <1>1, <1>2, <1>3 DEF DeskInv

\* No step deletes a case; told stays a function on the takings.
LEMMA TablesKept ==
  ASSUME DeskInv, UNCHANGED tables
  PROVE  DOMAIN cases \subseteq DOMAIN cases'
BY DEF tables

\* The types of what a turn holds.
LEMMA TurnTypes ==
  ASSUME DeskInv, NEW w \in Workers
  PROVE  /\ turn[w] \in Turns
         /\ turn[w].state \in States
         /\ turn[w].version \in 0 .. MaxVersion
         /\ turn[w].case \in 0 .. MaxCases
         /\ turn[w].step \in Steps
         /\ TurnOK(turn[w], DOMAIN cases)
BY DEF DeskInv, TypeOK, Turns

\* The types of the session row, the counters and what the customer was told.
LEMMA RowTypes ==
  ASSUME DeskInv
  PROVE  /\ session.state \in States
         /\ session.version \in 1 .. MaxVersion /\ session.version \in 0 .. MaxVersion
         /\ session.closed \in BOOLEAN
         /\ counters \in Counters
         /\ told \in [ Takings -> Answers ]
BY DeskAssumption DEF DeskInv, TypeOK

-----------------------------------------------------------------------------
(* The steps of a turn that write no table                                    *)

\* A message is received into a turn of the type.
LEMMA ReceiveMessageKeeps ==
  ASSUME DeskInv, NEW w \in Workers, NEW msg \in Messages, ReceiveMessage(w, msg)
  PROVE  DeskInv'
<1> DEFINE t == [ step |-> "preflight", msg |-> msg, state |-> session.state,
                  version |-> session.version, case |-> 0 ]
<1>1. t \in Turns
  BY DeskAssumption DEF DeskInv, TypeOK, Turns, Steps
<1>2. TurnOK(t, DOMAIN cases')
  BY DEF TurnOK, Settling
<1>3. turn' \in [ Workers -> Turns ] /\ \A v \in Workers : TurnOK(turn'[v], DOMAIN cases')
  BY <1>1, <1>2, TurnSet DEF ReceiveMessage, tables
<1> QED
  BY <1>3, TurnOnly DEF ReceiveMessage, DeskInv, TypeOK

\* An answer before the preflight leaves the state as it was read.
LEMMA AnswerBeforePreflightKeeps ==
  ASSUME DeskInv, NEW w \in Workers, AnswerBeforePreflight(w)
  PROVE  DeskInv'
<1>1. turn' \in [ Workers -> Turns ] /\ \A v \in Workers : TurnOK(turn'[v], DOMAIN cases')
  BY TurnTypes, TablesKept, GotoType DEF AnswerBeforePreflight, Steps
<1> QED
  BY <1>1, TurnOnly DEF AnswerBeforePreflight, DeskInv, TypeOK

\* A message that is not evaluated leaves the state as it was read.
LEMMA PreflightPassKeeps ==
  ASSUME DeskInv, NEW w \in Workers, PreflightPass(w)
  PROVE  DeskInv'
<1>1. turn' \in [ Workers -> Turns ] /\ \A v \in Workers : TurnOK(turn'[v], DOMAIN cases')
  BY TurnTypes, TablesKept, GotoType DEF PreflightPass, Steps
<1> QED
  BY <1>1, TurnOnly DEF PreflightPass, DeskInv, TypeOK

\* A message handed off carries one of the handoff reasons; its draft version
\* is raised only below the bound.
LEMMA PreflightGuardKeeps ==
  ASSUME DeskInv, NEW w \in Workers, NEW confidence, PreflightGuard(w, confidence)
  PROVE  DeskInv'
<1> DEFINE state == turn[w].state
           msg == turn[w].msg
           signals == HeardSignals(msg) \union CarriedSignals(state)
           c == AdvanceCounters(counters, signals, confidence, signals # {})
           d == PreflightDecision(msg, state, c, confidence)
           guarded == [state EXCEPT !.reason = d.reason, !.submitted = FALSE,
                                    !.dv = IF state.submitted THEN @ + 1 ELSE @]
           refused == [state EXCEPT !.reason = d.reason]
<1>1. counters' \in Counters /\ told' \in [ Takings -> Answers ]
  <2>1. c \in Counters
    BY RowTypes, AdvanceCountersType
  <2> QED
    BY <2>1, RowTypes DEF PreflightGuard
<1>2. d.reason \in Reasons /\ (d.class = "HANDOFF" => d.reason \in HandoffReasons)
  BY EvaluateReason DEF PreflightDecision
<1>3. state \in States /\ turn[w].step = "preflight"
  BY TurnTypes DEF PreflightGuard
<1>4. UNCHANGED << tables, request >> /\ DOMAIN cases \subseteq DOMAIN cases'
  BY TablesKept DEF PreflightGuard
<1>5. CASE d.class = "HANDOFF"
  <2>1. Goto(w, "handoff", guarded) /\ (state.submitted => state.dv < MaxDraft)
    BY <1>5 DEF PreflightGuard
  <2> HIDE DEF d
  <2>2. (IF state.submitted THEN state.dv + 1 ELSE state.dv) \in DraftVersions
    BY <1>3, <2>1, DeskAssumption DEF States, DraftVersions
  <2> HIDE DEF state
  <2>4. guarded \in States /\ guarded.reason \in HandoffReasons
    BY <1>2, <1>3, <1>5, <2>2 DEF States
  <2> HIDE DEF guarded
  <2>3. turn' \in [ Workers -> Turns ] /\ \A v \in Workers : TurnOK(turn'[v], DOMAIN cases')
    BY <1>3, <1>4, <2>1, <2>4, GotoType DEF Steps
  <2> QED
    BY <1>1, <1>4, <2>3, TurnOnly
<1>6. CASE d.class # "HANDOFF"
  <2>1. Goto(w, "save", refused) \/ Goto(w, "orchestrate", refused)
    BY <1>6 DEF PreflightGuard
  <2> HIDE DEF d
  <2>2. refused \in States
    BY <1>2, <1>3 DEF States
  <2> HIDE DEF refused, state
  <2>3. turn' \in [ Workers -> Turns ] /\ \A v \in Workers : TurnOK(turn'[v], DOMAIN cases')
    BY <1>3, <1>4, <2>1, <2>2, GotoType DEF Steps
  <2> QED
    BY <1>1, <1>4, <2>3, TurnOnly
<1> QED
  BY <1>5, <1>6

\* A repeated cancellation takes over the draft version of the row.
LEMMA PreflightCancelAgainKeeps ==
  ASSUME DeskInv, NEW w \in Workers, PreflightCancelAgain(w)
  PROVE  DeskInv'
<1> DEFINE state == turn[w].state
           next == [state EXCEPT !.submitted = FALSE, !.dv = session.state.dv]
           t == [turn[w] EXCEPT !.step = "save", !.state = next, !.version = session.version]
<1>1. turn[w] \in Turns /\ state \in States /\ turn[w].step = "preflight"
  BY TurnTypes DEF PreflightCancelAgain
<1>2. DOMAIN cases \subseteq DOMAIN cases'
  BY TablesKept DEF PreflightCancelAgain
<1>3. EndTurn(w) \/ Goto(w, "save", state) \/ turn' = [turn EXCEPT ![w] = t]
  BY DEF PreflightCancelAgain
<1>4. t \in Turns
  <2>1. next \in States
    BY <1>1, RowTypes DEF States
  <2> HIDE DEF next
  <2> QED
    BY <1>1, <2>1, RowTypes DEF Turns, Steps
<1>5. TurnOK(t, DOMAIN cases')
  BY <1>1, TurnTypes DEF TurnOK, Turns, Settling
<1>6. turn' \in [ Workers -> Turns ] /\ \A v \in Workers : TurnOK(turn'[v], DOMAIN cases')
  <2>1. CASE EndTurn(w)
    BY <2>1, <1>2, EndTurnType
  <2>2. CASE Goto(w, "save", state)
    BY <2>2, <1>1, <1>2, GotoType DEF Steps
  <2>3. CASE turn' = [turn EXCEPT ![w] = t]
    <3> HIDE DEF t
    <3> QED
      BY <2>3, <1>2, <1>4, <1>5, TurnSet
  <2> QED
    BY <1>3, <2>1, <2>2, <2>3
<1> QED
  BY <1>6, TurnOnly DEF PreflightCancelAgain, DeskInv, TypeOK

\* The postflight audit of a state of the type.
LEMMA AuditKeeps ==
  ASSUME DeskInv, NEW w \in Workers, NEW signals, NEW state \in States,
         NEW step \in { "save", "confirm" }, turn[w].step # "idle",
         step = "confirm" => turn[w].msg.kind = "confirm",
         Audit(w, signals, state, step)
  PROVE  DeskInv'
<1> DEFINE c == AdvanceCounters(counters, signals, "missing", TRUE)
           d == Evaluate(signals, c, "missing", TRUE, FALSE)
           to == IF d.class = "HANDOFF" THEN "handoff" ELSE step
           next == [state EXCEPT !.reason = d.reason]
<1>1. c \in Counters
  BY AdvanceCountersType DEF DeskInv, TypeOK
<1>2. d.reason \in Reasons /\ (d.class = "HANDOFF" => d.reason \in HandoffReasons)
  BY EvaluateReason
<1>3. Goto(w, to, next)
  BY DEF Audit
<1>4. DOMAIN cases \subseteq DOMAIN cases'
  BY TablesKept DEF Audit
<1> HIDE DEF d
<1>5. next \in States /\ next.reason = d.reason
  BY <1>2 DEF States
<1>6. /\ to \in Steps \ { "pending", "settle", "fail" }
      /\ to = "confirm" => turn[w].msg.kind = "confirm"
      /\ to = "handoff" => next.reason \in HandoffReasons
  BY <1>2, <1>5 DEF Steps
<1> HIDE DEF to, next
<1>7. turn' \in [ Workers -> Turns ] /\ \A v \in Workers : TurnOK(turn'[v], DOMAIN cases')
  BY <1>3, <1>4, <1>5, <1>6, GotoType
<1> QED
  BY <1>1, <1>7, TurnOnly DEF Audit, DeskInv, TypeOK

\* An edited draft is one of the contents, at a version within the bound.
LEMMA EditDraftKeeps ==
  ASSUME DeskInv, NEW w \in Workers, EditDraft(w)
  PROVE  DeskInv'
<1> DEFINE state == turn[w].state
           items == turn[w].msg.arg
           dv == VersionAfter(state, items)
           next == [state EXCEPT !.items = items, !.dv = dv]
<1>1. turn[w].step = "orchestrate" /\ dv \in DraftVersions
  BY DEF EditDraft, Orchestrating
<1>2. items \in Contents
  BY <1>1, TurnTypes DEF TurnOK, Messages, EditDraft
<1>3. next \in States
  <2> HIDE DEF items, dv
  <2> QED
    BY <1>1, <1>2, TurnTypes DEF States
<1> QED
  BY <1>1, <1>3, AuditKeeps DEF EditDraft

\* Only a confirming message reaches the step "confirm".
LEMMA SubmitDraftKeeps ==
  ASSUME DeskInv, NEW w \in Workers, SubmitDraft(w)
  PROVE  DeskInv'
<1>1. turn[w].step = "orchestrate" /\ turn[w].msg.kind = "confirm"
  BY DEF SubmitDraft, Orchestrating
<1>2. [turn[w].state EXCEPT !.submitted = TRUE] \in States
  BY TurnTypes DEF States
<1> QED
  BY <1>1, <1>2, AuditKeeps DEF SubmitDraft

\* A new order taking starts from the fresh state.
LEMMA StartNewOrderKeeps ==
  ASSUME DeskInv, NEW w \in Workers, StartNewOrder(w)
  PROVE  DeskInv'
<1>1. turn[w].step = "orchestrate" /\ turn[w].state.taking < MaxTakings
  BY DEF StartNewOrder, Orchestrating
<1>2. turn[w].state.taking + 1 \in Takings
  BY <1>1, TurnTypes, DeskAssumption DEF States, Takings
<1> QED
  BY <1>1, <1>2, FreshStateType, AuditKeeps DEF StartNewOrder

\* An answer leaves the state but for its reason.
LEMMA AnswerOnlyKeeps ==
  ASSUME DeskInv, NEW w \in Workers, AnswerOnly(w)
  PROVE  DeskInv'
BY TurnTypes, AuditKeeps DEF AnswerOnly, Orchestrating

\* So does a misunderstanding.
LEMMA MisunderstandKeeps ==
  ASSUME DeskInv, NEW w \in Workers, Misunderstand(w)
  PROVE  DeskInv'
BY TurnTypes, AuditKeeps DEF Misunderstand, Orchestrating

\* An unparsed message leaves the state as it is.
LEMMA UnparsedMessageKeeps ==
  ASSUME DeskInv, NEW w \in Workers, UnparsedMessage(w)
  PROVE  DeskInv'
<1>1. turn' \in [ Workers -> Turns ] /\ \A v \in Workers : TurnOK(turn'[v], DOMAIN cases')
  BY TurnTypes, TablesKept, GotoType DEF UnparsedMessage, Steps
<1> QED
  BY <1>1, RowTypes, TurnOnly DEF UnparsedMessage

\* A turn that ends and stores nothing: a replay, a rejected confirmation, a failure.
LEMMA TurnEndsKeeps ==
  ASSUME DeskInv, NEW w \in Workers,
         ConfirmReplay(w) \/ ConfirmRejected(w) \/ TurnFails(w)
  PROVE  DeskInv'
<1>1. EndTurn(w) /\ UNCHANGED << tables, counters, request >>
  BY DEF ConfirmReplay, ConfirmRejected, TurnFails
<1>2. turn' \in [ Workers -> Turns ] /\ \A v \in Workers : TurnOK(turn'[v], DOMAIN cases')
  BY <1>1, TablesKept, EndTurnType
<1>3. told' \in [ Takings -> Answers ]
  <2>1. CASE ConfirmReplay(w)
    <3>1. PICK r \in idempotency : Tell(w, r.order)
      BY <2>1 DEF ConfirmReplay, RecordsOf
    <3>2. r.order \in 0 .. MaxOrders
      BY DeskAssumption DEF DeskInv, TypeOK, Records
    <3> QED
      BY <3>1, <3>2, RowTypes DEF Tell, Answers
  <2>2. CASE ConfirmRejected(w) \/ TurnFails(w)
    BY <2>2, RowTypes DEF ConfirmRejected, TurnFails
  <2> QED
    BY <2>1, <2>2
<1> QED
  BY <1>1, <1>2, <1>3, RowTypes, TurnOnly

-----------------------------------------------------------------------------
(* The steps that write a table                                               *)

\* The types of the tables.
TablesOK ==
  /\ orders \in Seq(Orders) /\ Len(orders) <= MaxOrders
  /\ confirmed \subseteq (1 .. MaxOrders) \X DraftVersions
  /\ invalidated \subseteq confirmed
  /\ idempotency \subseteq Records
  /\ cases \in Seq(Cases) /\ Len(cases) <= MaxCases
  /\ RowsOK

\* They follow from the invariant.
LEMMA TableTypes == DeskInv => TablesOK
BY DEF DeskInv, TypeOK, TablesOK

\* The types of their rows.
LEMMA RowsTyped ==
  ASSUME TablesOK
  PROVE  /\ \A o \in DOMAIN orders : orders[o] \in Orders
         /\ \A c \in DOMAIN cases : cases[c] \in Cases
         /\ DOMAIN orders = 1 .. Len(orders) /\ Len(orders) \in Nat
         /\ DOMAIN cases = 1 .. Len(cases) /\ Len(cases) \in Nat
BY DEF TablesOK

\* A step that keeps each part of the invariant keeps the invariant.
LEMMA Parts ==
  ASSUME session' \in [ version : 1 .. MaxVersion, closed : BOOLEAN, state : States ],
         counters' \in Counters, TablesOK',
         turn' \in [ Workers -> Turns ] /\ \A w \in Workers : TurnOK(turn'[w], DOMAIN cases'),
         /\ request' \in [ RestClients -> Requests ]
         /\ \A client \in RestClients : RequestOK(request'[client], DOMAIN cases'),
         told' \in [ Takings -> Answers ]
  PROVE  DeskInv'
BY DEF DeskInv, TypeOK, TablesOK

\* Replacing one element of a sequence leaves the others and the length.
LEMMA ReplaceRow ==
  ASSUME NEW S, NEW s \in Seq(S), NEW i \in DOMAIN s, NEW e \in S
  PROVE  LET t == [s EXCEPT ![i] = e]
         IN  /\ t \in Seq(S) /\ Len(t) = Len(s) /\ DOMAIN t = DOMAIN s
             /\ t[i] = e
             /\ \A k \in DOMAIN s : k # i => t[k] = s[k]
BY ExceptSeq

\* A transition changes the status of one case and nothing else of the table.
LEMMA MoveCaseType ==
  ASSUME TablesOK, NEW c \in DOMAIN cases, NEW to \in HandoffStatus, MoveCase(c, to)
  PROVE  /\ cases' \in Seq(Cases) /\ Len(cases') = Len(cases)
         /\ DOMAIN cases' = DOMAIN cases
         /\ \A k \in DOMAIN cases : cases'[k].order = cases[k].order
         /\ \A k \in DOMAIN cases : cases[k].overwritten => cases'[k].overwritten
<1> DEFINE row == [cases[c] EXCEPT !.status = to]
<1>1. cases' = [cases EXCEPT ![c] = row]
  BY DEF MoveCase
<1>2. cases[c] \in Cases
  BY RowsTyped
<1>3. row \in Cases /\ row.order = cases[c].order /\ row.overwritten = cases[c].overwritten
  BY <1>2 DEF Cases
<1> HIDE DEF row
<1> QED
  BY <1>1, <1>3, ReplaceRow DEF TablesOK

\* So does a transition validated on an earlier read, which also tells whether
\* the status was one that allows it.
LEMMA WriteStatusType ==
  ASSUME TablesOK, NEW c \in DOMAIN cases, NEW to \in HandoffStatus, WriteStatus(c, to)
  PROVE  /\ cases' \in Seq(Cases) /\ Len(cases') = Len(cases)
         /\ DOMAIN cases' = DOMAIN cases
         /\ \A k \in DOMAIN cases : cases'[k].order = cases[k].order
         /\ \A k \in DOMAIN cases : cases[k].overwritten => cases'[k].overwritten
<1> DEFINE late == ~ MayMove(cases[c].status, to)
           row == [cases[c] EXCEPT !.status = to, !.overwritten = @ \/ late]
<1>1. cases' = [cases EXCEPT ![c] = row]
  BY DEF WriteStatus
<1>2. cases[c] \in Cases
  BY RowsTyped
<1>3. /\ row \in Cases /\ row.order = cases[c].order
      /\ cases[c].overwritten => row.overwritten
  <2>1. (cases[c].overwritten \/ late) \in BOOLEAN
    OBVIOUS
  <2> HIDE DEF late
  <2> QED
    BY <1>2, <2>1 DEF Cases
<1> HIDE DEF row
<1> QED
  BY <1>1, <1>3, ReplaceRow DEF TablesOK

\* Settling a request writes the status of its case or leaves it.
LEMMA SettleType ==
  ASSUME TablesOK, NEW c \in DOMAIN cases, NEW step, NEW next, SettleRequest(step, c, next)
  PROVE  /\ cases' \in Seq(Cases) /\ Len(cases') = Len(cases)
         /\ DOMAIN cases' = DOMAIN cases
         /\ \A k \in DOMAIN cases : cases'[k].order = cases[k].order
         /\ \A k \in DOMAIN cases : cases[k].overwritten => cases'[k].overwritten
<1>1. "PENDING" \in HandoffStatus /\ "FAILED" \in HandoffStatus
  BY DEF HandoffStatus, Active, Terminal
<1>2. WriteStatus(c, "PENDING") \/ WriteStatus(c, "FAILED") \/ UNCHANGED cases
  BY DEF SettleRequest
<1>3. CASE UNCHANGED cases
  BY <1>3 DEF TablesOK
<1> QED
  BY <1>1, <1>2, <1>3, WriteStatusType

\* Invalidating adds confirmations that exist.
LEMMA InvalidateType ==
  ASSUME TablesOK, NEW o, invalidated' = Invalidate(o)
  PROVE  invalidated' \subseteq confirmed
BY DEF TablesOK, Invalidate

\* Opening a case appends it and may hold the latest order.
LEMMA OpenCaseType ==
  ASSUME TablesOK, NEW reason \in HandoffReasons, OpenCase(reason),
         UNCHANGED << confirmed, idempotency >>
  PROVE  /\ TablesOK'
         /\ Len(cases') = Len(cases) + 1 /\ DOMAIN cases \subseteq DOMAIN cases'
         /\ Len(cases') \in DOMAIN cases' /\ Len(cases') \in 0 .. MaxCases
<1> DEFINE row == [ status |-> "REQUESTED", reason |-> reason, order |-> Latest,
                    overwritten |-> FALSE ]
<1>1. row \in Cases
  BY DeskAssumption DEF TablesOK, Cases, HandoffStatus, Active, Latest
<1>2. cases' = Append(cases, row) /\ Len(cases) < MaxCases
  BY DEF OpenCase
<1>3. /\ cases' \in Seq(Cases) /\ Len(cases') = Len(cases) + 1
      /\ \A k \in DOMAIN cases : cases'[k] = cases[k]
      /\ cases'[Len(cases')] = row
  <2> HIDE DEF row
  <2> QED
    BY <1>1, <1>2 DEF TablesOK
<1>4. orders' \in Seq(Orders) /\ Len(orders') = Len(orders)
  <2>1. CASE Latest = 0
    BY <2>1 DEF OpenCase, HoldOrder, TablesOK
  <2>2. CASE Latest # 0
    <3> DEFINE held == [orders[Latest] EXCEPT !.hold = TRUE, !.holdReason = reason]
    <3>1. orders' = [orders EXCEPT ![Latest] = held]
      BY <2>2 DEF OpenCase, HoldOrder
    <3>2. Latest \in DOMAIN orders /\ orders[Latest] \in Orders
      BY <2>2, RowsTyped DEF Latest
    <3>3. held \in Orders
      BY <3>2 DEF Orders
    <3> HIDE DEF held
    <3> QED
      BY <3>1, <3>2, <3>3, ReplaceRow DEF TablesOK
  <2> QED
    BY <2>1, <2>2
<1>5. invalidated' \subseteq confirmed
  BY InvalidateType DEF OpenCase
<1>6. RowsOK'
  <2>1. row.order = Len(orders)
    BY DEF Latest
  <2> HIDE DEF row
  <2>2. \A k \in DOMAIN cases' : k \in DOMAIN cases \/ k = Len(cases')
    BY <1>3 DEF TablesOK
  <2> QED
    BY <1>3, <1>4, <2>1, <2>2 DEF TablesOK, RowsOK
<1> HIDE DEF row
<1> QED
  BY <1>2, <1>3, <1>4, <1>5, <1>6, DeskAssumption DEF TablesOK

\* Reusing a case changes its reason.
LEMMA ReuseCaseType ==
  ASSUME TablesOK, NEW c \in DOMAIN cases, NEW reason \in HandoffReasons,
         ReuseCase(c, reason)
  PROVE  /\ cases' \in Seq(Cases) /\ Len(cases') = Len(cases)
         /\ DOMAIN cases' = DOMAIN cases
         /\ \A k \in DOMAIN cases : cases'[k].order = cases[k].order
         /\ \A k \in DOMAIN cases : cases[k].overwritten => cases'[k].overwritten
<1> DEFINE row == [cases[c] EXCEPT !.reason = reason]
<1>1. cases' = [cases EXCEPT ![c] = row]
  BY DEF ReuseCase
<1>2. cases[c] \in Cases
  BY RowsTyped
<1>3. row \in Cases /\ row.order = cases[c].order /\ row.overwritten = cases[c].overwritten
  BY <1>2 DEF Cases
<1> HIDE DEF row
<1> QED
  BY <1>1, <1>3, ReplaceRow DEF TablesOK

\* A step that changes cases as above and leaves the orders keeps the tables.
LEMMA CasesMoved ==
  ASSUME TablesOK, cases' \in Seq(Cases), Len(cases') = Len(cases),
         \A k \in DOMAIN cases : cases'[k].order = cases[k].order,
         UNCHANGED << orders, confirmed, invalidated, idempotency >>
  PROVE  TablesOK' /\ DOMAIN cases' = DOMAIN cases
<1>1. DOMAIN cases' = DOMAIN cases
  BY RowsTyped
<1>2. RowsOK'
  BY <1>1 DEF TablesOK, RowsOK
<1> QED
  BY <1>1, <1>2 DEF TablesOK

\* The order after the cancellation of its case is one.
LEMMA CancelledOrderType ==
  ASSUME TablesOK, NEW c \in DOMAIN cases, NEW dv \in DraftVersions,
         cases[c].order \in DOMAIN orders
  PROVE  CancelledOrder(c, dv) \in Orders
<1> DEFINE order == orders[cases[c].order]
<1>1. order \in Orders /\ cases[c] \in Cases
  BY RowsTyped
<1>2. cases[c].reason \in HandoffReasons
  BY <1>1 DEF Cases
<1>3. ReleasesHold(c) \in BOOLEAN /\ (cases[c].reason # Explicit) \in BOOLEAN
  BY <1>1 DEF ReleasesHold, Orders
<1> DEFINE status == IF order.status = "CUSTOMER_CONFIRMED" THEN "DRAFT" ELSE order.status
           hold == cases[c].reason # Explicit \/ (order.hold /\ ~ ReleasesHold(c))
           holdReason == IF cases[c].reason # Explicit THEN cases[c].reason
                         ELSE IF ReleasesHold(c) THEN NoReason ELSE order.holdReason
<1>4. /\ status \in OrderStatus /\ hold \in BOOLEAN
      /\ holdReason \in HandoffReasons \union { NoReason }
  BY <1>1, <1>2, <1>3 DEF Orders, OrderStatus
<1>5. CancelledOrder(c, dv) = [order EXCEPT !.dv = dv, !.status = status, !.hold = hold,
                                            !.holdReason = holdReason]
  BY DEF CancelledOrder
<1> HIDE DEF order, status, hold, holdReason
<1> QED
  BY <1>1, <1>4, <1>5 DEF Orders

\* A session saved once more.
LEMMA SaveStateType ==
  ASSUME DeskInv, NEW state \in States, session.version < MaxVersion, SaveState(state)
  PROVE  session' \in [ version : 1 .. MaxVersion, closed : BOOLEAN, state : States ]
<1>1. session \in [ version : 1 .. MaxVersion, closed : BOOLEAN, state : States ]
  BY DEF DeskInv, TypeOK
<1>2. session.version + 1 \in 1 .. MaxVersion
  BY <1>1, DeskAssumption
<1> QED
  BY <1>1, <1>2 DEF SaveState

\* A cancellation keeps the tables and the session row.
LEMMA CancelCaseType ==
  ASSUME DeskInv, NEW c \in DOMAIN cases, CancelCase(c), UNCHANGED << confirmed, idempotency >>
  PROVE  /\ TablesOK' /\ DOMAIN cases' = DOMAIN cases
         /\ session' \in [ version : 1 .. MaxVersion, closed : BOOLEAN, state : States ]
<1> DEFINE o == cases[c].order
<1>1. TablesOK
  BY TableTypes
<1>2. cases[c] \in Cases /\ o \in 0 .. MaxOrders /\ o <= Len(orders)
  BY <1>1, RowsTyped DEF Cases, TablesOK, RowsOK
<1>3. PICK dv \in DraftVersions :
        /\ session.version < MaxVersion
        /\ MoveCase(c, "CANCELLED")
        /\ invalidated' = Invalidate(o)
        /\ orders' = IF o = 0 THEN orders ELSE [orders EXCEPT ![o] = CancelledOrder(c, dv)]
        /\ SaveState(CancelledState(c, dv))
  BY DEF CancelCase
<1>4. CancelledState(c, dv) \in States
  <2>1. c \in 0 .. MaxCases /\ cases[c].reason \in Reasons
    BY <1>1, <1>2, RowsTyped, DeskAssumption DEF Cases, Reasons, TablesOK
  <2> QED
    BY <2>1, RowTypes DEF CancelledState, States
<1>5. session' \in [ version : 1 .. MaxVersion, closed : BOOLEAN, state : States ]
  BY <1>3, <1>4, SaveStateType
<1>6. "CANCELLED" \in HandoffStatus
  BY DEF HandoffStatus, Terminal
<1>7. /\ cases' \in Seq(Cases) /\ Len(cases') = Len(cases)
      /\ DOMAIN cases' = DOMAIN cases
      /\ \A k \in DOMAIN cases : cases'[k].order = cases[k].order
  BY <1>1, <1>3, <1>6, MoveCaseType
<1>8. invalidated' \subseteq confirmed
  BY <1>1, <1>3, InvalidateType
<1>9. orders' \in Seq(Orders) /\ Len(orders') = Len(orders)
  <2>1. CASE o = 0
    BY <2>1, <1>1, <1>3 DEF TablesOK
  <2>2. CASE o # 0
    <3>1. o \in DOMAIN orders
      BY <2>2, <1>1, <1>2, RowsTyped
    <3>2. CancelledOrder(c, dv) \in Orders
      BY <1>1, <3>1, CancelledOrderType
    <3>3. orders' = [orders EXCEPT ![o] = CancelledOrder(c, dv)]
      BY <2>2, <1>3
    <3> QED
      BY <1>1, <3>1, <3>2, <3>3, ReplaceRow DEF TablesOK
  <2> QED
    BY <2>1, <2>2
<1>10. RowsOK'
  BY <1>1, <1>7, <1>9 DEF TablesOK, RowsOK
<1> QED
  BY <1>1, <1>5, <1>7, <1>8, <1>9, <1>10 DEF TablesOK

\* A cancellation within a turn: the turn takes over what the row now holds.
LEMMA PreflightCancelKeeps ==
  ASSUME DeskInv, NEW w \in Workers, PreflightCancel(w)
  PROVE  DeskInv'
<1> DEFINE state == turn[w].state
           c == state.handoff
           next == [state EXCEPT !.submitted = FALSE, !.dv = session'.state.dv]
           t == [turn[w] EXCEPT !.step = "save", !.state = next, !.version = session'.version]
<1>1. c \in DOMAIN cases /\ CancelCase(c)
  <2>1. IsActive(c) /\ CancelCase(c)
    BY DEF PreflightCancel
  <2> HIDE DEF c
  <2> QED
    BY <2>1 DEF IsActive, CaseStatus, Active
<1>2. /\ TablesOK' /\ DOMAIN cases' = DOMAIN cases
      /\ session' \in [ version : 1 .. MaxVersion, closed : BOOLEAN, state : States ]
  BY <1>1, CancelCaseType DEF PreflightCancel
<1>3. EndTurn(w) \/ turn' = [turn EXCEPT ![w] = t]
  BY DEF PreflightCancel
<1>4. turn[w] \in Turns /\ turn[w].step = "preflight"
  BY TurnTypes DEF PreflightCancel
<1>5. t \in Turns
  <2>1. next \in States
    BY <1>2, TurnTypes DEF States
  <2>2. session'.version \in 0 .. MaxVersion
    BY <1>2, DeskAssumption
  <2> HIDE DEF next
  <2> QED
    BY <1>4, <2>1, <2>2 DEF Turns, Steps
<1>6. TurnOK(t, DOMAIN cases')
  BY <1>4, TurnTypes DEF TurnOK, Turns, Settling
<1>7. turn' \in [ Workers -> Turns ] /\ \A v \in Workers : TurnOK(turn'[v], DOMAIN cases')
  <2> HIDE DEF t
  <2>1. CASE EndTurn(w)
    BY <2>1, <1>2, EndTurnType
  <2>2. CASE turn' = [turn EXCEPT ![w] = t]
    BY <2>2, <1>2, <1>5, <1>6, TurnSet
  <2> QED
    BY <1>3, <2>1, <2>2
<1> QED
  BY <1>2, <1>7, RowTypes, RequestsKept, Parts DEF PreflightCancel

\* The case a turn opens is the one it settles next, and it exists.
LEMMA TurnRequestsHandoffKeeps ==
  ASSUME DeskInv, NEW w \in Workers, TurnRequestsHandoff(w)
  PROVE  DeskInv'
<1> DEFINE state == turn[w].state
<1>1. /\ TablesOK /\ turn[w] \in Turns /\ state \in States
      /\ turn[w].step = "handoff" /\ state.reason \in HandoffReasons
  BY TableTypes, TurnTypes DEF TurnRequestsHandoff, TurnOK
<1>2. UNCHANGED << session, confirmed, idempotency, counters, request, told >>
  BY DEF TurnRequestsHandoff
<1>3. session' \in [ version : 1 .. MaxVersion, closed : BOOLEAN, state : States ]
  BY <1>2 DEF DeskInv, TypeOK
<1>4. CASE \E c \in DOMAIN cases :
             ReuseCase(c, state.reason) /\ Goto(w, "save", [state EXCEPT !.handoff = c])
  <2>1. PICK c \in DOMAIN cases :
          ReuseCase(c, state.reason) /\ Goto(w, "save", [state EXCEPT !.handoff = c])
    BY <1>4
  <2>2. TablesOK' /\ DOMAIN cases' = DOMAIN cases
    BY <1>1, <1>2, <2>1, ReuseCaseType, CasesMoved DEF ReuseCase
  <2>3. c \in 0 .. MaxCases
    BY <1>1, RowsTyped, DeskAssumption DEF TablesOK
  <2>4. [state EXCEPT !.handoff = c] \in States
    BY <1>1, <2>3 DEF States
  <2>5. turn' \in [ Workers -> Turns ] /\ \A v \in Workers : TurnOK(turn'[v], DOMAIN cases')
    BY <1>1, <2>1, <2>2, <2>4, GotoType DEF Steps
  <2> QED
    BY <1>2, <1>3, <2>2, <2>5, RowTypes, RequestsKept, Parts
<1>5. CASE /\ OpenCase(state.reason)
           /\ turn' = [turn EXCEPT ![w].step = "pending", ![w].case = Len(cases')]
  <2> DEFINE t == [turn[w] EXCEPT !.step = "pending", !.case = Len(cases')]
  <2>1. /\ TablesOK' /\ DOMAIN cases \subseteq DOMAIN cases'
        /\ Len(cases') \in DOMAIN cases' /\ Len(cases') \in 0 .. MaxCases
    BY <1>1, <1>2, <1>5, OpenCaseType
  <2>2. t \in Turns
    BY <1>1, <2>1 DEF Turns, Steps
  <2>3. TurnOK(t, DOMAIN cases')
    BY <1>1, <2>1, TurnTypes DEF TurnOK, Turns, Settling
  <2>4. turn' = [turn EXCEPT ![w] = t]
    BY <1>5
  <2> HIDE DEF t
  <2>5. turn' \in [ Workers -> Turns ] /\ \A v \in Workers : TurnOK(turn'[v], DOMAIN cases')
    BY <2>1, <2>2, <2>3, <2>4, TurnSet
  <2> QED
    BY <1>2, <1>3, <2>1, <2>5, RowTypes, RequestsKept, Parts
<1> QED
  BY <1>4, <1>5 DEF TurnRequestsHandoff

\* A turn settles a case that exists, which becomes the handoff of the state.
LEMMA TurnSettlesHandoffKeeps ==
  ASSUME DeskInv, NEW w \in Workers, TurnSettlesHandoff(w)
  PROVE  DeskInv'
<1> DEFINE c == turn[w].case
           settled == [turn[w].state EXCEPT !.handoff = c]
<1>1. /\ TablesOK /\ turn[w] \in Turns /\ turn[w].state \in States
      /\ turn[w].step \in Settling /\ turn[w].step # "idle" /\ c \in DOMAIN cases
  BY TableTypes, TurnTypes DEF TurnSettlesHandoff, TurnOK, Settling
<1>2. UNCHANGED << session, orders, confirmed, invalidated, idempotency, counters,
                   request, told >>
  BY DEF TurnSettlesHandoff
<1>3. settled \in States
  BY <1>1 DEF States, Turns
<1>4. PICK next \in { "settle", "fail", "done" } :
        /\ SettleRequest(turn[w].step, c, next)
        /\ IF next = "done" THEN Goto(w, "save", settled)
           ELSE Goto(w, next, turn[w].state)
  BY DEF TurnSettlesHandoff
<1> HIDE DEF settled, c
<1>5. TablesOK' /\ DOMAIN cases' = DOMAIN cases
  BY <1>1, <1>2, <1>4, SettleType, CasesMoved
<1>6. turn' \in [ Workers -> Turns ] /\ \A v \in Workers : TurnOK(turn'[v], DOMAIN cases')
  <2>1. CASE next = "done"
    BY <1>1, <1>3, <1>4, <1>5, <2>1, GotoType DEF Steps
  <2>2. CASE next # "done"
    BY <1>1, <1>4, <1>5, <2>2, GotoType DEF Steps, c
  <2> QED
    BY <2>1, <2>2
<1>7. session' \in [ version : 1 .. MaxVersion, closed : BOOLEAN, state : States ]
  BY <1>2 DEF DeskInv, TypeOK
<1> QED
  BY <1>2, <1>5, <1>6, <1>7, RowTypes, RequestsKept, Parts

\* The state a turn saves is of the type of the row.
LEMMA SaveTurnKeeps ==
  ASSUME DeskInv, NEW w \in Workers, SaveTurn(w)
  PROVE  DeskInv'
<1>1. /\ UNCHANGED << orders, confirmed, invalidated, idempotency, cases, counters,
                       request, told >>
      /\ EndTurn(w)
  BY DEF SaveTurn
<1>2. session' \in [ version : 1 .. MaxVersion, closed : BOOLEAN, state : States ]
  <2>1. CASE UNCHANGED session
    BY <2>1 DEF DeskInv, TypeOK
  <2>2. CASE session.version < MaxVersion /\ SaveState(turn[w].state)
    BY <2>2, TurnTypes, SaveStateType
  <2> QED
    BY <2>1, <2>2 DEF SaveTurn
<1>3. turn' \in [ Workers -> Turns ] /\ \A v \in Workers : TurnOK(turn'[v], DOMAIN cases')
  BY <1>1, EndTurnType
<1>4. TablesOK'
  BY <1>1, TableTypes DEF TablesOK, RowsOK
<1> QED
  BY <1>1, <1>2, <1>3, <1>4, RowTypes, RequestsKept, Parts

\* The key of a confirming turn is the client's or the default.
LEMMA KeyType ==
  ASSUME DeskInv, NEW w \in Workers, turn[w].step = "confirm"
  PROVE  KeyOf(w) \in Keys
<1>1. turn[w].msg \in Messages /\ turn[w].msg.kind = "confirm"
  BY TurnTypes DEF TurnOK
<1>2. turn[w].msg.arg \in ClientKeys \union { NoKey }
  BY <1>1 DEF Messages
<1>3. turn[w].state.dv \in DraftVersions
  BY TurnTypes DEF States
<1> QED
  BY <1>2, <1>3 DEF KeyOf, Keys

\* What ConfirmOrder writes when it confirms order `o`: the latest order again,
\* or one more.
Confirms(w, o) ==
  /\ o = Latest \/ o = Latest + 1
  /\ orders' \in Seq(Orders) /\ o = Len(orders') /\ o \in 1 .. MaxOrders
  /\ o \in DOMAIN orders' /\ DOMAIN orders \subseteq DOMAIN orders' /\ Latest <= o
  /\ \A k \in DOMAIN orders' : k # o => k \in DOMAIN orders /\ orders'[k] = orders[k]
  /\ orders'[o].status = "CUSTOMER_CONFIRMED"
  /\ orders'[o].dv = turn[w].state.dv /\ ~ orders'[o].hold
  /\ << o, turn[w].state.dv >> \notin confirmed
  /\ confirmed' = confirmed \union {<< o, turn[w].state.dv >>}
  /\ idempotency' = idempotency \union
       {[ key |-> KeyOf(w), dv |-> turn[w].state.dv, items |-> turn[w].state.items,
          order |-> o ]}
  /\ TellPlaced(w, o)

\* ConfirmOrder confirms some order in that way.
LEMMA ConfirmOrderRows ==
  ASSUME DeskInv, NEW w \in Workers, ConfirmOrder(w)
  PROVE  \E o \in 1 .. MaxOrders : Confirms(w, o)
<1> DEFINE state == turn[w].state
           reuse == /\ Latest # 0
                    /\ orders[Latest].status = "DRAFT"
                    /\ orders[Latest].dv = state.dv
           o == IF reuse THEN Latest ELSE Latest + 1
           order == [ status |-> "CUSTOMER_CONFIRMED", dv |-> state.dv, items |-> state.items,
                      hold |-> FALSE, holdReason |-> NoReason ]
           again == [orders[Latest] EXCEPT !.status = "CUSTOMER_CONFIRMED",
                                           !.items = state.items]
<1>1. /\ TablesOK /\ Latest = Len(orders) /\ Latest \in Nat /\ DOMAIN orders = 1 .. Latest
      /\ orders \in Seq(Orders)
  BY TableTypes, RowsTyped DEF Latest, TablesOK
<1>2. state.dv \in DraftVersions /\ state.items \in Contents
  BY TurnTypes DEF States
<1>3. /\ << o, state.dv >> \notin confirmed /\ o <= MaxOrders
      /\ confirmed' = confirmed \union {<< o, state.dv >>}
      /\ idempotency' = idempotency \union
           {[ key |-> KeyOf(w), dv |-> state.dv, items |-> state.items, order |-> o ]}
      /\ TellPlaced(w, o) /\ (Latest # 0 => ~ orders[Latest].hold)
  BY DEF ConfirmOrder
<1>4. CASE reuse
  <2>1. orders[Latest] \in Orders /\ Latest \in DOMAIN orders
    BY <1>1, <1>4, RowsTyped
  <2>2. again \in Orders /\ again.status = "CUSTOMER_CONFIRMED"
        /\ again.dv = state.dv /\ ~ again.hold
    BY <1>2, <1>3, <1>4, <2>1 DEF Orders, OrderStatus
  <2>3. orders' = [orders EXCEPT ![Latest] = again]
    BY <1>4 DEF ConfirmOrder
  <2>4. o = Latest /\ o # 0
    BY <1>4
  <2> HIDE DEF again, o, state
  <2>5. /\ orders' \in Seq(Orders) /\ Len(orders') = Latest
        /\ DOMAIN orders' = DOMAIN orders /\ orders'[Latest] = again
        /\ \A k \in DOMAIN orders : k # Latest => orders'[k] = orders[k]
    BY <1>1, <2>1, <2>2, <2>3, ReplaceRow
  <2>6. o \in 1 .. MaxOrders
    BY <1>1, <1>3, <2>4, DeskAssumption
  <2>7. Confirms(w, o)
    BY <1>1, <1>3, <2>1, <2>2, <2>4, <2>5, <2>6 DEF state, Confirms
  <2> QED
    BY <2>6, <2>7
<1>5. CASE ~ reuse
  <2>1. order \in Orders
    BY <1>2 DEF Orders, OrderStatus
  <2>2. orders' = Append(orders, order)
    BY <1>5 DEF ConfirmOrder
  <2>3. o = Latest + 1
    BY <1>5
  <2>4. order.status = "CUSTOMER_CONFIRMED" /\ order.dv = state.dv /\ ~ order.hold
    OBVIOUS
  <2> HIDE DEF order, o, state
  <2>5. /\ orders' \in Seq(Orders) /\ Len(orders') = Latest + 1
        /\ DOMAIN orders' = 1 .. Latest + 1 /\ orders'[Latest + 1] = order
        /\ \A k \in DOMAIN orders : orders'[k] = orders[k]
    BY <1>1, <2>1, <2>2
  <2>6. o \in 1 .. MaxOrders
    BY <1>1, <1>3, <2>3, DeskAssumption
  <2>7. Confirms(w, o)
    BY <1>1, <1>3, <2>3, <2>4, <2>5, <2>6 DEF state, Confirms
  <2> QED
    BY <2>6, <2>7
<1> QED
  BY <1>4, <1>5

\* The confirmation, its idempotency record and the order fit their tables.
LEMMA ConfirmOrderKeeps ==
  ASSUME DeskInv, NEW w \in Workers, ConfirmOrder(w)
  PROVE  DeskInv'
<1> DEFINE state == turn[w].state
<1>1. PICK o \in 1 .. MaxOrders :
        /\ orders' \in Seq(Orders) /\ o = Len(orders') /\ Len(orders) <= o
        /\ confirmed' = confirmed \union {<< o, state.dv >>}
        /\ idempotency' = idempotency \union
             {[ key |-> KeyOf(w), dv |-> state.dv, items |-> state.items, order |-> o ]}
        /\ TellPlaced(w, o)
  BY ConfirmOrderRows DEF Confirms, Latest
<1>2. /\ UNCHANGED << invalidated, cases, counters, request >>
      /\ EndTurn(w) /\ session.version < MaxVersion /\ SaveState(state)
      /\ turn[w].step = "confirm"
  BY DEF ConfirmOrder
<1>3. state \in States /\ state.dv \in DraftVersions /\ state.items \in Contents
  BY TurnTypes DEF States
<1>4. session' \in [ version : 1 .. MaxVersion, closed : BOOLEAN, state : States ]
  BY <1>2, <1>3, SaveStateType
<1>5. turn' \in [ Workers -> Turns ] /\ \A v \in Workers : TurnOK(turn'[v], DOMAIN cases')
  BY <1>2, EndTurnType
<1>6. told' \in [ Takings -> Answers ]
  <2>1. o \in 0 .. MaxOrders
    BY DeskAssumption
  <2>2. TellPlaced(w, o)
    BY <1>1
  <2> QED
    BY <2>1, <2>2, RowTypes DEF TellPlaced, Answers
<1>7. TablesOK'
  <2>1. TablesOK
    BY TableTypes
  <2> DEFINE r == [ key |-> KeyOf(w), dv |-> state.dv, items |-> state.items, order |-> o ]
  <2>2. r \in Records /\ r.order = o
    BY <1>2, <1>3, KeyType DEF Records
  <2> HIDE DEF r
  <2>3. idempotency' = idempotency \union {r}
    BY <1>1 DEF r
  <2>4. confirmed' \subseteq (1 .. MaxOrders) \X DraftVersions /\ invalidated' \subseteq confirmed'
    BY <1>1, <1>2, <1>3, <2>1 DEF TablesOK
  <2>5. Len(orders') \in Nat /\ Len(orders) \in Nat /\ Len(orders') <= MaxOrders
    BY <1>1, <2>1, DeskAssumption DEF TablesOK
  <2>6. \A c \in DOMAIN cases : cases[c].order \in Nat
    BY <2>1, RowsTyped, DeskAssumption DEF Cases
  <2>7. \A q \in idempotency : q.order \in Nat
    BY <2>1, DeskAssumption DEF TablesOK, Records
  <2>8. RowsOK'
    BY <1>1, <1>2, <2>1, <2>2, <2>3, <2>5, <2>6, <2>7 DEF TablesOK, RowsOK
  <2> QED
    BY <1>1, <1>2, <2>1, <2>2, <2>3, <2>4, <2>5, <2>8 DEF TablesOK
<1> QED
  BY <1>2, <1>4, <1>5, <1>6, <1>7, RowTypes, RequestsKept, Parts

\* A control writes the status of its case, and a resolution may change its order.
LEMMA RestWritesCaseType ==
  ASSUME TablesOK, NEW client \in RestClients, RequestOK(request[client], DOMAIN cases),
         NEW draftChanged, RestWritesCase(client, draftChanged)
  PROVE  TablesOK' /\ DOMAIN cases' = DOMAIN cases
<1> DEFINE c == request[client].case
           to == request[client].step
           o == cases[c].order
           held == [orders[o] EXCEPT !.dv = @ + 1, !.status = "DRAFT", !.hold = TRUE]
<1>1. c \in DOMAIN cases /\ to \in HandoffStatus
  BY DEF RestWritesCase, RequestOK, ControlTargets, HandoffStatus, Active, Terminal
<1>2. WriteStatus(c, to) /\ UNCHANGED << confirmed, invalidated, idempotency >>
  BY DEF RestWritesCase
<1>3. \/ UNCHANGED orders
      \/ o # 0 /\ orders[o].dv < MaxDraft /\ orders' = [orders EXCEPT ![o] = held]
  BY DEF RestWritesCase, ResolvedOrder
<1> HIDE DEF c, to
<1>4. /\ cases' \in Seq(Cases) /\ Len(cases') = Len(cases) /\ DOMAIN cases' = DOMAIN cases
      /\ \A k \in DOMAIN cases : cases'[k].order = cases[k].order
  BY <1>1, <1>2, WriteStatusType
<1>5. orders' \in Seq(Orders) /\ Len(orders') = Len(orders)
  <2>1. CASE UNCHANGED orders
    BY <2>1 DEF TablesOK
  <2>2. CASE o # 0 /\ orders[o].dv < MaxDraft /\ orders' = [orders EXCEPT ![o] = held]
    <3>1. cases[c] \in Cases /\ o <= Len(orders)
      BY <1>1, RowsTyped DEF TablesOK, RowsOK
    <3>2. o \in DOMAIN orders
      BY <2>2, <3>1, RowsTyped, DeskAssumption DEF Cases
    <3>3. orders[o] \in Orders
      BY <3>2, RowsTyped
    <3>4. orders[o].dv + 1 \in DraftVersions
      BY <2>2, <3>3, DeskAssumption DEF Orders, DraftVersions
    <3> HIDE DEF o
    <3>5. held \in Orders
      BY <3>3, <3>4 DEF Orders, OrderStatus
    <3> HIDE DEF held
    <3> QED
      BY <2>2, <3>2, <3>5, ReplaceRow DEF TablesOK
  <2> QED
    BY <1>3, <2>1, <2>2
<1> QED
  BY <1>2, <1>4, <1>5 DEF TablesOK, RowsOK

\* The steps of POST /handoffs and of the simulation controls: what is evaluated
\* is a handoff reason, and what is written a case that exists.
LEMMA RestKeeps ==
  ASSUME DeskInv, NEW client \in RestClients, Rest(client)
  PROVE  DeskInv'
<1>1. /\ TablesOK /\ request[client] \in Requests
      /\ RequestOK(request[client], DOMAIN cases)
      /\ session \in [ version : 1 .. MaxVersion, closed : BOOLEAN, state : States ]
  BY TableTypes DEF DeskInv, TypeOK
<1>2. IdleRequest \in Requests /\ RequestOK(IdleRequest, DOMAIN cases')
  BY DeskAssumption DEF IdleRequest, Requests, NoReason, RequestOK, Settling, ControlTargets
<1>3. ASSUME NEW reason \in RestReasons, RestEvaluates(client, reason) PROVE DeskInv'
  <2> DEFINE c == AdvanceCounters(counters, {reason}, "missing", TRUE)
             d == Evaluate({reason}, c, "missing", TRUE, FALSE)
             r == [ step |-> "open", reason |-> d.reason, case |-> 0 ]
  <2>1. /\ counters' = c /\ request' = [request EXCEPT ![client] = r]
        /\ UNCHANGED << tables, turn, told >>
    BY <1>3 DEF RestEvaluates
  <2>2. counters' \in Counters
    BY <2>1, RowTypes, AdvanceCountersType
  <2>3. d.reason \in HandoffReasons
    <3>1. reason \in HandoffReasons
      BY DeskAssumption
    <3>2. {reason} \cap RefusalReasons = {}
      <4>1. \A i \in 1 .. 18, j \in 1 .. 8 : HandoffReasonCode[i] # RefusalReasonCode[j]
        BY DEF HandoffReasonCode, RefusalReasonCode
      <4>2. DOMAIN HandoffReasonCode = 1 .. 18 /\ DOMAIN RefusalReasonCode = 1 .. 8
        BY DEF HandoffReasonCode, RefusalReasonCode
      <4> QED
        BY <3>1, <4>1, <4>2 DEF HandoffReasons, RefusalReasons, CodesOf
    <3>3. d.class = "HANDOFF"
      BY <3>1, <3>2 DEF Evaluate, Decision
    <3> QED
      BY <3>3, EvaluateReason
  <2> HIDE DEF d
  <2>4. r \in Requests /\ RequestOK(r, DOMAIN cases')
    BY <2>3, DeskAssumption DEF Requests, RequestOK, Settling, ControlTargets
  <2> HIDE DEF r, c
  <2>5. DOMAIN cases \subseteq DOMAIN cases'
    BY <2>1, TablesKept
  <2>6. /\ request' \in [ RestClients -> Requests ]
        /\ \A other \in RestClients : RequestOK(request'[other], DOMAIN cases')
    BY <2>1, <2>4, <2>5, RequestSet
  <2>7. turn' \in [ Workers -> Turns ] /\ \A v \in Workers : TurnOK(turn'[v], DOMAIN cases')
    BY <2>1, <2>5, TurnsKept
  <2>8. TablesOK' /\ session' = session
    BY <1>1, <2>1 DEF TablesOK, RowsOK, tables
  <2> QED
    BY <1>1, <2>1, <2>2, <2>6, <2>7, <2>8, RowTypes, Parts
<1>4. ASSUME RestRequestsHandoff(client) PROVE DeskInv'
  <2> DEFINE reason == request[client].reason
  <2>1. /\ reason \in HandoffReasons
        /\ UNCHANGED << session, confirmed, idempotency, counters, turn, told >>
    BY <1>1, <1>4 DEF RestRequestsHandoff, RequestOK
  <2>2. CASE /\ \E c \in DOMAIN cases : ReuseCase(c, reason)
             /\ request' = [request EXCEPT ![client] = IdleRequest]
    <3>1. TablesOK' /\ DOMAIN cases' = DOMAIN cases
      BY <1>1, <2>1, <2>2, ReuseCaseType, CasesMoved DEF ReuseCase
    <3>2. /\ request' \in [ RestClients -> Requests ]
          /\ \A other \in RestClients : RequestOK(request'[other], DOMAIN cases')
      BY <1>2, <2>2, <3>1, RequestSet
    <3> QED
      BY <1>1, <2>1, <3>1, <3>2, RowTypes, TurnsKept, Parts
  <2>3. CASE /\ OpenCase(reason)
             /\ request' = [request EXCEPT ![client].step = "pending",
                                           ![client].case = Len(cases')]
    <3> DEFINE r == [request[client] EXCEPT !.step = "pending", !.case = Len(cases')]
    <3>1. /\ TablesOK' /\ DOMAIN cases \subseteq DOMAIN cases'
          /\ Len(cases') \in DOMAIN cases' /\ Len(cases') \in 0 .. MaxCases
      BY <1>1, <2>1, <2>3, OpenCaseType
    <3>2. r \in Requests /\ RequestOK(r, DOMAIN cases')
      BY <1>1, <3>1 DEF Requests, RequestOK, Settling, ControlTargets
    <3>3. request' = [request EXCEPT ![client] = r]
      BY <2>3
    <3> HIDE DEF r
    <3>4. /\ request' \in [ RestClients -> Requests ]
          /\ \A other \in RestClients : RequestOK(request'[other], DOMAIN cases')
      BY <3>1, <3>2, <3>3, RequestSet
    <3> QED
      BY <1>1, <2>1, <3>1, <3>4, RowTypes, TurnsKept, Parts
  <2> QED
    BY <1>4, <2>2, <2>3 DEF RestRequestsHandoff
<1>5. ASSUME RestSettlesHandoff(client) PROVE DeskInv'
  <2> DEFINE k == request[client].case
  <2>1. /\ k \in DOMAIN cases
        /\ UNCHANGED << session, orders, confirmed, invalidated, idempotency, counters,
                        turn, told >>
    BY <1>1, <1>5 DEF RestSettlesHandoff, RequestOK, Settling
  <2>2. PICK next \in { "settle", "fail", "done" } :
          /\ SettleRequest(request[client].step, k, next)
          /\ request' = IF next = "done" THEN [request EXCEPT ![client] = IdleRequest]
                        ELSE [request EXCEPT ![client].step = next]
    BY <1>5 DEF RestSettlesHandoff
  <2>3. TablesOK' /\ DOMAIN cases' = DOMAIN cases
    BY <1>1, <2>1, <2>2, SettleType, CasesMoved
  <2>4. /\ request' \in [ RestClients -> Requests ]
        /\ \A other \in RestClients : RequestOK(request'[other], DOMAIN cases')
    <3> DEFINE r == [request[client] EXCEPT !.step = next]
    <3>1. CASE next = "done"
      BY <1>2, <2>2, <2>3, <3>1, RequestSet
    <3>2. CASE next # "done"
      <4>1. r \in Requests /\ RequestOK(r, DOMAIN cases')
        BY <1>1, <2>1, <2>3, <3>2 DEF Requests, RequestOK, Settling, ControlTargets
      <4>2. request' = [request EXCEPT ![client] = r]
        BY <2>2, <3>2
      <4> HIDE DEF r
      <4> QED
        BY <2>3, <4>1, <4>2, RequestSet
    <3> QED
      BY <3>1, <3>2
  <2> QED
    BY <1>1, <2>1, <2>3, <2>4, RowTypes, TurnsKept, Parts
<1>6. ASSUME RestFails(client) PROVE DeskInv'
  <2>1. /\ request' = [request EXCEPT ![client] = IdleRequest]
        /\ UNCHANGED << tables, counters, turn, told >>
    BY <1>6 DEF RestFails
  <2>2. DOMAIN cases \subseteq DOMAIN cases'
    BY <2>1, TablesKept
  <2>3. /\ request' \in [ RestClients -> Requests ]
        /\ \A other \in RestClients : RequestOK(request'[other], DOMAIN cases')
    BY <1>2, <2>1, <2>2, RequestSet
  <2>4. TablesOK' /\ session' = session
    BY <1>1, <2>1 DEF TablesOK, RowsOK, tables
  <2> QED
    BY <1>1, <2>1, <2>2, <2>3, <2>4, RowTypes, TurnsKept, Parts
<1>7. ASSUME NEW c \in DOMAIN cases, NEW to \in ControlTargets, RestReadsCase(client, c, to)
      PROVE  DeskInv'
  <2> DEFINE r == [ step |-> to, reason |-> NoReason, case |-> c ]
  <2>1. /\ request' = [request EXCEPT ![client] = r]
        /\ UNCHANGED << tables, counters, turn, told >>
    BY <1>7 DEF RestReadsCase
  <2>2. TablesOK' /\ session' = session /\ cases' = cases
    BY <1>1, <2>1 DEF TablesOK, RowsOK, tables
  <2>3. r \in Requests /\ RequestOK(r, DOMAIN cases')
    <3>1. c \in 0 .. MaxCases
      BY <1>1, RowsTyped, DeskAssumption DEF TablesOK
    <3> QED
      BY <2>2, <3>1 DEF Requests, RequestOK, Settling, ControlTargets
  <2> HIDE DEF r
  <2>4. /\ request' \in [ RestClients -> Requests ]
        /\ \A other \in RestClients : RequestOK(request'[other], DOMAIN cases')
    BY <2>1, <2>2, <2>3, RequestSet
  <2> QED
    BY <1>1, <2>1, <2>2, <2>4, RowTypes, TurnsKept, Parts
<1>8. ASSUME NEW draftChanged \in BOOLEAN, RestWritesCase(client, draftChanged)
      PROVE  DeskInv'
  <2>1. /\ request' = [request EXCEPT ![client] = IdleRequest]
        /\ UNCHANGED << session, confirmed, invalidated, idempotency, counters, turn, told >>
    BY <1>8 DEF RestWritesCase
  <2>2. TablesOK' /\ DOMAIN cases' = DOMAIN cases
    BY <1>1, <1>8, RestWritesCaseType
  <2>3. /\ request' \in [ RestClients -> Requests ]
        /\ \A other \in RestClients : RequestOK(request'[other], DOMAIN cases')
    BY <1>2, <2>1, <2>2, RequestSet
  <2> QED
    BY <1>1, <2>1, <2>2, <2>3, RowTypes, TurnsKept, Parts
<1> QED
  BY <1>3, <1>4, <1>5, <1>6, <1>7, <1>8 DEF Rest

\* A cancellation changes neither turns nor requests.
LEMMA CancellationKeeps ==
  ASSUME DeskInv, Cancellation
  PROVE  DeskInv'
<1>1. PICK c \in DOMAIN cases : RestCancel(c)
  BY DEF Cancellation
<1>2. CancelCase(c) /\ UNCHANGED << confirmed, idempotency, counters, turn, request, told >>
  BY <1>1 DEF RestCancel
<1>3. /\ TablesOK' /\ DOMAIN cases' = DOMAIN cases
      /\ session' \in [ version : 1 .. MaxVersion, closed : BOOLEAN, state : States ]
  BY <1>2, CancelCaseType
<1> QED
  BY <1>2, <1>3, RowTypes, TurnsKept, RequestsKept, Parts

\* A reset leaves a fresh state in a closed row.
LEMMA ResetKeeps ==
  ASSUME DeskInv, Reset
  PROVE  DeskInv'
<1>1. /\ session.version < MaxVersion
      /\ session' = [ version |-> session.version + 1, closed |-> TRUE,
                      state |-> FreshState(session.state.taking) ]
      /\ UNCHANGED << orders, confirmed, invalidated, idempotency, cases, counters,
                      turn, request, told >>
  BY DEF Reset
<1>2. FreshState(session.state.taking) \in States
  BY RowTypes, FreshStateType DEF States
<1>3. session.version + 1 \in 1 .. MaxVersion
  BY <1>1, RowTypes, DeskAssumption
<1>4. session' \in [ version : 1 .. MaxVersion, closed : BOOLEAN, state : States ]
  BY <1>1, <1>2, <1>3
<1>5. TablesOK'
  BY <1>1, TableTypes DEF TablesOK, RowsOK
<1> QED
  BY <1>1, <1>4, <1>5, RowTypes, TurnsKept, RequestsKept, Parts

\* An invalidated order is cancelled at the next draft version.
LEMMA InvalidateConfirmationKeeps ==
  ASSUME DeskInv, NEW o \in DOMAIN orders, InvalidateConfirmation(o)
  PROVE  DeskInv'
<1> DEFINE cancelled == [orders[o] EXCEPT !.dv = @ + 1, !.status = "CANCELLED"]
<1>1. /\ TablesOK /\ orders[o] \in Orders
      /\ session \in [ version : 1 .. MaxVersion, closed : BOOLEAN, state : States ]
  BY TableTypes, RowsTyped DEF DeskInv, TypeOK
<1>2. /\ << o, orders[o].dv >> \in confirmed /\ orders[o].dv < MaxDraft
      /\ invalidated' = invalidated \union {<< o, orders[o].dv >>}
      /\ orders' = [orders EXCEPT ![o] = cancelled]
      /\ UNCHANGED << session, confirmed, idempotency, cases, counters, turn, request, told >>
  BY DEF InvalidateConfirmation, Valid
<1>3. cancelled \in Orders
  <2>1. orders[o].dv + 1 \in DraftVersions
    BY <1>1, <1>2, DeskAssumption DEF Orders, DraftVersions
  <2> QED
    BY <1>1, <2>1 DEF Orders, OrderStatus
<1> HIDE DEF cancelled
<1>4. orders' \in Seq(Orders) /\ Len(orders') = Len(orders)
  BY <1>1, <1>2, <1>3, ReplaceRow DEF TablesOK
<1>5. TablesOK'
  BY <1>1, <1>2, <1>4 DEF TablesOK, RowsOK
<1> QED
  BY <1>1, <1>2, <1>5, RowTypes, TurnsKept, RequestsKept, Parts

\* Every step keeps the invariant.
LEMMA TurnKeeps ==
  ASSUME DeskInv, NEW w \in Workers, Turn(w)
  PROVE  DeskInv'
<1>1. ASSUME Preflight(w) PROVE DeskInv'
  BY <1>1, AnswerBeforePreflightKeeps, PreflightPassKeeps, PreflightGuardKeeps,
     PreflightCancelKeeps, PreflightCancelAgainKeeps DEF Preflight
<1>2. ASSUME Orchestrate(w) PROVE DeskInv'
  BY <1>2, EditDraftKeeps, SubmitDraftKeeps, StartNewOrderKeeps, AnswerOnlyKeeps,
     MisunderstandKeeps, UnparsedMessageKeeps DEF Orchestrate
<1> QED
  BY <1>1, <1>2, ReceiveMessageKeeps, TurnRequestsHandoffKeeps, TurnSettlesHandoffKeeps,
     SaveTurnKeeps, ConfirmOrderKeeps, TurnEndsKeeps DEF Turn

\* So does every step of the system, a stuttering step included.
LEMMA NextDesk == DeskInv /\ [Next]_vars => DeskInv'
<1> SUFFICES ASSUME DeskInv, [Next]_vars PROVE DeskInv'
  OBVIOUS
<1>1. CASE Next
  BY <1>1, TurnKeeps, RestKeeps, CancellationKeeps, ResetKeeps, InvalidateConfirmationKeeps DEF Next
<1>2. CASE UNCHANGED vars
  <2>1. TypeOK'
    BY <1>2 DEF DeskInv, TypeOK, vars
  <2>2. TablesOK'
    BY <1>2, TableTypes DEF TablesOK, RowsOK, vars
  <2> QED
    BY <1>2, <2>1, <2>2, TurnsKept, RequestsKept DEF vars, DeskInv, TablesOK
<1> QED
  BY <1>1, <1>2

\* The inductive invariant holds in every reachable state.
THEOREM DeskInvariant == Spec => []DeskInv
<1>1. Init => DeskInv
  BY InitDesk
<1>2. DeskInv /\ [Next]_vars => DeskInv'
  BY NextDesk
<1> QED
  BY <1>1, <1>2, PTL DEF Spec

\* The session row, the tables and the turns keep their types, a handoff is only
\* requested for a reason of the enumeration and settled for a case that exists,
\* and cases and idempotency records refer to orders that exist.
THEOREM TypeCorrect == Spec => []TypeOK
<1>1. DeskInv => TypeOK
  BY DEF DeskInv
<1> QED
  BY <1>1, DeskInvariant, PTL

-----------------------------------------------------------------------------
(* The safety invariants.  None of the three is inductive alone: cancelling a  *)
(* case leaves no confirmation in force only because an active case holds its *)
(* order, and a held order has no confirmation in force.  An order disturbed  *)
(* by a late transition has lost this, and stays disturbed.                   *)

SafeInv == ConfirmationTracksOrder /\ DraftCanBeConfirmed /\ ActiveCaseHolds

\* The same, about orders and draft versions instead of pairs of them.
InForce ==
  \A o, d : << o, d >> \in confirmed /\ << o, d >> \notin invalidated =>
    /\ o \in DOMAIN orders
    /\ \/ Disturbed(o)
       \/ /\ orders[o].dv = d
          /\ orders[o].status = "CUSTOMER_CONFIRMED"
          /\ ~ orders[o].hold

Backed ==
  \A o \in DOMAIN orders : orders[o].status = "CUSTOMER_CONFIRMED" /\ ~ orders[o].hold =>
    << o, orders[o].dv >> \in confirmed /\ << o, orders[o].dv >> \notin invalidated

Reached ==
  \A o, d : << o, d >> \in confirmed =>
    /\ o \in DOMAIN orders
    /\ d <= orders[o].dv
    /\ d = orders[o].dv => orders[o].status # "DRAFT"

Confirmation == InForce /\ Backed /\ Reached

Guarding ==
  \A c \in DOMAIN cases : cases[c].status \in Active =>
    /\ cases[c].order # 0 => orders[cases[c].order].hold \/ cases[c].overwritten
    /\ \A k \in DOMAIN cases : cases[k].status \in Active => k = c

\* The two forms are equivalent.
LEMMA SafeForm == TablesOK => (SafeInv <=> Confirmation /\ Guarding)
<1> SUFFICES ASSUME TablesOK PROVE SafeInv <=> Confirmation /\ Guarding
  OBVIOUS
<1>1. \A p \in confirmed : p = << p[1], p[2] >>
  BY DEF TablesOK
<1>2. \A o \in DOMAIN orders : orders[o].dv \in Nat
  BY RowsTyped, DeskAssumption DEF Orders, DraftVersions
<1>3. \A p \in confirmed : p[2] \in Nat
  BY DeskAssumption DEF TablesOK, DraftVersions
<1>4. ConfirmationTracksOrder /\ DraftCanBeConfirmed <=> Confirmation
  <2>1. ASSUME ConfirmationTracksOrder, DraftCanBeConfirmed PROVE Confirmation
    BY <1>2, <1>3, <2>1 DEF ConfirmationTracksOrder, DraftCanBeConfirmed, Confirmation,
       InForce, Backed, Reached, Valid
  <2>2. ASSUME Confirmation PROVE ConfirmationTracksOrder
    BY <1>1, <2>2 DEF ConfirmationTracksOrder, Confirmation, InForce, Backed, Valid
  <2>3. ASSUME Confirmation PROVE DraftCanBeConfirmed
    <3>1. ASSUME NEW p \in confirmed
          PROVE  /\ p[1] \in DOMAIN orders
                 /\ p[2] <= orders[p[1]].dv
                 /\ p[2] = orders[p[1]].dv => orders[p[1]].status # "DRAFT"
      BY <1>1, <2>3 DEF Confirmation, Reached
    <3> QED
      BY <1>2, <1>3, <3>1 DEF DraftCanBeConfirmed
  <2> QED
    BY <2>1, <2>2, <2>3
<1>5. "NOT_REQUIRED" \notin Active
  BY DEF Active
<1>6. ActiveCaseHolds <=> Guarding
  BY <1>5 DEF ActiveCaseHolds, Guarding, ActiveCases, IsActive, CaseStatus
<1> QED
  BY <1>4, <1>6 DEF SafeInv

SafeTables == TablesOK /\ Confirmation /\ Guarding

\* A step that leaves orders, confirmations and cases alone.
LEMMA SafeKept ==
  ASSUME SafeTables, UNCHANGED << orders, confirmed, invalidated, cases >>
  PROVE  (Confirmation /\ Guarding)'
BY DEF SafeTables, Confirmation, InForce, Backed, Reached, Guarding, Disturbed

\* No case is deleted, leaves its order or has a late transition undone.
Ages ==
  /\ DOMAIN cases \subseteq DOMAIN cases'
  /\ \A k \in DOMAIN cases : cases'[k].order = cases[k].order
  /\ \A k \in DOMAIN cases : cases[k].overwritten => cases'[k].overwritten

\* So an order stays disturbed.
LEMMA DisturbedStays ==
  ASSUME Ages, NEW o, Disturbed(o)
  PROVE  Disturbed(o)'
BY DEF Ages, Disturbed

\* Order `o` is disturbed after the step.
Disturbs(o) == \E k \in DOMAIN cases : cases[k].order = o /\ cases'[k].overwritten

\* The steps that leave the orders and confirmations alone: the confirmations
\* stay right.
LEMMA ConfirmationKept ==
  ASSUME SafeTables, Ages, UNCHANGED << orders, confirmed, invalidated >>
  PROVE  Confirmation'
<1>1. InForce'
  BY DisturbedStays DEF SafeTables, Confirmation, InForce
<1> QED
  BY <1>1 DEF SafeTables, Confirmation, Backed, Reached

\* No transition makes a case active that was not.
LEMMA Lifecycle ==
  ASSUME NEW from, NEW to, from \in HandoffStatus, MayMove(from, to), to # "REQUESTED"
  PROVE  from \in Active
BY DEF MayMove, ALLOWED_TRANSITIONS, HandoffStatus, Active, Terminal

\* A case whose status is written: it is overwritten, or was active.
LEMMA WriteGuards ==
  ASSUME TablesOK, NEW c \in DOMAIN cases, NEW to \in HandoffStatus \ { "REQUESTED" },
         WriteStatus(c, to)
  PROVE  /\ Ages /\ DOMAIN cases' = DOMAIN cases
         /\ cases'[c].status = to
         /\ cases'[c].overwritten \/ (cases[c].status \in Active /\ MayMove(cases[c].status, to))
         /\ to \in Active => \A k \in DOMAIN cases : cases[k].status \in Active => k = c
         /\ \A k \in DOMAIN cases : k # c => cases'[k] = cases[k]
<1>1. Ages /\ DOMAIN cases' = DOMAIN cases
  BY WriteStatusType DEF Ages
<1>2. /\ cases' = [cases EXCEPT ![c].status = to,
                               ![c].overwritten = @ \/ ~ MayMove(cases[c].status, to)]
      /\ to \in Active => ActiveCases \subseteq {c}
  BY DEF WriteStatus
<1>3. cases[c] \in Cases /\ cases[c].status \in HandoffStatus
  BY RowsTyped DEF Cases
<1>4. MayMove(cases[c].status, to) => cases[c].status \in Active
  BY <1>3, Lifecycle
<1>5. to \in Active => \A k \in DOMAIN cases : cases[k].status \in Active => k = c
  BY <1>2 DEF ActiveCases, IsActive, CaseStatus
<1>6. cases'[c].status = to /\ (cases'[c].overwritten \/ MayMove(cases[c].status, to))
  BY <1>2, <1>3 DEF Cases
<1>7. \A k \in DOMAIN cases : k # c => cases'[k] = cases[k]
  BY <1>2
<1> QED
  BY <1>1, <1>4, <1>5, <1>6, <1>7

\* Such a write leaves at most one case active, with its order held if the write
\* is not late.
LEMMA WriteKeepsGuarding ==
  ASSUME SafeTables, NEW c \in DOMAIN cases, NEW to \in HandoffStatus \ { "REQUESTED" },
         WriteStatus(c, to),
         \A o \in DOMAIN orders : orders[o].hold => orders'[o].hold
  PROVE  Guarding'
<1>1. /\ DOMAIN cases' = DOMAIN cases
      /\ \A k \in DOMAIN cases : cases'[k].order = cases[k].order
      /\ \A k \in DOMAIN cases : cases[k].overwritten => cases'[k].overwritten
      /\ cases'[c].status = to
      /\ cases'[c].overwritten \/ cases[c].status \in Active
      /\ to \in Active => \A k \in DOMAIN cases : cases[k].status \in Active => k = c
      /\ \A k \in DOMAIN cases : k # c => cases'[k] = cases[k]
  BY WriteGuards DEF SafeTables, Ages
<1>2. \A k \in DOMAIN cases : cases[k].order # 0 => cases[k].order \in DOMAIN orders
  BY RowsTyped, DeskAssumption DEF SafeTables, TablesOK, RowsOK, Cases
<1>3. ASSUME NEW k \in DOMAIN cases, cases'[k].status \in Active, cases[k].order # 0
      PROVE  orders'[cases[k].order].hold \/ cases'[k].overwritten
  BY <1>1, <1>2, <1>3 DEF SafeTables, Guarding
<1>4. ASSUME NEW k \in DOMAIN cases, NEW j \in DOMAIN cases,
             cases'[k].status \in Active, cases'[j].status \in Active
      PROVE  j = k
  BY <1>1, <1>4 DEF SafeTables, Guarding
<1> QED
  BY <1>1, <1>3, <1>4 DEF Guarding

\* A transition that was validated on an earlier read is written.
LEMMA WriteSafe ==
  ASSUME SafeTables, NEW c \in DOMAIN cases, NEW to \in HandoffStatus \ { "REQUESTED" },
         WriteStatus(c, to), UNCHANGED << orders, confirmed, invalidated >>
  PROVE  (Confirmation /\ Guarding)'
<1>1. Ages
  BY WriteGuards DEF SafeTables
<1> QED
  BY <1>1, ConfirmationKept, WriteKeepsGuarding

\* Reusing an active case changes its reason only.
LEMMA ReuseSafe ==
  ASSUME SafeTables, NEW c \in DOMAIN cases, NEW reason \in HandoffReasons,
         ReuseCase(c, reason), UNCHANGED confirmed
  PROVE  (Confirmation /\ Guarding)'
<1>1. UNCHANGED << orders, confirmed, invalidated >>
  BY DEF ReuseCase
<1>2. /\ DOMAIN cases' = DOMAIN cases
      /\ \A k \in DOMAIN cases : cases'[k].order = cases[k].order
      /\ \A k \in DOMAIN cases : cases[k].overwritten => cases'[k].overwritten
  BY ReuseCaseType DEF SafeTables
<1>3. \A k \in DOMAIN cases : cases'[k].status = cases[k].status
  <2>1. cases' = [cases EXCEPT ![c].reason = reason]
    BY DEF ReuseCase
  <2> QED
    BY <2>1, RowsTyped DEF SafeTables, Cases
<1>4. Confirmation'
  BY <1>1, <1>2, ConfirmationKept DEF Ages
<1> QED
  BY <1>1, <1>2, <1>3, <1>4 DEF SafeTables, Guarding

\* Opening a case: its order is held and loses its confirmation.
LEMMA OpenSafe ==
  ASSUME SafeTables, NEW reason \in HandoffReasons, OpenCase(reason), UNCHANGED confirmed
  PROVE  (Confirmation /\ Guarding)'
<1> DEFINE row == [ status |-> "REQUESTED", reason |-> reason, order |-> Latest,
                    overwritten |-> FALSE ]
<1>1. /\ cases' = Append(cases, row)
      /\ orders' = HoldOrder(Latest, reason)
      /\ invalidated' = Invalidate(Latest)
      /\ \A k \in DOMAIN cases : cases[k].status \notin Active
  BY DEF OpenCase, ActiveCases, IsActive, CaseStatus
<1>2. Latest = Len(orders) /\ DOMAIN orders = 1 .. Latest /\ Latest \in Nat
  BY RowsTyped DEF SafeTables, Latest
<1>5. Ages
  BY <1>1, RowsTyped DEF SafeTables, Ages
<1>3. CASE Latest = 0
  <2>1. UNCHANGED << orders, invalidated >>
    BY <1>1, <1>3 DEF HoldOrder, Invalidate
  <2>2. Confirmation'
    BY <1>5, <2>1, ConfirmationKept
  <2>3. Guarding'
    BY <1>1, <1>3, RowsTyped DEF SafeTables, Guarding
  <2> QED
    BY <2>2, <2>3
<1>4. CASE Latest # 0
  <2>1. Latest \in DOMAIN orders
    BY <1>2, <1>4
  <2>2. orders' = [orders EXCEPT ![Latest].hold = TRUE, ![Latest].holdReason = reason]
    BY <1>1, <1>4 DEF HoldOrder
  <2>3. invalidated' = invalidated \union (confirmed \intersect {<< Latest, orders[Latest].dv >>})
    BY <1>1, <1>4 DEF Invalidate
  <2>4. /\ DOMAIN orders' = DOMAIN orders /\ orders'[Latest].hold
        /\ \A o \in DOMAIN orders :
             /\ orders'[o].dv = orders[o].dv
             /\ orders'[o].status = orders[o].status
             /\ o # Latest => orders'[o] = orders[o]
    BY <2>1, <2>2, RowsTyped DEF SafeTables, Orders
  <2>5. Confirmation'
    <3>1. \A o, d : << o, d >> \in invalidated' <=>
            \/ << o, d >> \in invalidated
            \/ << o, d >> \in confirmed /\ o = Latest /\ d = orders[Latest].dv
      BY <2>3
    <3>2. InForce'
      BY <1>5, <2>1, <2>4, <3>1, DisturbedStays DEF SafeTables, Confirmation, InForce
    <3>3. Backed'
      BY <2>1, <2>4, <3>1 DEF SafeTables, Confirmation, Backed
    <3>4. Reached'
      BY <2>4 DEF SafeTables, Confirmation, Reached
    <3> QED
      BY <3>2, <3>3, <3>4 DEF Confirmation
  <2>6. \A k \in DOMAIN cases' : cases'[k].status \in Active => k = Len(cases) + 1
    BY <1>1, RowsTyped DEF SafeTables
  <2>7. cases'[Len(cases) + 1].order = Latest
    BY <1>1, RowsTyped DEF SafeTables
  <2>8. Guarding'
    BY <2>4, <2>6, <2>7 DEF Guarding
  <2> QED
    BY <2>5, <2>8
<1> QED
  BY <1>3, <1>4

\* Once the one active case is closed, no order is guarded.
LEMMA ClosingSafe ==
  ASSUME SafeTables, NEW c \in DOMAIN cases, NEW to \in Terminal, MoveCase(c, to)
  PROVE  /\ cases[c].status \in Active
         /\ Guarding'
<1>1. to \in HandoffStatus /\ to \notin Active /\ to # "REQUESTED"
  BY DEF HandoffStatus, Active, Terminal
<1>2. cases[c].status \in Active
  BY <1>1, Lifecycle, RowsTyped DEF SafeTables, MoveCase, Cases
<1>3. DOMAIN cases' = DOMAIN cases
  BY <1>1, MoveCaseType DEF SafeTables
<1>4. cases' = [cases EXCEPT ![c].status = to]
  BY DEF MoveCase
<1>5. \A k \in DOMAIN cases : cases'[k].status \notin Active
  <2>1. ASSUME NEW k \in DOMAIN cases, k # c PROVE cases'[k].status \notin Active
    BY <1>2, <1>4, <2>1 DEF SafeTables, Guarding
  <2>2. cases'[c].status = to
    BY <1>4, RowsTyped DEF SafeTables, Cases
  <2> QED
    BY <1>1, <2>1, <2>2
<1>6. Guarding'
  BY <1>3, <1>5 DEF Guarding
<1> QED
  BY <1>2, <1>6

\* A resolution that changes the draft of the case's order.
Resolves(c) ==
  LET o == cases[c].order
  IN  /\ WriteStatus(c, "RESOLVED") /\ UNCHANGED << confirmed, invalidated >>
      /\ o # 0 /\ orders[o].dv < MaxDraft /\ orders' = ResolvedOrder(o)

\* A held order may move to a later draft version as long as it is not
\* confirmed by it: nothing confirmed is in force for it.  So may a disturbed one.
LEMMA HeldOrderSafe ==
  ASSUME SafeTables, Ages, NEW o \in DOMAIN orders, orders[o].hold \/ Disturbs(o),
         NEW row \in Orders, orders' = [orders EXCEPT ![o] = row],
         row.status # "CUSTOMER_CONFIRMED" \/ row.hold,
         orders[o].dv <= row.dv,
         row.dv = orders[o].dv => << o, orders[o].dv >> \notin confirmed,
         UNCHANGED confirmed, invalidated \subseteq invalidated',
         \A k, d : << k, d >> \in invalidated' /\ << k, d >> \notin invalidated => k = o
  PROVE  Confirmation'
<1>1. /\ DOMAIN orders' = DOMAIN orders /\ orders'[o] = row
      /\ \A k \in DOMAIN orders : k # o => orders'[k] = orders[k]
  BY ReplaceRow DEF SafeTables, TablesOK
<1>2. Disturbed(o)' \/ \A d : << o, d >> \in confirmed => << o, d >> \in invalidated
  BY DisturbedStays DEF SafeTables, Confirmation, InForce, Disturbs, Disturbed, Ages
<1>3. InForce'
  BY <1>1, <1>2, DisturbedStays DEF SafeTables, Confirmation, InForce
<1>4. Backed'
  BY <1>1 DEF SafeTables, Confirmation, Backed
<1>5. Reached'
  <2>1. ASSUME NEW k, NEW d, << k, d >> \in confirmed, k # o
        PROVE  /\ k \in DOMAIN orders'
               /\ d <= orders'[k].dv
               /\ d = orders'[k].dv => orders'[k].status # "DRAFT"
    BY <1>1, <2>1 DEF SafeTables, Confirmation, Reached
  <2>2. ASSUME NEW d, << o, d >> \in confirmed
        PROVE  d <= row.dv /\ d # row.dv
    <3>1. d <= orders[o].dv
      BY <2>2 DEF SafeTables, Confirmation, Reached
    <3>2. d \in Nat /\ orders[o].dv \in Nat /\ row.dv \in Nat
      BY <2>2, RowsTyped, DeskAssumption DEF SafeTables, TablesOK, Orders, DraftVersions
    <3>3. d = row.dv => d = orders[o].dv
      BY <3>1, <3>2
    <3> QED
      BY <2>2, <3>1, <3>2, <3>3
  <2> QED
    BY <1>1, <2>1, <2>2 DEF Reached
<1> QED
  BY <1>3, <1>4, <1>5 DEF Confirmation

\* A resolution that changes the draft: the order is held, or the resolution late.
LEMMA ResolveSafe ==
  ASSUME SafeTables, NEW c \in DOMAIN cases, Resolves(c)
  PROVE  (Confirmation /\ Guarding)'
<1> DEFINE o == cases[c].order
           row == [orders[o] EXCEPT !.dv = @ + 1, !.status = "DRAFT", !.hold = TRUE]
<1>1. /\ WriteStatus(c, "RESOLVED") /\ UNCHANGED << confirmed, invalidated >>
      /\ o # 0 /\ orders[o].dv < MaxDraft /\ orders' = [orders EXCEPT ![o] = row]
  BY DEF Resolves, ResolvedOrder
<1>2. "RESOLVED" \in HandoffStatus \ { "REQUESTED" }
  BY DEF HandoffStatus, Terminal
<1>3. /\ Ages /\ DOMAIN cases' = DOMAIN cases
      /\ cases'[c].overwritten \/ cases[c].status \in Active
  BY <1>1, <1>2, WriteGuards DEF SafeTables
<1>4. cases[c] \in Cases /\ o <= Len(orders)
  BY RowsTyped DEF SafeTables, TablesOK, RowsOK
<1>5. o \in DOMAIN orders
  BY <1>1, <1>4, RowsTyped, DeskAssumption DEF SafeTables, Cases
<1>6. orders[o] \in Orders
  BY <1>5, RowsTyped DEF SafeTables
<1>7. orders[o].hold \/ Disturbs(o)
  BY <1>1, <1>3 DEF SafeTables, Guarding, Ages, Disturbs
<1> HIDE DEF o
<1>8. orders[o].dv \in Nat /\ orders[o].dv + 1 \in DraftVersions
  BY <1>1, <1>6, DeskAssumption DEF Orders, DraftVersions
<1>9. /\ row \in Orders /\ row.dv = orders[o].dv + 1
      /\ row.status = "DRAFT" /\ row.hold
  BY <1>6, <1>8 DEF Orders, OrderStatus
<1> HIDE DEF row
<1>10. orders[o].dv <= row.dv /\ row.dv # orders[o].dv
  BY <1>8, <1>9
<1>11. Confirmation'
  BY <1>1, <1>3, <1>5, <1>7, <1>9, <1>10, HeldOrderSafe
<1>12. \A k \in DOMAIN orders : orders[k].hold => orders'[k].hold
  BY <1>1, <1>5, <1>9
<1>13. Guarding'
  BY <1>1, <1>2, <1>12, WriteKeepsGuarding
<1> QED
  BY <1>11, <1>13

\* A cancellation closes the active case.  Its order is held, so nothing is in
\* force for it unless it is disturbed, and a version that was ever confirmed is
\* left behind.
LEMMA CancelSafe ==
  ASSUME SafeTables, session.state \in States, NEW c \in DOMAIN cases, CancelCase(c),
         UNCHANGED confirmed
  PROVE  (Confirmation /\ Guarding)'
<1> DEFINE o == cases[c].order
           step == IF AdvancesDraft(o) THEN 1 ELSE 0
           dv == IF o = 0 THEN session.state.dv + step
                 ELSE Max2(orders[o].dv + step, session.state.dv)
           row == CancelledOrder(c, dv)
<1>1. /\ MoveCase(c, "CANCELLED") /\ dv \in DraftVersions
      /\ invalidated' = Invalidate(o)
      /\ orders' = IF o = 0 THEN orders ELSE [orders EXCEPT ![o] = row]
  BY DEF CancelCase
<1>2. cases[c].status \in Active /\ Guarding'
  BY <1>1, ClosingSafe DEF Terminal
<1>5. Ages
  BY <1>1, MoveCaseType DEF SafeTables, Ages, HandoffStatus, Terminal
<1>3. CASE o = 0
  BY <1>1, <1>2, <1>3, <1>5, ConfirmationKept DEF Invalidate
<1>4. CASE o # 0
  <2>1. orders[o].hold \/ Disturbs(o)
    BY <1>2, <1>4, <1>5 DEF SafeTables, Guarding, Ages, Disturbs
  <2>2. cases[c] \in Cases /\ o <= Len(orders)
    BY RowsTyped DEF SafeTables, TablesOK, RowsOK
  <2>3. o \in DOMAIN orders
    BY <1>4, <2>2, RowsTyped, DeskAssumption DEF SafeTables, Cases
  <2>4. orders[o] \in Orders /\ orders[o].dv \in Nat
    BY <2>3, RowsTyped, DeskAssumption DEF SafeTables, Orders, DraftVersions
  <2>5. session.state.dv \in Nat
    BY DeskAssumption DEF States, DraftVersions
  <2>6. << o, orders[o].dv >> \in confirmed => step = 1
    BY <1>4 DEF AdvancesDraft
  <2>7. orders[o].dv + step <= dv /\ step \in 0 .. 1
    BY <1>4, <2>4, <2>5 DEF Max2
  <2> HIDE DEF dv, step
  <2>8. row \in Orders
    BY <1>1, <2>3, CancelledOrderType DEF SafeTables
  <2>9. row.dv = dv /\ row.status # "CUSTOMER_CONFIRMED"
    BY <2>4 DEF CancelledOrder, Orders
  <2> HIDE DEF row
  <2>10. dv \in Nat
    BY <1>1, DeskAssumption DEF DraftVersions
  <2>11. /\ orders[o].dv <= row.dv
         /\ row.dv = orders[o].dv => << o, orders[o].dv >> \notin confirmed
    BY <2>4, <2>6, <2>7, <2>9, <2>10
  <2>12. /\ invalidated \subseteq invalidated'
         /\ \A k, d : << k, d >> \in invalidated' /\ << k, d >> \notin invalidated => k = o
    BY <1>1, <1>4 DEF Invalidate
  <2>13. orders' = [orders EXCEPT ![o] = row]
    BY <1>1, <1>4
  <2> HIDE DEF o
  <2>14. Confirmation'
    BY <1>5, <2>1, <2>3, <2>8, <2>9, <2>11, <2>12, <2>13, HeldOrderSafe
  <2> QED
    BY <1>2, <2>14
<1> QED
  BY <1>3, <1>4

\* A confirmation is of an order that was not held and is not bound to an active
\* case, at a version it was never confirmed at.
LEMMA ConfirmSafe ==
  ASSUME DeskInv, SafeTables, NEW w \in Workers, ConfirmOrder(w)
  PROVE  (Confirmation /\ Guarding)'
<1> DEFINE dv == turn[w].state.dv
<1>1. PICK o \in 1 .. MaxOrders : Confirms(w, o)
  BY ConfirmOrderRows
<1>2. UNCHANGED << invalidated, cases >>
  BY DEF ConfirmOrder
<1>3. /\ o \in DOMAIN orders' /\ DOMAIN orders \subseteq DOMAIN orders'
      /\ \A k \in DOMAIN orders' : k # o => k \in DOMAIN orders /\ orders'[k] = orders[k]
      /\ orders'[o].status = "CUSTOMER_CONFIRMED" /\ orders'[o].dv = dv /\ ~ orders'[o].hold
      /\ << o, dv >> \notin confirmed
      /\ \A k, d : << k, d >> \in confirmed' <=>
           << k, d >> \in confirmed \/ (k = o /\ d = dv)
  BY <1>1 DEF Confirms
<1>4. << o, dv >> \notin invalidated
  BY <1>3 DEF SafeTables, TablesOK
\* The order confirmed again was a draft of this version, that is not held.
<1>5. o \in DOMAIN orders =>
        orders[o].status = "DRAFT" /\ orders[o].dv = dv /\ ~ orders[o].hold
  <2>1. DOMAIN orders = 1 .. Latest /\ Latest \in Nat
    BY RowsTyped DEF SafeTables, Latest
  <2>2. o \in DOMAIN orders => o = Latest /\ Latest # 0 /\ o = Len(orders')
    BY <1>1, <2>1, DeskAssumption DEF Confirms
  <2>3. ASSUME o \in DOMAIN orders, ~ (orders[Latest].status = "DRAFT" /\ orders[Latest].dv = dv)
        PROVE  FALSE
    <3> DEFINE order == [ status |-> "CUSTOMER_CONFIRMED", dv |-> dv,
                          items |-> turn[w].state.items, hold |-> FALSE,
                          holdReason |-> NoReason ]
    <3>1. orders' = Append(orders, order)
      BY <2>3 DEF ConfirmOrder
    <3> HIDE DEF order
    <3>2. Len(orders') = Latest + 1
      BY <3>1, RowsTyped DEF SafeTables, TablesOK, Latest
    <3> QED
      BY <2>1, <2>2, <2>3, <3>2
  <2>4. Latest # 0 => ~ orders[Latest].hold
    BY DEF ConfirmOrder
  <2> QED
    BY <2>2, <2>3, <2>4
<1>6. InForce'
  <2>1. ASSUME NEW k, NEW d, << k, d >> \in confirmed, << k, d >> \notin invalidated
        PROVE  /\ k \in DOMAIN orders
               /\ \/ Disturbed(k)
                  \/ /\ k # o /\ orders[k].dv = d
                     /\ orders[k].status = "CUSTOMER_CONFIRMED" /\ ~ orders[k].hold
    BY <1>5, <2>1 DEF SafeTables, Confirmation, InForce
  <2>2. \A k : Disturbed(k) => Disturbed(k)'
    BY <1>2 DEF Disturbed
  <2> QED
    BY <1>2, <1>3, <2>1, <2>2 DEF InForce
<1>7. Backed'
  BY <1>2, <1>3, <1>4 DEF SafeTables, Confirmation, Backed
<1>8. Reached'
  <2>1. dv \in Nat
    BY TurnTypes, DeskAssumption DEF States, DraftVersions
  <2>2. ASSUME NEW k, NEW d, << k, d >> \in confirmed
        PROVE  /\ k \in DOMAIN orders /\ d <= orders[k].dv
               /\ d = orders[k].dv => orders[k].status # "DRAFT"
    BY <2>2 DEF SafeTables, Confirmation, Reached
  <2>3. ASSUME NEW k, NEW d, << k, d >> \in confirmed'
        PROVE  /\ k \in DOMAIN orders' /\ d <= orders'[k].dv
               /\ d = orders'[k].dv => orders'[k].status # "DRAFT"
    <3>1. CASE k = o /\ d = dv
      BY <1>3, <2>1, <3>1
    <3>2. CASE << k, d >> \in confirmed /\ k = o
      BY <1>3, <1>5, <2>2, <3>2
    <3>3. CASE << k, d >> \in confirmed /\ k # o
      BY <1>3, <2>2, <3>3
    <3> QED
      BY <1>3, <2>3, <3>1, <3>2, <3>3
  <2> QED
    BY <2>3 DEF Reached
<1>9. Guarding'
  <2>1. \A c \in DOMAIN cases : cases[c].order \in Nat /\ cases[c].order <= Len(orders)
    BY RowsTyped, DeskAssumption DEF SafeTables, TablesOK, RowsOK, Cases
  <2>2. \A c \in DOMAIN cases : cases[c].order # 0 => cases[c].order \in DOMAIN orders
    BY <2>1, RowsTyped DEF SafeTables
  <2>3. \A c \in DOMAIN cases : cases[c].status \in Active /\ cases[c].order # 0 =>
          orders[cases[c].order].hold \/ cases[c].overwritten
    BY DEF SafeTables, Guarding
  <2>4. \A k \in DOMAIN orders : orders[k].hold => orders'[k] = orders[k]
    BY <1>3, <1>5
  <2> QED
    BY <1>2, <2>2, <2>3, <2>4 DEF SafeTables, Guarding
<1> QED
  BY <1>6, <1>7, <1>8, <1>9 DEF Confirmation

\* A withdrawn confirmation leaves a cancelled order at a later version.
LEMMA InvalidateConfirmationSafe ==
  ASSUME SafeTables, NEW o \in DOMAIN orders, InvalidateConfirmation(o)
  PROVE  (Confirmation /\ Guarding)'
<1> DEFINE row == [orders[o] EXCEPT !.dv = @ + 1, !.status = "CANCELLED"]
<1>1. /\ << o, orders[o].dv >> \in confirmed
      /\ invalidated' = invalidated \union {<< o, orders[o].dv >>}
      /\ orders' = [orders EXCEPT ![o] = row]
      /\ UNCHANGED << confirmed, cases >>
  BY DEF InvalidateConfirmation, Valid
<1>2. orders[o] \in Orders /\ orders[o].dv \in Nat
  BY RowsTyped, DeskAssumption DEF SafeTables, Orders, DraftVersions
<1>3. row.dv = orders[o].dv + 1 /\ row.status = "CANCELLED" /\ row.hold = orders[o].hold
  BY <1>2 DEF Orders
<1> HIDE DEF row
<1>4. /\ DOMAIN orders' = DOMAIN orders /\ orders'[o] = row
      /\ \A k \in DOMAIN orders : k # o => orders'[k] = orders[k]
  BY <1>1
<1>5. \A k, d : << k, d >> \in invalidated' <=>
        << k, d >> \in invalidated \/ (k = o /\ d = orders[o].dv)
  BY <1>1
<1>6. InForce'
  <2>1. \A k : Disturbed(k) => Disturbed(k)'
    BY <1>1 DEF Disturbed
  <2> QED
    BY <1>1, <1>4, <1>5, <2>1 DEF SafeTables, Confirmation, InForce
<1>7. Backed'
  BY <1>1, <1>3, <1>4, <1>5 DEF SafeTables, Confirmation, Backed
<1>8. Reached'
  <2>1. ASSUME NEW k, NEW d, << k, d >> \in confirmed
        PROVE  /\ k \in DOMAIN orders' /\ d <= orders'[k].dv
               /\ d = orders'[k].dv => orders'[k].status # "DRAFT"
    <3>1. /\ k \in DOMAIN orders /\ d <= orders[k].dv
          /\ d = orders[k].dv => orders[k].status # "DRAFT"
      BY <2>1 DEF SafeTables, Confirmation, Reached
    <3>2. d \in Nat
      BY <2>1, DeskAssumption DEF SafeTables, TablesOK, DraftVersions
    <3>3. CASE k = o
      BY <1>2, <1>3, <1>4, <3>1, <3>2, <3>3
    <3>4. CASE k # o
      BY <1>4, <3>1, <3>4
    <3> QED
      BY <3>3, <3>4
  <2> QED
    BY <1>1, <2>1 DEF Reached
<1>9. Guarding'
  <2>1. \A k \in DOMAIN orders : orders[k].hold => orders'[k].hold
    BY <1>3, <1>4
  <2>2. \A c \in DOMAIN cases : cases[c].order # 0 => cases[c].order \in DOMAIN orders
    BY RowsTyped, DeskAssumption DEF SafeTables, TablesOK, RowsOK, Cases
  <2> QED
    BY <1>1, <2>1, <2>2 DEF SafeTables, Guarding
<1> QED
  BY <1>6, <1>7, <1>8, <1>9 DEF Confirmation

\* What a step does to orders, confirmations and cases.
Quiet == UNCHANGED << orders, confirmed, invalidated, cases >>
Cancelling == UNCHANGED confirmed /\ \E c \in DOMAIN cases : CancelCase(c)
Requesting ==
  /\ UNCHANGED confirmed
  /\ \E reason \in HandoffReasons :
       OpenCase(reason) \/ \E c \in DOMAIN cases : ReuseCase(c, reason)
Moving ==
  /\ UNCHANGED << orders, confirmed, invalidated >>
  /\ \E c \in DOMAIN cases, to \in HandoffStatus \ { "REQUESTED", "NOT_REQUIRED" } :
       WriteStatus(c, to)
Resolving == \E c \in DOMAIN cases : Resolves(c)
Confirming == \E w \in Workers : ConfirmOrder(w)
Withdrawing == \E o \in DOMAIN orders : InvalidateConfirmation(o)

\* Settling a request writes the status of its case, or nothing.
LEMMA SettleMoves ==
  ASSUME NEW c \in DOMAIN cases, NEW step, NEW next, SettleRequest(step, c, next),
         UNCHANGED << orders, confirmed, invalidated >>
  PROVE  Quiet \/ Moving
<1>1. { "PENDING", "FAILED" } \subseteq HandoffStatus \ { "REQUESTED", "NOT_REQUIRED" }
  BY DEF HandoffStatus, Active, Terminal
<1>2. UNCHANGED cases \/ WriteStatus(c, "PENDING") \/ WriteStatus(c, "FAILED")
  BY DEF SettleRequest
<1> QED
  BY <1>1, <1>2 DEF Quiet, Moving

\* Every step is one of these.
LEMMA Writes ==
  ASSUME DeskInv, [Next]_vars
  PROVE  Quiet \/ Cancelling \/ Requesting \/ Moving \/ Resolving \/ Confirming \/ Withdrawing
<1>1. CASE UNCHANGED vars
  BY <1>1 DEF vars, Quiet
<1>2. ASSUME NEW w \in Workers, Turn(w)
      PROVE  Quiet \/ Cancelling \/ Requesting \/ Moving \/ Confirming
  <2>1. CASE \E msg \in Messages : ReceiveMessage(w, msg)
    BY <2>1 DEF ReceiveMessage, tables, Quiet
  <2>2. CASE AnswerBeforePreflight(w) \/ PreflightPass(w) \/ PreflightCancelAgain(w)
    BY <2>2 DEF AnswerBeforePreflight, PreflightPass, PreflightCancelAgain, tables, Quiet
  <2>3. CASE \E confidence \in ChatConfidences : PreflightGuard(w, confidence)
    BY <2>3 DEF PreflightGuard, tables, Quiet
  <2>4. CASE PreflightCancel(w)
    <3>1. /\ IsActive(turn[w].state.handoff) /\ CancelCase(turn[w].state.handoff)
          /\ UNCHANGED confirmed
      BY <2>4 DEF PreflightCancel
    <3>2. turn[w].state.handoff \in DOMAIN cases
      BY <3>1 DEF IsActive, CaseStatus, Active
    <3> QED
      BY <3>1, <3>2 DEF Cancelling
  <2>5. CASE Orchestrate(w)
    BY <2>5 DEF Orchestrate, EditDraft, SubmitDraft, StartNewOrder, AnswerOnly, Misunderstand,
                UnparsedMessage, Audit, tables, Quiet
  <2>6. CASE TurnRequestsHandoff(w)
    <3>1. turn[w].state.reason \in HandoffReasons
      BY <2>6, TurnTypes DEF TurnRequestsHandoff, TurnOK
    <3> QED
      BY <2>6, <3>1 DEF TurnRequestsHandoff, Requesting
  <2>7. CASE TurnSettlesHandoff(w)
    <3>1. turn[w].case \in DOMAIN cases
      BY <2>7, TurnTypes DEF TurnSettlesHandoff, TurnOK, Settling
    <3> QED
      BY <2>7, <3>1, SettleMoves DEF TurnSettlesHandoff
  <2>8. CASE SaveTurn(w)
    BY <2>8 DEF SaveTurn, Quiet
  <2>9. CASE ConfirmReplay(w) \/ ConfirmRejected(w) \/ TurnFails(w)
    BY <2>9 DEF ConfirmReplay, ConfirmRejected, TurnFails, tables, Quiet
  <2>10. CASE ConfirmOrder(w)
    BY <2>10 DEF Confirming
  <2> QED
    BY <1>2, <2>1, <2>2, <2>3, <2>4, <2>5, <2>6, <2>7, <2>8, <2>9, <2>10 DEF Turn, Preflight
<1>3. ASSUME NEW client \in RestClients, Rest(client)
      PROVE  Quiet \/ Requesting \/ Moving \/ Resolving
  <2>1. RequestOK(request[client], DOMAIN cases)
    BY DEF DeskInv
  <2>2. CASE \E reason \in RestReasons : RestEvaluates(client, reason)
    BY <2>2 DEF RestEvaluates, tables, Quiet
  <2>3. CASE RestRequestsHandoff(client)
    BY <2>1, <2>3 DEF RestRequestsHandoff, RequestOK, Requesting
  <2>4. CASE RestSettlesHandoff(client)
    BY <2>1, <2>4, SettleMoves DEF RestSettlesHandoff, RequestOK, Settling
  <2>5. CASE RestFails(client)
    BY <2>5 DEF RestFails, tables, Quiet
  <2>6. CASE \E c \in DOMAIN cases, to \in ControlTargets : RestReadsCase(client, c, to)
    BY <2>6 DEF RestReadsCase, tables, Quiet
  <2>7. ASSUME NEW draftChanged \in BOOLEAN, RestWritesCase(client, draftChanged)
        PROVE  Moving \/ Resolving
    <3> DEFINE c == request[client].case
               to == request[client].step
    <3>1. c \in DOMAIN cases /\ to \in HandoffStatus \ { "REQUESTED", "NOT_REQUIRED" }
      BY <2>1, <2>7 DEF RestWritesCase, RequestOK, ControlTargets, HandoffStatus, Active, Terminal
    <3>2. /\ WriteStatus(c, to) /\ UNCHANGED << confirmed, invalidated >>
          /\ \/ UNCHANGED orders
             \/ /\ to = "RESOLVED" /\ cases[c].order # 0
                /\ orders[cases[c].order].dv < MaxDraft
                /\ orders' = ResolvedOrder(cases[c].order)
      BY <2>7 DEF RestWritesCase
    <3> HIDE DEF c, to
    <3> QED
      BY <3>1, <3>2 DEF Moving, Resolving, Resolves
  <2> QED
    BY <1>3, <2>2, <2>3, <2>4, <2>5, <2>6, <2>7 DEF Rest
<1>5. ASSUME Cancellation PROVE Cancelling
  BY <1>5 DEF Cancellation, RestCancel, Cancelling
<1>6. CASE Reset
  BY <1>6 DEF Reset, Quiet
<1> QED
  BY <1>1, <1>2, <1>3, <1>5, <1>6 DEF Next, Withdrawing

\* Each of them keeps the safety invariants.
LEMMA SafeStep ==
  ASSUME DeskInv, SafeTables, [Next]_vars
  PROVE  (Confirmation /\ Guarding)'
<1>1. CASE Quiet
  BY <1>1, SafeKept DEF Quiet
<1>2. CASE Cancelling
  BY <1>2, RowTypes, CancelSafe DEF Cancelling
<1>3. CASE Requesting
  BY <1>3, OpenSafe, ReuseSafe DEF Requesting
<1>4. CASE Moving
  BY <1>4, WriteSafe DEF Moving
<1>5. CASE Resolving
  BY <1>5, ResolveSafe DEF Resolving
<1>6. CASE Confirming
  BY <1>6, ConfirmSafe DEF Confirming
<1>7. CASE Withdrawing
  BY <1>7, InvalidateConfirmationSafe DEF Withdrawing
<1> QED
  BY <1>1, <1>2, <1>3, <1>4, <1>5, <1>6, <1>7, Writes

\* The three safety invariants hold together in every reachable state.
THEOREM SafeInvariant == Spec => [](DeskInv /\ SafeInv)
<1>1. Init => DeskInv /\ SafeInv
  <2>1. Init => SafeInv
    BY DEF Init, SafeInv, ConfirmationTracksOrder, DraftCanBeConfirmed, ActiveCaseHolds
  <2> QED
    BY <2>1, InitDesk
<1>2. DeskInv /\ SafeInv /\ [Next]_vars => DeskInv' /\ SafeInv'
  <2> SUFFICES ASSUME DeskInv, SafeInv, [Next]_vars PROVE DeskInv' /\ SafeInv'
    OBVIOUS
  <2>1. DeskInv'
    BY NextDesk
  <2>2. TablesOK' /\ SafeTables
    <3>1. DeskInv' => TablesOK'
      BY TableTypes, PTL
    <3> QED
      BY <2>1, <3>1, TableTypes, SafeForm DEF SafeTables
  <2>3. (Confirmation /\ Guarding)'
    BY <2>2, SafeStep
  <2>4. TablesOK' => (SafeInv' <=> (Confirmation /\ Guarding)')
    BY SafeForm, PTL
  <2> QED
    BY <2>1, <2>2, <2>3, <2>4
<1> QED
  BY <1>1, <1>2, PTL DEF Spec

\* A confirmation in force is that of its order's current draft version, the
\* order is confirmed and not held, unless a late transition disturbed it, and no
\* order is confirmed and not held without one: for any number of workers,
\* clients, orders and cases.
THEOREM ConfirmationInForce == Spec => []ConfirmationTracksOrder
<1>1. DeskInv /\ SafeInv => ConfirmationTracksOrder
  BY DEF SafeInv
<1> QED
  BY <1>1, SafeInvariant, PTL

\* A draft order never meets the unique constraint on its confirmations.
THEOREM DraftsConfirmable == Spec => []DraftCanBeConfirmed
<1>1. DeskInv /\ SafeInv => DraftCanBeConfirmed
  BY DEF SafeInv
<1> QED
  BY <1>1, SafeInvariant, PTL

\* At most one case is active, however late its transitions, and while it is its
\* order is held, or the case was made active again by such a transition.
THEOREM OneActiveCaseHolds == Spec => []ActiveCaseHolds
<1>1. DeskInv /\ SafeInv => ActiveCaseHolds
  BY DEF SafeInv
<1> QED
  BY <1>1, SafeInvariant, PTL

\* An order that was held and is not any more: its explicit request was cancelled.
LiftedByCancel(o) ==
  \E c \in DOMAIN cases :
    /\ cases[c].order = o /\ cases[c].reason = Explicit
    /\ orders[o].holdReason = Explicit
    /\ IsActive(c) /\ cases'[c].status = "CANCELLED"

\* That is the only way a step lifts a hold.
LEMMA HoldLifted ==
  ASSUME DeskInv, SafeTables, [Next]_vars, NEW o \in DOMAIN orders,
         orders[o].hold, ~ orders'[o].hold
  PROVE  LiftedByCancel(o)
<1>1. orders[o] \in Orders
  BY RowsTyped DEF SafeTables
<1>2. CASE \/ Quiet \/ Moving
            \/ \E reason \in HandoffReasons, c \in DOMAIN cases : ReuseCase(c, reason)
  BY <1>2 DEF Quiet, Moving, ReuseCase
<1>3. ASSUME NEW reason \in HandoffReasons, OpenCase(reason) PROVE FALSE
  <2>1. orders' = IF Latest = 0 THEN orders
                  ELSE [orders EXCEPT ![Latest].hold = TRUE, ![Latest].holdReason = reason]
    BY <1>3 DEF OpenCase, HoldOrder
  <2> QED
    BY <1>1, <2>1 DEF Orders
<1>4. CASE Resolving
  <2>1. PICK c \in DOMAIN cases : Resolves(c)
    BY <1>4 DEF Resolving
  <2> DEFINE p == cases[c].order
  <2>2. orders' = [orders EXCEPT ![p].dv = @ + 1, ![p].status = "DRAFT", ![p].hold = TRUE]
    BY <2>1 DEF Resolves, ResolvedOrder
  <2> QED
    BY <1>1, <2>2 DEF Orders
<1>5. CASE Confirming
  <2>1. PICK w \in Workers : ConfirmOrder(w)
    BY <1>5 DEF Confirming
  <2>2. PICK p \in 1 .. MaxOrders : Confirms(w, p)
    BY <2>1, ConfirmOrderRows
  <2>3. o = p
    BY <2>2 DEF Confirms
  <2>4. DOMAIN orders = 1 .. Latest /\ Latest \in Nat
    BY RowsTyped DEF SafeTables, Latest
  <2>5. p = Latest
    BY <2>2, <2>3, <2>4, DeskAssumption DEF Confirms
  <2> QED
    BY <2>1, <2>3, <2>4, <2>5 DEF ConfirmOrder
<1>6. CASE Withdrawing
  <2>1. PICK p \in DOMAIN orders : InvalidateConfirmation(p)
    BY <1>6 DEF Withdrawing
  <2>2. orders' = [orders EXCEPT ![p].dv = @ + 1, ![p].status = "CANCELLED"]
    BY <2>1 DEF InvalidateConfirmation
  <2> QED
    BY <1>1, <2>2 DEF Orders
<1>7. CASE Cancelling
  <2>1. PICK c \in DOMAIN cases : CancelCase(c)
    BY <1>7 DEF Cancelling
  <2>2. PICK dv \in DraftVersions :
          /\ MoveCase(c, "CANCELLED")
          /\ orders' = IF cases[c].order = 0 THEN orders
                       ELSE [orders EXCEPT ![cases[c].order] = CancelledOrder(c, dv)]
    BY <2>1 DEF CancelCase
  <2>3. cases[c].order = o
    BY <1>1, <2>2
  <2>4. ~ CancelledOrder(c, dv).hold
    BY <2>2, <2>3
  <2>5. CancelledOrder(c, dv).hold =
          (cases[c].reason # Explicit \/ (orders[o].hold /\ ~ ReleasesHold(c)))
    BY <1>1, <2>3 DEF CancelledOrder, Orders
  <2>6. ReleasesHold(c)
    BY <2>4, <2>5
  <2>7. cases[c].status \in Active
    BY <2>2, ClosingSafe DEF Terminal
  <2>8. cases'[c].status = "CANCELLED"
    BY <2>2, RowsTyped DEF MoveCase, SafeTables, Cases
  <2> QED
    BY <2>3, <2>6, <2>7, <2>8 DEF LiftedByCancel, ReleasesHold, IsActive, CaseStatus
<1> QED
  BY <1>2, <1>3, <1>4, <1>5, <1>6, <1>7, Writes DEF Requesting

\* A safety hold is lifted only by cancelling an explicit request opened for that
\* order and holding it for that reason: no resolution, failure, confirmation,
\* reset or reused case lifts it.
THEOREM HoldsLiftedByCancel == Spec => HoldLiftedByCancelOnly
<1> DEFINE Lifts == \A o \in DOMAIN orders :
                      orders[o].hold /\ ~ orders'[o].hold => LiftedByCancel(o)
<1>1. DeskInv /\ SafeInv /\ [Next]_vars => [Lifts]_vars
  <2> SUFFICES ASSUME DeskInv, SafeInv, [Next]_vars PROVE Lifts
    OBVIOUS
  <2>1. SafeTables
    BY TableTypes, SafeForm DEF SafeTables
  <2> QED
    BY <2>1, HoldLifted
<1>2. Spec => [][Lifts]_vars
  <2> HIDE DEF Lifts
  <2> QED
    BY <1>1, SafeInvariant, PTL DEF Spec
<1> QED
  BY <1>2 DEF HoldLiftedByCancelOnly, LiftedByCancel

-----------------------------------------------------------------------------
(* Every case implements the abstract one-case machine.                       *)

\* The abstract step of case `k`, or none.
Follows(k) ==
  \/ /\ CaseStatus(k)' = CaseStatus(k)
     /\ \A to \in Validated(k)' \ Validated(k) : MayMove(CaseStatus(k), to)
  \/ CaseStatus(k)' \in Validated(k) /\ Validated(k)' \subseteq Validated(k)
  \/ /\ CaseStatus(k)' \in { "REQUESTED", "CANCELLED" }
     /\ MayMove(CaseStatus(k), CaseStatus(k)')
     /\ Validated(k)' = Validated(k)

\* The steps of a turn, and of a request, at which a transition is validated.
TurnWriting == { "settle", "fail" }
RestWriting == { "settle", "fail" } \union ControlTargets

\* No transition is validated by the step ...
Fades ==
  /\ \A w \in Workers : turn'[w] = turn[w] \/ turn'[w].step \notin TurnWriting
  /\ \A r \in RestClients : request'[r] = request[r] \/ request'[r].step \notin RestWriting

\* ... nor ended by it.
Steady ==
  /\ Fades
  /\ \A w \in Workers : turn'[w] = turn[w] \/ turn[w].step \notin TurnWriting
  /\ \A r \in RestClients : request'[r] = request[r] \/ request[r].step \notin RestWriting

\* What has been validated for a case, one transition at a time.
LEMMA ValidatedIs ==
  ASSUME NEW k, NEW to
  PROVE  to \in Validated(k) <=>
           \/ \E w \in Workers : /\ turn[w].step \in TurnWriting /\ turn[w].case = k
                                 /\ to = Written(turn[w].step)
           \/ \E r \in RestClients : /\ request[r].step \in RestWriting /\ request[r].case = k
                                     /\ to = Written(request[r].step)
BY DEF Validated, TurnWriting, RestWriting

\* The same after the step.
LEMMA ValidatedNext ==
  ASSUME NEW k, NEW to
  PROVE  to \in Validated(k)' <=>
           \/ \E w \in Workers : /\ turn'[w].step \in TurnWriting /\ turn'[w].case = k
                                 /\ to = Written(turn'[w].step)
           \/ \E r \in RestClients : /\ request'[r].step \in RestWriting
                                     /\ request'[r].case = k
                                     /\ to = Written(request'[r].step)
BY DEF Validated, TurnWriting, RestWriting, Written

LEMMA FadesShrinks ==
  ASSUME Fades, NEW k
  PROVE  Validated(k)' \subseteq Validated(k)
<1>1. ASSUME NEW to, to \in Validated(k)' PROVE to \in Validated(k)
  BY <1>1, ValidatedIs, ValidatedNext DEF Fades
<1> QED
  BY <1>1

LEMMA SteadyKeeps ==
  ASSUME Steady, NEW k
  PROVE  Validated(k)' = Validated(k)
<1>1. Validated(k)' \subseteq Validated(k)
  BY FadesShrinks DEF Steady
<1>2. ASSUME NEW to, to \in Validated(k) PROVE to \in Validated(k)'
  BY <1>2, ValidatedIs, ValidatedNext DEF Steady
<1> QED
  BY <1>1, <1>2

\* A turn that does not settle a request validates nothing, and only one that
\* fails ends what it had validated.
LEMMA TurnFades ==
  ASSUME DeskInv, NEW w \in Workers, Turn(w), ~ TurnSettlesHandoff(w)
  PROVE  Fades /\ (turn[w].step \notin TurnWriting => Steady)
<1>1. turn \in [ Workers -> Turns ] /\ turn[w] \in Turns
  BY DEF DeskInv, TypeOK
<1>2. /\ \A v \in Workers : v # w => turn'[v] = turn[v]
      /\ turn'[w].step \notin TurnWriting /\ UNCHANGED request
  <2>1. ASSUME EndTurn(w)
        PROVE  (\A v \in Workers : v # w => turn'[v] = turn[v]) /\ turn'[w].step \notin TurnWriting
    BY <1>1, <2>1 DEF EndTurn, IdleTurn, TurnWriting
  <2>2. ASSUME NEW step, NEW state, Goto(w, step, state), step \notin TurnWriting
        PROVE  (\A v \in Workers : v # w => turn'[v] = turn[v]) /\ turn'[w].step \notin TurnWriting
    BY <1>1, <2>2 DEF Goto, Turns
  <2>3. { "preflight", "orchestrate", "handoff", "pending", "save", "confirm" }
          \cap TurnWriting = {}
    BY DEF TurnWriting
  <2>4. CASE \E msg \in Messages : ReceiveMessage(w, msg)
    BY <1>1, <2>4 DEF ReceiveMessage, TurnWriting
  <2>5. CASE AnswerBeforePreflight(w) \/ PreflightPass(w) \/ PreflightCancelAgain(w)
    <3>1. UNCHANGED request
      BY <2>5 DEF AnswerBeforePreflight, PreflightPass, PreflightCancelAgain
    <3>2. CASE AnswerBeforePreflight(w) \/ PreflightPass(w)
      BY <2>2, <2>3, <3>1, <3>2 DEF AnswerBeforePreflight, PreflightPass
    <3>3. CASE PreflightCancelAgain(w)
      <4> DEFINE next == [turn[w].state EXCEPT !.submitted = FALSE, !.dv = session.state.dv]
      <4>1. \/ EndTurn(w) \/ Goto(w, "save", turn[w].state)
            \/ turn' = [turn EXCEPT ![w].step = "save", ![w].state = next,
                                    ![w].version = session.version]
        BY <3>3 DEF PreflightCancelAgain
      <4> HIDE DEF next
      <4> QED
        BY <1>1, <2>1, <2>2, <2>3, <3>1, <4>1 DEF Turns
    <3> QED
      BY <2>5, <3>2, <3>3
  <2>6. CASE \E confidence \in ChatConfidences : PreflightGuard(w, confidence)
    <3>1. /\ UNCHANGED request
          /\ \E step \in { "handoff", "orchestrate", "save" } : \E state : Goto(w, step, state)
      BY <2>6 DEF PreflightGuard
    <3> QED
      BY <2>2, <2>3, <3>1
  <2>7. CASE PreflightCancel(w)
    <3> DEFINE next == [turn[w].state EXCEPT !.submitted = FALSE, !.dv = session'.state.dv]
    <3>1. /\ UNCHANGED request
          /\ \/ EndTurn(w)
             \/ turn' = [turn EXCEPT ![w].step = "save", ![w].state = next,
                                     ![w].version = session'.version]
      BY <2>7 DEF PreflightCancel
    <3> HIDE DEF next
    <3> QED
      BY <1>1, <2>1, <2>3, <3>1 DEF Turns
  <2>8. CASE Orchestrate(w)
    <3>1. /\ UNCHANGED request
          /\ \E step \in { "handoff", "save", "confirm" } : \E state : Goto(w, step, state)
      BY <2>8 DEF Orchestrate, EditDraft, SubmitDraft, StartNewOrder, AnswerOnly, Misunderstand,
                  UnparsedMessage, Audit
    <3> QED
      BY <2>2, <2>3, <3>1
  <2>9. CASE TurnRequestsHandoff(w)
    <3>1. /\ UNCHANGED request
          /\ \/ \E state : Goto(w, "save", state)
             \/ turn' = [turn EXCEPT ![w].step = "pending", ![w].case = Len(cases')]
      BY <2>9 DEF TurnRequestsHandoff
    <3> QED
      BY <1>1, <2>2, <2>3, <3>1 DEF Turns
  <2>10. CASE SaveTurn(w) \/ ConfirmReplay(w) \/ ConfirmOrder(w) \/ ConfirmRejected(w) \/ TurnFails(w)
    <3>1. EndTurn(w) /\ UNCHANGED request
      BY <2>10 DEF SaveTurn, ConfirmReplay, ConfirmOrder, ConfirmRejected, TurnFails
    <3> QED
      BY <2>1, <3>1
  <2> QED
    BY <2>4, <2>5, <2>6, <2>7, <2>8, <2>9, <2>10 DEF Turn, Preflight
<1>3. Fades
  BY <1>2 DEF Fades
<1>4. turn[w].step \notin TurnWriting => Steady
  BY <1>2, <1>3 DEF Steady
<1> QED
  BY <1>3, <1>4

\* A cancellation is a step of its case, and none of the others.
LEMMA CancelFollows ==
  ASSUME TablesOK, NEW c \in DOMAIN cases, CancelCase(c), Steady, NEW k
  PROVE  Follows(k)
<1>1. cases' = [cases EXCEPT ![c].status = "CANCELLED"] /\ MayMove(cases[c].status, "CANCELLED")
  BY DEF CancelCase, MoveCase
<1>2. DOMAIN cases' = DOMAIN cases /\ cases[c] \in Cases
  BY <1>1, RowsTyped
<1>3. Validated(k)' = Validated(k)
  BY SteadyKeeps
<1>4. CASE k = c
  <2>1. CaseStatus(k) = cases[c].status /\ CaseStatus(k)' = "CANCELLED"
    BY <1>1, <1>2, <1>4 DEF CaseStatus, Cases
  <2> QED
    BY <1>1, <1>3, <2>1 DEF Follows
<1>5. CASE k # c
  <2>1. CaseStatus(k)' = CaseStatus(k)
    BY <1>1, <1>2, <1>5 DEF CaseStatus
  <2> QED
    BY <1>3, <2>1 DEF Follows
<1> QED
  BY <1>4, <1>5

\* So is the opening of a case; the reuse of one is a step of none.
LEMMA RequestFollows ==
  ASSUME TablesOK, NEW reason \in HandoffReasons, Steady, NEW k,
         OpenCase(reason) \/ \E c \in DOMAIN cases : ReuseCase(c, reason)
  PROVE  Follows(k)
<1>1. Validated(k)' = Validated(k)
  BY SteadyKeeps
<1>2. ASSUME NEW c \in DOMAIN cases, ReuseCase(c, reason) PROVE Follows(k)
  <2>1. DOMAIN cases' = DOMAIN cases
    BY <1>2, ReuseCaseType
  <2>2. \A i \in DOMAIN cases : cases'[i].status = cases[i].status
    BY <1>2, RowsTyped DEF ReuseCase, Cases
  <2>3. CaseStatus(k)' = CaseStatus(k)
    BY <2>1, <2>2 DEF CaseStatus
  <2> QED
    BY <1>1, <2>3 DEF Follows
<1>3. ASSUME OpenCase(reason) PROVE Follows(k)
  <2> DEFINE row == [ status |-> "REQUESTED", reason |-> reason, order |-> Latest,
                      overwritten |-> FALSE ]
  <2>1. cases' = Append(cases, row)
    BY <1>3 DEF OpenCase
  <2>2. row.status = "REQUESTED"
    OBVIOUS
  <2> HIDE DEF row
  <2>3. /\ DOMAIN cases = 1 .. Len(cases) /\ Len(cases) \in Nat
        /\ DOMAIN cases' = 1 .. Len(cases) + 1 /\ cases'[Len(cases) + 1] = row
        /\ \A i \in DOMAIN cases : cases'[i] = cases[i]
    BY <2>1, RowsTyped DEF TablesOK
  <2>4. CASE k = Len(cases) + 1
    <3>1. CaseStatus(k) = "NOT_REQUIRED" /\ CaseStatus(k)' = "REQUESTED"
      BY <2>2, <2>3, <2>4 DEF CaseStatus
    <3>2. MayMove("NOT_REQUIRED", "REQUESTED")
      BY DEF MayMove, ALLOWED_TRANSITIONS, HandoffStatus
    <3> QED
      BY <1>1, <3>1, <3>2 DEF Follows
  <2>5. CASE k # Len(cases) + 1
    <3>1. k \in DOMAIN cases' <=> k \in DOMAIN cases
      BY <2>3, <2>5
    <3>2. CaseStatus(k)' = CaseStatus(k)
      BY <2>3, <3>1 DEF CaseStatus
    <3> QED
      BY <1>1, <3>2 DEF Follows
  <2> QED
    BY <2>4, <2>5
<1> QED
  BY <1>2, <1>3

\* Nor are the steps that leave the cases alone and validate nothing.
LEMMA FadingFollows ==
  ASSUME Fades, UNCHANGED cases, NEW k
  PROVE  Follows(k)
<1>1. Validated(k)' \subseteq Validated(k)
  BY FadesShrinks
<1>2. CaseStatus(k)' = CaseStatus(k)
  BY DEF CaseStatus
<1> QED
  BY <1>1, <1>2 DEF Follows

\* A validated transition is written, by the turn or request that validated it.
LEMMA WriteFollows ==
  ASSUME TablesOK, NEW c \in DOMAIN cases, NEW to \in HandoffStatus \ { "REQUESTED" },
         WriteStatus(c, to), to \in Validated(c), Fades, NEW k
  PROVE  Follows(k)
<1>1. /\ DOMAIN cases' = DOMAIN cases /\ cases'[c].status = to
      /\ \A i \in DOMAIN cases : i # c => cases'[i] = cases[i]
  BY WriteGuards
<1>2. Validated(k)' \subseteq Validated(k)
  BY FadesShrinks
<1>3. CASE k = c
  <2>1. CaseStatus(k)' = to
    BY <1>1, <1>3 DEF CaseStatus
  <2> QED
    BY <1>2, <1>3, <2>1 DEF Follows
<1>4. CASE k # c
  <2>1. CaseStatus(k)' = CaseStatus(k)
    BY <1>1, <1>4 DEF CaseStatus
  <2> QED
    BY <1>2, <2>1 DEF Follows
<1> QED
  BY <1>3, <1>4

\* A transition of case `c` is validated, by its status now.
LEMMA ReadFollows ==
  ASSUME NEW c \in DOMAIN cases, NEW to, MayMove(cases[c].status, to), UNCHANGED cases,
         \A k, s : s \in Validated(k)' /\ s \notin Validated(k) => k = c /\ s = to,
         NEW k
  PROVE  Follows(k)
<1>1. CaseStatus(k)' = CaseStatus(k) /\ CaseStatus(c) = cases[c].status
  BY DEF CaseStatus
<1>2. \A s \in Validated(k)' \ Validated(k) : MayMove(CaseStatus(k), s)
  BY <1>1
<1> QED
  BY <1>1, <1>2 DEF Follows

\* Settling a request in a unit of work at step `step`, which it leaves for `next`.
LEMMA SettleFollows ==
  ASSUME TablesOK, NEW c \in DOMAIN cases, NEW step \in Settling,
         NEW next \in { "settle", "fail", "done" }, SettleRequest(step, c, next),
         step \in TurnWriting => Written(step) \in Validated(c),
         next = "done" => Fades,
         next # "done" => \A k, s : s \in Validated(k)' /\ s \notin Validated(k)
                                     => k = c /\ s = Written(next),
         NEW k
  PROVE  Follows(k)
<1>1. Written("settle") = "PENDING" /\ Written("fail") = "FAILED"
  BY DEF Written
<1>2. { "PENDING", "FAILED" } \subseteq HandoffStatus \ { "REQUESTED" }
  BY DEF HandoffStatus, Active, Terminal
<1>3. CASE next = "settle"
  BY <1>1, <1>3, ReadFollows DEF SettleRequest
<1>4. CASE next = "fail"
  <2>1. cases[c].status \in { "REQUESTED", "PENDING" } /\ UNCHANGED cases
    BY <1>4 DEF SettleRequest
  <2>2. MayMove(cases[c].status, "FAILED")
    BY <2>1 DEF MayMove, ALLOWED_TRANSITIONS, HandoffStatus, Active, Terminal
  <2> QED
    BY <1>1, <1>4, <2>1, <2>2, ReadFollows
<1>5. CASE next = "done" /\ UNCHANGED cases
  BY <1>5, FadingFollows
<1>6. CASE next = "done" /\ step = "settle" /\ WriteStatus(c, "PENDING")
  BY <1>1, <1>2, <1>6, WriteFollows DEF TurnWriting
<1>7. CASE next = "done" /\ step = "fail" /\ WriteStatus(c, "FAILED")
  BY <1>1, <1>2, <1>7, WriteFollows DEF TurnWriting
<1> QED
  BY <1>3, <1>4, <1>5, <1>6, <1>7 DEF SettleRequest

\* A turn validates one transition of its case at a time, and writes that.
LEMMA TurnFollows ==
  ASSUME DeskInv, NEW w \in Workers, Turn(w), NEW k
  PROVE  Follows(k)
<1>1. TablesOK /\ turn \in [ Workers -> Turns ] /\ turn[w] \in Turns
  BY TableTypes DEF DeskInv, TypeOK
<1>2. CASE TurnSettlesHandoff(w)
  <2> DEFINE c == turn[w].case
  <2>1. /\ c \in DOMAIN cases /\ turn[w].step \in Settling /\ UNCHANGED request
    BY <1>2, TurnTypes DEF TurnSettlesHandoff, TurnOK, Settling
  <2>2. PICK next \in { "settle", "fail", "done" } :
          /\ SettleRequest(turn[w].step, c, next)
          /\ \E state : Goto(w, IF next = "done" THEN "save" ELSE next, state)
    BY <1>2 DEF TurnSettlesHandoff
  <2>3. /\ \A v \in Workers : v # w => turn'[v] = turn[v]
        /\ turn'[w].step = IF next = "done" THEN "save" ELSE next
        /\ turn'[w].case = c
    BY <1>1, <2>2 DEF Goto, Turns
  <2>4. turn[w].step \in TurnWriting => Written(turn[w].step) \in Validated(c)
    BY ValidatedIs
  <2>5. next = "done" => Fades
    BY <2>1, <2>3 DEF Fades, TurnWriting
  <2>6. ASSUME NEW j, NEW s, s \in Validated(j)', s \notin Validated(j), next # "done"
        PROVE  j = c /\ s = Written(next)
    BY <2>1, <2>3, <2>6, ValidatedIs, ValidatedNext
  <2> HIDE DEF c
  <2> QED
    BY <1>1, <2>1, <2>2, <2>4, <2>5, <2>6, SettleFollows
<1>3. CASE ~ TurnSettlesHandoff(w)
  <2>1. Fades /\ (turn[w].step \notin TurnWriting => Steady)
    BY <1>3, TurnFades
  <2>2. CASE PreflightCancel(w)
    <3>1. /\ IsActive(turn[w].state.handoff) /\ CancelCase(turn[w].state.handoff)
          /\ turn[w].step = "preflight"
      BY <2>2 DEF PreflightCancel
    <3>2. turn[w].state.handoff \in DOMAIN cases
      BY <3>1 DEF IsActive, CaseStatus, Active
    <3>3. Steady
      BY <2>1, <3>1 DEF TurnWriting
    <3> QED
      BY <1>1, <3>1, <3>2, <3>3, CancelFollows
  <2>3. CASE TurnRequestsHandoff(w)
    <3>1. turn[w].state.reason \in HandoffReasons /\ Steady
      BY <2>1, <2>3, TurnTypes DEF TurnRequestsHandoff, TurnOK, TurnWriting
    <3>2. \/ OpenCase(turn[w].state.reason)
          \/ \E c \in DOMAIN cases : ReuseCase(c, turn[w].state.reason)
      BY <2>3 DEF TurnRequestsHandoff
    <3> QED
      BY <1>1, <3>1, <3>2, RequestFollows
  <2>4. CASE ~ PreflightCancel(w) /\ ~ TurnRequestsHandoff(w)
    <3>1. UNCHANGED cases
      BY <1>3, <2>4 DEF Turn, Preflight, Orchestrate, ReceiveMessage, AnswerBeforePreflight,
         PreflightPass, PreflightGuard, PreflightCancelAgain, EditDraft, SubmitDraft,
         StartNewOrder, AnswerOnly, Misunderstand, UnparsedMessage, Audit, SaveTurn,
         ConfirmReplay, ConfirmOrder, ConfirmRejected, TurnFails, tables
    <3> QED
      BY <2>1, <3>1, FadingFollows
  <2> QED
    BY <2>2, <2>3, <2>4
<1> QED
  BY <1>2, <1>3

\* So does a request.
LEMMA RestFollows ==
  ASSUME DeskInv, NEW client \in RestClients, Rest(client), NEW k
  PROVE  Follows(k)
<1>1. /\ TablesOK /\ request \in [ RestClients -> Requests ] /\ request[client] \in Requests
      /\ RequestOK(request[client], DOMAIN cases)
  BY TableTypes DEF DeskInv, TypeOK
<1>2. ASSUME NEW r, request' = [request EXCEPT ![client] = r], r.step \notin RestWriting,
             UNCHANGED turn
      PROVE  Fades /\ (request[client].step \notin RestWriting => Steady)
  <2>1. /\ request'[client] = r
        /\ \A other \in RestClients : other # client => request'[other] = request[other]
    BY <1>1, <1>2
  <2> QED
    BY <1>2, <2>1 DEF Fades, Steady
<1>3. IdleRequest.step \notin RestWriting
  BY DEF IdleRequest, RestWriting, ControlTargets
<1>4. CASE RestRequestsHandoff(client)
  <2> DEFINE r == [request[client] EXCEPT !.step = "pending", !.case = Len(cases')]
  <2>1. /\ request[client].reason \in HandoffReasons /\ UNCHANGED turn
        /\ request[client].step = "open"
    BY <1>1, <1>4 DEF RestRequestsHandoff, RequestOK
  <2>2. r.step \notin RestWriting /\ request[client].step \notin RestWriting
    BY <1>1, <2>1 DEF Requests, RestWriting, ControlTargets
  <2>3. request' = [request EXCEPT ![client] = IdleRequest] \/ request' = [request EXCEPT ![client] = r]
    BY <1>4 DEF RestRequestsHandoff
  <2> HIDE DEF r
  <2>4. Steady
    BY <1>2, <1>3, <2>1, <2>2, <2>3
  <2>5. \/ OpenCase(request[client].reason)
        \/ \E c \in DOMAIN cases : ReuseCase(c, request[client].reason)
    BY <1>4 DEF RestRequestsHandoff
  <2> QED
    BY <1>1, <2>1, <2>4, <2>5, RequestFollows
<1>5. CASE RestSettlesHandoff(client)
  <2> DEFINE c == request[client].case
  <2>1. /\ c \in DOMAIN cases /\ request[client].step \in Settling /\ UNCHANGED turn
    BY <1>1, <1>5 DEF RestSettlesHandoff, RequestOK, Settling
  <2>2. PICK next \in { "settle", "fail", "done" } :
          /\ SettleRequest(request[client].step, c, next)
          /\ request' = IF next = "done" THEN [request EXCEPT ![client] = IdleRequest]
                        ELSE [request EXCEPT ![client].step = next]
    BY <1>5 DEF RestSettlesHandoff
  <2>3. next # "done" =>
          /\ \A other \in RestClients : other # client => request'[other] = request[other]
          /\ request'[client].step = next /\ request'[client].case = c
    BY <1>1, <2>2 DEF Requests
  <2>4. request[client].step \in TurnWriting => Written(request[client].step) \in Validated(c)
    BY ValidatedIs DEF RestWriting, TurnWriting
  <2>5. next = "done" => Fades
    BY <1>2, <1>3, <2>1, <2>2
  <2>6. ASSUME NEW j, NEW s, s \in Validated(j)', s \notin Validated(j), next # "done"
        PROVE  j = c /\ s = Written(next)
    BY <2>1, <2>3, <2>6, ValidatedIs, ValidatedNext
  <2> HIDE DEF c
  <2> QED
    BY <1>1, <2>1, <2>2, <2>4, <2>5, <2>6, SettleFollows
<1>6. ASSUME NEW c \in DOMAIN cases, NEW to \in ControlTargets, RestReadsCase(client, c, to)
      PROVE  Follows(k)
  <2>1. /\ MayMove(cases[c].status, to) /\ UNCHANGED << cases, turn >>
        /\ request' = [request EXCEPT ![client] =
                         [ step |-> to, reason |-> NoReason, case |-> c ]]
    BY <1>6 DEF RestReadsCase, tables
  <2>2. /\ \A other \in RestClients : other # client => request'[other] = request[other]
        /\ request'[client].step = to /\ request'[client].case = c
    BY <1>1, <2>1
  <2>3. Written(to) = to
    BY DEF Written, ControlTargets
  <2>4. ASSUME NEW j, NEW s, s \in Validated(j)', s \notin Validated(j)
        PROVE  j = c /\ s = to
    BY <2>1, <2>2, <2>3, <2>4, ValidatedIs, ValidatedNext
  <2> QED
    BY <2>1, <2>4, ReadFollows
<1>7. ASSUME NEW draftChanged \in BOOLEAN, RestWritesCase(client, draftChanged)
      PROVE  Follows(k)
  <2> DEFINE c == request[client].case
             to == request[client].step
  <2>1. /\ c \in DOMAIN cases /\ to \in HandoffStatus \ { "REQUESTED" } /\ to \in ControlTargets
    BY <1>1, <1>7 DEF RestWritesCase, RequestOK, ControlTargets, HandoffStatus, Active, Terminal
  <2>2. /\ WriteStatus(c, to) /\ UNCHANGED turn
        /\ request' = [request EXCEPT ![client] = IdleRequest]
    BY <1>7 DEF RestWritesCase
  <2>3. Fades
    BY <1>2, <1>3, <2>2
  <2>4. to \in Validated(c)
    <3>1. Written(to) = to
      BY <2>1 DEF Written, ControlTargets
    <3> QED
      BY <2>1, <3>1, ValidatedIs DEF RestWriting
  <2> HIDE DEF c, to
  <2> QED
    BY <1>1, <2>1, <2>2, <2>3, <2>4, WriteFollows
<1>8. ASSUME NEW reason \in RestReasons, RestEvaluates(client, reason) PROVE Follows(k)
  <2>1. PICK code : /\ UNCHANGED << cases, turn >>
                    /\ request' = [request EXCEPT ![client] =
                                     [ step |-> "open", reason |-> code, case |-> 0 ]]
    BY <1>8 DEF RestEvaluates, tables
  <2>2. [ step |-> "open", reason |-> code, case |-> 0 ].step \notin RestWriting
    BY DEF RestWriting, ControlTargets
  <2>3. Fades
    BY <1>2, <2>1, <2>2
  <2> QED
    BY <2>1, <2>3, FadingFollows
<1>9. CASE RestFails(client)
  BY <1>2, <1>3, <1>9, FadingFollows DEF RestFails, tables
<1> QED
  BY <1>4, <1>5, <1>6, <1>7, <1>8, <1>9 DEF Rest

\* Every step is a step of every case's machine, or none.
LEMMA StepFollows ==
  ASSUME DeskInv, [Next]_vars, NEW k
  PROVE  Follows(k)
<1>1. TablesOK
  BY TableTypes
<1>2. ASSUME UNCHANGED << turn, request >> PROVE Fades /\ Steady
  BY <1>2 DEF Fades, Steady
<1>3. CASE Cancellation
  BY <1>1, <1>2, <1>3, CancelFollows DEF Cancellation, RestCancel
<1>4. CASE \/ UNCHANGED vars \/ Reset
            \/ \E o \in DOMAIN orders : InvalidateConfirmation(o)
  BY <1>2, <1>4, FadingFollows DEF vars, Reset, InvalidateConfirmation
<1> QED
  BY <1>3, <1>4, TurnFollows, RestFollows DEF Next

\* Every row of handoff_cases implements HandoffCase: it is opened once, opened and
\* cancelled only from a state that allows it, and otherwise written only what was
\* validated by a state that allowed it.  So a closed case stays closed, unless a
\* transition validated before it was closed is still on its way.
THEOREM CasesFollowLifecycle == Spec => CasesImplementLifecycle
<1>1. Init => \A c \in 1 .. MaxCases : Case(c)!CaseInit
  <2> SUFFICES ASSUME Init, NEW c \in 1 .. MaxCases PROVE Case(c)!CaseInit
    OBVIOUS
  <2>1. ~ \E to : to \in Validated(c)
    BY ValidatedIs DEF Init, IdleTurn, IdleRequest, TurnWriting, RestWriting, ControlTargets
  <2>2. Validated(c) = {}
    BY <2>1
  <2> QED
    BY <2>2 DEF Init, Case!CaseInit, CaseStatus
<1>2. DeskInv /\ [Next]_vars =>
        [ \A c \in 1 .. MaxCases :
            [Case(c)!CaseNext]_<< CaseStatus(c), Validated(c) >> ]_vars
  <2> SUFFICES ASSUME DeskInv, [Next]_vars, NEW c \in 1 .. MaxCases
               PROVE  Case(c)!CaseNext
    OBVIOUS
  <2>1. Case(c)!HandoffStatus = HandoffStatus
    BY DEF HandoffStatus, Active, Terminal, Case!HandoffStatus, Case!Active, Case!Terminal
  <2>2. Case(c)!ALLOWED_TRANSITIONS = ALLOWED_TRANSITIONS
    BY <2>1 DEF ALLOWED_TRANSITIONS, Case!ALLOWED_TRANSITIONS
  <2>3. \A from, to : Case(c)!MayMove(from, to) <=> MayMove(from, to)
    BY <2>2 DEF MayMove, Case!MayMove
  <2>4. Follows(c)
    BY StepFollows
  <2> QED
    BY <2>3, <2>4 DEF Follows, Case!CaseNext, Case!Validates, Case!Writes, Case!MovesLocked
<1> QED
  BY <1>1, <1>2, DeskInvariant, PTL DEF Spec, CasesImplementLifecycle

-----------------------------------------------------------------------------
(* Turns: what a chat turn may rely on while it holds the session's state in  *)
(* memory: that what it tells the customer is so, that no guarded session     *)
(* confirms and that no stale save brings back an old draft version.          *)

-----------------------------------------------------------------------------
(* What an idempotency record says of its order.                              *)

\* The record's draft version was confirmed for its order, and as long as the
\* order is at that version it holds what was confirmed.
Recorded ==
  \A r \in idempotency :
    /\ << r.order, r.dv >> \in confirmed
    /\ orders[r.order].dv = r.dv => orders[r.order].items = r.items

\* Only a confirmation records a key.
LEMMA OnlyConfirmRecords ==
  ASSUME [Next]_vars, ~ Confirming
  PROVE  UNCHANGED idempotency
<1>1. CASE UNCHANGED vars
  BY <1>1 DEF vars
<1>2. ASSUME NEW w \in Workers, Turn(w) PROVE UNCHANGED idempotency
  <2>1. CASE Preflight(w)
    BY <2>1 DEF Preflight, AnswerBeforePreflight, PreflightPass, PreflightGuard,
                PreflightCancel, PreflightCancelAgain, tables
  <2>2. CASE Orchestrate(w)
    BY <2>2 DEF Orchestrate, EditDraft, SubmitDraft, StartNewOrder, AnswerOnly, Misunderstand,
                UnparsedMessage, Audit, tables
  <2>3. CASE \/ \E msg \in Messages : ReceiveMessage(w, msg)
             \/ ConfirmReplay(w) \/ ConfirmRejected(w) \/ TurnFails(w)
    BY <2>3 DEF ReceiveMessage, ConfirmReplay, ConfirmRejected, TurnFails, tables
  <2>4. CASE TurnRequestsHandoff(w) \/ TurnSettlesHandoff(w) \/ SaveTurn(w)
    BY <2>4 DEF TurnRequestsHandoff, TurnSettlesHandoff, SaveTurn
  <2> QED
    BY <1>2, <2>1, <2>2, <2>3, <2>4 DEF Turn, Confirming
<1>3. ASSUME NEW client \in RestClients, Rest(client) PROVE UNCHANGED idempotency
  BY <1>3 DEF Rest, RestEvaluates, RestRequestsHandoff, RestSettlesHandoff, RestReadsCase,
              RestWritesCase, RestFails, tables
<1>4. CASE Cancellation
  BY <1>4 DEF Cancellation, RestCancel
<1>5. CASE Reset \/ \E o \in DOMAIN orders : InvalidateConfirmation(o)
  BY <1>5 DEF Reset, InvalidateConfirmation
<1> QED
  BY <1>1, <1>2, <1>3, <1>4, <1>5 DEF Next

\* An order keeps its row, its content, and never goes back to an older version.
Grown(o) ==
  /\ o \in DOMAIN orders'
  /\ orders[o].dv <= orders'[o].dv
  /\ orders'[o].items = orders[o].items

\* So it is with every order unless one is confirmed.
LEMMA OrdersGrow ==
  ASSUME DeskInv, SafeTables, [Next]_vars, ~ Confirming, NEW o \in DOMAIN orders
  PROVE  Grown(o) /\ UNCHANGED confirmed
<1>1. orders[o] \in Orders /\ orders[o].dv \in Nat
  BY RowsTyped, DeskAssumption DEF SafeTables, Orders, DraftVersions
<1>2. CASE Quiet \/ Moving \/ \E reason \in HandoffReasons, c \in DOMAIN cases :
                                 ReuseCase(c, reason) /\ UNCHANGED confirmed
  BY <1>1, <1>2 DEF Quiet, Moving, ReuseCase, Grown
<1>3. ASSUME NEW reason \in HandoffReasons, OpenCase(reason), UNCHANGED confirmed
      PROVE  Grown(o) /\ UNCHANGED confirmed
  <2>1. orders' = IF Latest = 0 THEN orders
                  ELSE [orders EXCEPT ![Latest].hold = TRUE, ![Latest].holdReason = reason]
    BY <1>3 DEF OpenCase, HoldOrder
  <2> QED
    BY <1>1, <1>3, <2>1 DEF Orders, Grown
<1>4. CASE Resolving
  <2>1. PICK c \in DOMAIN cases : Resolves(c)
    BY <1>4 DEF Resolving
  <2> DEFINE p == cases[c].order
  <2>2. /\ UNCHANGED confirmed
        /\ orders' = [orders EXCEPT ![p].dv = @ + 1, ![p].status = "DRAFT", ![p].hold = TRUE]
    BY <2>1 DEF Resolves, ResolvedOrder
  <2> QED
    BY <1>1, <2>2 DEF Orders, Grown
<1>5. CASE Withdrawing
  <2>1. PICK p \in DOMAIN orders : InvalidateConfirmation(p)
    BY <1>5 DEF Withdrawing
  <2>2. /\ UNCHANGED confirmed
        /\ orders' = [orders EXCEPT ![p].dv = @ + 1, ![p].status = "CANCELLED"]
    BY <2>1 DEF InvalidateConfirmation
  <2> QED
    BY <1>1, <2>2 DEF Orders, Grown
<1>6. CASE Cancelling
  <2>1. PICK c \in DOMAIN cases : CancelCase(c) /\ UNCHANGED confirmed
    BY <1>6 DEF Cancelling
  <2> DEFINE p == cases[c].order
             step == IF AdvancesDraft(p) THEN 1 ELSE 0
             dv == IF p = 0 THEN session.state.dv + step
                   ELSE Max2(orders[p].dv + step, session.state.dv)
  <2>2. dv \in DraftVersions /\ orders' = IF p = 0 THEN orders
                                          ELSE [orders EXCEPT ![p] = CancelledOrder(c, dv)]
    BY <2>1 DEF CancelCase
  <2>3. CASE p # o \/ p = 0
    BY <1>1, <2>1, <2>2, <2>3 DEF Grown
  <2>4. CASE p = o /\ p # 0
    <3>1. orders'[o] = CancelledOrder(c, dv) /\ DOMAIN orders' = DOMAIN orders
      BY <2>2, <2>4
    <3>2. CancelledOrder(c, dv).dv = dv /\ CancelledOrder(c, dv).items = orders[o].items
      BY <1>1, <2>4 DEF CancelledOrder, Orders
    <3>3. orders[o].dv + step <= dv /\ step \in 0 .. 1
      <4>1. session.state.dv \in Nat
        BY RowTypes, DeskAssumption DEF States, DraftVersions
      <4> QED
        BY <1>1, <2>4, <4>1 DEF Max2
    <3>4. dv \in Nat
      BY <2>2, DeskAssumption DEF DraftVersions
    <3> HIDE DEF dv, step
    <3>5. orders[o].dv <= dv
      BY <1>1, <3>3, <3>4
    <3> QED
      BY <2>1, <3>1, <3>2, <3>5 DEF Grown
  <2> QED
    BY <2>3, <2>4
<1> QED
  BY <1>2, <1>3, <1>4, <1>5, <1>6, Writes DEF Requesting

\* The types of a record, and where its order is.
LEMMA RecordTypes ==
  ASSUME TablesOK, Recorded, NEW r \in idempotency
  PROVE  r.order \in DOMAIN orders /\ r.dv \in Nat /\ orders[r.order].dv \in Nat
<1>1. r \in Records /\ r.order <= Len(orders)
  BY DEF TablesOK, RowsOK
<1>2. r.order \in DOMAIN orders
  BY <1>1, RowsTyped, DeskAssumption DEF Records
<1> QED
  BY <1>1, <1>2, RowsTyped, DeskAssumption DEF Records, Orders, DraftVersions

\* Every step keeps it.
LEMMA RecordedStep ==
  ASSUME DeskInv, SafeTables, Recorded, [Next]_vars
  PROVE  Recorded'
<1>1. CASE ~ Confirming
  <2>1. UNCHANGED idempotency
    BY <1>1, OnlyConfirmRecords
  <2>2. ASSUME NEW r \in idempotency
        PROVE  /\ << r.order, r.dv >> \in confirmed'
               /\ orders'[r.order].dv = r.dv => orders'[r.order].items = r.items
    <3>1. r.order \in DOMAIN orders /\ r.dv \in Nat /\ orders[r.order].dv \in Nat
      BY RecordTypes DEF SafeTables
    <3>2. Grown(r.order) /\ UNCHANGED confirmed
      BY <1>1, <3>1, OrdersGrow
    <3>3. << r.order, r.dv >> \in confirmed /\ r.dv <= orders[r.order].dv
      BY DEF Recorded, SafeTables, Confirmation, Reached
    <3>4. orders'[r.order].dv = r.dv => orders[r.order].dv = r.dv
      BY <3>1, <3>2, <3>3 DEF Grown
    <3> QED
      BY <3>2, <3>3, <3>4 DEF Recorded, Grown
  <2> QED
    BY <2>1, <2>2 DEF Recorded
<1>2. CASE Confirming
  <2>1. PICK w \in Workers : ConfirmOrder(w)
    BY <1>2 DEF Confirming
  <2>2. PICK o \in 1 .. MaxOrders : Confirms(w, o)
    BY <2>1, ConfirmOrderRows
  <2> DEFINE dv == turn[w].state.dv
             items == turn[w].state.items
             record == [ key |-> KeyOf(w), dv |-> dv, items |-> items, order |-> o ]
  <2>3. orders'[o].items = items
    <3>1. DOMAIN orders = 1 .. Latest /\ Latest \in Nat
      BY RowsTyped DEF SafeTables, Latest
    <3> DEFINE reuse == /\ Latest # 0
                        /\ orders[Latest].status = "DRAFT"
                        /\ orders[Latest].dv = dv
               order == [ status |-> "CUSTOMER_CONFIRMED", dv |-> dv, items |-> items,
                          hold |-> FALSE, holdReason |-> NoReason ]
    <3>2. orders' = IF reuse THEN [orders EXCEPT ![Latest].status = "CUSTOMER_CONFIRMED",
                                                 ![Latest].items = items]
                    ELSE Append(orders, order)
      BY <2>1 DEF ConfirmOrder
    <3>3. CASE reuse
      <4>1. orders[Latest] \in Orders /\ Latest \in DOMAIN orders
        BY <3>1, <3>3, RowsTyped DEF SafeTables
      <4>2. DOMAIN orders' = DOMAIN orders
        BY <3>2, <3>3
      <4>3. o = Latest
        BY <2>2, <3>1, <4>2 DEF Confirms
      <4> QED
        BY <3>2, <3>3, <4>1, <4>3 DEF Orders
    <3>4. CASE ~ reuse
      <4>1. orders' = Append(orders, order)
        BY <3>2, <3>4
      <4>2. order.items = items
        OBVIOUS
      <4> HIDE DEF order
      <4>3. Len(orders') = Len(orders) + 1 /\ orders'[Len(orders) + 1] = order
        BY <4>1, RowsTyped DEF SafeTables, TablesOK
      <4> QED
        BY <2>2, <4>2, <4>3 DEF Confirms
    <3> QED
      BY <3>3, <3>4
  <2>4. /\ idempotency' = idempotency \union { record }
        /\ confirmed' = confirmed \union {<< o, dv >>}
        /\ << o, dv >> \notin confirmed /\ orders'[o].dv = dv
        /\ \A k \in DOMAIN orders : k # o => orders'[k] = orders[k]
    BY <2>2 DEF Confirms
  <2>5. ASSUME NEW r \in idempotency
        PROVE  /\ << r.order, r.dv >> \in confirmed'
               /\ orders'[r.order].dv = r.dv => orders'[r.order].items = r.items
    <3>1. r.order \in DOMAIN orders
      BY RecordTypes DEF SafeTables
    <3>2. << r.order, r.dv >> \in confirmed
      BY DEF Recorded
    <3>3. CASE r.order = o
      BY <2>4, <3>2, <3>3
    <3>4. CASE r.order # o
      BY <2>4, <3>1, <3>2, <3>4 DEF Recorded
    <3> QED
      BY <3>3, <3>4
  <2>6. record.order = o /\ record.dv = dv /\ record.items = items
    OBVIOUS
  <2> HIDE DEF record, dv, items
  <2> QED
    BY <2>3, <2>4, <2>5, <2>6 DEF Recorded
<1> QED
  BY <1>1, <1>2

\* The records are right in every reachable state.
LEMMA RecordsRight == Spec => [](DeskInv /\ SafeInv /\ Recorded)
<1>1. Init => Recorded
  BY DEF Init, Recorded
<1>2. DeskInv /\ SafeInv /\ Recorded /\ [Next]_vars => Recorded'
  <2> SUFFICES ASSUME DeskInv, SafeInv, Recorded, [Next]_vars PROVE Recorded'
    OBVIOUS
  <2>1. SafeTables
    BY TableTypes, SafeForm DEF SafeTables
  <2> QED
    BY <2>1, RecordedStep
<1> QED
  BY <1>1, <1>2, SafeInvariant, PTL DEF Spec

\* The answer "confirmed", the replay of an earlier answer included, is so in the
\* database at that moment: the order is confirmed and not held, and has the
\* version and the content of the customer's draft.  Except the replay of an
\* order disturbed by a late transition.
THEOREM ToldIsTrue == Spec => ToldTheTruth
<1> DEFINE Holds(w, o) == /\ orders'[o].status = "CUSTOMER_CONFIRMED"
                          /\ ~ orders'[o].hold
                          /\ orders'[o].items = turn[w].state.items
                          /\ orders'[o].dv = turn[w].state.dv
           True(w) == \/ Holds(w, told'[turn[w].state.taking].order)
                      \/ ConfirmReplay(w) /\ Disturbed(told'[turn[w].state.taking].order)
           Truthful == \A w \in Workers : ConfirmReplay(w) \/ ConfirmOrder(w) => True(w)
<1>1. DeskInv /\ SafeInv /\ Recorded /\ [Next]_vars => [Truthful]_vars
  <2> SUFFICES ASSUME DeskInv, SafeInv, Recorded, [Next]_vars, NEW w \in Workers
               PROVE  ConfirmReplay(w) \/ ConfirmOrder(w) => True(w)
    OBVIOUS
  <2>1. SafeTables
    BY TableTypes, SafeForm DEF SafeTables
  <2>2. turn[w].state.taking \in Takings /\ told \in [ Takings -> Answers ]
    BY TurnTypes, RowTypes DEF States
  <2>3. \A o : Tell(w, o) \/ TellPlaced(w, o) => told'[turn[w].state.taking].order = o
    BY <2>2 DEF Tell, TellPlaced, Answers
  <2>4. ASSUME ConfirmReplay(w) PROVE True(w)
    <3>1. PICK r \in idempotency : SameRequest(w, r) /\ StillConfirmed(w, r) /\ Tell(w, r.order)
      BY <2>4 DEF ConfirmReplay, RecordsOf
    <3>2. /\ r.dv = turn[w].state.dv /\ r.items = turn[w].state.items
          /\ orders[r.order].status = "CUSTOMER_CONFIRMED"
          /\ << r.order, r.dv >> \in confirmed /\ << r.order, r.dv >> \notin invalidated
      BY <3>1 DEF SameRequest, StillConfirmed, Valid
    <3>3. CASE Disturbed(r.order)
      BY <2>3, <2>4, <3>1, <3>3
    <3>4. CASE ~ Disturbed(r.order)
      <4>1. orders[r.order].dv = r.dv /\ ~ orders[r.order].hold
        BY <2>1, <3>2, <3>4 DEF SafeTables, Confirmation, InForce
      <4>2. orders[r.order].items = r.items
        BY <4>1 DEF Recorded
      <4>3. UNCHANGED orders
        BY <2>4 DEF ConfirmReplay, tables
      <4> QED
        BY <2>3, <3>1, <3>2, <4>1, <4>2, <4>3
    <3> QED
      BY <3>3, <3>4
  <2>5. ASSUME ConfirmOrder(w) PROVE True(w)
    <3>1. PICK o \in 1 .. MaxOrders : Confirms(w, o)
      BY <2>5, ConfirmOrderRows
    <3>2. Recorded'
      BY <2>1, RecordedStep
    <3> DEFINE record == [ key |-> KeyOf(w), dv |-> turn[w].state.dv,
                           items |-> turn[w].state.items, order |-> o ]
    <3>3. record \in idempotency'
      BY <3>1 DEF Confirms
    <3>4. record.order = o /\ record.dv = turn[w].state.dv /\ record.items = turn[w].state.items
      OBVIOUS
    <3> HIDE DEF record
    <3>5. orders'[o].items = turn[w].state.items
      BY <3>1, <3>2, <3>3, <3>4 DEF Recorded, Confirms
    <3> QED
      BY <2>3, <3>1, <3>5 DEF Confirms
  <2> QED
    BY <2>4, <2>5
<1>2. Spec => [][Truthful]_vars
  <2> HIDE DEF Truthful
  <2> QED
    BY <1>1, RecordsRight, PTL DEF Spec
<1> QED
  BY <1>2 DEF ToldTheTruth

-----------------------------------------------------------------------------
(* What a turn's state in memory knows of the session row.  A save is refused *)
(* at another version, so it matters only what is known at the row's version. *)

\* Case `c` of `rows` is active or has failed, and not by a late transition.
Blocks(rows, c) ==
  /\ c \in DOMAIN rows
  /\ rows[c].status \in Active \union { "FAILED" } /\ ~ rows[c].overwritten

\* A state that points at such a case remembers a reason.
Guarded(rows, state) ==
  /\ state.handoff \in 0 .. Len(rows)
  /\ Blocks(rows, state.handoff) => state.reason # NoReason

\* Turn `t` has read `row` as it is now: its draft is not older and, until it
\* answers, it is about the same order taking and the same case.
Fresh(row, t) ==
  /\ t.state.taking = row.state.taking => row.state.dv <= t.state.dv
  /\ t.step \in { "preflight", "orchestrate" } => t.state.taking = row.state.taking
  /\ t.step \in { "preflight", "orchestrate", "confirm" } =>
       t.state.handoff = row.state.handoff

TurnSafe(rows, row, t) ==
  t.step # "idle" =>
    /\ Guarded(rows, t.state)
    /\ t.version <= row.version
    /\ t.version = row.version => Fresh(row, t)
    /\ t.step \in { "orchestrate", "confirm" } => ~ Blocks(rows, t.state.handoff)
    /\ t.step \in Settling => t.state.reason # NoReason

TurnInv ==
  /\ Guarded(cases, session.state)
  /\ \A w \in Workers : TurnSafe(cases, session, turn[w])

\* A case that is opened is new, and no other begins to block.
LEMMA CasesCalm ==
  ASSUME DeskInv, SafeTables, [Next]_vars
  PROVE  /\ Len(cases) \in Nat /\ Len(cases') \in Nat /\ Len(cases) <= Len(cases')
         /\ \A c \in 0 .. Len(cases) : Blocks(cases', c) => Blocks(cases, c)
<1> DEFINE Calm == /\ Len(cases') \in Nat /\ Len(cases) <= Len(cases')
                   /\ \A c \in 0 .. Len(cases) : Blocks(cases', c) => Blocks(cases, c)
<1>1. DOMAIN cases = 1 .. Len(cases) /\ Len(cases) \in Nat
  BY RowsTyped DEF SafeTables
<1> SUFFICES Calm
  BY <1>1
<1>2. CASE UNCHANGED cases
  BY <1>1, <1>2
<1>3. ASSUME NEW c \in DOMAIN cases, NEW to \in HandoffStatus \ { "REQUESTED" }, WriteStatus(c, to)
      PROVE  Calm
  <2>1. /\ DOMAIN cases' = DOMAIN cases
        /\ cases'[c].overwritten \/ cases[c].status \in Active
        /\ cases[c].overwritten => cases'[c].overwritten
        /\ \A k \in DOMAIN cases : k # c => cases'[k] = cases[k]
    BY <1>3, WriteGuards DEF SafeTables, Ages
  <2>2. Len(cases') = Len(cases)
    BY <1>3, WriteStatusType DEF SafeTables
  <2> QED
    BY <1>1, <2>1, <2>2 DEF Blocks
<1>4. ASSUME NEW c \in DOMAIN cases, MoveCase(c, "CANCELLED") PROVE Calm
  <2>1. "CANCELLED" \in HandoffStatus /\ "CANCELLED" \notin Active \union { "FAILED" }
    BY DEF HandoffStatus, Active, Terminal
  <2>2. /\ Len(cases') = Len(cases) /\ DOMAIN cases' = DOMAIN cases
        /\ cases' = [cases EXCEPT ![c].status = "CANCELLED"]
    BY <1>4, <2>1, MoveCaseType DEF SafeTables, MoveCase
  <2>3. /\ cases'[c].status = "CANCELLED"
        /\ \A k \in DOMAIN cases : k # c => cases'[k] = cases[k]
    BY <2>2, RowsTyped DEF SafeTables, Cases
  <2> QED
    BY <1>1, <2>1, <2>2, <2>3 DEF Blocks
<1>5. ASSUME NEW c \in DOMAIN cases, NEW reason \in HandoffReasons, ReuseCase(c, reason)
      PROVE  Calm
  <2>1. Len(cases') = Len(cases) /\ DOMAIN cases' = DOMAIN cases
    BY <1>5, ReuseCaseType DEF SafeTables
  <2>2. \A k \in DOMAIN cases : /\ cases'[k].status = cases[k].status
                               /\ cases'[k].overwritten = cases[k].overwritten
    BY <1>5, RowsTyped DEF ReuseCase, SafeTables, Cases
  <2> QED
    BY <1>1, <2>1, <2>2 DEF Blocks
<1>6. ASSUME NEW reason \in HandoffReasons, OpenCase(reason) PROVE Calm
  <2> DEFINE row == [ status |-> "REQUESTED", reason |-> reason, order |-> Latest,
                      overwritten |-> FALSE ]
  <2>1. cases' = Append(cases, row)
    BY <1>6 DEF OpenCase
  <2> HIDE DEF row
  <2>2. /\ Len(cases') = Len(cases) + 1 /\ DOMAIN cases' = 1 .. Len(cases) + 1
        /\ \A k \in DOMAIN cases : cases'[k] = cases[k]
    BY <1>1, <2>1 DEF SafeTables, TablesOK
  <2> QED
    BY <1>1, <2>2 DEF Blocks
<1>7. "RESOLVED" \in HandoffStatus \ { "REQUESTED" }
  BY DEF HandoffStatus, Active, Terminal
<1> HIDE DEF Calm
<1>8. CASE Quiet \/ Confirming \/ Withdrawing
  <2>1. UNCHANGED cases
    BY <1>8 DEF Quiet, Confirming, ConfirmOrder, Withdrawing, InvalidateConfirmation
  <2> QED
    BY <1>2, <2>1
<1>9. CASE Cancelling
  BY <1>4, <1>9 DEF Cancelling, CancelCase
<1>10. CASE Requesting
  BY <1>5, <1>6, <1>10 DEF Requesting
<1>11. CASE Moving
  BY <1>3, <1>11 DEF Moving
<1>12. CASE Resolving
  BY <1>3, <1>7, <1>12 DEF Resolving, Resolves
<1> QED
  BY <1>8, <1>9, <1>10, <1>11, <1>12, Writes

\* A guarded state stays guarded.
LEMMA GuardedStays ==
  ASSUME DeskInv, SafeTables, [Next]_vars, NEW state, Guarded(cases, state)
  PROVE  Guarded(cases', state)
BY CasesCalm DEF Guarded

\* A turn that does not move is as safe after a step that leaves the session's
\* row alone or gives it a new version.
LEMMA OtherTurn ==
  ASSUME DeskInv, SafeTables, [Next]_vars, NEW t \in Turns, TurnSafe(cases, session, t),
         UNCHANGED session \/ session'.version = session.version + 1
  PROVE  TurnSafe(cases', session', t)
<1> SUFFICES ASSUME t.step # "idle" PROVE TurnSafe(cases', session', t)
  BY DEF TurnSafe
<1>1. Guarded(cases', t.state)
  BY GuardedStays DEF TurnSafe
<1>2. session.version \in Nat /\ t.version \in Nat
  BY RowTypes, DeskAssumption DEF Turns
<1>3. t.version <= session'.version /\ (t.version = session'.version => UNCHANGED session)
  BY <1>2 DEF TurnSafe
<1>4. ~ Blocks(cases, t.state.handoff) => ~ Blocks(cases', t.state.handoff)
  BY CasesCalm DEF TurnSafe, Guarded
<1> QED
  BY <1>1, <1>3, <1>4 DEF TurnSafe

\* What a step does to the session's row.
Saving == \E w \in Workers : SaveTurn(w) /\ MaySave(w) /\ SaveState(turn[w].state)
SessionKept == UNCHANGED session

\* Every step is one of these.
LEMMA SessionWrites ==
  ASSUME DeskInv, [Next]_vars
  PROVE  SessionKept \/ Saving \/ Confirming \/ Reset \/ \E c \in DOMAIN cases : CancelCase(c)
<1>1. CASE UNCHANGED vars
  BY <1>1 DEF vars, SessionKept
<1>2. ASSUME NEW w \in Workers, Turn(w)
      PROVE  SessionKept \/ Saving \/ Confirming \/ \E c \in DOMAIN cases : CancelCase(c)
  <2>1. CASE \/ AnswerBeforePreflight(w) \/ PreflightPass(w) \/ PreflightCancelAgain(w)
             \/ \E confidence \in ChatConfidences : PreflightGuard(w, confidence)
    BY <2>1 DEF AnswerBeforePreflight, PreflightPass, PreflightGuard, PreflightCancelAgain,
                tables, SessionKept
  <2>2. CASE PreflightCancel(w)
    <3>1. IsActive(turn[w].state.handoff) /\ CancelCase(turn[w].state.handoff)
      BY <2>2 DEF PreflightCancel
    <3>2. turn[w].state.handoff \in DOMAIN cases
      BY <3>1 DEF IsActive, CaseStatus, Active
    <3> QED
      BY <3>1, <3>2
  <2>3. CASE Orchestrate(w)
    BY <2>3 DEF Orchestrate, EditDraft, SubmitDraft, StartNewOrder, AnswerOnly, Misunderstand,
                UnparsedMessage, Audit, tables, SessionKept
  <2>4. CASE \/ \E msg \in Messages : ReceiveMessage(w, msg)
             \/ ConfirmReplay(w) \/ ConfirmRejected(w) \/ TurnFails(w)
    BY <2>4 DEF ReceiveMessage, ConfirmReplay, ConfirmRejected, TurnFails, tables, SessionKept
  <2>5. CASE TurnRequestsHandoff(w) \/ TurnSettlesHandoff(w)
    BY <2>5 DEF TurnRequestsHandoff, TurnSettlesHandoff, SessionKept
  <2>6. CASE SaveTurn(w)
    BY <2>6 DEF SaveTurn, Saving, SessionKept
  <2> QED
    BY <1>2, <2>1, <2>2, <2>3, <2>4, <2>5, <2>6 DEF Turn, Preflight, Confirming
<1>3. ASSUME NEW client \in RestClients, Rest(client) PROVE SessionKept
  BY <1>3 DEF Rest, RestEvaluates, RestRequestsHandoff, RestSettlesHandoff, RestReadsCase,
              RestWritesCase, RestFails, tables, SessionKept
<1>4. ASSUME Cancellation PROVE \E c \in DOMAIN cases : CancelCase(c)
  BY <1>4 DEF Cancellation, RestCancel
<1>5. ASSUME NEW o \in DOMAIN orders, InvalidateConfirmation(o) PROVE SessionKept
  BY <1>5 DEF InvalidateConfirmation, SessionKept
<1> QED
  BY <1>1, <1>2, <1>3, <1>4, <1>5 DEF Next

\* A cancellation leaves the session pointing at a case that no longer blocks, and
\* its draft at a version that is not older.
LEMMA CancelSession ==
  ASSUME DeskInv, NEW c \in DOMAIN cases, CancelCase(c)
  PROVE  /\ session'.version = session.version + 1
         /\ session'.state.handoff = c /\ session'.state.taking = session.state.taking
         /\ session.state.dv <= session'.state.dv
         /\ c \in 0 .. Len(cases') /\ ~ Blocks(cases', c)
<1> DEFINE o == cases[c].order
           step == IF AdvancesDraft(o) THEN 1 ELSE 0
           dv == IF o = 0 THEN session.state.dv + step
                 ELSE Max2(orders[o].dv + step, session.state.dv)
<1>1. /\ MoveCase(c, "CANCELLED") /\ dv \in DraftVersions
      /\ SaveState(CancelledState(c, dv))
  BY DEF CancelCase
<1>2. /\ TablesOK /\ session.state \in States /\ session.state.dv \in Nat
      /\ session \in [ version : 1 .. MaxVersion, closed : BOOLEAN, state : States ]
  <2>1. session.state \in States /\ TablesOK
    BY TableTypes, RowTypes
  <2>2. session \in [ version : 1 .. MaxVersion, closed : BOOLEAN, state : States ]
    BY DEF DeskInv, TypeOK
  <2> QED
    BY <2>1, <2>2, DeskAssumption DEF States, DraftVersions
<1>3. session.state.dv <= dv
  <2>1. cases[c] \in Cases /\ o <= Len(orders)
    BY <1>2, RowsTyped DEF TablesOK, RowsOK
  <2>2. o # 0 => orders[o].dv \in Nat
    BY <1>2, <2>1, RowsTyped, DeskAssumption DEF Cases, Orders, DraftVersions
  <2> HIDE DEF o
  <2> QED
    BY <1>2, <2>2 DEF Max2
<1> HIDE DEF dv
<1>4. /\ CancelledState(c, dv).handoff = c /\ CancelledState(c, dv).dv = dv
      /\ CancelledState(c, dv).taking = session.state.taking
  BY <1>2 DEF CancelledState, States
<1>5. session'.version = session.version + 1 /\ session'.state = CancelledState(c, dv)
  BY <1>1, <1>2 DEF SaveState
<1>6. "CANCELLED" \in HandoffStatus /\ "CANCELLED" \notin Active \union { "FAILED" }
  BY DEF HandoffStatus, Active, Terminal
<1>7. Len(cases') = Len(cases) /\ DOMAIN cases' = DOMAIN cases
  BY <1>1, <1>2, <1>6, MoveCaseType
<1>8. cases'[c].status = "CANCELLED"
  BY <1>1, <1>2, RowsTyped DEF MoveCase, Cases
<1>9. c \in 0 .. Len(cases')
  BY <1>2, <1>7, RowsTyped
<1> QED
  BY <1>3, <1>4, <1>5, <1>6, <1>8, <1>9 DEF Blocks

\* What the row of the session is after a step.
RowSafe ==
  /\ UNCHANGED session \/ session'.version = session.version + 1
  /\ Guarded(cases', session'.state)
  /\ session'.state.taking = session.state.taking /\ ~ session'.closed
       => session.state.dv <= session'.state.dv

LEMMA RowStep ==
  ASSUME DeskInv, SafeTables, TurnInv, [Next]_vars
  PROVE  RowSafe
<1>1. session.state.dv \in Nat
      /\ session \in [ version : 1 .. MaxVersion, closed : BOOLEAN, state : States ]
  BY RowTypes, DeskAssumption DEF States, DraftVersions, DeskInv, TypeOK
<1>2. \A state : Guarded(cases, state) => Guarded(cases', state)
  BY GuardedStays
<1>3. CASE SessionKept
  <2>1. Guarded(cases', session.state)
    BY <1>2 DEF TurnInv
  <2> QED
    BY <1>1, <1>3, <2>1 DEF RowSafe, SessionKept
<1>4. CASE Saving
  <2>1. PICK w \in Workers : SaveTurn(w) /\ MaySave(w) /\ SaveState(turn[w].state)
    BY <1>4 DEF Saving
  <2>2. session'.version = session.version + 1 /\ session'.state = turn[w].state
    BY <1>1, <2>1 DEF SaveState
  <2>3. TurnSafe(cases, session, turn[w]) /\ turn[w].step # "idle"
    BY <2>1 DEF TurnInv, SaveTurn
  <2>4. turn[w].version = session.version
    BY <2>1 DEF MaySave
  <2> QED
    BY <1>2, <2>2, <2>3, <2>4 DEF RowSafe, TurnSafe, Fresh
<1>5. CASE Confirming
  <2>1. PICK w \in Workers : ConfirmOrder(w)
    BY <1>5 DEF Confirming
  <2>2. SaveState(turn[w].state) /\ turn[w].step = "confirm" /\ turn[w].version = session.version
    BY <2>1 DEF ConfirmOrder, ReadAtThisVersion
  <2>3. session'.version = session.version + 1 /\ session'.state = turn[w].state
    BY <1>1, <2>2 DEF SaveState
  <2>4. TurnSafe(cases, session, turn[w])
    BY <2>1 DEF TurnInv
  <2> QED
    BY <1>2, <2>2, <2>3, <2>4 DEF RowSafe, TurnSafe, Fresh
<1>6. CASE Reset
  <2>1. session' = [ version |-> session.version + 1, closed |-> TRUE,
                     state |-> FreshState(session.state.taking) ]
    BY <1>6 DEF Reset
  <2>2. FreshState(session.state.taking).handoff = 0
    BY DEF FreshState
  <2>3. DOMAIN cases' = 1 .. Len(cases') /\ Len(cases') \in Nat
    BY <1>6, RowsTyped DEF Reset, SafeTables
  <2>4. Guarded(cases', FreshState(session.state.taking))
    BY <2>2, <2>3 DEF Guarded, Blocks
  <2> QED
    BY <2>1, <2>4 DEF RowSafe
<1>7. ASSUME NEW c \in DOMAIN cases, CancelCase(c) PROVE RowSafe
  BY <1>7, CancelSession DEF RowSafe, Guarded
<1> QED
  BY <1>3, <1>4, <1>5, <1>6, <1>7, SessionWrites

\* Worker `w` is in a safe turn after the step and no other turn has moved.
Becomes(w) ==
  /\ TurnSafe(cases', session', turn'[w])
  /\ \A v \in Workers : v # w => turn'[v] = turn[v]

LEMMA Assembly ==
  ASSUME DeskInv, SafeTables, TurnInv, [Next]_vars, RowSafe,
         UNCHANGED turn \/ \E w \in Workers : Becomes(w)
  PROVE  TurnInv'
<1>1. ASSUME NEW v \in Workers, turn'[v] = turn[v] PROVE TurnSafe(cases', session', turn'[v])
  BY <1>1, TurnTypes, OtherTurn DEF TurnInv, RowSafe
<1>2. ASSUME NEW v \in Workers PROVE TurnSafe(cases', session', turn'[v])
  BY <1>1 DEF Becomes
<1> QED
  BY <1>2 DEF TurnInv, RowSafe

\* A turn that ends.
LEMMA EndSafe ==
  ASSUME DeskInv, NEW w \in Workers, EndTurn(w)
  PROVE  Becomes(w)
<1>1. turn' = [turn EXCEPT ![w] = IdleTurn] /\ turn \in [ Workers -> Turns ]
  BY DEF EndTurn, DeskInv, TypeOK
<1>2. turn'[w] = IdleTurn /\ \A v \in Workers : v # w => turn'[v] = turn[v]
  BY <1>1
<1> QED
  BY <1>2 DEF Becomes, TurnSafe, IdleTurn

\* What turn `t` knows when it has reached `step` with `state`, the tables as they are.
Knows(t, step, state) ==
  /\ Guarded(cases, state)
  /\ t.version = session.version =>
       /\ state.taking = session.state.taking => session.state.dv <= state.dv
       /\ step = "orchestrate" => state.taking = session.state.taking
       /\ step \in { "orchestrate", "confirm" } => state.handoff = session.state.handoff
  /\ step \in { "orchestrate", "confirm" } => ~ Blocks(cases, state.handoff)

LEMMA GotoSafe ==
  ASSUME DeskInv, TurnInv, NEW w \in Workers, NEW step, NEW state, Goto(w, step, state),
         turn[w].step # "idle", step \in { "orchestrate", "handoff", "confirm", "save" },
         UNCHANGED session, Len(cases') = Len(cases),
         \A c : Blocks(cases', c) <=> Blocks(cases, c),
         Knows(turn[w], step, state)
  PROVE  Becomes(w)
<1>1. /\ turn' = [turn EXCEPT ![w].step = step, ![w].state = state]
      /\ turn \in [ Workers -> Turns ] /\ turn[w] \in Turns
  BY TurnTypes DEF Goto, DeskInv, TypeOK
<1>2. /\ turn'[w].step = step /\ turn'[w].state = state /\ turn'[w].version = turn[w].version
      /\ \A v \in Workers : v # w => turn'[v] = turn[v]
  BY <1>1 DEF Turns
<1>3. turn[w].version <= session.version
  BY DEF TurnInv, TurnSafe
<1>4. Guarded(cases', state)
  BY DEF Knows, Guarded
<1>5. turn[w].version = session.version => Fresh(session', turn'[w])
  BY <1>2 DEF Knows, Fresh
<1>6. step \in { "orchestrate", "confirm" } => ~ Blocks(cases', state.handoff)
  BY DEF Knows
<1> QED
  BY <1>2, <1>3, <1>4, <1>5, <1>6 DEF Becomes, TurnSafe, Settling

\* A turn in one of its first steps.
LEMMA Reading ==
  ASSUME TurnInv, NEW w \in Workers, turn[w].step \in { "preflight", "orchestrate" }
  PROVE  /\ Guarded(cases, turn[w].state)
         /\ turn[w].version = session.version =>
              /\ turn[w].state.taking = session.state.taking
              /\ session.state.dv <= turn[w].state.dv
              /\ turn[w].state.handoff = session.state.handoff
         /\ turn[w].step = "orchestrate" => ~ Blocks(cases, turn[w].state.handoff)
BY DEF TurnInv, TurnSafe, Fresh

\* A signal the policy refuses or hands off is never let through.
LEMMA EvaluateStops ==
  ASSUME NEW signals, NEW reason \in signals, reason \in HandoffReasons \union RefusalReasons,
         NEW c, NEW confidence, NEW deterministic, NEW required
  PROVE  LET d == Evaluate(signals, c, confidence, deterministic, required)
         IN  d.class \in { "REFUSE", "HANDOFF" } /\ d.reason # NoReason
<1> DEFINE refusals == signals \cap RefusalReasons
           handoffs == (signals \cap HandoffReasons) \union CounterReasons(c)
           d == Evaluate(signals, c, confidence, deterministic, required)
<1>1. NoReason \notin HandoffReasons \union RefusalReasons
  <2>1. DOMAIN HandoffReasonCode = 1 .. 18 /\ DOMAIN RefusalReasonCode = 1 .. 8
    BY DEF HandoffReasonCode, RefusalReasonCode
  <2>2. \A i \in 1 .. 18 : HandoffReasonCode[i] # "none"
    BY DEF HandoffReasonCode
  <2>3. \A i \in 1 .. 8 : RefusalReasonCode[i] # "none"
    BY DEF RefusalReasonCode
  <2> QED
    BY <2>1, <2>2, <2>3 DEF NoReason, HandoffReasons, RefusalReasons, CodesOf
<1>2. CASE refusals # {}
  <2>1. d = Decision("REFUSE", Foremost(RefusalReasonCode, refusals))
    BY <1>2 DEF Evaluate
  <2>2. Foremost(RefusalReasonCode, refusals) \in RefusalReasons
    BY <1>2, ForemostRefusal
  <2> QED
    BY <1>1, <2>1, <2>2 DEF Decision
<1>3. CASE refusals = {}
  <2>1. handoffs # {}
    BY <1>3
  <2>2. d = Decision("HANDOFF", Foremost(HandoffReasonCode, handoffs))
    BY <1>3, <2>1 DEF Evaluate
  <2>3. d.class = "HANDOFF"
    BY <2>2 DEF Decision
  <2>4. d.reason \in HandoffReasons
    BY <2>3, EvaluateReason
  <2> QED
    BY <1>1, <2>3, <2>4
<1> QED
  BY <1>2, <1>3

\* A blocking case makes the policy refuse the message or hand it off.
LEMMA CarriedBlocks ==
  ASSUME NEW state \in States, Guarded(cases, state), Blocks(cases, state.handoff)
  PROVE  /\ state.reason \in CarriedSignals(state)
         /\ state.reason \in HandoffReasons \union RefusalReasons
<1>1. state.reason # NoReason /\ state.reason \in Reasons
  BY DEF Guarded, States
<1>2. CaseStatus(state.handoff) \in Active \union { "FAILED" }
  BY DEF Blocks, CaseStatus
<1> QED
  BY <1>1, <1>2 DEF CarriedSignals, Reasons

\* The steps before the orchestrator.
LEMMA PreflightSafe ==
  ASSUME DeskInv, SafeTables, TurnInv, [Next]_vars, NEW w \in Workers,
         \/ AnswerBeforePreflight(w) \/ PreflightPass(w)
         \/ \E confidence \in ChatConfidences : PreflightGuard(w, confidence)
  PROVE  Becomes(w)
<1> DEFINE state == turn[w].state
<1>1. turn[w].step = "preflight"
  BY DEF AnswerBeforePreflight, PreflightPass, PreflightGuard
<1>2. state \in States /\ state.dv \in Nat /\ session.state.dv \in Nat
  BY TurnTypes, RowTypes, DeskAssumption DEF States, DraftVersions
<1>3. UNCHANGED << cases, session >>
  BY DEF AnswerBeforePreflight, PreflightPass, PreflightGuard, tables
<1>4. /\ Guarded(cases, state)
      /\ turn[w].version = session.version =>
           /\ state.taking = session.state.taking
           /\ session.state.dv <= state.dv
           /\ state.handoff = session.state.handoff
  BY <1>1, Reading
<1>5. CASE AnswerBeforePreflight(w)
  <2>1. Goto(w, "save", state) /\ Knows(turn[w], "save", state)
    BY <1>4, <1>5 DEF AnswerBeforePreflight, Knows
  <2> QED
    BY <1>1, <1>3, <2>1, GotoSafe
<1>6. CASE PreflightPass(w)
  <2>1. Goto(w, "orchestrate", state) /\ CarriedSignals(state) = {}
    BY <1>6 DEF PreflightPass
  <2>2. ~ Blocks(cases, state.handoff)
    BY <1>2, <1>4, <2>1, CarriedBlocks
  <2>3. Knows(turn[w], "orchestrate", state)
    BY <1>4, <2>2 DEF Knows
  <2> QED
    BY <1>1, <1>3, <2>1, <2>3, GotoSafe
<1>7. ASSUME NEW confidence \in ChatConfidences, PreflightGuard(w, confidence) PROVE Becomes(w)
  <2> DEFINE msg == turn[w].msg
             signals == HeardSignals(msg) \union CarriedSignals(state)
             c == AdvanceCounters(counters, signals, confidence, signals # {})
             d == PreflightDecision(msg, state, c, confidence)
             handed == [state EXCEPT !.reason = d.reason, !.submitted = FALSE,
                                     !.dv = IF state.submitted THEN @ + 1 ELSE @]
             kept == [state EXCEPT !.reason = d.reason]
  <2>1. IF d.class = "HANDOFF" THEN Goto(w, "handoff", handed)
        ELSE Goto(w, IF d.class = "AUTO_DRAFT" THEN "orchestrate" ELSE "save", kept)
    BY <1>7 DEF PreflightGuard
  <2>2. Blocks(cases, state.handoff) => d.class \in { "REFUSE", "HANDOFF" } /\ d.reason # NoReason
    BY <1>2, <1>4, CarriedBlocks, EvaluateStops DEF PreflightDecision
  <2>3. /\ handed.handoff = state.handoff /\ handed.taking = state.taking
        /\ handed.reason = d.reason /\ state.dv <= handed.dv
        /\ kept.handoff = state.handoff /\ kept.taking = state.taking
        /\ kept.reason = d.reason /\ kept.dv = state.dv
    BY <1>2 DEF States
  <2>4. handed.dv \in Nat
    BY <1>2 DEF States
  <2> HIDE DEF d, handed, kept
  <2>5. CASE d.class = "HANDOFF"
    <3>1. Goto(w, "handoff", handed)
      BY <2>1, <2>5
    <3>2. Guarded(cases, handed)
      BY <1>4, <2>2, <2>3 DEF Guarded
    <3>3. Knows(turn[w], "handoff", handed)
      BY <1>2, <1>4, <2>3, <2>4, <3>2 DEF Knows
    <3> QED
      BY <1>1, <1>3, <3>1, <3>3, GotoSafe
  <2>6. CASE d.class = "AUTO_DRAFT"
    <3>1. Goto(w, "orchestrate", kept)
      BY <2>1, <2>6
    <3>2. Guarded(cases, kept) /\ ~ Blocks(cases, kept.handoff)
      BY <1>4, <2>2, <2>3, <2>6 DEF Guarded
    <3>3. Knows(turn[w], "orchestrate", kept)
      BY <1>4, <2>3, <3>2 DEF Knows
    <3> QED
      BY <1>1, <1>3, <3>1, <3>3, GotoSafe
  <2>7. CASE d.class \notin { "HANDOFF", "AUTO_DRAFT" }
    <3>1. Goto(w, "save", kept)
      BY <2>1, <2>7
    <3>2. Guarded(cases, kept)
      BY <1>4, <2>2, <2>3 DEF Guarded
    <3>3. Knows(turn[w], "save", kept)
      BY <1>4, <2>3, <3>2 DEF Knows
    <3> QED
      BY <1>1, <1>3, <3>1, <3>3, GotoSafe
  <2> QED
    BY <2>5, <2>6, <2>7
<1> QED
  BY <1>5, <1>6, <1>7

\* The customer's cancellation, and its repetition.
LEMMA PreflightCancelSafe ==
  ASSUME DeskInv, SafeTables, TurnInv, [Next]_vars, NEW w \in Workers,
         PreflightCancel(w) \/ PreflightCancelAgain(w)
  PROVE  Becomes(w)
<1> DEFINE state == turn[w].state
<1>1. /\ turn[w].step = "preflight" /\ turn[w] \in Turns /\ state \in States
      /\ turn \in [ Workers -> Turns ]
  BY TurnTypes DEF PreflightCancel, PreflightCancelAgain, DeskInv, TypeOK
<1>2. Guarded(cases, state)
  BY <1>1, Reading
<1>3. CASE EndTurn(w)
  BY <1>3, EndSafe
<1>4. CASE PreflightCancel(w) /\ ~ EndTurn(w)
  <2> DEFINE next == [state EXCEPT !.submitted = FALSE, !.dv = session'.state.dv]
  <2>1. /\ IsActive(state.handoff) /\ CancelCase(state.handoff)
        /\ turn' = [turn EXCEPT ![w].step = "save", ![w].state = next,
                                ![w].version = session'.version]
    BY <1>4 DEF PreflightCancel
  <2>2. state.handoff \in DOMAIN cases
    BY <2>1 DEF IsActive, CaseStatus, Active
  <2>3. /\ session.state.dv <= session'.state.dv
        /\ state.handoff \in 0 .. Len(cases') /\ ~ Blocks(cases', state.handoff)
    BY <2>1, <2>2, CancelSession
  <2>4. session'.version \in Nat /\ session'.state.dv \in Nat
    <3>1. DeskInv'
      BY NextDesk
    <3>2. session' \in [ version : 1 .. MaxVersion, closed : BOOLEAN, state : States ]
      BY <3>1 DEF DeskInv, TypeOK
    <3> QED
      BY <3>2, DeskAssumption DEF States, DraftVersions
  <2>5. next.handoff = state.handoff /\ next.dv = session'.state.dv
    BY <1>1 DEF States
  <2> HIDE DEF next
  <2>6. /\ turn'[w].step = "save" /\ turn'[w].state = next
        /\ turn'[w].version = session'.version
        /\ \A v \in Workers : v # w => turn'[v] = turn[v]
    BY <1>1, <2>1 DEF Turns
  <2> QED
    BY <2>3, <2>4, <2>5, <2>6 DEF Becomes, TurnSafe, Guarded, Fresh, Settling
<1>5. CASE PreflightCancelAgain(w) /\ ~ EndTurn(w)
  <2> DEFINE next == [state EXCEPT !.submitted = FALSE, !.dv = session.state.dv]
  <2>1. /\ UNCHANGED << cases, session >>
        /\ \/ Goto(w, "save", state)
           \/ turn' = [turn EXCEPT ![w].step = "save", ![w].state = next,
                                   ![w].version = session.version]
    BY <1>5 DEF PreflightCancelAgain, tables
  <2>2. CASE Goto(w, "save", state)
    <3>1. Knows(turn[w], "save", state)
      BY <1>1, Reading DEF Knows
    <3> QED
      BY <1>1, <2>1, <2>2, <3>1, GotoSafe
  <2>3. CASE turn' = [turn EXCEPT ![w].step = "save", ![w].state = next,
                                  ![w].version = session.version]
    <3>1. next.handoff = state.handoff /\ next.dv = session.state.dv /\ next.reason = state.reason
      BY <1>1 DEF States
    <3>2. session.version \in Nat /\ session.state.dv \in Nat
      BY RowTypes, DeskAssumption DEF States, DraftVersions
    <3> HIDE DEF next
    <3>3. /\ turn'[w].step = "save" /\ turn'[w].state = next
          /\ turn'[w].version = session.version
          /\ \A v \in Workers : v # w => turn'[v] = turn[v]
      BY <1>1, <2>3 DEF Turns
    <3> QED
      BY <1>2, <2>1, <3>1, <3>2, <3>3 DEF Becomes, TurnSafe, Guarded, Fresh, Settling
  <2> QED
    BY <2>1, <2>2, <2>3
<1> QED
  BY <1>3, <1>4, <1>5

\* The postflight audit of an orchestrated turn.
LEMMA AuditSafe ==
  ASSUME DeskInv, TurnInv, NEW w \in Workers, turn[w].step = "orchestrate",
         NEW signals, NEW state \in States, NEW step \in { "confirm", "save" },
         Audit(w, signals, state, step),
         state.handoff \in 0 .. Len(cases), ~ Blocks(cases, state.handoff),
         turn[w].version = session.version =>
           /\ state.taking = session.state.taking => session.state.dv <= state.dv
           /\ step = "confirm" => state.handoff = session.state.handoff
  PROVE  Becomes(w)
<1> DEFINE c == AdvanceCounters(counters, signals, "missing", TRUE)
           d == Evaluate(signals, c, "missing", TRUE, FALSE)
           next == [state EXCEPT !.reason = d.reason]
           goto == IF d.class = "HANDOFF" THEN "handoff" ELSE step
<1>1. Goto(w, goto, next) /\ UNCHANGED << cases, session >>
  BY DEF Audit, tables
<1>2. next.handoff = state.handoff /\ next.taking = state.taking /\ next.dv = state.dv
  BY DEF States
<1>3. goto \in { "handoff", step }
  OBVIOUS
<1> HIDE DEF next, goto
<1>4. Knows(turn[w], goto, next)
  BY <1>2, <1>3 DEF Knows, Guarded
<1> QED
  BY <1>1, <1>3, <1>4, GotoSafe

\* The orchestrator.
LEMMA OrchestrateSafe ==
  ASSUME DeskInv, TurnInv, NEW w \in Workers, Orchestrate(w)
  PROVE  Becomes(w)
<1> DEFINE state == turn[w].state
<1>1. turn[w].step = "orchestrate"
  BY DEF Orchestrate, EditDraft, SubmitDraft, StartNewOrder, AnswerOnly, Misunderstand,
         UnparsedMessage, Orchestrating
<1>2. /\ state \in States /\ state.dv \in Nat /\ session.state.dv \in Nat /\ state.taking \in Nat
      /\ turn[w] \in Turns
  <2>1. turn[w] \in Turns /\ state \in States /\ session.state \in States
    BY TurnTypes, RowTypes
  <2> QED
    BY <2>1, DeskAssumption DEF States, DraftVersions, Takings
<1>3. /\ state.handoff \in 0 .. Len(cases) /\ ~ Blocks(cases, state.handoff)
      /\ Guarded(cases, state)
      /\ turn[w].version = session.version =>
           /\ state.taking = session.state.taking
           /\ session.state.dv <= state.dv
           /\ state.handoff = session.state.handoff
  BY <1>1, Reading DEF Guarded
<1>4. CASE EditDraft(w)
  <2> DEFINE items == turn[w].msg.arg
             dv == VersionAfter(state, items)
             next == [state EXCEPT !.items = items, !.dv = dv]
  <2>1. Audit(w, { "UNDERSTOOD" }, next, "save") /\ dv \in DraftVersions
    BY <1>4 DEF EditDraft
  <2>2. state.dv <= dv
    BY <1>2 DEF VersionAfter
  <2>3. items \in Contents
    BY <1>4, TurnTypes DEF EditDraft, Orchestrating, TurnOK, Messages
  <2> HIDE DEF dv, items
  <2>4. next \in States /\ next.handoff = state.handoff /\ next.taking = state.taking /\ next.dv = dv
    BY <1>2, <2>1, <2>3 DEF States
  <2>5. dv \in Nat
    BY <2>1, DeskAssumption DEF DraftVersions
  <2> HIDE DEF next
  <2>6. session.state.dv <= state.dv => session.state.dv <= next.dv
    BY <1>2, <2>2, <2>4, <2>5
  <2> QED
    BY <1>1, <1>3, <2>1, <2>4, <2>6, AuditSafe
<1>5. CASE SubmitDraft(w)
  <2> DEFINE next == [state EXCEPT !.submitted = TRUE]
  <2>1. Audit(w, { "UNDERSTOOD", "FINAL_ORDER", "CONFIRMATION_SUCCEEDED" }, next, "confirm")
    BY <1>5 DEF SubmitDraft
  <2>2. /\ next \in States /\ next.handoff = state.handoff /\ next.taking = state.taking
        /\ next.dv = state.dv
    BY <1>2 DEF States
  <2> HIDE DEF next
  <2> QED
    BY <1>1, <1>3, <2>1, <2>2, AuditSafe
<1>6. CASE StartNewOrder(w)
  <2> DEFINE next == FreshState(state.taking + 1)
  <2>1. Audit(w, { "UNDERSTOOD" }, next, "save") /\ state.taking + 1 \in Takings
    BY <1>2, <1>6, DeskAssumption DEF StartNewOrder, Takings
  <2>2. next \in States
    BY <2>1, FreshStateType
  <2>3. next.handoff = 0 /\ next.taking = state.taking + 1
    BY DEF FreshState
  <2> HIDE DEF next
  <2>4. 0 \in 0 .. Len(cases) /\ ~ Blocks(cases, 0)
    BY TableTypes, RowsTyped DEF Blocks
  <2>5. turn[w].version = session.version => next.taking # session.state.taking
    BY <1>2, <1>3, <2>3
  <2> QED
    BY <1>1, <2>1, <2>2, <2>3, <2>4, <2>5, AuditSafe
<1>7. CASE AnswerOnly(w) \/ Misunderstand(w)
  <2>1. Audit(w, { "UNDERSTOOD" }, state, "save") \/ Audit(w, { "MISUNDERSTANDING" }, state, "save")
    BY <1>7 DEF AnswerOnly, Misunderstand
  <2> QED
    BY <1>1, <1>2, <1>3, <2>1, AuditSafe
<1>8. CASE UnparsedMessage(w)
  <2>1. Goto(w, "save", state) /\ UNCHANGED << cases, session >>
    BY <1>8 DEF UnparsedMessage, tables
  <2>2. Knows(turn[w], "save", state)
    BY <1>3 DEF Knows
  <2> QED
    BY <1>1, <2>1, <2>2, GotoSafe
<1> QED
  BY <1>4, <1>5, <1>6, <1>7, <1>8 DEF Orchestrate

\* A turn begins with the session as it is read.
LEMMA ReceiveSafe ==
  ASSUME DeskInv, TurnInv, NEW w \in Workers, NEW msg \in Messages, ReceiveMessage(w, msg)
  PROVE  Becomes(w)
<1> DEFINE t == [ step |-> "preflight", msg |-> msg, state |-> session.state,
                  version |-> session.version, case |-> 0 ]
<1>1. /\ turn' = [turn EXCEPT ![w] = t] /\ UNCHANGED << cases, session >>
      /\ turn \in [ Workers -> Turns ]
  BY DEF ReceiveMessage, tables, DeskInv, TypeOK
<1>2. /\ t.step = "preflight" /\ t.state = session.state /\ t.version = session.version
      /\ session.version \in Nat /\ session.state.dv \in Nat
  BY RowTypes, DeskAssumption DEF States, DraftVersions
<1> HIDE DEF t
<1>3. TurnSafe(cases, session, t)
  BY <1>2 DEF TurnSafe, TurnInv, Fresh, Settling
<1> QED
  BY <1>1, <1>3 DEF Becomes

\* The request for a handoff, and its settlement.
LEMMA HandoffSafe ==
  ASSUME DeskInv, SafeTables, TurnInv, [Next]_vars, NEW w \in Workers,
         TurnRequestsHandoff(w) \/ TurnSettlesHandoff(w)
  PROVE  Becomes(w)
<1> DEFINE state == turn[w].state
<1>1. /\ turn[w].step \in { "handoff" } \union Settling /\ UNCHANGED session
      /\ turn[w].step # "idle"
      /\ state \in States /\ turn[w] \in Turns /\ turn \in [ Workers -> Turns ]
  BY TurnTypes DEF TurnRequestsHandoff, TurnSettlesHandoff, DeskInv, TypeOK, Settling
<1>2. state.reason # NoReason
  <2>1. NoReason \notin HandoffReasons
    <3>1. DOMAIN HandoffReasonCode = 1 .. 18 /\ \A i \in 1 .. 18 : HandoffReasonCode[i] # "none"
      BY DEF HandoffReasonCode
    <3> QED
      BY <3>1 DEF NoReason, HandoffReasons, CodesOf
  <2>2. turn[w].step = "handoff" => state.reason \in HandoffReasons
    BY TurnTypes DEF TurnOK
  <2>3. turn[w].step \in Settling => state.reason # NoReason
    BY <1>1 DEF TurnInv, TurnSafe
  <2> QED
    BY <1>1, <2>1, <2>2, <2>3
<1>3. /\ turn[w].version <= session.version
      /\ turn[w].version = session.version => Fresh(session, turn[w])
      /\ state.handoff \in 0 .. Len(cases)
  BY <1>1 DEF TurnInv, TurnSafe, Guarded
<1>4. Len(cases) \in Nat /\ Len(cases') \in Nat /\ Len(cases) <= Len(cases')
  BY CasesCalm
\* The case is named in the state that is saved next.
<1>5. ASSUME NEW c \in 0 .. Len(cases'), Goto(w, "save", [state EXCEPT !.handoff = c])
      PROVE  Becomes(w)
  <2> DEFINE next == [state EXCEPT !.handoff = c]
  <2>1. /\ next.handoff = c /\ next.reason = state.reason /\ next.dv = state.dv
        /\ next.taking = state.taking
    BY <1>1 DEF States
  <2>2. turn' = [turn EXCEPT ![w].step = "save", ![w].state = next]
    BY <1>5 DEF Goto
  <2> HIDE DEF next
  <2>3. /\ turn'[w].step = "save" /\ turn'[w].state = next /\ turn'[w].version = turn[w].version
        /\ \A v \in Workers : v # w => turn'[v] = turn[v]
    BY <1>1, <2>2 DEF Turns
  <2>4. Guarded(cases', next)
    BY <1>2, <2>1 DEF Guarded
  <2>5. turn[w].version = session.version => Fresh(session', turn'[w])
    BY <1>1, <1>3, <2>1, <2>3 DEF Fresh
  <2> QED
    BY <1>1, <1>3, <2>3, <2>4, <2>5 DEF Becomes, TurnSafe, Settling
\* The case is left to be settled by the next steps.
<1>8. ASSUME NEW t \in Turns, turn' = [turn EXCEPT ![w] = t], t.step \in Settling,
             t.state = state, t.version = turn[w].version
      PROVE  Becomes(w)
  <2>1. turn'[w] = t /\ \A v \in Workers : v # w => turn'[v] = turn[v]
    BY <1>1, <1>8
  <2>2. Guarded(cases', state)
    BY <1>2, <1>3, <1>4 DEF Guarded
  <2>3. t.version = session.version => Fresh(session', t)
    BY <1>1, <1>3, <1>8 DEF Fresh, Settling
  <2> QED
    BY <1>1, <1>2, <1>3, <1>8, <2>1, <2>2, <2>3 DEF Becomes, TurnSafe, Settling
<1>6. CASE TurnSettlesHandoff(w)
  <2>1. turn[w].step \in Settling
    BY <1>6 DEF TurnSettlesHandoff, Settling
  <2>2. turn[w].case \in DOMAIN cases
    BY <2>1, TurnTypes DEF TurnOK
  <2>3. turn[w].case \in 0 .. Len(cases')
    BY <1>4, <2>2, RowsTyped DEF SafeTables
  <2>4. CASE Goto(w, "save", [state EXCEPT !.handoff = turn[w].case])
    BY <1>5, <2>3, <2>4
  <2>5. ASSUME NEW next \in { "settle", "fail" }, Goto(w, next, state) PROVE Becomes(w)
    <3> DEFINE t == [turn[w] EXCEPT !.step = next, !.state = state]
    <3>1. turn' = [turn EXCEPT ![w] = t]
      BY <2>5 DEF Goto
    <3>2. t \in Turns /\ t.step = next /\ t.state = state /\ t.version = turn[w].version
      BY <1>1 DEF Turns, Steps
    <3> HIDE DEF t
    <3> QED
      BY <1>8, <3>1, <3>2 DEF Settling
  <2> QED
    BY <1>6, <2>4, <2>5 DEF TurnSettlesHandoff
<1>7. CASE TurnRequestsHandoff(w)
  <2>1. CASE \E c \in DOMAIN cases : Goto(w, "save", [state EXCEPT !.handoff = c])
    <3>1. \A c \in DOMAIN cases : c \in 0 .. Len(cases')
      BY <1>4, RowsTyped DEF SafeTables
    <3> QED
      BY <1>5, <2>1, <3>1
  <2>2. CASE turn' = [turn EXCEPT ![w].step = "pending", ![w].case = Len(cases')]
    <3> DEFINE t == [turn[w] EXCEPT !.step = "pending", !.case = Len(cases')]
    <3>1. Len(cases') \in 0 .. MaxCases
      <4>1. DeskInv'
        BY NextDesk
      <4> QED
        BY <1>4, <4>1, DeskAssumption DEF DeskInv, TypeOK
    <3>2. t \in Turns /\ t.step = "pending" /\ t.state = state /\ t.version = turn[w].version
      BY <1>1, <3>1 DEF Turns, Steps
    <3>3. turn' = [turn EXCEPT ![w] = t]
      BY <2>2
    <3> HIDE DEF t
    <3> QED
      BY <1>8, <3>2, <3>3 DEF Settling
  <2> QED
    BY <1>7, <2>1, <2>2 DEF TurnRequestsHandoff
<1> QED
  BY <1>6, <1>7

\* Every step of a turn leaves it safe.
LEMMA TurnStep ==
  ASSUME DeskInv, SafeTables, TurnInv, [Next]_vars, NEW w \in Workers, Turn(w)
  PROVE  Becomes(w)
<1>1. CASE SaveTurn(w) \/ ConfirmReplay(w) \/ ConfirmOrder(w) \/ ConfirmRejected(w) \/ TurnFails(w)
  BY <1>1, EndSafe DEF SaveTurn, ConfirmReplay, ConfirmOrder, ConfirmRejected, TurnFails
<1>2. CASE Preflight(w)
  BY <1>2, PreflightSafe, PreflightCancelSafe DEF Preflight
<1>3. CASE Orchestrate(w)
  BY <1>3, OrchestrateSafe
<1>4. CASE TurnRequestsHandoff(w) \/ TurnSettlesHandoff(w)
  BY <1>4, HandoffSafe
<1> QED
  BY <1>1, <1>2, <1>3, <1>4, ReceiveSafe DEF Turn

\* Only a turn's own step moves a turn.
LEMMA TurnsMoveAlone ==
  ASSUME [Next]_vars, ~ \E w \in Workers : Turn(w)
  PROVE  UNCHANGED turn
<1>1. CASE UNCHANGED vars
  BY <1>1 DEF vars
<1>2. CASE \E client \in RestClients : Rest(client)
  BY <1>2 DEF Rest, RestEvaluates, RestRequestsHandoff, RestSettlesHandoff, RestReadsCase,
              RestWritesCase, RestFails
<1>3. CASE Cancellation
  BY <1>3 DEF Cancellation, RestCancel
<1>4. CASE Reset \/ \E o \in DOMAIN orders : InvalidateConfirmation(o)
  BY <1>4 DEF Reset, InvalidateConfirmation
<1> QED
  BY <1>1, <1>2, <1>3, <1>4 DEF Next

\* So does every step of the system.
LEMMA TurnInvStep ==
  ASSUME DeskInv, SafeTables, TurnInv, [Next]_vars
  PROVE  TurnInv'
<1>1. CASE UNCHANGED turn
  BY <1>1, RowStep, Assembly
<1>2. ASSUME NEW w \in Workers, Turn(w) PROVE TurnInv'
  BY <1>2, RowStep, TurnStep, Assembly
<1> QED
  BY <1>1, <1>2, TurnsMoveAlone

\* What turns know of the session holds in every reachable state.
LEMMA TurnsKnow == Spec => [](DeskInv /\ SafeInv /\ TurnInv)
<1>1. Init => TurnInv
  <2> SUFFICES ASSUME Init PROVE TurnInv
    OBVIOUS
  <2>1. session.state.handoff = 0 /\ cases = << >>
    BY DEF Init, FreshState
  <2>2. Guarded(cases, session.state)
    BY <2>1 DEF Guarded, Blocks
  <2>3. \A w \in Workers : turn[w].step = "idle"
    BY DEF Init, IdleTurn
  <2> QED
    BY <2>2, <2>3 DEF TurnInv, TurnSafe
<1>2. DeskInv /\ SafeInv /\ TurnInv /\ [Next]_vars => TurnInv'
  <2> SUFFICES ASSUME DeskInv, SafeInv, TurnInv, [Next]_vars PROVE TurnInv'
    OBVIOUS
  <2>1. SafeTables
    BY TableTypes, SafeForm DEF SafeTables
  <2> QED
    BY <2>1, TurnInvStep
<1> QED
  BY <1>1, <1>2, SafeInvariant, PTL DEF Spec

\* No stale save brings back an old draft: within an order taking the persisted
\* draft version never goes back, for any number of overlapping turns.
THEOREM DraftNeverGoesBack == Spec => DraftVersionGrows
<1> DEFINE Grows == session'.state.taking = session.state.taking /\ ~ session'.closed
                      => session'.state.dv >= session.state.dv
<1>1. DeskInv /\ SafeInv /\ TurnInv /\ [Next]_vars => [Grows]_vars
  <2> SUFFICES ASSUME DeskInv, SafeInv, TurnInv, [Next]_vars PROVE Grows
    OBVIOUS
  <2>1. SafeTables
    BY TableTypes, SafeForm DEF SafeTables
  <2>2. session'.state.taking = session.state.taking /\ ~ session'.closed
          => session.state.dv <= session'.state.dv
    BY <2>1, RowStep DEF RowSafe
  <2>3. session.state.dv \in Nat /\ session'.state.dv \in Nat
    <3>1. DeskInv'
      BY NextDesk
    <3>2. session' \in [ version : 1 .. MaxVersion, closed : BOOLEAN, state : States ]
      BY <3>1 DEF DeskInv, TypeOK
    <3>3. session.state \in States /\ session'.state \in States
      BY <3>2, RowTypes
    <3> QED
      BY <3>3, DeskAssumption DEF States, DraftVersions
  <2> QED
    BY <2>2, <2>3
<1>2. Spec => [][Grows]_vars
  <2> HIDE DEF Grows
  <2> QED
    BY <1>1, TurnsKnow, PTL DEF Spec
<1> QED
  BY <1>2 DEF DraftVersionGrows

\* While the session's row points at a case that is active or has failed, no order
\* of the session is confirmed, not even by a turn that was under way before,
\* unless a late transition made that case active, or failed, again.
THEOREM GuardedNeverConfirms == Spec => GuardedSessionNeverConfirms
<1> DEFINE Waits == CaseStatus(session.state.handoff) \in Active \union { "FAILED" }
                      => confirmed' = confirmed \/ Overwritten(session.state.handoff)
<1>1. DeskInv /\ SafeInv /\ TurnInv /\ [Next]_vars => [Waits]_vars
  <2> SUFFICES ASSUME DeskInv, TurnInv, [Next]_vars,
                      CaseStatus(session.state.handoff) \in Active \union { "FAILED" },
                      ~ Overwritten(session.state.handoff)
               PROVE  confirmed' = confirmed
    OBVIOUS
  <2>1. Blocks(cases, session.state.handoff)
    BY DEF Blocks, CaseStatus, Active, Overwritten
  <2>2. ASSUME NEW w \in Workers, ConfirmOrder(w) PROVE FALSE
    <3>1. turn[w].step = "confirm" /\ turn[w].version = session.version
      BY <2>2 DEF ConfirmOrder, ReadAtThisVersion
    <3>2. /\ ~ Blocks(cases, turn[w].state.handoff)
          /\ turn[w].state.handoff = session.state.handoff
      BY <3>1 DEF TurnInv, TurnSafe, Fresh
    <3> QED
      BY <2>1, <3>2
  <2>3. CASE Quiet \/ Cancelling \/ Requesting \/ Moving
    BY <2>3 DEF Quiet, Cancelling, Requesting, Moving
  <2>4. CASE Resolving \/ Withdrawing
    BY <2>4 DEF Resolving, Resolves, Withdrawing, InvalidateConfirmation
  <2> QED
    BY <2>2, <2>3, <2>4, Writes DEF Confirming
<1>2. Spec => [][Waits]_vars
  <2> HIDE DEF Waits
  <2> QED
    BY <1>1, TurnsKnow, PTL DEF Spec
<1> QED
  BY <1>2 DEF GuardedSessionNeverConfirms

-----------------------------------------------------------------------------
(* One order per taking.  Stated for turns that overlap within one taking, or *)
(* that are serialised, over any number of takings.                           *)

Serial == MaxTakings = 1 \/ \A v, w \in Workers : v = w

\* No case of `rows` was opened for an order.
Unbound(rows) == \A c \in DOMAIN rows : rows[c].order = 0

\* A late transition overwrote what one of `rows` had become.
Late(rows) == \E c \in DOMAIN rows : rows[c].overwritten

\* The last of the orders `os` is not confirmed or is held, or the session's case
\* `c` was opened before there was an order, or a transition came late.
Settled(os, rows, c) ==
  \/ Len(os) = 0
  \/ os[Len(os)].status # "CUSTOMER_CONFIRMED"
  \/ os[Len(os)].hold
  \/ c # 0 /\ Unbound(rows)
  \/ Late(rows)

\* The active case holds the last order, or no case was ever opened for one.
CasesBound ==
  ~ Late(cases) => \A c \in DOMAIN cases : cases[c].status \in Active =>
    IF cases[c].order = 0 THEN Unbound(cases) ELSE cases[c].order = Len(orders)

\* No taking to come has placed an order, and what this one placed is the last.
PlacedLast ==
  \A t \in Takings : told[t].placed # 0 =>
    /\ t <= session.state.taking
    /\ t = session.state.taking => told[t].placed = Len(orders)

\* An open session that is not submitted has settled what its taking placed.
RowSettled ==
  ~ session.closed /\ ~ session.state.submitted /\ told[session.state.taking].placed # 0
    => Settled(orders, cases, session.state.handoff)

\* The turn of `w` is about the row's taking, until it starts the next.
TakingKnown(w) ==
  turn[w].step # "idle" =>
    /\ turn[w].state.taking \in { session.state.taking, session.state.taking + 1 }
    /\ turn[w].step \in { "preflight", "orchestrate", "confirm" }
         => turn[w].state.taking = session.state.taking
    /\ turn[w].step = "confirm" => turn[w].state.submitted

\* If it has read the row as it is now, it may confirm only what the row leaves
\* open, and what it saves as open is settled.
TurnSettled(w) ==
  turn[w].step # "idle" /\ turn[w].version = session.version =>
    /\ turn[w].step \in { "preflight", "orchestrate" }
         => turn[w].state.submitted = session.state.submitted /\ ~ session.closed
    /\ turn[w].step = "confirm" => ~ session.state.submitted /\ ~ session.closed
    /\ told[turn[w].state.taking].placed # 0 =>
         /\ turn[w].step = "save" /\ ~ turn[w].state.submitted /\ ~ session.closed
              => Settled(orders, cases, turn[w].state.handoff)
         /\ turn[w].step \in Settling => Settled(orders, cases, turn[w].case)

TurnPart(w) == TakingKnown(w) /\ TurnSettled(w)
SettledInv ==
  /\ CasesBound /\ PlacedLast /\ RowSettled
  /\ \A w \in Workers : TurnPart(w)

\* Only a confirmation places an order.
LEMMA PlacedKept ==
  ASSUME DeskInv, [Next]_vars, ~ Confirming
  PROVE  \A t \in Takings : told'[t].placed = told[t].placed
<1> DEFINE Kept == \A t \in Takings : told'[t].placed = told[t].placed
<1> SUFFICES Kept
  OBVIOUS
<1>1. CASE UNCHANGED told
  BY <1>1
<1>2. ASSUME NEW w \in Workers, Turn(w) PROVE Kept
  <2>1. CASE ConfirmReplay(w)
    <3>1. \E o : Tell(w, o)
      BY <2>1 DEF ConfirmReplay
    <3> QED
      BY <3>1, RowTypes DEF Tell, Answers
  <2>2. CASE Preflight(w)
    BY <1>1, <2>2 DEF Preflight, AnswerBeforePreflight, PreflightPass, PreflightGuard,
                      PreflightCancel, PreflightCancelAgain
  <2>3. CASE Orchestrate(w)
    BY <1>1, <2>3 DEF Orchestrate, EditDraft, SubmitDraft, StartNewOrder, AnswerOnly,
                      Misunderstand, UnparsedMessage, Audit
  <2>4. CASE \/ \E msg \in Messages : ReceiveMessage(w, msg)
             \/ ConfirmRejected(w) \/ TurnFails(w)
             \/ TurnRequestsHandoff(w) \/ TurnSettlesHandoff(w) \/ SaveTurn(w)
    BY <1>1, <2>4 DEF ReceiveMessage, ConfirmRejected, TurnFails, TurnRequestsHandoff,
                      TurnSettlesHandoff, SaveTurn
  <2> QED
    BY <1>2, <2>1, <2>2, <2>3, <2>4 DEF Turn, Confirming
<1> HIDE DEF Kept
<1>3. ASSUME ~ \E w \in Workers : Turn(w) PROVE UNCHANGED told
  <2>1. CASE UNCHANGED vars
    BY <2>1 DEF vars
  <2>2. CASE \E client \in RestClients : Rest(client)
    BY <2>2 DEF Rest, RestEvaluates, RestRequestsHandoff, RestSettlesHandoff, RestReadsCase,
                RestWritesCase, RestFails
  <2>3. CASE Cancellation
    BY <2>3 DEF Cancellation, RestCancel
  <2>4. CASE Reset \/ \E o \in DOMAIN orders : InvalidateConfirmation(o)
    BY <2>4 DEF Reset, InvalidateConfirmation
  <2> QED
    BY <1>3, <2>1, <2>2, <2>3, <2>4 DEF Next
<1> QED
  BY <1>1, <1>2, <1>3

\* A step that opens no case and moves none to another order.
LEMMA SameCasesBound ==
  ASSUME CasesBound, DOMAIN cases' = DOMAIN cases, Len(orders') = Len(orders),
         \A k \in DOMAIN cases : cases'[k].order = cases[k].order,
         \A k \in DOMAIN cases : cases[k].overwritten => cases'[k].overwritten,
         \A k \in DOMAIN cases : cases'[k].status \in Active =>
           cases[k].status \in Active \/ cases'[k].overwritten
  PROVE  /\ CasesBound' /\ (Unbound(cases) => Unbound(cases'))
         /\ Late(cases) => Late(cases')
BY DEF CasesBound, Unbound, Late

\* An order that is not confirmed, or held.
Off(order) == order.status # "CUSTOMER_CONFIRMED" \/ order.hold

\* A status that is written leaves its case for the order it was opened for.
LEMMA WriteBound ==
  ASSUME SafeTables, CasesBound, NEW c \in DOMAIN cases, NEW to \in HandoffStatus \ { "REQUESTED" },
         WriteStatus(c, to), Len(orders') = Len(orders)
  PROVE  /\ CasesBound' /\ (Unbound(cases) => Unbound(cases'))
         /\ Late(cases) => Late(cases')
<1>1. /\ DOMAIN cases' = DOMAIN cases
      /\ \A k \in DOMAIN cases : cases'[k].order = cases[k].order
      /\ \A k \in DOMAIN cases : cases[k].overwritten => cases'[k].overwritten
      /\ cases'[c].overwritten \/ cases[c].status \in Active
      /\ \A k \in DOMAIN cases : k # c => cases'[k] = cases[k]
  BY WriteGuards DEF SafeTables, Ages
<1> QED
  BY <1>1, SameCasesBound

\* So does a transition under the lock of the row.
LEMMA MoveBound ==
  ASSUME SafeTables, CasesBound, NEW c \in DOMAIN cases, NEW to \in HandoffStatus \ { "REQUESTED" },
         MoveCase(c, to), Len(orders') = Len(orders)
  PROVE  /\ CasesBound' /\ (Unbound(cases) => Unbound(cases'))
         /\ Late(cases) => Late(cases')
<1>1. /\ DOMAIN cases' = DOMAIN cases
      /\ \A k \in DOMAIN cases : cases'[k].order = cases[k].order
      /\ \A k \in DOMAIN cases : cases[k].overwritten => cases'[k].overwritten
  BY MoveCaseType DEF SafeTables
<1>2. cases[c].status \in Active
  BY Lifecycle, RowsTyped DEF SafeTables, MoveCase, Cases
<1>3. \A k \in DOMAIN cases : cases'[k].status \in Active => cases[k].status \in Active
  BY <1>2 DEF MoveCase
<1> QED
  BY <1>1, <1>3, SameCasesBound

\* A request reuses the case, or opens one that holds the last order.
LEMMA RequestBound ==
  ASSUME SafeTables, CasesBound, NEW reason \in HandoffReasons,
         OpenCase(reason) \/ \E c \in DOMAIN cases : ReuseCase(c, reason)
  PROVE  /\ CasesBound' /\ Len(orders') = Len(orders)
         /\ Unbound(cases) /\ ~ Unbound(cases')
              => Len(orders) # 0 /\ orders'[Len(orders)].hold
         /\ Late(cases) => Late(cases')
         /\ \A o \in DOMAIN orders : Off(orders[o]) => Off(orders'[o])
<1>1. /\ DOMAIN cases = 1 .. Len(cases) /\ Len(cases) \in Nat
      /\ DOMAIN orders = 1 .. Len(orders) /\ Len(orders) \in Nat
      /\ \A o \in DOMAIN orders : orders[o] \in Orders
      /\ \A c \in DOMAIN cases : cases[c].order \in Nat /\ cases[c].order <= Len(orders)
  BY RowsTyped, DeskAssumption DEF SafeTables, Cases, TablesOK, RowsOK
<1>2. CASE \E c \in DOMAIN cases : ReuseCase(c, reason)
  <2>1. PICK c \in DOMAIN cases : ReuseCase(c, reason)
    BY <1>2
  <2>2. /\ DOMAIN cases' = DOMAIN cases /\ UNCHANGED orders
        /\ \A k \in DOMAIN cases : cases'[k].order = cases[k].order
        /\ \A k \in DOMAIN cases : cases[k].overwritten => cases'[k].overwritten
    BY <2>1, ReuseCaseType DEF SafeTables, ReuseCase
  <2>3. \A k \in DOMAIN cases : cases'[k].status = cases[k].status
    BY <2>1, RowsTyped DEF ReuseCase, SafeTables, Cases
  <2> QED
    BY <2>2, <2>3, SameCasesBound
<1>3. CASE OpenCase(reason)
  <2> DEFINE row == [ status |-> "REQUESTED", reason |-> reason, order |-> Len(orders),
                      overwritten |-> FALSE ]
  <2>1. cases' = Append(cases, row)
    BY <1>3 DEF OpenCase, Latest
  <2>2. row.order = Len(orders)
    OBVIOUS
  <2> HIDE DEF row
  <2>3. /\ DOMAIN cases' = 1 .. Len(cases) + 1 /\ cases'[Len(cases) + 1] = row
        /\ \A k \in DOMAIN cases : cases'[k] = cases[k]
    BY <1>1, <2>1 DEF SafeTables, TablesOK
  <2>4. \A k \in DOMAIN cases : cases[k].status \notin Active
    BY <1>3 DEF OpenCase, ActiveCases, IsActive, CaseStatus
  <2>5. orders' = IF Len(orders) = 0 THEN orders
                  ELSE [orders EXCEPT ![Len(orders)].hold = TRUE,
                                      ![Len(orders)].holdReason = reason]
    BY <1>3 DEF OpenCase, HoldOrder, Latest
  <2>6. /\ Len(orders') = Len(orders)
        /\ Len(orders) # 0 => orders'[Len(orders)].hold
        /\ \A o \in DOMAIN orders : Off(orders[o]) => Off(orders'[o])
    BY <1>1, <2>5 DEF SafeTables, TablesOK, Orders, Off
  <2>7. Len(orders) = 0 => Unbound(cases')
    BY <1>1, <2>2, <2>3 DEF Unbound
  <2>8. \A k \in DOMAIN cases' : cases'[k].status \in Active => k = Len(cases) + 1
    BY <1>1, <2>3, <2>4
  <2>9. CasesBound'
    BY <2>2, <2>3, <2>6, <2>7, <2>8 DEF CasesBound
  <2>10. Late(cases) => Late(cases')
    BY <1>1, <2>3 DEF Late
  <2> QED
    BY <2>6, <2>7, <2>9, <2>10
<1> QED
  BY <1>2, <1>3

\* A cancelled case has taken its order out of force.
LEMMA CancelBound ==
  ASSUME DeskInv, SafeTables, CasesBound, NEW c \in DOMAIN cases, CancelCase(c)
  PROVE  /\ CasesBound' /\ Len(orders') = Len(orders)
         /\ Unbound(cases) => Unbound(cases')
         /\ Late(cases) => Late(cases')
         /\ \A o \in DOMAIN orders : Off(orders[o]) => Off(orders'[o])
         /\ Settled(orders', cases', c)
<1> DEFINE p == cases[c].order
           step == IF AdvancesDraft(p) THEN 1 ELSE 0
           dv == IF p = 0 THEN session.state.dv + step
                 ELSE Max2(orders[p].dv + step, session.state.dv)
<1>1. /\ MoveCase(c, "CANCELLED")
      /\ orders' = IF p = 0 THEN orders ELSE [orders EXCEPT ![p] = CancelledOrder(c, dv)]
  BY DEF CancelCase
<1>2. /\ DOMAIN cases = 1 .. Len(cases) /\ Len(cases) \in Nat
      /\ DOMAIN orders = 1 .. Len(orders) /\ Len(orders) \in Nat
      /\ \A o \in DOMAIN orders : orders[o] \in Orders
      /\ p \in Nat /\ p <= Len(orders)
  BY RowsTyped, DeskAssumption DEF SafeTables, Cases, TablesOK, RowsOK
<1>3. "CANCELLED" \in HandoffStatus \ { "REQUESTED" }
  BY DEF HandoffStatus, Terminal
<1>4. cases[c].status \in Active
  BY <1>1, <1>3, Lifecycle, RowsTyped DEF SafeTables, MoveCase, Cases
<1>5. CancelledOrder(c, dv).status # "CUSTOMER_CONFIRMED" \/ p = 0
  BY <1>2 DEF CancelledOrder, Orders
<1> HIDE DEF dv, p
<1>6. /\ Len(orders') = Len(orders)
      /\ p # 0 => orders'[p].status # "CUSTOMER_CONFIRMED"
      /\ \A o \in DOMAIN orders : Off(orders[o]) => Off(orders'[o])
  BY <1>1, <1>2, <1>5 DEF SafeTables, TablesOK, Off
<1>7. /\ CasesBound' /\ (Unbound(cases) => Unbound(cases'))
      /\ Late(cases) => Late(cases')
  BY <1>1, <1>3, <1>6, MoveBound
<1>8. Late(cases) \/ IF p = 0 THEN Unbound(cases) ELSE p = Len(orders)
  BY <1>4 DEF CasesBound, p
<1>9. CASE p = 0
  BY <1>2, <1>6, <1>7, <1>8, <1>9 DEF Settled
<1>10. CASE p # 0
  BY <1>6, <1>7, <1>8, <1>10 DEF Settled
<1> QED
  BY <1>9, <1>10

\* What is settled stays so until an order is confirmed.
LEMMA TablesSettle ==
  ASSUME DeskInv, SafeTables, CasesBound, [Next]_vars, ~ Confirming
  PROVE  /\ CasesBound' /\ Len(orders') = Len(orders)
         /\ \A c : Settled(orders, cases, c) => Settled(orders', cases', c)
<1>1. /\ DOMAIN orders = 1 .. Len(orders) /\ Len(orders) \in Nat
      /\ \A o \in DOMAIN orders : orders[o] \in Orders
  BY RowsTyped DEF SafeTables
<1> DEFINE Stays == /\ CasesBound' /\ Len(orders') = Len(orders)
                    /\ Unbound(cases) /\ ~ Unbound(cases')
                         => Len(orders) # 0 /\ orders'[Len(orders)].hold
                    /\ Late(cases) => Late(cases')
                    /\ \A o \in DOMAIN orders : Off(orders[o]) => Off(orders'[o])
<1> SUFFICES Stays
  <2>1. Len(orders) # 0 => Len(orders) \in DOMAIN orders
    BY <1>1
  <2> QED
    BY <2>1 DEF Settled, Off
<1>2. CASE Quiet
  BY <1>2 DEF Quiet, CasesBound, Unbound, Late
<1>3. CASE Cancelling
  BY <1>3, CancelBound DEF Cancelling
<1>4. CASE Requesting
  BY <1>4, RequestBound DEF Requesting
<1>5. CASE Moving
  BY <1>5, WriteBound DEF Moving
<1>6. CASE Resolving
  <2>1. PICK c \in DOMAIN cases : Resolves(c)
    BY <1>6 DEF Resolving
  <2> DEFINE p == cases[c].order
  <2>2. /\ WriteStatus(c, "RESOLVED")
        /\ orders' = [orders EXCEPT ![p].dv = @ + 1, ![p].status = "DRAFT", ![p].hold = TRUE]
    BY <2>1 DEF Resolves, ResolvedOrder
  <2> HIDE DEF p
  <2>3. Len(orders') = Len(orders) /\ \A o \in DOMAIN orders : Off(orders[o]) => Off(orders'[o])
    BY <1>1, <2>2 DEF SafeTables, TablesOK, Orders, Off
  <2>4. "RESOLVED" \in HandoffStatus \ { "REQUESTED" }
    BY DEF HandoffStatus, Terminal
  <2> QED
    BY <2>2, <2>3, <2>4, WriteBound
<1>7. CASE Withdrawing
  <2>1. PICK p \in DOMAIN orders : InvalidateConfirmation(p)
    BY <1>7 DEF Withdrawing
  <2>2. /\ orders' = [orders EXCEPT ![p].dv = @ + 1, ![p].status = "CANCELLED"]
        /\ UNCHANGED cases
    BY <2>1 DEF InvalidateConfirmation
  <2>3. Len(orders') = Len(orders) /\ \A o \in DOMAIN orders : Off(orders[o]) => Off(orders'[o])
    BY <1>1, <2>2 DEF SafeTables, TablesOK, Orders, Off
  <2> QED
    BY <2>2, <2>3 DEF CasesBound, Unbound, Late
<1> QED
  BY <1>2, <1>3, <1>4, <1>5, <1>6, <1>7, Writes

\* The takings of the row and of a turn.
LEMMA TakingTypes ==
  ASSUME DeskInv
  PROVE  /\ session.state.taking \in Takings /\ session.state.taking \in Nat
         /\ \A w \in Workers : turn[w].state.taking \in Takings
         /\ session \in [ version : 1 .. MaxVersion, closed : BOOLEAN, state : States ]
         /\ session.version \in Nat /\ told \in [ Takings -> Answers ]
         /\ turn \in [ Workers -> Turns ]
<1>1. session.state \in States /\ \A w \in Workers : turn[w].state \in States
  BY RowTypes, TurnTypes
<1>2. /\ session \in [ version : 1 .. MaxVersion, closed : BOOLEAN, state : States ]
      /\ told \in [ Takings -> Answers ] /\ turn \in [ Workers -> Turns ]
  BY DEF DeskInv, TypeOK
<1> QED
  BY <1>1, <1>2, DeskAssumption DEF States, Takings

\* A confirmation is of the row's taking, which was open, and submits it.
LEMMA ConfirmKnown ==
  ASSUME DeskInv, SettledInv, NEW w \in Workers, ConfirmOrder(w)
  PROVE  /\ turn[w].state.taking = session.state.taking
         /\ ~ session.state.submitted /\ ~ session.closed
         /\ session'.version = session.version + 1
         /\ session'.state.taking = session.state.taking /\ session'.state.submitted
         /\ turn'[w].step = "idle" /\ \A v \in Workers : v # w => turn'[v] = turn[v]
         /\ UNCHANGED cases
<1>1. /\ turn[w].step = "confirm" /\ turn[w].version = session.version
      /\ SaveState(turn[w].state) /\ EndTurn(w) /\ UNCHANGED cases
  BY DEF ConfirmOrder, ReadAtThisVersion
<1>2. session'.version = session.version + 1 /\ session'.state = turn[w].state
  BY <1>1, TakingTypes DEF SaveState
<1>3. turn'[w].step = "idle" /\ \A v \in Workers : v # w => turn'[v] = turn[v]
  BY <1>1, TakingTypes DEF EndTurn, IdleTurn
<1> QED
  BY <1>1, <1>2, <1>3 DEF SettledInv, TurnPart, TakingKnown, TurnSettled

\* The row goes on to the next taking only when a turn that has started it is saved.
LEMMA RowTaking ==
  ASSUME DeskInv, SettledInv, [Next]_vars
  PROVE  \/ session'.state.taking = session.state.taking
         \/ /\ session'.state.taking = session.state.taking + 1
            /\ \E w \in Workers :
                 turn'[w].step = "idle" /\ \A v \in Workers : v # w => turn'[v] = turn[v]
<1>1. CASE SessionKept
  BY <1>1 DEF SessionKept
<1>2. CASE Saving
  <2>1. PICK w \in Workers : SaveTurn(w) /\ SaveState(turn[w].state)
    BY <1>2 DEF Saving
  <2>2. session'.state = turn[w].state /\ turn[w].step = "save"
    BY <2>1, TakingTypes DEF SaveTurn, SaveState
  <2>3. turn'[w].step = "idle" /\ \A v \in Workers : v # w => turn'[v] = turn[v]
    BY <2>1, TakingTypes DEF SaveTurn, EndTurn, IdleTurn
  <2> QED
    BY <2>2, <2>3 DEF SettledInv, TurnPart, TakingKnown
<1>3. CASE Confirming
  BY <1>3, ConfirmKnown DEF Confirming
<1>4. CASE Reset
  BY <1>4 DEF Reset, FreshState
<1>5. ASSUME NEW c \in DOMAIN cases, CancelCase(c)
      PROVE  session'.state.taking = session.state.taking
  BY <1>5, CancelSession
<1> QED
  BY <1>1, <1>2, <1>3, <1>4, <1>5, SessionWrites

\* The active case holds the last order, whatever the step.
LEMMA CasesBoundStep ==
  ASSUME DeskInv, SafeTables, SettledInv, [Next]_vars
  PROVE  CasesBound'
<1>1. CASE ~ Confirming
  BY <1>1, TablesSettle DEF SettledInv
<1>2. ASSUME NEW w \in Workers, ConfirmOrder(w) PROVE CasesBound'
  <2>1. PICK o \in 1 .. MaxOrders : Confirms(w, o)
    BY <1>2, ConfirmOrderRows
  <2>2. Len(orders') = o /\ (o = Len(orders) \/ o = Len(orders) + 1)
    BY <2>1 DEF Confirms, Latest
  <2>3. UNCHANGED cases /\ (Len(orders) # 0 => ~ orders[Len(orders)].hold)
    BY <1>2 DEF ConfirmOrder, Latest
  <2>4. ~ Late(cases) => \A c \in DOMAIN cases : cases[c].status \in Active =>
          cases[c].order # Len(orders) \/ Len(orders) = 0
    BY <2>3 DEF SafeTables, Guarding, Late
  <2> QED
    BY <2>2, <2>3, <2>4 DEF SettledInv, CasesBound, Unbound, Late
<1> QED
  BY <1>1, <1>2 DEF Confirming

\* What the row's taking has placed is the last order.
LEMMA PlacedStep ==
  ASSUME DeskInv, SafeTables, SettledInv, [Next]_vars
  PROVE  PlacedLast'
<1>1. session.state.taking \in Nat
  BY TakingTypes
<1>2. CASE ~ Confirming
  <2>1. Len(orders') = Len(orders) /\ \A t \in Takings : told'[t].placed = told[t].placed
    BY <1>2, TablesSettle, PlacedKept DEF SettledInv
  <2>2. \A t \in Takings : t \in Nat
    BY DeskAssumption DEF Takings
  <2>3. session'.state.taking \in { session.state.taking, session.state.taking + 1 }
    BY RowTaking
  <2> QED
    BY <1>1, <2>1, <2>2, <2>3 DEF SettledInv, PlacedLast
<1>3. ASSUME NEW w \in Workers, ConfirmOrder(w) PROVE PlacedLast'
  <2>1. PICK o \in 1 .. MaxOrders : Confirms(w, o)
    BY <1>3, ConfirmOrderRows
  <2>2. Len(orders') = o /\ TellPlaced(w, o)
    BY <2>1 DEF Confirms
  <2> DEFINE r == session.state.taking
  <2>3. r \in Takings /\ turn[w].state.taking = r /\ session'.state.taking = r
    BY <1>3, ConfirmKnown, TakingTypes
  <2>4. /\ told'[r].placed = o
        /\ \A t \in Takings : t # r => told'[t] = told[t]
    BY <2>2, <2>3, TakingTypes DEF TellPlaced
  <2> QED
    BY <1>1, <2>2, <2>3, <2>4 DEF SettledInv, PlacedLast
<1> QED
  BY <1>2, <1>3 DEF Confirming

\* An open row that is not submitted has settled what its taking placed.
LEMMA RowSettledStep ==
  ASSUME DeskInv, SafeTables, SettledInv, [Next]_vars
  PROVE  RowSettled'
<1>1. CASE Confirming
  BY <1>1, ConfirmKnown DEF Confirming, RowSettled
<1>2. CASE Reset
  BY <1>2 DEF Reset, RowSettled
<1>3. ASSUME ~ Confirming
      PROVE  /\ \A t \in Takings : told'[t].placed = told[t].placed
             /\ \A c : Settled(orders, cases, c) => Settled(orders', cases', c)
  BY <1>3, TablesSettle, PlacedKept DEF SettledInv
<1>4. CASE SessionKept /\ ~ Confirming
  BY <1>3, <1>4, TakingTypes DEF SessionKept, SettledInv, RowSettled
<1>5. CASE Saving /\ ~ Confirming
  <2>1. PICK w \in Workers : SaveTurn(w) /\ MaySave(w) /\ SaveState(turn[w].state)
    BY <1>5 DEF Saving
  <2>2. /\ session'.state = turn[w].state /\ session'.closed = session.closed
        /\ turn[w].step = "save" /\ turn[w].version = session.version /\ ~ session.closed
    BY <2>1, TakingTypes DEF SaveTurn, MaySave, SaveState
  <2>3. TurnSettled(w) /\ turn[w].state.taking \in Takings
    BY TakingTypes DEF SettledInv, TurnPart
  <2> QED
    BY <1>3, <1>5, <2>2, <2>3 DEF TurnSettled, RowSettled
<1>6. ASSUME NEW c \in DOMAIN cases, CancelCase(c) PROVE RowSettled'
  <2>1. Settled(orders', cases', c) /\ session'.state.handoff = c
    BY <1>6, CancelBound, CancelSession DEF SettledInv
  <2> QED
    BY <2>1 DEF RowSettled
<1> QED
  BY <1>1, <1>2, <1>4, <1>5, <1>6, SessionWrites

\* A turn that does not move knows as much as before.
LEMMA OtherPart ==
  ASSUME Serial, DeskInv, DeskInv', SafeTables, TurnInv, SettledInv, [Next]_vars,
         NEW w \in Workers, turn'[w] = turn[w]
  PROVE  TurnPart(w)'
<1> SUFFICES ASSUME turn[w].step # "idle" PROVE TurnPart(w)'
  BY DEF TurnPart, TakingKnown, TurnSettled, Settling
<1>1. TakingKnown(w) /\ TurnSettled(w) /\ turn[w].state.taking \in Takings
  BY TakingTypes DEF SettledInv, TurnPart
<1>2. session'.state.taking = session.state.taking
  <2>1. session.state.taking \in 1 .. MaxTakings /\ session'.state.taking \in 1 .. MaxTakings
    <3>1. session' \in [ version : 1 .. MaxVersion, closed : BOOLEAN, state : States ]
      BY DEF DeskInv, TypeOK
    <3> QED
      BY <3>1, TakingTypes DEF States, Takings
  <2>2. CASE MaxTakings = 1
    BY <2>1, <2>2
  <2>3. CASE \A u, v \in Workers : u = v
    BY <2>3, RowTaking
  <2> QED
    BY <2>2, <2>3 DEF Serial
<1>3. TakingKnown(w)'
  BY <1>1, <1>2 DEF TakingKnown
<1>4. CASE session'.version = session.version + 1
  <2>1. turn[w].version <= session.version /\ turn[w].version \in Nat /\ session.version \in Nat
    BY TakingTypes, TurnTypes, DeskAssumption DEF TurnInv, TurnSafe
  <2> QED
    BY <1>3, <1>4, <2>1 DEF TurnPart, TurnSettled
<1>5. CASE UNCHANGED session
  <2>1. ~ Confirming
    BY <1>5, ConfirmKnown, TakingTypes DEF Confirming
  <2>2. /\ \A t \in Takings : told'[t].placed = told[t].placed
        /\ \A c : Settled(orders, cases, c) => Settled(orders', cases', c)
    BY <2>1, TablesSettle, PlacedKept DEF SettledInv
  <2>3. TurnSettled(w)'
    BY <1>1, <1>5, <2>2 DEF TurnSettled
  <2> QED
    BY <1>3, <2>3 DEF TurnPart
<1> QED
  BY <1>4, <1>5, RowStep DEF RowSafe

\* A turn that ends.
LEMMA EndPart ==
  ASSUME DeskInv, NEW w \in Workers, EndTurn(w)
  PROVE  TurnPart(w)'
<1>1. turn'[w].step = "idle"
  BY TakingTypes DEF EndTurn, IdleTurn
<1> QED
  BY <1>1 DEF TurnPart, TakingKnown, TurnSettled, Settling

\* What a turn at the row's version may save as open.
Open(state) ==
  ~ state.submitted /\ ~ session.closed /\ told[state.taking].placed # 0
    => Settled(orders, cases, state.handoff)

\* A turn that goes on, the tables as they are.
LEMMA GotoPart ==
  ASSUME DeskInv, NEW w \in Workers, NEW step, NEW state, Goto(w, step, state),
         step \in { "orchestrate", "handoff", "confirm", "save" },
         UNCHANGED << session, orders, cases, told >>,
         state.taking \in { session.state.taking, session.state.taking + 1 },
         step \in { "orchestrate", "confirm" } => state.taking = session.state.taking,
         step = "confirm" => state.submitted,
         turn[w].version = session.version =>
           /\ step = "orchestrate" => state.submitted = session.state.submitted /\ ~ session.closed
           /\ step = "confirm" => ~ session.state.submitted /\ ~ session.closed
           /\ step = "save" => Open(state)
  PROVE  TurnPart(w)'
<1>1. turn'[w].step = step /\ turn'[w].state = state /\ turn'[w].version = turn[w].version
  BY TakingTypes DEF Goto, Turns
<1> QED
  BY <1>1 DEF TurnPart, TakingKnown, TurnSettled, Settling, Open

\* A turn in one of its first steps, at the row's version, holds what is settled.
LEMMA ReadingPart ==
  ASSUME TurnInv, SettledInv, NEW w \in Workers,
         turn[w].step \in { "preflight", "orchestrate" }
  PROVE  /\ turn[w].state.taking = session.state.taking
         /\ turn[w].version = session.version =>
              /\ turn[w].state.submitted = session.state.submitted /\ ~ session.closed
              /\ Open(turn[w].state)
BY DEF TurnInv, TurnSafe, Fresh, SettledInv, TurnPart, TakingKnown, TurnSettled, RowSettled, Open

\* The steps before the orchestrator.
LEMMA PreflightPart ==
  ASSUME DeskInv, TurnInv, SettledInv, NEW w \in Workers,
         \/ AnswerBeforePreflight(w) \/ PreflightPass(w)
         \/ \E confidence \in ChatConfidences : PreflightGuard(w, confidence)
  PROVE  TurnPart(w)'
<1> DEFINE state == turn[w].state
<1>1. turn[w].step = "preflight" /\ state \in States
  BY TurnTypes DEF AnswerBeforePreflight, PreflightPass, PreflightGuard
<1>2. /\ state.taking = session.state.taking
      /\ turn[w].version = session.version =>
           state.submitted = session.state.submitted /\ ~ session.closed /\ Open(state)
  BY <1>1, ReadingPart
<1>3. UNCHANGED << session, orders, cases, told >>
  BY DEF AnswerBeforePreflight, PreflightPass, PreflightGuard, tables
<1>4. CASE AnswerBeforePreflight(w) \/ PreflightPass(w)
  <2>1. Goto(w, "save", state) \/ Goto(w, "orchestrate", state)
    BY <1>4 DEF AnswerBeforePreflight, PreflightPass
  <2> QED
    BY <1>2, <1>3, <2>1, GotoPart
<1>5. CASE \E confidence \in ChatConfidences : PreflightGuard(w, confidence)
  <2>1. PICK confidence \in ChatConfidences : PreflightGuard(w, confidence)
    BY <1>5
  <2> DEFINE signals == HeardSignals(turn[w].msg) \union CarriedSignals(state)
             c == AdvanceCounters(counters, signals, confidence, signals # {})
             d == PreflightDecision(turn[w].msg, state, c, confidence)
             handed == [state EXCEPT !.reason = d.reason, !.submitted = FALSE,
                                     !.dv = IF state.submitted THEN @ + 1 ELSE @]
             kept == [state EXCEPT !.reason = d.reason]
             step == IF d.class = "AUTO_DRAFT" THEN "orchestrate" ELSE "save"
  <2>2. Goto(w, "handoff", handed) \/ Goto(w, step, kept)
    BY <2>1 DEF PreflightGuard
  <2>3. /\ handed.taking = state.taking /\ kept.taking = state.taking
        /\ kept.submitted = state.submitted /\ kept.handoff = state.handoff
        /\ step \in { "orchestrate", "save" }
    BY <1>1 DEF States
  <2> HIDE DEF handed, kept, step
  <2>4. Open(state) => Open(kept)
    BY <2>3 DEF Open
  <2> HIDE DEF state
  <2> QED
    BY <1>2, <1>3, <2>2, <2>3, <2>4, GotoPart
<1> QED
  BY <1>4, <1>5

\* The customer's cancellation, and its repetition.
LEMMA PreflightCancelPart ==
  ASSUME DeskInv, SafeTables, TurnInv, SettledInv, [Next]_vars, NEW w \in Workers,
         PreflightCancel(w) \/ PreflightCancelAgain(w)
  PROVE  TurnPart(w)'
<1> DEFINE state == turn[w].state
<1>1. /\ turn[w].step = "preflight" /\ turn[w] \in Turns /\ state \in States
      /\ turn \in [ Workers -> Turns ] /\ state.handoff # 0
  BY TurnTypes, TakingTypes DEF PreflightCancel, PreflightCancelAgain
<1>2. /\ state.taking = session.state.taking /\ state.taking \in Takings
      /\ turn[w].version = session.version => state.submitted = session.state.submitted
  BY <1>1, ReadingPart, TakingTypes
<1>3. CASE EndTurn(w)
  BY <1>3, EndPart
<1>4. CASE PreflightCancel(w) /\ ~ EndTurn(w)
  <2> DEFINE next == [state EXCEPT !.submitted = FALSE, !.dv = session'.state.dv]
  <2>1. /\ IsActive(state.handoff) /\ CancelCase(state.handoff) /\ UNCHANGED told
        /\ turn' = [turn EXCEPT ![w].step = "save", ![w].state = next,
                                ![w].version = session'.version]
    BY <1>4 DEF PreflightCancel
  <2>2. state.handoff \in DOMAIN cases
    BY <2>1 DEF IsActive, CaseStatus, Active
  <2>3. session'.state.taking = session.state.taking
    BY <2>1, <2>2, CancelSession
  <2>4. Settled(orders', cases', state.handoff)
    BY <2>1, <2>2, CancelBound DEF SettledInv
  <2>5. next.handoff = state.handoff /\ next.taking = state.taking
    BY <1>1 DEF States
  <2> HIDE DEF next
  <2>6. turn'[w].step = "save" /\ turn'[w].state = next
    BY <1>1, <2>1 DEF Turns
  <2> QED
    BY <1>2, <2>3, <2>4, <2>5, <2>6 DEF TurnPart, TakingKnown, TurnSettled, Settling
<1>5. CASE PreflightCancelAgain(w) /\ ~ EndTurn(w)
  <2> DEFINE next == [state EXCEPT !.submitted = FALSE, !.dv = session.state.dv]
  <2>1. /\ UNCHANGED << session, orders, cases, told >>
        /\ IF session.state.submitted THEN Goto(w, "save", state)
           ELSE turn' = [turn EXCEPT ![w].step = "save", ![w].state = next,
                                     ![w].version = session.version]
    BY <1>5 DEF PreflightCancelAgain, tables
  <2>2. CASE session.state.submitted
    <3>1. Goto(w, "save", state)
      BY <2>1, <2>2
    <3>2. turn[w].version = session.version => Open(state)
      BY <1>1, ReadingPart
    <3> QED
      BY <1>2, <2>1, <3>1, <3>2, GotoPart
  <2>3. CASE ~ session.state.submitted
    <3>1. next.handoff = state.handoff /\ next.taking = state.taking
      BY <1>1 DEF States
    <3>2. turn' = [turn EXCEPT ![w].step = "save", ![w].state = next,
                               ![w].version = session.version]
      BY <2>1, <2>3
    <3> HIDE DEF next
    <3>3. turn'[w].step = "save" /\ turn'[w].state = next
      BY <1>1, <3>2 DEF Turns
    <3>4. ~ session.closed /\ told[session.state.taking].placed # 0
            => Settled(orders, cases, state.handoff)
      BY <1>1, <2>3 DEF SettledInv, RowSettled, Settled
    <3> QED
      BY <1>2, <2>1, <3>1, <3>3, <3>4 DEF TurnPart, TakingKnown, TurnSettled, Settling
  <2> QED
    BY <2>2, <2>3
<1> QED
  BY <1>3, <1>4, <1>5

\* The postflight audit of an orchestrated turn.
LEMMA AuditPart ==
  ASSUME DeskInv, NEW w \in Workers,
         NEW signals, NEW state \in States, NEW step \in { "confirm", "save" },
         Audit(w, signals, state, step),
         state.taking \in { session.state.taking, session.state.taking + 1 },
         step = "confirm" => state.taking = session.state.taking /\ state.submitted,
         turn[w].version = session.version =>
           /\ step = "confirm" => ~ session.state.submitted /\ ~ session.closed
           /\ step = "save" => Open(state)
  PROVE  TurnPart(w)'
<1> DEFINE c == AdvanceCounters(counters, signals, "missing", TRUE)
           d == Evaluate(signals, c, "missing", TRUE, FALSE)
           next == [state EXCEPT !.reason = d.reason]
           goto == IF d.class = "HANDOFF" THEN "handoff" ELSE step
<1>1. Goto(w, goto, next) /\ UNCHANGED << session, orders, cases, told >>
  BY DEF Audit, tables
<1>2. next.handoff = state.handoff /\ next.taking = state.taking /\ next.submitted = state.submitted
  BY DEF States
<1>3. goto \in { "handoff", step }
  OBVIOUS
<1> HIDE DEF next, goto
<1>4. Open(state) => Open(next)
  BY <1>2 DEF Open
<1> QED
  BY <1>1, <1>2, <1>3, <1>4, GotoPart

\* The orchestrator.
LEMMA OrchestratePart ==
  ASSUME DeskInv, TurnInv, SettledInv, NEW w \in Workers, Orchestrate(w)
  PROVE  TurnPart(w)'
<1> DEFINE state == turn[w].state
<1>1. turn[w].step = "orchestrate"
  BY DEF Orchestrate, EditDraft, SubmitDraft, StartNewOrder, AnswerOnly, Misunderstand,
         UnparsedMessage, Orchestrating
<1>2. /\ state \in States /\ state.taking \in Nat
      /\ state.taking = session.state.taking
      /\ turn[w].version = session.version =>
           state.submitted = session.state.submitted /\ ~ session.closed /\ Open(state)
  BY <1>1, ReadingPart, TurnTypes, TakingTypes
<1>3. CASE EditDraft(w)
  <2> DEFINE items == turn[w].msg.arg
             dv == VersionAfter(state, items)
             next == [state EXCEPT !.items = items, !.dv = dv]
  <2>1. Audit(w, { "UNDERSTOOD" }, next, "save") /\ dv \in DraftVersions
    BY <1>3 DEF EditDraft
  <2>2. items \in Contents
    BY <1>3, TurnTypes DEF EditDraft, Orchestrating, TurnOK, Messages
  <2> HIDE DEF dv, items
  <2>3. /\ next \in States /\ next.handoff = state.handoff /\ next.taking = state.taking
        /\ next.submitted = state.submitted
    BY <1>2, <2>1, <2>2 DEF States
  <2> HIDE DEF next
  <2>4. Open(state) => Open(next)
    BY <2>3 DEF Open
  <2> QED
    BY <1>2, <2>1, <2>3, <2>4, AuditPart
<1>4. CASE SubmitDraft(w)
  <2> DEFINE next == [state EXCEPT !.submitted = TRUE]
  <2>1. /\ Audit(w, { "UNDERSTOOD", "FINAL_ORDER", "CONFIRMATION_SUCCEEDED" }, next, "confirm")
        /\ ~ state.submitted
    BY <1>4 DEF SubmitDraft, Orchestrating
  <2>2. next \in States /\ next.taking = state.taking /\ next.submitted
    BY <1>2 DEF States
  <2> HIDE DEF next
  <2> QED
    BY <1>2, <2>1, <2>2, AuditPart
<1>5. CASE StartNewOrder(w)
  <2> DEFINE next == FreshState(state.taking + 1)
  <2>1. Audit(w, { "UNDERSTOOD" }, next, "save") /\ state.taking + 1 \in Takings
    BY <1>2, <1>5, DeskAssumption DEF StartNewOrder, Takings
  <2>2. next \in States /\ next.taking = session.state.taking + 1
    BY <1>2, <2>1, FreshStateType DEF FreshState
  <2> HIDE DEF next
  <2>3. Open(next)
    BY <1>2, <2>1, <2>2 DEF Open, SettledInv, PlacedLast
  <2> QED
    BY <2>1, <2>2, <2>3, AuditPart
<1>6. CASE AnswerOnly(w) \/ Misunderstand(w)
  <2>1. Audit(w, { "UNDERSTOOD" }, state, "save") \/ Audit(w, { "MISUNDERSTANDING" }, state, "save")
    BY <1>6 DEF AnswerOnly, Misunderstand
  <2> QED
    BY <1>2, <2>1, AuditPart
<1>7. CASE UnparsedMessage(w)
  <2>1. Goto(w, "save", state) /\ UNCHANGED << session, orders, cases, told >>
    BY <1>7 DEF UnparsedMessage, tables
  <2> QED
    BY <1>1, <1>2, <2>1, GotoPart
<1> QED
  BY <1>3, <1>4, <1>5, <1>6, <1>7 DEF Orchestrate

\* A turn begins with the session as it is read.
LEMMA ReceivePart ==
  ASSUME DeskInv, SettledInv, NEW w \in Workers, NEW msg \in Messages, ReceiveMessage(w, msg)
  PROVE  TurnPart(w)'
<1> DEFINE t == [ step |-> "preflight", msg |-> msg, state |-> session.state,
                  version |-> session.version, case |-> 0 ]
<1>1. /\ turn' = [turn EXCEPT ![w] = t] /\ UNCHANGED session /\ ~ session.closed
  BY DEF ReceiveMessage, tables
<1>2. turn'[w] = t
  BY <1>1, TakingTypes
<1> QED
  BY <1>1, <1>2 DEF TurnPart, TakingKnown, TurnSettled, Settling

\* The request for a handoff, and its settlement.
LEMMA HandoffPart ==
  ASSUME DeskInv, SafeTables, SettledInv, [Next]_vars, NEW w \in Workers,
         TurnRequestsHandoff(w) \/ TurnSettlesHandoff(w)
  PROVE  TurnPart(w)'
<1> DEFINE state == turn[w].state
<1>1. /\ turn[w].step \in { "handoff" } \union Settling /\ UNCHANGED << session, told >>
      /\ turn[w].step \notin { "idle", "preflight", "orchestrate", "confirm" }
      /\ state \in States /\ turn[w] \in Turns /\ turn \in [ Workers -> Turns ]
      /\ state.taking \in Takings
      /\ UNCHANGED confirmed
  BY TurnTypes, TakingTypes DEF TurnRequestsHandoff, TurnSettlesHandoff, Settling
<1>2. /\ state.taking \in { session.state.taking, session.state.taking + 1 }
      /\ TurnSettled(w)
  BY <1>1 DEF SettledInv, TurnPart, TakingKnown
<1>3. ~ Confirming
  <2>1. ASSUME NEW v \in Workers, ConfirmOrder(v) PROVE FALSE
    BY <1>1, <2>1, ConfirmKnown, TakingTypes
  <2> QED
    BY <2>1 DEF Confirming
<1>4. \A c : Settled(orders, cases, c) => Settled(orders', cases', c)
  BY <1>3, TablesSettle DEF SettledInv
\* The case is named in the state that is saved next.
<1>5. ASSUME NEW c, Goto(w, "save", [state EXCEPT !.handoff = c]),
             turn[w].version = session.version /\ told[state.taking].placed # 0
               => Settled(orders', cases', c)
      PROVE  TurnPart(w)'
  <2> DEFINE next == [state EXCEPT !.handoff = c]
  <2>1. next.handoff = c /\ next.taking = state.taking
    BY <1>1 DEF States
  <2>2. turn' = [turn EXCEPT ![w].step = "save", ![w].state = next]
    BY <1>5 DEF Goto
  <2> HIDE DEF next
  <2>3. turn'[w].step = "save" /\ turn'[w].state = next /\ turn'[w].version = turn[w].version
    BY <1>1, <2>2 DEF Turns
  <2> QED
    BY <1>1, <1>2, <1>5, <2>1, <2>3 DEF TurnPart, TakingKnown, TurnSettled, Settling
<1>6. CASE TurnSettlesHandoff(w)
  <2>1. turn[w].step \in Settling
    BY <1>6 DEF TurnSettlesHandoff, Settling
  <2>2. turn[w].version = session.version /\ told[state.taking].placed # 0
          => Settled(orders', cases', turn[w].case)
    BY <1>2, <1>4, <2>1 DEF TurnSettled, Settling
  <2>3. CASE Goto(w, "save", [state EXCEPT !.handoff = turn[w].case])
    BY <1>5, <2>2, <2>3
  <2>4. ASSUME NEW next \in { "settle", "fail" }, Goto(w, next, state) PROVE TurnPart(w)'
    <3>1. /\ turn'[w].step = next /\ turn'[w].state = state
          /\ turn'[w].version = turn[w].version /\ turn'[w].case = turn[w].case
      BY <1>1, <2>4 DEF Goto, Turns
    <3> QED
      BY <1>1, <1>2, <2>2, <3>1 DEF TurnPart, TakingKnown, TurnSettled, Settling
  <2> QED
    BY <1>6, <2>3, <2>4 DEF TurnSettlesHandoff
\* A case that is reused holds the last order, or none was opened for an order.
<1>7. ASSUME NEW c \in DOMAIN cases, cases[c].status \in Active
      PROVE  Settled(orders, cases, c)
  <2>1. c # 0 /\ cases[c].order \in Nat
    BY RowsTyped, DeskAssumption DEF SafeTables, Cases
  <2>2. CASE cases[c].order = 0
    BY <1>7, <2>1, <2>2 DEF SettledInv, CasesBound, Settled
  <2>3. CASE cases[c].order # 0
    BY <1>7, <2>3 DEF SettledInv, CasesBound, Settled, SafeTables, Guarding, Late
  <2> QED
    BY <2>2, <2>3
<1>8. CASE TurnRequestsHandoff(w)
  <2>1. CASE \E c \in DOMAIN cases :
               ReuseCase(c, state.reason) /\ Goto(w, "save", [state EXCEPT !.handoff = c])
    <3>1. PICK c \in DOMAIN cases :
               ReuseCase(c, state.reason) /\ Goto(w, "save", [state EXCEPT !.handoff = c])
      BY <2>1
    <3>2. cases[c].status \in Active
      BY <3>1 DEF ReuseCase, IsActive, CaseStatus
    <3> QED
      BY <1>4, <1>5, <1>7, <3>1, <3>2
  <2>2. CASE /\ OpenCase(state.reason)
             /\ turn' = [turn EXCEPT ![w].step = "pending", ![w].case = Len(cases')]
    <3>1. /\ turn'[w].step = "pending" /\ turn'[w].state = state
          /\ turn'[w].version = turn[w].version /\ turn'[w].case = Len(cases')
      BY <1>1, <2>2 DEF Turns
    <3>2. Len(orders') = Len(orders) /\ (Len(orders) # 0 => orders'[Len(orders)].hold)
      <4>1. orders' = IF Len(orders) = 0 THEN orders
                      ELSE [orders EXCEPT ![Len(orders)].hold = TRUE,
                                          ![Len(orders)].holdReason = state.reason]
        BY <2>2 DEF OpenCase, HoldOrder, Latest
      <4>2. /\ DOMAIN orders = 1 .. Len(orders) /\ Len(orders) \in Nat
            /\ \A o \in DOMAIN orders : orders[o] \in Orders
        BY RowsTyped DEF SafeTables
      <4> HIDE DEF state
      <4> QED
        BY <4>1, <4>2 DEF SafeTables, TablesOK, Orders
    <3>3. Settled(orders', cases', Len(cases'))
      BY <3>2 DEF Settled
    <3> QED
      BY <1>1, <1>2, <3>1, <3>3 DEF TurnPart, TakingKnown, TurnSettled, Settling
  <2> QED
    BY <1>8, <2>1, <2>2 DEF TurnRequestsHandoff
<1> QED
  BY <1>6, <1>8

\* Every step of a turn keeps what it knows.
LEMMA TurnPartStep ==
  ASSUME DeskInv, SafeTables, TurnInv, SettledInv, [Next]_vars, NEW w \in Workers, Turn(w)
  PROVE  TurnPart(w)'
<1>1. CASE SaveTurn(w) \/ ConfirmReplay(w) \/ ConfirmOrder(w) \/ ConfirmRejected(w) \/ TurnFails(w)
  BY <1>1, EndPart DEF SaveTurn, ConfirmReplay, ConfirmOrder, ConfirmRejected, TurnFails
<1>2. CASE Preflight(w)
  BY <1>2, PreflightPart, PreflightCancelPart DEF Preflight
<1>3. CASE Orchestrate(w)
  BY <1>3, OrchestratePart
<1>4. CASE TurnRequestsHandoff(w) \/ TurnSettlesHandoff(w)
  BY <1>4, HandoffPart
<1> QED
  BY <1>1, <1>2, <1>3, <1>4, ReceivePart DEF Turn

\* So does every step of the system.
LEMMA SettledStep ==
  ASSUME Serial, DeskInv, SafeTables, TurnInv, SettledInv, [Next]_vars
  PROVE  SettledInv'
<1>1. DeskInv'
  BY NextDesk
<1>2. ASSUME NEW w \in Workers PROVE TurnPart(w)'
  <2>1. CASE Turn(w)
    BY <2>1, TurnPartStep
  <2>2. CASE \E v \in Workers : v # w /\ Turn(v)
    <3>1. PICK v \in Workers : v # w /\ Turn(v)
      BY <2>2
    <3>2. Becomes(v)
      BY <3>1, TurnStep
    <3> QED
      BY <1>1, <3>1, <3>2, OtherPart DEF Becomes
  <2>3. CASE UNCHANGED turn
    BY <1>1, <2>3, OtherPart
  <2> QED
    BY <2>1, <2>2, <2>3, TurnsMoveAlone
<1>3. CasesBound' /\ PlacedLast' /\ RowSettled'
  BY CasesBoundStep, PlacedStep, RowSettledStep
<1> QED
  BY <1>2, <1>3 DEF SettledInv

\* What is settled holds in every reachable state.
LEMMA TakingsSettled ==
  ASSUME Serial
  PROVE  Spec => [](DeskInv /\ SafeInv /\ TurnInv /\ SettledInv)
<1>1. Init => SettledInv
  <2> SUFFICES ASSUME Init PROVE SettledInv
    OBVIOUS
  <2>1. /\ cases = << >> /\ orders = << >> /\ \A t \in Takings : told[t].placed = 0
        /\ \A w \in Workers : turn[w].step = "idle"
    BY DEF Init, IdleTurn
  <2>2. session.state.taking \in Takings
    BY DeskAssumption DEF Init, FreshState, Takings
  <2> QED
    BY <2>1, <2>2 DEF SettledInv, CasesBound, PlacedLast, RowSettled, TurnPart, TakingKnown,
                      TurnSettled
<1>2. DeskInv /\ SafeInv /\ TurnInv /\ SettledInv /\ [Next]_vars => SettledInv'
  <2> SUFFICES ASSUME DeskInv, SafeInv, TurnInv, SettledInv, [Next]_vars PROVE SettledInv'
    OBVIOUS
  <2>1. SafeTables
    BY TableTypes, SafeForm DEF SafeTables
  <2> QED
    BY <2>1, SettledStep
<1> QED
  BY <1>1, <1>2, TurnsKnow, PTL DEF Spec

\* No double order: a taking places another order only when the one that it
\* placed before is no longer confirmed, or is held, or the session's handoff was
\* there before the order, or a late transition made a case active again.  For turns that overlap within one taking, with any
\* number of workers, and for turns that are serialised, with any number of takings.
THEOREM OneOrderPerTaking ==
  ASSUME MaxTakings = 1 \/ \A v, w \in Workers : v = w
  PROVE  Spec => NoDoubleOrder
<1> DEFINE Once == \A t \in Takings :
                     LET o == told[t].placed
                     IN  o # 0 /\ told'[t].placed # o
                           => \/ orders'[o].status # "CUSTOMER_CONFIRMED"
                              \/ orders'[o].hold
                              \/ CaseOfNoOrder
                              \/ LateTransition
<1>1. DeskInv /\ SafeInv /\ TurnInv /\ SettledInv /\ [Next]_vars => [Once]_vars
  <2> SUFFICES ASSUME DeskInv, SafeInv, TurnInv, SettledInv, [Next]_vars PROVE Once
    OBVIOUS
  <2>1. SafeTables
    BY TableTypes, SafeForm DEF SafeTables
  <2>2. CASE ~ Confirming
    BY <2>2, PlacedKept
  <2>3. ASSUME NEW w \in Workers, ConfirmOrder(w), NEW t \in Takings,
               told[t].placed # 0, told'[t].placed # told[t].placed
        PROVE  \/ orders'[told[t].placed].status # "CUSTOMER_CONFIRMED"
               \/ orders'[told[t].placed].hold
               \/ CaseOfNoOrder
               \/ LateTransition
    <3>1. PICK o \in 1 .. MaxOrders : Confirms(w, o)
      BY <2>3, ConfirmOrderRows
    <3>2. t = session.state.taking /\ told'[t].placed = o
      BY <2>3, <3>1, ConfirmKnown, TakingTypes DEF Confirms, TellPlaced
    <3>3. told[t].placed = Len(orders)
      BY <2>3, <3>2 DEF SettledInv, PlacedLast
    <3>4. Len(orders) # 0 /\ Len(orders) \in DOMAIN orders /\ o # Len(orders)
      <4>1. DOMAIN orders = 1 .. Len(orders) /\ Len(orders) \in Nat
        BY <2>1, RowsTyped DEF SafeTables
      <4>2. Len(orders) # 0 /\ o # Len(orders)
        BY <2>3, <3>2, <3>3
      <4>3. \A n \in Nat : n # 0 => n \in 1 .. n
        OBVIOUS
      <4>4. Len(orders) \in DOMAIN orders
        BY <4>1, <4>2, <4>3, Zenon
      <4> QED
        BY <4>2, <4>4, Zenon
    <3>5. orders'[Len(orders)] = orders[Len(orders)]
      BY <3>1, <3>4 DEF Confirms
    <3>6. Settled(orders, cases, session.state.handoff)
      BY <2>3, <3>2, ConfirmKnown DEF SettledInv, RowSettled
    <3>7. session.state.handoff # 0 /\ Unbound(cases) => CaseOfNoOrder
      <4>1. session.state.handoff \in 0 .. Len(cases) /\ DOMAIN cases = 1 .. Len(cases)
        BY <2>1, RowsTyped DEF SafeTables, TurnInv, Guarded
      <4> QED
        BY <4>1 DEF Unbound, CaseOfNoOrder
    <3> QED
      BY <3>3, <3>4, <3>5, <3>6, <3>7 DEF Settled, Late, LateTransition
  <2> QED
    BY <2>2, <2>3 DEF Confirming
<1>2. Spec => [][Once]_vars
  <2> HIDE DEF Once
  <2>1. Serial
    BY DEF Serial
  <2> QED
    BY <1>1, <2>1, TakingsSettled, PTL DEF Spec
<1> QED
  BY <1>2 DEF NoDoubleOrder

-----------------------------------------------------------------------------
(* What holds when the turns of the session are serialised.                   *)

Alone == \A v, w \in Workers : v = w

\* The turn of `w` has the row's draft until it edits it, and then a new version.
ItemsKnown(w) ==
  turn[w].step # "idle" /\ ~ session.closed =>
    /\ turn[w].step \in { "preflight", "orchestrate" } => turn[w].state.items = session.state.items
    /\ /\ turn[w].version = session.version
       /\ turn[w].state.taking = session.state.taking
       /\ turn[w].state.dv = session.state.dv
       => turn[w].state.items = session.state.items

ItemsInv == \A w \in Workers : ItemsKnown(w)

\* A cancellation leaves the draft as it is, and names its case and the reason.
LEMMA CancelDraft ==
  ASSUME DeskInv, NEW c \in DOMAIN cases, CancelCase(c)
  PROVE  /\ session'.state.items = session.state.items /\ session'.closed = session.closed
         /\ session'.state.handoff = c /\ session'.state.reason = cases[c].reason
<1>1. \E dv : SaveState(CancelledState(c, dv))
  BY DEF CancelCase
<1>2. session.state \in States
  BY RowTypes
<1> QED
  BY <1>1, <1>2, TakingTypes DEF SaveState, CancelledState, States

\* A closed session stays closed, and a draft version keeps its content.
RowContent ==
  /\ session.closed => session'.closed
  /\ (/\ session'.state.taking = session.state.taking /\ ~ session'.closed
      /\ session'.state.dv = session.state.dv)
       => session'.state.items = session.state.items

LEMMA ContentStep ==
  ASSUME DeskInv, ItemsInv, [Next]_vars
  PROVE  RowContent
<1>1. CASE SessionKept
  BY <1>1 DEF SessionKept, RowContent
<1>2. ASSUME NEW w \in Workers, turn[w].step # "idle", turn[w].version = session.version,
             SaveState(turn[w].state)
      PROVE  RowContent
  <2>1. session'.state = turn[w].state /\ session'.closed = session.closed
    BY <1>2, TakingTypes DEF SaveState
  <2> QED
    BY <1>2, <2>1 DEF RowContent, ItemsInv, ItemsKnown
<1>3. CASE Saving
  BY <1>2, <1>3 DEF Saving, SaveTurn, MaySave
<1>4. CASE Confirming
  BY <1>2, <1>4 DEF Confirming, ConfirmOrder, ReadAtThisVersion
<1>5. CASE Reset
  BY <1>5 DEF Reset, RowContent
<1>6. ASSUME NEW c \in DOMAIN cases, CancelCase(c) PROVE RowContent
  BY <1>6, CancelDraft DEF RowContent
<1> QED
  BY <1>1, <1>3, <1>4, <1>5, <1>6, SessionWrites

\* The row under a turn that does not move: as it was, closed, or cancelled.
LEMMA RowUnderTurn ==
  ASSUME Alone, DeskInv, [Next]_vars, NEW w \in Workers, turn'[w] = turn[w],
         turn[w].step # "idle"
  PROVE  UNCHANGED session \/ session'.closed \/ \E c \in DOMAIN cases : CancelCase(c)
<1>1. ASSUME NEW v \in Workers, EndTurn(v) PROVE FALSE
  <2>1. v = w
    BY DEF Alone
  <2> QED
    BY <1>1, <2>1, TakingTypes DEF EndTurn, IdleTurn
<1>2. ~ Saving /\ ~ Confirming
  BY <1>1 DEF Saving, SaveTurn, Confirming, ConfirmOrder
<1>3. Reset => session'.closed
  BY DEF Reset
<1> QED
  BY <1>2, <1>3, SessionWrites DEF SessionKept

\* A turn that does not move.
LEMMA OtherItems ==
  ASSUME Alone, DeskInv, SafeTables, TurnInv, ItemsInv, [Next]_vars,
         NEW w \in Workers, turn'[w] = turn[w]
  PROVE  ItemsKnown(w)'
<1> SUFFICES ASSUME turn[w].step # "idle", ~ session'.closed PROVE ItemsKnown(w)'
  BY DEF ItemsKnown
<1>1. ItemsKnown(w) /\ ~ session.closed
  BY ContentStep DEF ItemsInv, RowContent
<1>2. CASE UNCHANGED session
  BY <1>1, <1>2 DEF ItemsKnown
<1>3. ASSUME NEW c \in DOMAIN cases, CancelCase(c) PROVE ItemsKnown(w)'
  <2>1. /\ session'.version = session.version + 1
        /\ session'.state.items = session.state.items
    BY <1>3, CancelSession, CancelDraft
  <2>2. turn[w].version <= session.version /\ turn[w].version \in Nat /\ session.version \in Nat
    BY TakingTypes, TurnTypes, DeskAssumption DEF TurnInv, TurnSafe
  <2> QED
    BY <1>1, <2>1, <2>2 DEF ItemsKnown
<1> QED
  BY <1>2, <1>3, RowUnderTurn

\* A turn that goes on with the row as it is.
LEMMA GotoItems ==
  ASSUME DeskInv, NEW w \in Workers, NEW step, NEW state, Goto(w, step, state),
         step \in { "orchestrate", "handoff", "confirm", "save" }, UNCHANGED session,
         ~ session.closed =>
           /\ step = "orchestrate" => state.items = session.state.items
           /\ /\ turn[w].version = session.version
              /\ state.taking = session.state.taking /\ state.dv = session.state.dv
              => state.items = session.state.items
  PROVE  ItemsKnown(w)'
<1>1. turn'[w].step = step /\ turn'[w].state = state /\ turn'[w].version = turn[w].version
  BY TakingTypes DEF Goto, Turns
<1> QED
  BY <1>1 DEF ItemsKnown

\* So with an audit that ends it.
LEMMA AuditItems ==
  ASSUME DeskInv, NEW w \in Workers, NEW signals, NEW state \in States,
         NEW step \in { "confirm", "save" }, Audit(w, signals, state, step),
         ~ session.closed =>
           (/\ turn[w].version = session.version
            /\ state.taking = session.state.taking /\ state.dv = session.state.dv
            => state.items = session.state.items)
  PROVE  ItemsKnown(w)'
<1> DEFINE c == AdvanceCounters(counters, signals, "missing", TRUE)
           d == Evaluate(signals, c, "missing", TRUE, FALSE)
           next == [state EXCEPT !.reason = d.reason]
           goto == IF d.class = "HANDOFF" THEN "handoff" ELSE step
<1>1. Goto(w, goto, next) /\ UNCHANGED session
  BY DEF Audit, tables
<1>2. next.taking = state.taking /\ next.items = state.items /\ next.dv = state.dv
  BY DEF States
<1>3. goto \in { "handoff", step }
  OBVIOUS
<1> HIDE DEF next, goto
<1> QED
  BY <1>1, <1>2, <1>3, GotoItems

\* The steps before the orchestrator.
LEMMA PreflightItems ==
  ASSUME DeskInv, SafeTables, TurnInv, ItemsInv, [Next]_vars, NEW w \in Workers, Preflight(w)
  PROVE  ItemsKnown(w)'
<1> DEFINE state == turn[w].state
<1>1. turn[w].step = "preflight" /\ turn[w] \in Turns /\ state \in States
  BY TurnTypes DEF Preflight, AnswerBeforePreflight, PreflightPass, PreflightGuard,
     PreflightCancel, PreflightCancelAgain
<1>2. ~ session.closed => state.items = session.state.items
  BY <1>1 DEF ItemsInv, ItemsKnown
<1>3. CASE EndTurn(w)
  BY <1>3, TakingTypes DEF EndTurn, IdleTurn, ItemsKnown
<1>4. CASE AnswerBeforePreflight(w) \/ PreflightPass(w)
  BY <1>2, <1>4, GotoItems DEF AnswerBeforePreflight, PreflightPass, tables
<1>5. CASE \E confidence \in ChatConfidences : PreflightGuard(w, confidence)
  <2>1. PICK confidence \in ChatConfidences : PreflightGuard(w, confidence)
    BY <1>5
  <2> DEFINE signals == HeardSignals(turn[w].msg) \union CarriedSignals(state)
             c == AdvanceCounters(counters, signals, confidence, signals # {})
             d == PreflightDecision(turn[w].msg, state, c, confidence)
             handed == [state EXCEPT !.reason = d.reason, !.submitted = FALSE,
                                     !.dv = IF state.submitted THEN @ + 1 ELSE @]
             kept == [state EXCEPT !.reason = d.reason]
             step == IF d.class = "AUTO_DRAFT" THEN "orchestrate" ELSE "save"
  <2>2. (Goto(w, "handoff", handed) \/ Goto(w, step, kept)) /\ UNCHANGED session
    BY <2>1 DEF PreflightGuard, tables
  <2>3. handed.items = state.items /\ kept.items = state.items /\ step \in { "orchestrate", "save" }
    BY <1>1 DEF States
  <2> HIDE DEF handed, kept, step, state
  <2> QED
    BY <1>2, <2>2, <2>3, GotoItems
<1>6. CASE (PreflightCancel(w) \/ PreflightCancelAgain(w)) /\ ~ EndTurn(w)
  <2> DEFINE Saved(dv, version) ==
               /\ turn' = [turn EXCEPT ![w].step = "save",
                                       ![w].state = [state EXCEPT !.submitted = FALSE, !.dv = dv],
                                       ![w].version = version]
               /\ session'.state.items = session.state.items /\ session'.closed = session.closed
  <2>1. ASSUME NEW dv, NEW version, Saved(dv, version)
        PROVE  ItemsKnown(w)'
    <3> DEFINE next == [state EXCEPT !.submitted = FALSE, !.dv = dv]
    <3>1. next.items = state.items
      BY <1>1 DEF States
    <3>2. turn' = [turn EXCEPT ![w].step = "save", ![w].state = next, ![w].version = version]
      BY <2>1
    <3> HIDE DEF next
    <3>3. turn'[w].step = "save" /\ turn'[w].state = next
      BY <1>1, <3>2, TakingTypes DEF Turns
    <3> QED
      BY <1>2, <2>1, <3>1, <3>3 DEF ItemsKnown
  <2>2. CASE PreflightCancel(w)
    <3>1. IsActive(state.handoff) /\ CancelCase(state.handoff)
      BY <2>2 DEF PreflightCancel
    <3>2. state.handoff \in DOMAIN cases
      BY <3>1 DEF IsActive, CaseStatus, Active
    <3>3. Saved(session'.state.dv, session'.version)
      BY <1>6, <2>2, <3>1, <3>2, CancelDraft DEF PreflightCancel
    <3> QED
      BY <2>1, <3>3
  <2>3. CASE PreflightCancelAgain(w)
    <3>1. UNCHANGED session
          /\ (Goto(w, "save", state) \/ Saved(session.state.dv, session.version))
      BY <1>6, <2>3 DEF PreflightCancelAgain, tables
    <3> QED
      BY <1>2, <2>1, <3>1, GotoItems
  <2> QED
    BY <1>6, <2>2, <2>3
<1> QED
  BY <1>3, <1>4, <1>5, <1>6 DEF Preflight

\* The orchestrator.
LEMMA OrchestrateItems ==
  ASSUME DeskInv, TurnInv, ItemsInv, NEW w \in Workers, Orchestrate(w)
  PROVE  ItemsKnown(w)'
<1> DEFINE state == turn[w].state
<1>1. turn[w].step = "orchestrate"
  BY DEF Orchestrate, EditDraft, SubmitDraft, StartNewOrder, AnswerOnly, Misunderstand,
         UnparsedMessage, Orchestrating
<1>2. /\ state \in States /\ state.dv \in Nat /\ session.state.dv \in Nat /\ state.taking \in Nat
      /\ session.state.taking \in Nat
  <2>1. state \in States /\ session.state \in States
    BY TurnTypes, RowTypes
  <2> QED
    BY <2>1, DeskAssumption DEF States, DraftVersions, Takings
<1>3. /\ ~ session.closed => state.items = session.state.items
      /\ turn[w].version = session.version =>
           state.taking = session.state.taking /\ session.state.dv <= state.dv
  BY <1>1, Reading DEF ItemsInv, ItemsKnown
<1>4. CASE EditDraft(w)
  <2> DEFINE items == turn[w].msg.arg
             dv == VersionAfter(state, items)
             next == [state EXCEPT !.items = items, !.dv = dv]
  <2>1. Audit(w, { "UNDERSTOOD" }, next, "save") /\ dv \in DraftVersions
    BY <1>4 DEF EditDraft
  <2>2. items \in Contents
    BY <1>4, TurnTypes DEF EditDraft, Orchestrating, TurnOK, Messages
  <2>3. dv = IF items = state.items THEN state.dv ELSE state.dv + 1
    BY DEF VersionAfter
  <2> HIDE DEF dv, items
  <2>4. next \in States /\ next.items = items /\ next.taking = state.taking /\ next.dv = dv
    BY <1>2, <2>1, <2>2 DEF States
  <2> HIDE DEF next
  <2>5. session.state.dv <= state.dv /\ dv = session.state.dv => items = state.items
    BY <1>2, <2>3
  <2> QED
    BY <1>3, <2>1, <2>4, <2>5, AuditItems
<1>5. CASE SubmitDraft(w)
  <2> DEFINE next == [state EXCEPT !.submitted = TRUE]
  <2>1. Audit(w, { "UNDERSTOOD", "FINAL_ORDER", "CONFIRMATION_SUCCEEDED" }, next, "confirm")
    BY <1>5 DEF SubmitDraft
  <2>2. next \in States /\ next.items = state.items
    BY <1>2 DEF States
  <2> HIDE DEF next
  <2> QED
    BY <1>3, <2>1, <2>2, AuditItems
<1>6. CASE StartNewOrder(w)
  <2> DEFINE next == FreshState(state.taking + 1)
  <2>1. Audit(w, { "UNDERSTOOD" }, next, "save") /\ state.taking + 1 \in Takings
    BY <1>2, <1>6, DeskAssumption DEF StartNewOrder, Takings
  <2>2. next \in States /\ next.taking = state.taking + 1
    BY <2>1, FreshStateType DEF FreshState
  <2> HIDE DEF next
  <2>3. turn[w].version = session.version => next.taking # session.state.taking
    BY <1>2, <1>3, <2>2
  <2> QED
    BY <2>1, <2>2, <2>3, AuditItems
<1>7. CASE AnswerOnly(w) \/ Misunderstand(w)
  <2>1. Audit(w, { "UNDERSTOOD" }, state, "save") \/ Audit(w, { "MISUNDERSTANDING" }, state, "save")
    BY <1>7 DEF AnswerOnly, Misunderstand
  <2> QED
    BY <1>2, <1>3, <2>1, AuditItems
<1>8. CASE UnparsedMessage(w)
  BY <1>3, <1>8, GotoItems DEF UnparsedMessage, tables
<1> QED
  BY <1>4, <1>5, <1>6, <1>7, <1>8 DEF Orchestrate

\* The other steps of a turn.
LEMMA TurnItems ==
  ASSUME DeskInv, SafeTables, TurnInv, ItemsInv, [Next]_vars, NEW w \in Workers, Turn(w)
  PROVE  ItemsKnown(w)'
<1> DEFINE state == turn[w].state
<1>1. CASE EndTurn(w)
  BY <1>1, TakingTypes DEF EndTurn, IdleTurn, ItemsKnown
<1>2. CASE \E msg \in Messages : ReceiveMessage(w, msg)
  <2>1. PICK msg \in Messages : ReceiveMessage(w, msg)
    BY <1>2
  <2> DEFINE t == [ step |-> "preflight", msg |-> msg, state |-> session.state,
                    version |-> session.version, case |-> 0 ]
  <2>2. turn'[w] = t /\ UNCHANGED session
    BY <2>1, TakingTypes DEF ReceiveMessage, tables
  <2> QED
    BY <2>2 DEF ItemsKnown
<1>3. CASE TurnRequestsHandoff(w) \/ TurnSettlesHandoff(w)
  <2>1. turn[w].step # "idle" /\ turn[w] \in Turns /\ state \in States /\ UNCHANGED session
    BY <1>3, TurnTypes DEF TurnRequestsHandoff, TurnSettlesHandoff
  <2>2. \/ \E c : Goto(w, "save", [state EXCEPT !.handoff = c])
        \/ turn' = [turn EXCEPT ![w].step = "pending", ![w].case = Len(cases')]
        \/ \E next \in { "settle", "fail" } : Goto(w, next, state)
    BY <1>3 DEF TurnRequestsHandoff, TurnSettlesHandoff
  <2> DEFINE Kept == /\ turn'[w].step \notin { "preflight", "orchestrate" }
                     /\ turn'[w].version = turn[w].version
                     /\ turn'[w].state.items = state.items /\ turn'[w].state.dv = state.dv
                     /\ turn'[w].state.taking = state.taking
  <2>3. ASSUME NEW c, Goto(w, "save", [state EXCEPT !.handoff = c]) PROVE Kept
    <3> DEFINE next == [state EXCEPT !.handoff = c]
    <3>1. next.items = state.items /\ next.dv = state.dv /\ next.taking = state.taking
      BY <2>1 DEF States
    <3>2. turn' = [turn EXCEPT ![w].step = "save", ![w].state = next]
      BY <2>3 DEF Goto
    <3> HIDE DEF next
    <3>3. turn'[w].step = "save" /\ turn'[w].state = next /\ turn'[w].version = turn[w].version
      BY <2>1, <3>2, TakingTypes DEF Turns
    <3> QED
      BY <3>1, <3>3
  <2>4. CASE turn' = [turn EXCEPT ![w].step = "pending", ![w].case = Len(cases')]
    <3>1. Kept
      BY <2>1, <2>4, TakingTypes DEF Turns
    <3> QED
      BY <2>1, <3>1 DEF ItemsInv, ItemsKnown
  <2>5. ASSUME NEW next \in { "settle", "fail" }, Goto(w, next, state) PROVE Kept
    BY <2>1, <2>5, TakingTypes DEF Goto, Turns
  <2>6. Kept => ItemsKnown(w)'
    BY <2>1 DEF ItemsInv, ItemsKnown
  <2> HIDE DEF Kept
  <2> QED
    BY <2>2, <2>3, <2>4, <2>5, <2>6
<1>4. CASE SaveTurn(w) \/ ConfirmReplay(w) \/ ConfirmOrder(w) \/ ConfirmRejected(w) \/ TurnFails(w)
  BY <1>1, <1>4 DEF SaveTurn, ConfirmReplay, ConfirmOrder, ConfirmRejected, TurnFails
<1> QED
  BY <1>2, <1>3, <1>4, PreflightItems, OrchestrateItems DEF Turn

\* What serialised turns know of the draft stays so, and holds in every reachable
\* state.
LEMMA ItemsStep ==
  ASSUME Alone, DeskInv, SafeTables, TurnInv, ItemsInv, [Next]_vars
  PROVE  ItemsInv'
<1> SUFFICES ASSUME NEW w \in Workers PROVE ItemsKnown(w)'
  BY DEF ItemsInv
<1>1. CASE \E v \in Workers : Turn(v)
  <2>1. Turn(w)
    BY <1>1 DEF Alone
  <2> QED
    BY <2>1, TurnItems
<1> QED
  BY <1>1, TurnsMoveAlone, OtherItems

LEMMA ItemsAlways ==
  ASSUME Alone
  PROVE  Spec => [](DeskInv /\ SafeInv /\ TurnInv /\ ItemsInv)
<1>1. Init => ItemsInv
  <2> SUFFICES ASSUME Init PROVE ItemsInv
    OBVIOUS
  <2>1. \A w \in Workers : turn[w].step = "idle"
    BY DEF Init, IdleTurn
  <2> QED
    BY <2>1 DEF ItemsInv, ItemsKnown
<1>2. DeskInv /\ SafeInv /\ TurnInv /\ ItemsInv /\ [Next]_vars => ItemsInv'
  <2> SUFFICES ASSUME DeskInv, SafeInv, TurnInv, ItemsInv, [Next]_vars PROVE ItemsInv'
    OBVIOUS
  <2>1. SafeTables
    BY TableTypes, SafeForm DEF SafeTables
  <2> QED
    BY <2>1, ItemsStep
<1> QED
  BY <1>1, <1>2, TurnsKnow, PTL DEF Spec

\* A draft version names one content of the persisted draft, which the default
\* idempotency key relies on, when the turns of the session are serialised:
\* whatever the handoff controls and an administrator do meanwhile.
THEOREM VersionIsContent ==
  ASSUME \A v, w \in Workers : v = w
  PROVE  Spec => VersionNamesContent
<1> DEFINE Names ==
      (/\ session'.state.taking = session.state.taking /\ ~ session'.closed
       /\ session'.state.dv = session.state.dv)
        => session'.state.items = session.state.items
<1>1. DeskInv /\ SafeInv /\ TurnInv /\ ItemsInv /\ [Next]_vars => [Names]_vars
  BY ContentStep DEF RowContent
<1>2. Spec => [][Names]_vars
  <2> HIDE DEF Names
  <2>1. Alone
    BY DEF Alone
  <2> QED
    BY <1>1, <2>1, ItemsAlways, PTL DEF Spec
<1> QED
  BY <1>2 DEF VersionNamesContent

\* With the handoff controls disabled besides, only the turn itself writes the row
\* and the cases while it runs (or the session is closed).

\* A state with a reason that points at a case.
Marked(rows, state) == state.reason # NoReason /\ state.handoff \in DOMAIN rows

\* A mandatory reason still counts.
Mandatory(rows, state) ==
  /\ Marked(rows, state) /\ state.reason # Explicit
  /\ rows[state.handoff].status \in Active \union { "FAILED", "CANCELLED" }

\* Every case has been requested.
CasesOpened == \A c \in DOMAIN cases : cases[c].status # "NOT_REQUIRED"

\* A turn has read the row as it is, does not go on to the orchestrator while a
\* mandatory reason counts, and then does not save a state without one.
GuardKnown(w) ==
  turn[w].step # "idle" /\ ~ session.closed =>
    /\ turn[w].version = session.version
    /\ turn[w].step = "preflight" => turn[w].state.reason = session.state.reason
    /\ Mandatory(cases, session.state) =>
         /\ turn[w].step \notin { "orchestrate", "confirm" }
         /\ turn[w].step = "save" => Marked(cases, turn[w].state)

\* No transition has come late, nor will one that a turn has validated.
OnTime ==
  /\ ~ Late(cases)
  /\ \A w \in Workers : turn[w].step \in TurnWriting =>
       MayMove(cases[turn[w].case].status, Written(turn[w].step))

GuardInv == CasesOpened /\ OnTime /\ \A w \in Workers : GuardKnown(w)

\* A reason is none of the code's handoff or refusal reasons when there is none.
LEMMA ReasonIsSome ==
  /\ NoReason \notin HandoffReasons \union RefusalReasons
  /\ Explicit # NoReason
<1>1. DOMAIN HandoffReasonCode = 1 .. 18 /\ DOMAIN RefusalReasonCode = 1 .. 8
  BY DEF HandoffReasonCode, RefusalReasonCode
<1>2. \A i \in 1 .. 18 : HandoffReasonCode[i] # "none"
  BY DEF HandoffReasonCode
<1>3. \A i \in 1 .. 8 : RefusalReasonCode[i] # "none"
  BY DEF RefusalReasonCode
<1> QED
  BY <1>1, <1>2, <1>3 DEF NoReason, HandoffReasons, RefusalReasons, CodesOf, Explicit

\* The reasons that CarriedSignals carries, besides the explicit request.
LEMMA MandatoryForm ==
  ASSUME NEW state
  PROVE  CarriedSignals(state) \ { Explicit } # {} <=> Mandatory(cases, state)
<1>1. Explicit # NoReason
  BY ReasonIsSome
<1>2. "NOT_REQUIRED" \notin Active \union { "FAILED", "CANCELLED" } /\ "CANCELLED" \notin Active
  BY DEF Active
<1> QED
  BY <1>1, <1>2 DEF CarriedSignals, CaseStatus, Mandatory, Marked

\* The table of cases only grows, with cases that are requested.
LEMMA CasesOpenedStep ==
  ASSUME DeskInv, SafeTables, CasesOpened, [Next]_vars
  PROVE  CasesOpened' /\ DOMAIN cases \subseteq DOMAIN cases'
<1>1. /\ DOMAIN cases = 1 .. Len(cases) /\ Len(cases) \in Nat
      /\ \A c \in DOMAIN cases : cases[c] \in Cases
  BY RowsTyped DEF SafeTables
<1> DEFINE Goal == CasesOpened' /\ DOMAIN cases \subseteq DOMAIN cases'
<1> SUFFICES Goal
  OBVIOUS
<1>2. CASE UNCHANGED cases
  BY <1>2 DEF CasesOpened
<1>3. ASSUME NEW k \in DOMAIN cases, MoveCase(k, "CANCELLED") PROVE Goal
  BY <1>1, <1>3 DEF MoveCase, Cases, CasesOpened
<1>4. ASSUME NEW k \in DOMAIN cases, NEW to \in HandoffStatus \ { "REQUESTED", "NOT_REQUIRED" },
             WriteStatus(k, to)
      PROVE  Goal
  BY <1>1, <1>4, WriteGuards DEF CasesOpened, SafeTables
<1>5. ASSUME NEW k \in DOMAIN cases, NEW reason \in HandoffReasons, ReuseCase(k, reason)
      PROVE  Goal
  BY <1>1, <1>5 DEF ReuseCase, Cases, CasesOpened
<1>6. ASSUME NEW reason \in HandoffReasons, OpenCase(reason) PROVE Goal
  <2> DEFINE row == [ status |-> "REQUESTED", reason |-> reason, order |-> Latest,
                      overwritten |-> FALSE ]
  <2>1. cases' = Append(cases, row)
    BY <1>6 DEF OpenCase
  <2>2. row.status = "REQUESTED"
    OBVIOUS
  <2> HIDE DEF row
  <2> QED
    BY <1>1, <2>1, <2>2 DEF SafeTables, TablesOK, CasesOpened
<1>7. "RESOLVED" \in HandoffStatus \ { "REQUESTED", "NOT_REQUIRED" }
  BY DEF HandoffStatus, Terminal
<1> HIDE DEF Goal
<1>8. CASE Quiet \/ Confirming \/ Withdrawing
  BY <1>2, <1>8 DEF Quiet, Confirming, ConfirmOrder, Withdrawing, InvalidateConfirmation
<1>9. CASE Cancelling
  BY <1>3, <1>9 DEF Cancelling, CancelCase
<1>10. CASE Requesting
  BY <1>5, <1>6, <1>10 DEF Requesting
<1>11. CASE Moving
  BY <1>4, <1>11 DEF Moving
<1>12. CASE Resolving
  BY <1>4, <1>7, <1>12 DEF Resolving, Resolves
<1> QED
  BY <1>8, <1>9, <1>10, <1>11, <1>12, Writes

\* The row of a guarded session stays marked.
LEMMA MarkStays ==
  ASSUME DeskInv, SafeTables, TurnInv, ItemsInv, GuardInv, [Next]_vars,
         Mandatory(cases, session.state), ~ session'.closed
  PROVE  Marked(cases', session'.state)
<1>1. DOMAIN cases \subseteq DOMAIN cases'
  BY CasesOpenedStep DEF GuardInv
<1>2. ~ session.closed
  BY ContentStep DEF RowContent
<1>3. CASE SessionKept
  BY <1>1, <1>3 DEF SessionKept, Mandatory, Marked
<1>4. CASE Saving
  <2>1. PICK w \in Workers : SaveTurn(w) /\ SaveState(turn[w].state)
    BY <1>4 DEF Saving
  <2>2. session'.state = turn[w].state /\ turn[w].step = "save"
    BY <2>1, TakingTypes DEF SaveTurn, SaveState
  <2>3. Marked(cases, turn[w].state)
    BY <1>2, <2>2 DEF GuardInv, GuardKnown
  <2> QED
    BY <1>1, <2>2, <2>3 DEF Marked
<1>5. CASE Confirming
  BY <1>2, <1>5 DEF Confirming, ConfirmOrder, GuardInv, GuardKnown
<1>6. CASE Reset
  BY <1>6 DEF Reset
<1>7. ASSUME NEW c \in DOMAIN cases, CancelCase(c) PROVE Marked(cases', session'.state)
  <2>1. session'.state.handoff = c /\ session'.state.reason = cases[c].reason
    BY <1>7, CancelDraft
  <2>2. cases[c].reason \in HandoffReasons
    BY RowsTyped DEF SafeTables, Cases
  <2> QED
    BY <1>1, <2>1, <2>2, ReasonIsSome DEF Marked
<1> QED
  BY <1>3, <1>4, <1>5, <1>6, <1>7, SessionWrites

\* A turn that goes on with the row and the cases as they are.
LEMMA GotoGuard ==
  ASSUME DeskInv, NEW w \in Workers, NEW step, NEW state, Goto(w, step, state),
         turn[w].step # "idle", GuardKnown(w),
         step \in { "orchestrate", "handoff", "confirm", "save" },
         UNCHANGED << session, cases >>,
         ~ session.closed /\ Mandatory(cases, session.state) =>
           /\ step \notin { "orchestrate", "confirm" }
           /\ step = "save" => Marked(cases, state)
  PROVE  GuardKnown(w)'
<1>1. turn'[w].step = step /\ turn'[w].state = state /\ turn'[w].version = turn[w].version
  BY TakingTypes DEF Goto, Turns
<1> QED
  BY <1>1 DEF GuardKnown

\* The steps before the orchestrator.
LEMMA PreflightGuarded ==
  ASSUME DeskInv, SafeTables, TurnInv, GuardInv, [Next]_vars, NEW w \in Workers, Preflight(w)
  PROVE  GuardKnown(w)'
<1> DEFINE state == turn[w].state
<1>1. turn[w].step = "preflight" /\ turn[w] \in Turns /\ state \in States
  BY TurnTypes DEF Preflight, AnswerBeforePreflight, PreflightPass, PreflightGuard,
     PreflightCancel, PreflightCancelAgain
<1>2. /\ GuardKnown(w)
      /\ ~ session.closed => /\ state.reason = session.state.reason
                             /\ state.handoff = session.state.handoff
  BY <1>1, Reading DEF GuardInv, GuardKnown
<1>3. ~ session.closed /\ Mandatory(cases, session.state) => Mandatory(cases, state)
  BY <1>2 DEF Mandatory, Marked
<1>4. CASE EndTurn(w)
  BY <1>4, TakingTypes DEF EndTurn, IdleTurn, GuardKnown
<1>5. CASE AnswerBeforePreflight(w)
  <2>1. Goto(w, "save", state) /\ UNCHANGED << session, cases >>
    BY <1>5 DEF AnswerBeforePreflight, tables
  <2> QED
    BY <1>1, <1>2, <1>3, <2>1, GotoGuard DEF Mandatory
<1>6. CASE PreflightPass(w)
  <2>1. /\ Goto(w, "orchestrate", state) /\ UNCHANGED << session, cases >>
        /\ CarriedSignals(state) = {}
    BY <1>6 DEF PreflightPass, tables
  <2>2. ~ Mandatory(cases, state)
    BY <2>1, MandatoryForm
  <2> QED
    BY <1>1, <1>2, <1>3, <2>1, <2>2, GotoGuard
<1>7. CASE \E confidence \in ChatConfidences : PreflightGuard(w, confidence)
  <2>1. PICK confidence \in ChatConfidences : PreflightGuard(w, confidence)
    BY <1>7
  <2> DEFINE signals == HeardSignals(turn[w].msg) \union CarriedSignals(state)
             c == AdvanceCounters(counters, signals, confidence, signals # {})
             d == PreflightDecision(turn[w].msg, state, c, confidence)
             handed == [state EXCEPT !.reason = d.reason, !.submitted = FALSE,
                                     !.dv = IF state.submitted THEN @ + 1 ELSE @]
             kept == [state EXCEPT !.reason = d.reason]
             step == IF d.class = "AUTO_DRAFT" THEN "orchestrate" ELSE "save"
  <2>2. (Goto(w, "handoff", handed) \/ Goto(w, step, kept)) /\ UNCHANGED << session, cases >>
    BY <2>1 DEF PreflightGuard, tables
  <2>3. ASSUME Mandatory(cases, state)
        PROVE  step = "save" /\ Marked(cases, kept)
    <3>1. state.reason \in CarriedSignals(state)
      BY <2>3, MandatoryForm DEF CarriedSignals, Mandatory, Marked
    <3>2. state.reason \in HandoffReasons \union RefusalReasons
      BY <1>1, <2>3 DEF Mandatory, Marked, States, Reasons
    <3>3. state.reason \in signals
      BY <3>1
    <3>4. d = Evaluate(signals, c, confidence, signals # {}, turn[w].msg.kind = "ambiguous")
      BY DEF PreflightDecision
    <3> HIDE DEF signals, c
    <3>5. d.class \in { "REFUSE", "HANDOFF" } /\ d.reason # NoReason
      BY <3>2, <3>3, <3>4, EvaluateStops
    <3>6. kept.reason = d.reason /\ kept.handoff = state.handoff
      BY <1>1 DEF States
    <3> QED
      BY <2>3, <3>5, <3>6 DEF Marked, Mandatory
  <2>4. step \in { "orchestrate", "save" }
    OBVIOUS
  <2> HIDE DEF handed, kept, step, state
  <2> QED
    BY <1>1, <1>2, <1>3, <2>2, <2>3, <2>4, GotoGuard
<1>8. CASE PreflightCancel(w) /\ ~ EndTurn(w)
  <2> DEFINE next == [state EXCEPT !.submitted = FALSE, !.dv = session'.state.dv]
  <2>1. /\ IsActive(state.handoff)
        /\ turn' = [turn EXCEPT ![w].step = "save", ![w].state = next,
                                ![w].version = session'.version]
    BY <1>8 DEF PreflightCancel
  <2>2. state.handoff \in DOMAIN cases /\ cases[state.handoff].status \in Active
    BY <2>1 DEF IsActive, CaseStatus, Active
  <2>3. state.reason # NoReason
    BY <1>1, <2>2, Reading DEF Guarded, Blocks, GuardInv, OnTime, Late
  <2>4. state.handoff \in DOMAIN cases'
    BY <2>2, CasesOpenedStep DEF GuardInv
  <2>5. next.handoff = state.handoff /\ next.reason = state.reason
    BY <1>1 DEF States
  <2> HIDE DEF next
  <2>6. turn'[w].step = "save" /\ turn'[w].state = next /\ turn'[w].version = session'.version
    BY <1>1, <2>1, TakingTypes DEF Turns
  <2> QED
    BY <2>3, <2>4, <2>5, <2>6 DEF GuardKnown, Marked
<1>9. CASE PreflightCancelAgain(w) /\ ~ EndTurn(w)
  <2> DEFINE next == [state EXCEPT !.submitted = FALSE, !.dv = session.state.dv]
  <2>1. /\ UNCHANGED << session, cases >>
        /\ \/ Goto(w, "save", state)
           \/ turn' = [turn EXCEPT ![w].step = "save", ![w].state = next,
                                   ![w].version = session.version]
    BY <1>9 DEF PreflightCancelAgain, tables
  <2>2. CASE Goto(w, "save", state)
    BY <1>1, <1>2, <1>3, <2>1, <2>2, GotoGuard DEF Mandatory
  <2>3. CASE turn' = [turn EXCEPT ![w].step = "save", ![w].state = next,
                                  ![w].version = session.version]
    <3>1. next.handoff = state.handoff /\ next.reason = state.reason
      BY <1>1 DEF States
    <3> HIDE DEF next
    <3>2. turn'[w].step = "save" /\ turn'[w].state = next /\ turn'[w].version = session.version
      BY <1>1, <2>3, TakingTypes DEF Turns
    <3> QED
      BY <1>3, <2>1, <3>1, <3>2 DEF GuardKnown, Mandatory, Marked
  <2> QED
    BY <2>1, <2>2, <2>3
<1> QED
  BY <1>4, <1>5, <1>6, <1>7, <1>8, <1>9 DEF Preflight

\* The request for a handoff, and its settlement.
LEMMA HandoffGuarded ==
  ASSUME DeskInv, SafeTables, TurnInv, GuardInv, [Next]_vars, NEW w \in Workers,
         TurnRequestsHandoff(w) \/ TurnSettlesHandoff(w)
  PROVE  GuardKnown(w)'
<1> DEFINE state == turn[w].state
<1>1. /\ turn[w].step \in { "handoff" } \union Settling /\ UNCHANGED session
      /\ turn[w].step # "idle"
      /\ state \in States /\ turn[w] \in Turns /\ GuardKnown(w)
  BY TurnTypes DEF TurnRequestsHandoff, TurnSettlesHandoff, GuardInv, Settling
<1>2. state.reason # NoReason
  BY <1>1, TurnTypes, ReasonIsSome DEF TurnOK, TurnInv, TurnSafe
\* The case is named in the state that is saved next.
<1>3. ASSUME NEW c \in DOMAIN cases, Goto(w, "save", [state EXCEPT !.handoff = c])
      PROVE  GuardKnown(w)'
  <2> DEFINE next == [state EXCEPT !.handoff = c]
  <2>1. next.handoff = c /\ next.reason = state.reason
    BY <1>1 DEF States
  <2>2. turn' = [turn EXCEPT ![w].step = "save", ![w].state = next]
    BY <1>3 DEF Goto
  <2> HIDE DEF next
  <2>3. turn'[w].step = "save" /\ turn'[w].state = next /\ turn'[w].version = turn[w].version
    BY <1>1, <2>2, TakingTypes DEF Turns
  <2>4. c \in DOMAIN cases'
    BY CasesOpenedStep DEF GuardInv
  <2> QED
    BY <1>1, <1>2, <2>1, <2>3, <2>4 DEF GuardKnown, Marked
<1>4. CASE TurnSettlesHandoff(w)
  <2>1. turn[w].case \in DOMAIN cases
    BY <1>4, TurnTypes DEF TurnSettlesHandoff, TurnOK, Settling
  <2>2. CASE Goto(w, "save", [state EXCEPT !.handoff = turn[w].case])
    BY <1>3, <2>1, <2>2
  <2>3. ASSUME NEW next \in { "settle", "fail" }, Goto(w, next, state) PROVE GuardKnown(w)'
    <3>1. turn'[w].step = next /\ turn'[w].version = turn[w].version
      BY <1>1, <2>3, TakingTypes DEF Goto, Turns
    <3> QED
      BY <1>1, <3>1 DEF GuardKnown
  <2> QED
    BY <1>4, <2>2, <2>3 DEF TurnSettlesHandoff
<1>5. CASE TurnRequestsHandoff(w)
  <2>1. CASE turn' = [turn EXCEPT ![w].step = "pending", ![w].case = Len(cases')]
    <3>1. turn'[w].step = "pending" /\ turn'[w].version = turn[w].version
      BY <1>1, <2>1, TakingTypes DEF Turns
    <3> QED
      BY <1>1, <3>1 DEF GuardKnown
  <2> QED
    BY <1>3, <1>5, <2>1 DEF TurnRequestsHandoff
<1> QED
  BY <1>4, <1>5

\* Every step of a turn.
LEMMA TurnGuarded ==
  ASSUME DeskInv, SafeTables, TurnInv, GuardInv, [Next]_vars, NEW w \in Workers, Turn(w)
  PROVE  GuardKnown(w)'
<1>1. CASE EndTurn(w)
  BY <1>1, TakingTypes DEF EndTurn, IdleTurn, GuardKnown
<1>2. CASE SaveTurn(w) \/ ConfirmReplay(w) \/ ConfirmOrder(w) \/ ConfirmRejected(w) \/ TurnFails(w)
  BY <1>1, <1>2 DEF SaveTurn, ConfirmReplay, ConfirmOrder, ConfirmRejected, TurnFails
<1>3. CASE \E msg \in Messages : ReceiveMessage(w, msg)
  <2>1. PICK msg \in Messages : ReceiveMessage(w, msg)
    BY <1>3
  <2> DEFINE t == [ step |-> "preflight", msg |-> msg, state |-> session.state,
                    version |-> session.version, case |-> 0 ]
  <2>2. turn'[w] = t /\ UNCHANGED session
    BY <2>1, TakingTypes DEF ReceiveMessage, tables
  <2> QED
    BY <2>2 DEF GuardKnown
<1>4. CASE Orchestrate(w)
  <2>1. turn[w].step = "orchestrate" /\ UNCHANGED << session, cases >>
    BY <1>4 DEF Orchestrate, EditDraft, SubmitDraft, StartNewOrder, AnswerOnly, Misunderstand,
                UnparsedMessage, Orchestrating, Audit, tables
  <2>2. \E step \in { "handoff", "confirm", "save" } : \E state : Goto(w, step, state)
    BY <1>4 DEF Orchestrate, EditDraft, SubmitDraft, StartNewOrder, AnswerOnly, Misunderstand,
                UnparsedMessage, Audit
  <2>3. GuardKnown(w) /\ (~ session.closed => ~ Mandatory(cases, session.state))
    BY <2>1 DEF GuardInv, GuardKnown
  <2> QED
    BY <2>1, <2>2, <2>3, GotoGuard
<1> QED
  BY <1>2, <1>3, <1>4, PreflightGuarded, HandoffGuarded DEF Turn

\* While one turn settles the request of a case, nobody else writes it.
LEMMA SettlesOnTime ==
  ASSUME DeskInv, OnTime, NEW w \in Workers, TurnSettlesHandoff(w), Alone
  PROVE  OnTime'
<1> DEFINE c == turn[w].case
<1>1. /\ TablesOK /\ turn \in [ Workers -> Turns ] /\ turn[w] \in Turns /\ c \in DOMAIN cases
      /\ cases[c] \in Cases
  BY TableTypes, TurnTypes, RowsTyped DEF TurnSettlesHandoff, TurnOK, Settling, DeskInv, TypeOK
<1>2. PICK next \in { "settle", "fail", "done" } :
        /\ SettleRequest(turn[w].step, c, next)
        /\ \E state : Goto(w, IF next = "done" THEN "save" ELSE next, state)
  BY DEF TurnSettlesHandoff
<1>3. turn'[w].step = (IF next = "done" THEN "save" ELSE next) /\ turn'[w].case = c
  BY <1>1, <1>2 DEF Goto, Turns
<1> HIDE DEF c
<1>4. \A v \in Workers : v = w
  BY DEF Alone
<1>5. CASE UNCHANGED cases
  <2>1. next = "settle" => MayMove(cases[c].status, "PENDING")
    BY <1>2 DEF SettleRequest
  <2>2. next = "fail" => MayMove(cases[c].status, "FAILED")
    <3>1. next = "fail" => cases[c].status \in { "REQUESTED", "PENDING" }
      BY <1>2 DEF SettleRequest
    <3> QED
      BY <1>1, <3>1 DEF MayMove, ALLOWED_TRANSITIONS, HandoffStatus, Active, Terminal
  <2> QED
    BY <1>3, <1>4, <1>5, <2>1, <2>2 DEF OnTime, Late, TurnWriting, Written
<1>6. ASSUME NEW to, WriteStatus(c, to), next = "done", MayMove(cases[c].status, to)
      PROVE  OnTime'
  <2>1. cases' = [cases EXCEPT ![c].status = to,
                               ![c].overwritten = @ \/ ~ MayMove(cases[c].status, to)]
    BY <1>6 DEF WriteStatus
  <2>2. ~ cases[c].overwritten
    BY <1>1 DEF OnTime, Late
  <2>3. DOMAIN cases' = DOMAIN cases /\ ~ cases'[c].overwritten
    BY <1>1, <1>6, <2>1, <2>2 DEF Cases
  <2>4. \A k \in DOMAIN cases : k # c => cases'[k] = cases[k]
    BY <2>1
  <2> QED
    BY <1>3, <1>4, <1>6, <2>3, <2>4 DEF OnTime, Late, TurnWriting
<1>7. CASE ~ UNCHANGED cases
  <2>1. \/ turn[w].step = "settle" /\ next = "done" /\ WriteStatus(c, "PENDING")
        \/ turn[w].step = "fail" /\ next = "done" /\ WriteStatus(c, "FAILED")
    BY <1>2, <1>7 DEF SettleRequest
  <2>2. /\ turn[w].step = "settle" => MayMove(cases[c].status, "PENDING")
        /\ turn[w].step = "fail" => MayMove(cases[c].status, "FAILED")
    BY DEF OnTime, TurnWriting, Written, c
  <2> QED
    BY <1>6, <2>1, <2>2
<1> QED
  BY <1>5, <1>7

\* So it is of every step of a turn.
LEMMA TurnOnTime ==
  ASSUME DeskInv, OnTime, NEW w \in Workers, Turn(w), Alone
  PROVE  OnTime'
<1>1. TablesOK /\ \A k \in DOMAIN cases : cases[k] \in Cases
  BY TableTypes, RowsTyped
<1>2. \A v \in Workers : v = w
  BY DEF Alone
<1>3. ASSUME ~ TurnSettlesHandoff(w)
      PROVE  turn'[w] = turn[w] \/ turn'[w].step \notin TurnWriting
  BY <1>3, TurnFades DEF Fades
<1>4. CASE PreflightCancel(w)
  <2>1. /\ turn[w].step = "preflight" /\ IsActive(turn[w].state.handoff)
        /\ CancelCase(turn[w].state.handoff)
    BY <1>4 DEF PreflightCancel
  <2>2. turn[w].state.handoff \in DOMAIN cases
    BY <2>1 DEF IsActive, CaseStatus, Active
  <2>3. cases' = [cases EXCEPT ![turn[w].state.handoff].status = "CANCELLED"]
    BY <2>1 DEF CancelCase, MoveCase
  <2>4. ~ Late(cases')
    BY <1>1, <2>2, <2>3 DEF OnTime, Late, Cases
  <2> QED
    BY <1>2, <1>3, <1>4, <2>1, <2>4 DEF OnTime, TurnWriting, TurnSettlesHandoff
<1>5. CASE TurnRequestsHandoff(w)
  <2>1. turn[w].step = "handoff"
    BY <1>5 DEF TurnRequestsHandoff
  <2>2. ASSUME NEW c \in DOMAIN cases, cases' = [cases EXCEPT ![c].reason = turn[w].state.reason]
        PROVE  ~ Late(cases')
    BY <1>1, <2>2 DEF OnTime, Late, Cases
  <2>3. ASSUME OpenCase(turn[w].state.reason) PROVE ~ Late(cases')
    <3> DEFINE row == [ status |-> "REQUESTED", reason |-> turn[w].state.reason, order |-> Latest,
                        overwritten |-> FALSE ]
    <3>1. cases' = Append(cases, row) /\ ~ row.overwritten
      BY <2>3 DEF OpenCase
    <3> HIDE DEF row
    <3>2. /\ DOMAIN cases' = 1 .. Len(cases) + 1 /\ cases'[Len(cases) + 1] = row
          /\ DOMAIN cases = 1 .. Len(cases) /\ \A k \in DOMAIN cases : cases'[k] = cases[k]
      BY <1>1, <3>1, RowsTyped DEF TablesOK
    <3> QED
      BY <3>1, <3>2 DEF OnTime, Late
  <2>4. ~ Late(cases')
    BY <1>5, <2>2, <2>3 DEF TurnRequestsHandoff, ReuseCase
  <2> QED
    BY <1>2, <1>3, <1>5, <2>1, <2>4 DEF OnTime, TurnWriting, TurnSettlesHandoff
<1>6. CASE ~ PreflightCancel(w) /\ ~ TurnRequestsHandoff(w) /\ ~ TurnSettlesHandoff(w)
  <2>1. UNCHANGED cases
    BY <1>6 DEF Turn, Preflight, Orchestrate, ReceiveMessage, AnswerBeforePreflight,
       PreflightPass, PreflightGuard, PreflightCancelAgain, EditDraft, SubmitDraft,
       StartNewOrder, AnswerOnly, Misunderstand, UnparsedMessage, Audit, SaveTurn,
       ConfirmReplay, ConfirmOrder, ConfirmRejected, TurnFails, tables
  <2> QED
    BY <1>2, <1>3, <1>6, <2>1 DEF OnTime
<1> QED
  BY <1>4, <1>5, <1>6, SettlesOnTime

\* Every step, when nobody else writes.
LEMMA GuardStep ==
  ASSUME Alone, RestClients = {}, DeskInv, SafeTables, TurnInv, GuardInv, [Next]_vars
  PROVE  GuardInv'
<1>1. CasesOpened'
  BY CasesOpenedStep DEF GuardInv
<1>2. OnTime'
  <2>1. CASE UNCHANGED << cases, turn >>
    BY <2>1 DEF GuardInv, OnTime
  <2>2. ASSUME NEW w \in Workers, Turn(w) PROVE OnTime'
    BY <2>2, TurnOnTime DEF GuardInv
  <2>3. CASE UNCHANGED vars \/ Reset \/ \E o \in DOMAIN orders : InvalidateConfirmation(o)
    BY <2>1, <2>3 DEF vars, Reset, InvalidateConfirmation
  <2>4. ~ (\E client \in RestClients : Rest(client)) /\ ~ Cancellation
    BY DEF Cancellation
  <2> QED
    BY <2>2, <2>3, <2>4 DEF Next
<1>3. ASSUME NEW w \in Workers PROVE GuardKnown(w)'
  <2>1. CASE \E v \in Workers : Turn(v)
    <3>1. Turn(w)
      BY <2>1 DEF Alone
    <3> QED
      BY <3>1, TurnGuarded
  <2>2. CASE UNCHANGED << session, cases, turn >>
    BY <2>2 DEF GuardInv, GuardKnown, Mandatory, Marked
  <2>3. CASE Reset
    BY <2>3 DEF Reset, GuardKnown
  <2>4. CASE UNCHANGED vars \/ \E o \in DOMAIN orders : InvalidateConfirmation(o)
    BY <2>2, <2>4 DEF vars, InvalidateConfirmation
  <2>5. ~ (\E client \in RestClients : Rest(client)) /\ ~ Cancellation
    BY DEF Cancellation
  <2> QED
    BY <2>1, <2>3, <2>4, <2>5 DEF Next
<1> QED
  BY <1>1, <1>2, <1>3 DEF GuardInv

\* It holds in every reachable state.
LEMMA GuardAlways ==
  ASSUME Alone, RestClients = {}
  PROVE  Spec => [](DeskInv /\ SafeInv /\ TurnInv /\ ItemsInv /\ GuardInv)
<1>1. Init => GuardInv
  <2> SUFFICES ASSUME Init PROVE GuardInv
    OBVIOUS
  <2>1. cases = << >> /\ \A w \in Workers : turn[w].step = "idle"
    BY DEF Init, IdleTurn
  <2> QED
    BY <2>1 DEF GuardInv, GuardKnown, CasesOpened, OnTime, Late, TurnWriting
<1>2. DeskInv /\ SafeInv /\ TurnInv /\ ItemsInv /\ GuardInv /\ [Next]_vars => GuardInv'
  <2> SUFFICES ASSUME DeskInv, SafeInv, TurnInv, GuardInv, [Next]_vars PROVE GuardInv'
    OBVIOUS
  <2>1. SafeTables
    BY TableTypes, SafeForm DEF SafeTables
  <2> QED
    BY <2>1, GuardStep
<1> QED
  BY <1>1, <1>2, ItemsAlways, PTL DEF Spec

\* A session guarded for a mandatory reason stays guarded until its case is
\* resolved or an explicit request takes the reason's place, when the turns are
\* serialised and the handoff controls disabled (_require_controls).
THEOREM MandatoryStays ==
  ASSUME \A v, w \in Workers : v = w, RestClients = {}
  PROVE  Spec => MandatoryGuardStays
<1> DEFINE Stays ==
      CarriedSignals(session.state) \ { Explicit } # {} /\ ~ session'.closed
        => \/ CarriedSignals(session.state)' \ { Explicit } # {}
           \/ session'.state.reason = Explicit
           \/ CaseStatus(session.state.handoff)' = "RESOLVED"
<1>1. DeskInv /\ SafeInv /\ TurnInv /\ ItemsInv /\ GuardInv /\ [Next]_vars => [Stays]_vars
  <2> SUFFICES ASSUME DeskInv, SafeInv, TurnInv, ItemsInv, GuardInv, [Next]_vars,
                      CarriedSignals(session.state) \ { Explicit } # {}, ~ session'.closed
               PROVE  \/ CarriedSignals(session.state)' \ { Explicit } # {}
                      \/ session'.state.reason = Explicit
                      \/ CaseStatus(session.state.handoff)' = "RESOLVED"
    OBVIOUS
  <2>1. SafeTables
    BY TableTypes, SafeForm DEF SafeTables
  <2>2. Marked(cases', session'.state)
    BY <2>1, MandatoryForm, MarkStays
  <2>3. CasesOpened' /\ DeskInv'
    BY <2>1, CasesOpenedStep, NextDesk DEF GuardInv
  <2>4. cases' \in Seq(Cases)
    BY <2>3 DEF DeskInv, TypeOK
  <2>5. cases'[session'.state.handoff].status \in
          Active \union { "FAILED", "CANCELLED", "RESOLVED" }
    <3> DEFINE h == session'.state.handoff
    <3>1. h \in DOMAIN cases'
      BY <2>2 DEF Marked
    <3> HIDE DEF h
    <3>2. cases'[h] \in Cases
      BY <2>4, <3>1
    <3>3. cases'[h].status \in HandoffStatus /\ cases'[h].status # "NOT_REQUIRED"
      BY <2>3, <3>1, <3>2 DEF CasesOpened, Cases
    <3> QED
      BY <3>3 DEF HandoffStatus, Terminal, h
  <2> QED
    BY <2>2, <2>5 DEF Marked, CarriedSignals, CaseStatus
<1>2. Spec => [][Stays]_vars
  <2> HIDE DEF Stays
  <2>1. Alone
    BY DEF Alone
  <2> QED
    BY <1>1, <2>1, GuardAlways, PTL DEF Spec
<1> QED
  BY <1>2 DEF MandatoryGuardStays
=============================================================================
