------------------------- MODULE LLMFallbackProofs -------------------------
(* Proofs about LLMFallback, for any menu: what an LLM may make of a turn.  *)
EXTENDS LLMFallback, TLAPS

(* The client was asked because the rules were unsure and it may be called. *)
AskedWithReason ==
  step = "asked" => Triggered(env, dialog, message) /\ CanCall(env)

(* Until an answer is settled the turn goes on with the rules' reading.     *)
RulesUntilDone == step # "done" => outcome = Rules(message)

FallbackInv ==
  /\ env \in Environments /\ dialog \in Dialogs /\ message \in Messages
  /\ AskedWithReason /\ RulesUntilDone
  /\ posted => Source(env) = "live" /\ CanCall(env)
  /\ OnlyWhatTheCustomerSaid
  /\ SandboxChangesNothing

-----------------------------------------------------------------------------
(* Messages, sessions and environments.                                    *)

(* What the rules were unsure of is small talk or nothing they know; it     *)
(* asks for no delivery or pickup.                                          *)
LEMMA UnsureMessages ==
  ASSUME NEW m \in Messages, m.sure < 85
  PROVE  /\ m.rules \in {"fallback", "smalltalk"} /\ m.asks = None
         /\ m.address => m.rules = "fallback"
<1> DEFINE Claim(x) == /\ x.rules \in {"fallback", "smalltalk"} /\ x.asks = None
                       /\ x.address => x.rules = "fallback"
<1>1. Claim(Plain) /\ Claim(Chat(Plain))
  BY DEF Plain, Chat
<1>2. Claim(That) /\ Claim(Chat(That))
  BY DEF Plain, Chat, That
<1>3. Claim(Place) /\ Claim([Place EXCEPT !.says = "confirm"])
  BY DEF Plain, Place
<1>4. \A n \in {1, 2} : Claim(Nth(n))
  BY DEF Plain, Nth
<1>5. \A w \in {"confirm", "cancel"} : Claim(Says(w)) /\ Claim(Chat(Says(w)))
  BY DEF Plain, Chat, Says
<1>6. \A i \in Items : Claim(DishAtPlace(i))
  BY DEF Plain, Place, DishAtPlace
<1>7. \A i \in Items : Sure([Plain EXCEPT !.names = i, !.orders = TRUE], "order_food").sure = 93
  BY DEF Plain, Sure
<1>8. \A a \in {"delivery", "pickup"} : Sure([Plain EXCEPT !.asks = a], "fulfillment").sure = 93
  BY DEF Plain, Sure
<1>9. \A w \in {"confirm", "cancel"} : Sure([Plain EXCEPT !.says = w], w).sure = 93
  BY DEF Plain, Sure
<1>10. Claim(m) \/ m.sure = 93
  <2> HIDE DEF Claim
  <2>1. CASE m \in {Plain, Chat(Plain), That, Chat(That), Place, [Place EXCEPT !.says = "confirm"]}
    BY <1>1, <1>2, <1>3, <2>1
  <2>2. CASE \/ \E n \in {1, 2} : m = Nth(n)
             \/ \E w \in {"confirm", "cancel"} : m = Says(w) \/ m = Chat(Says(w))
             \/ \E i \in Items : m = DishAtPlace(i)
    BY <1>4, <1>5, <1>6, <2>2
  <2>3. CASE \/ \E i \in Items : m = Sure([Plain EXCEPT !.names = i, !.orders = TRUE], "order_food")
             \/ \E a \in {"delivery", "pickup"} : m = Sure([Plain EXCEPT !.asks = a], "fulfillment")
             \/ \E w \in {"confirm", "cancel"} : m = Sure([Plain EXCEPT !.says = w], w)
    BY <1>7, <1>8, <1>9, <2>3
  <2> QED
    BY <2>1, <2>2, <2>3, Zenon DEF Messages
<1> QED
  BY <1>10

(* Stages, and no recommendation has the number zero.                       *)
LEMMA SessionFields ==
  ASSUME NEW d \in Dialogs
  PROVE  /\ d.stage \in {"ordering", "collecting_address", "collecting_phone"}
         /\ 0 \notin DOMAIN d.recommended
<1>1. /\ d.stage \in {"ordering", "collecting_address", "collecting_phone"}
      /\ d.recommended \in Dishes
  BY DEF Dialogs, Dishes
<1>2. ASSUME NEW r \in Dishes PROVE 0 \notin DOMAIN r
  <2>1. CASE r = <<>>
    BY <2>1
  <2>2. CASE r \in [1 .. 1 -> Items] \/ r \in [1 .. 2 -> Items]
    BY <2>2
  <2> QED
    BY <2>1, <2>2 DEF Dishes
<1> QED
  BY <1>1, <1>2

(* Who may be asked.                                                        *)
LEMMA Callable ==
  ASSUME NEW e \in Environments, CanCall(e)
  PROVE  /\ e.mode \notin {"disabled", "mistyped"}
         /\ Source(e) = "live" => e.mode = "live" /\ e.enabled /\ e.allowed
         /\ IsShadow(e) <=> e.mode = "shadow"
BY DEF Environments, CanCall, Source, IsShadow, Mode, Modes

-----------------------------------------------------------------------------
(* Answers.                                                                *)

(* A reading, and the cue in the message or the session it came with.       *)
Supported(m, d, r) ==
  /\ r.source = "llm"
  /\ r.intent = "order_food" => AddEvidence(m, d, r.item)
  /\ r.intent = "delivery" => m.asks = "delivery"
  /\ r.intent = "pickup" => m.asks = "pickup"
  /\ r.intent \in {"confirm", "cancel"} => m.says = r.intent

LEMMA ConvertedIsSupported ==
  ASSUME NEW m, NEW d, NEW p, NEW r \in Converted(m, d, p)
  PROVE  Supported(m, d, r)
<1> DEFINE tries == Tries(m, d, p)
<1>1. PICK k \in DOMAIN tries : tries[k][2] /\ r = tries[k][3]
  BY DEF Converted
<1>2. k \in 1 .. 7
  BY DEF Tries
<1>3. CASE k = 1
  <2>1. AddEvidence(m, d, Act(p)[1].item) /\ r = Reading("order_food", Act(p)[1].item)
    BY <1>1, <1>3 DEF Tries
  <2> QED
    BY <2>1 DEF Reading, Supported
<1>4. CASE k = 2
  <2>1. r = Reading("ask_menu", None)
    BY <1>1, <1>4 DEF Tries
  <2> QED
    BY <2>1 DEF Reading, Supported
<1>5. CASE k = 3
  <2>1. r = Reading("ask_recommendation", None)
    BY <1>1, <1>5 DEF Tries
  <2> QED
    BY <2>1 DEF Reading, Supported
<1>6. CASE k = 4
  <2>1. m.asks = "delivery" /\ r = Reading("delivery", None)
    BY <1>1, <1>6 DEF Tries
  <2> QED
    BY <2>1 DEF Reading, Supported
<1>7. CASE k = 5
  <2>1. m.asks = "pickup" /\ r = Reading("pickup", None)
    BY <1>1, <1>7 DEF Tries
  <2> QED
    BY <2>1 DEF Reading, Supported
<1>8. CASE k = 6
  <2>1. m.says = "confirm" /\ r = Reading("confirm", None)
    BY <1>1, <1>8 DEF Tries
  <2> QED
    BY <2>1 DEF Reading, Supported
<1>9. CASE k = 7
  <2>1. m.says = "cancel" /\ r = Reading("cancel", None)
    BY <1>1, <1>9 DEF Tries
  <2> QED
    BY <2>1 DEF Reading, Supported
<1> QED
  BY <1>2, <1>3, <1>4, <1>5, <1>6, <1>7, <1>8, <1>9

LEMMA AcceptedIsSupported ==
  ASSUME NEW answer, NEW r \in Accepted(answer)
  PROVE  Supported(message, dialog, r)
<1>1. r \in Validated(env, message, dialog, answer.payload)
  BY DEF Accepted
<1>2. r = Clarification \/ r \in Converted(message, dialog, answer.payload)
  BY <1>1 DEF Validated
<1>3. CASE r = Clarification
  BY <1>3 DEF Clarification, Reading, Supported
<1>4. CASE r \in Converted(message, dialog, answer.payload)
  BY <1>4, ConvertedIsSupported
<1> QED
  BY <1>2, <1>3, <1>4

(* The dish referred to is the only one in view.                            *)
LEMMA ReferencePointsAt ==
  ASSUME dialog \in Dialogs, NEW item, RefersTo(message, dialog, item)
  PROVE  PointedAt(item)
<1>1. CASE message.nth \in DOMAIN dialog.recommended /\ dialog.recommended[message.nth] = item
  BY <1>1, SessionFields DEF PointedAt
<1>2. CASE message.nth = 0 /\ message.that /\ InView(dialog) = {item}
  <2>1. ASSUME NEW other \in Items \ {item}
        PROVE  /\ dialog.last # other /\ dialog.recommended # <<other>>
               /\ dialog.order # <<other>>
    <3>1. other # None /\ other \notin InView(dialog)
      BY <1>2, ItemsAssumption
    <3>2. Single(<<other>>) = {other}
      BY DEF Single
    <3> QED
      BY <3>1, <3>2 DEF InView
  <2> QED
    BY <1>2, <2>1 DEF PointedAt
<1> QED
  BY <1>1, <1>2 DEF RefersTo

(* A turn settled on a reading of the client's.                             *)
LEMMA SettledOnAnswer ==
  ASSUME FallbackInv, step = "asked", ~IsShadow(env), NEW r, Settle(r),
         Supported(message, dialog, r)
  PROVE  FallbackInv'
<1>1. /\ outcome' = r /\ step' = "done"
      /\ UNCHANGED <<env, dialog, message, posted>>
  BY DEF Settle
<1>2. /\ Triggered(env, dialog, message) /\ CanCall(env)
      /\ env \in Environments /\ dialog \in Dialogs /\ message \in Messages
  BY DEF FallbackInv, AskedWithReason
<1>3. /\ message.sure < 85 /\ message.rules \in {"fallback", "smalltalk"}
      /\ message.asks = None /\ (message.address => message.rules = "fallback")
  BY <1>2, UnsureMessages DEF Triggered
<1>4. OnlyWhatTheCustomerSaid'
  <2>1. r.intent = "order_food" => Named(r.item) \/ PointedAt(r.item)
    BY <1>2, ReferencePointsAt DEF Supported, AddEvidence, Named
  <2>2. r.intent \in {"confirm", "cancel"} => message.says = r.intent
    BY DEF Supported
  <2>3. r.intent \notin {"delivery", "pickup"}
    BY <1>3 DEF Supported, None
  <2> QED
    BY <1>1, <2>1, <2>2, <2>3 DEF OnlyWhatTheCustomerSaid, Named, PointedAt
<1>5. SandboxChangesNothing'
  <2>1. ~(message.address /\ ~message.orders) /\ ~dialog.candidate
    BY <1>2, <1>3 DEF Triggered, LiveForCandidate
  <2>2. message.rules = "smalltalk" \/ dialog.stage = "ordering"
    BY <1>2, <1>3, SessionFields DEF Triggered
  <2>3. env.mode \notin {"shadow", "disabled", "mistyped"}
    BY <1>2, Callable
  <2>4. posted => env.mode = "live" /\ env.enabled /\ env.allowed
    BY DEF FallbackInv, SandboxChangesNothing
  <2> QED
    BY <1>1, <1>3, <2>1, <2>2, <2>3, <2>4 DEF SandboxChangesNothing
<1> QED
  BY <1>1, <1>4, <1>5 DEF FallbackInv, AskedWithReason, RulesUntilDone

-----------------------------------------------------------------------------
(* The invariant.                                                          *)

LEMMA FallbackInit == Init => FallbackInv
<1> SUFFICES ASSUME Init PROVE FallbackInv
  OBVIOUS
<1>1. outcome.source = "rules" /\ outcome = Rules(message)
  BY DEF Init, Rules
<1>2. message \in Messages
  BY DEF Init, Messages
<1> QED
  BY <1>1, <1>2 DEF Init, FallbackInv, AskedWithReason, RulesUntilDone,
                    OnlyWhatTheCustomerSaid, SandboxChangesNothing

LEMMA FallbackStep == FallbackInv /\ [Next]_vars => FallbackInv'
<1> SUFFICES ASSUME FallbackInv, [Next]_vars PROVE FallbackInv'
  OBVIOUS
<1>1. CASE Hear
  <2>1. PICK m \in Messages :
          /\ step = "idle" /\ message' = m /\ step' = "heard" /\ outcome' = Rules(m)
          /\ UNCHANGED <<env, dialog, posted>>
    BY <1>1 DEF Hear
  <2>2. outcome'.source = "rules" /\ outcome' = Rules(message)'
    BY <2>1 DEF Rules
  <2> QED
    BY <2>1, <2>2 DEF FallbackInv, AskedWithReason, RulesUntilDone,
                      OnlyWhatTheCustomerSaid, SandboxChangesNothing
<1>2. CASE Settle(Rules(message))
  <2>1. /\ outcome' = Rules(message)' /\ outcome'.source = "rules" /\ step' = "done"
        /\ UNCHANGED <<env, dialog, message, posted>>
    BY <1>2 DEF Settle, Rules
  <2> QED
    BY <2>1 DEF FallbackInv, AskedWithReason, RulesUntilDone,
                OnlyWhatTheCustomerSaid, SandboxChangesNothing
<1>3. CASE Ask
  <2>1. /\ step' = "asked" /\ UNCHANGED <<env, dialog, message, outcome>>
        /\ Triggered(env, dialog, message) /\ CanCall(env)
        /\ posted' = (Source(env) = "live") /\ step = "heard"
    BY <1>3 DEF Ask
  <2>2. posted' => env.mode = "live" /\ env.enabled /\ env.allowed
    BY <2>1, Callable DEF FallbackInv
  <2>3. outcome = Rules(message)
    BY <2>1 DEF FallbackInv, RulesUntilDone
  <2>4. Triggered(env, dialog, message)' /\ CanCall(env)' /\ Source(env)' = Source(env)
        /\ outcome' = Rules(message)'
    BY <2>1, <2>3 DEF Triggered, CanCall, Source, IsShadow, Mode, Rules
  <2>5. OnlyWhatTheCustomerSaid' /\ SandboxChangesNothing'
    BY <2>1, <2>2, <2>3 DEF FallbackInv, OnlyWhatTheCustomerSaid, SandboxChangesNothing,
                            Named, PointedAt, Rules
  <2> QED
    BY <2>1, <2>4, <2>5 DEF FallbackInv, AskedWithReason, RulesUntilDone
<1>4. CASE Degrade
  BY <1>4, SettledOnAnswer DEF Degrade, Clarification, Reading, Supported
<1>5. CASE Accept
  <2>1. PICK answer \in Answers(env) : \E r \in Accepted(answer) : Settle(r)
    BY <1>5 DEF Accept
  <2>2. PICK r \in Accepted(answer) : Settle(r)
    BY <2>1
  <2> QED
    BY <1>5, <2>2, AcceptedIsSupported, SettledOnAnswer DEF Accept
<1>6. CASE UNCHANGED vars
  BY <1>6 DEF vars, FallbackInv, AskedWithReason, RulesUntilDone, OnlyWhatTheCustomerSaid,
              SandboxChangesNothing, Named, PointedAt, Triggered, CanCall, Source, IsShadow,
              Mode, Rules
<1> QED
  BY <1>1, <1>2, <1>3, <1>4, <1>5, <1>6 DEF Next, KeepRules, Observe

(* The fallback's invariant: why the client was asked, and that the rules'  *)
(* reading stands until an answer is settled (_merge_llm_interpretation).   *)
THEOREM FallbackInvariant == Spec => []FallbackInv
<1>1. Init => FallbackInv
  BY FallbackInit
<1>2. FallbackInv /\ [Next]_vars => FallbackInv'
  BY FallbackStep
<1> QED
  BY <1>1, <1>2, PTL DEF Spec

(* Whatever a provider answers, it adds only dishes the customer named or   *)
(* pointed at, confirms and cancels only on the customer's word and chooses *)
(* no delivery (llm_fallback_validation.py), for any menu.                  *)
THEOREM OnlyTheCustomerOrders == Spec => []OnlyWhatTheCustomerSaid
<1>1. FallbackInv => OnlyWhatTheCustomerSaid
  BY DEF FallbackInv
<1> QED
  BY <1>1, FallbackInvariant, PTL

(* Nothing is sent to a provider without the three settings, shadows change *)
(* nothing, and answers that a question waits for are never the LLM's       *)
(* (llm_client.py, llm_fallback_modes.py).                                  *)
THEOREM SandboxIsClosed == Spec => []SandboxChangesNothing
<1>1. FallbackInv => SandboxChangesNothing
  BY DEF FallbackInv
<1> QED
  BY <1>1, FallbackInvariant, PTL
=============================================================================
