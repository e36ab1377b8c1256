---------------------------- MODULE LLMFallback ----------------------------
(***************************************************************************)
(* The LLM fallback of one turn: the client the environment configures     *)
(* (services/llm_client.py, llm_replay_client.py, llm_fallback_modes.py),  *)
(* when it is asked, what becomes of its answer (agents/orchestrator.py,   *)
(* _merge_llm_interpretation) and the validation of an answer              *)
(* (services/llm_fallback_validation.py).                                  *)
(*                                                                         *)
(* A message is what these modules can tell of it: how the rules read it   *)
(* and the cues it holds.  An answer is any payload a provider or a replay *)
(* file may hold.  Prompts, wording and traces are left out.               *)
(***************************************************************************)
EXTENDS Naturals, Sequences, FiniteSets

CONSTANTS Items    \* the dishes of the menu

None == "none"

ASSUME ItemsAssumption == None \notin Items

VARIABLES env,      \* the environment's settings, read when the process starts
          dialog,   \* the session's fields the fallback looks at
          message,  \* the customer's message
          step,     \* "idle", "heard", "asked", "done"
          posted,   \* a request went out to a provider
          outcome   \* the interpretation the turn goes on with

vars == <<env, dialog, message, step, posted, outcome>>

-----------------------------------------------------------------------------
(* The client.                                                             *)

Modes == {"disabled", "fake", "replay", "shadow", "live"}
Environments ==
  [mode : {"disabled", "mistyped", "fake"}, file : {FALSE}, source : {"fake"},
   enabled : {TRUE}, allowed : {TRUE}, key : {TRUE}, least : {65}]
  \cup [mode : {"replay", "shadow"}, file : BOOLEAN, source : {"fake", "replay"},
        enabled : {TRUE}, allowed : {TRUE}, key : {TRUE}, least : {65}]
  \cup [mode : {"live"}, file : {FALSE}, source : {"fake"},
        enabled : BOOLEAN, allowed : BOOLEAN, key : BOOLEAN, least : {65, 80}]

(* An unknown mode is an error of the configuration, never the live mode.  *)
Mode(e) == IF e.mode \in Modes THEN e.mode ELSE "disabled"
IsShadow(e) == Mode(e) = "shadow"
Source(e) == IF IsShadow(e) THEN e.source ELSE Mode(e)

CanCall_KeyIsEnough(e) ==
  Source(e) = "fake" \/ (Source(e) = "replay" /\ e.file) \/ (Source(e) = "live" /\ e.key)

CanCall(e) ==
  \/ Source(e) = "fake"
  \/ Source(e) = "replay" /\ e.file
  \/ Source(e) = "live" /\ e.enabled /\ e.allowed /\ e.key

-----------------------------------------------------------------------------
(* Messages and the session.                                               *)

Plain == [rules |-> "fallback", sure |-> 20, names |-> None, nth |-> 0, that |-> FALSE,
          says |-> None, asks |-> None, address |-> FALSE, orders |-> FALSE]
Chat(m) == [m EXCEPT !.rules = "smalltalk", !.sure = 75]
Sure(m, rules) == [m EXCEPT !.rules = rules, !.sure = 93]

That == [Plain EXCEPT !.that = TRUE]                     \* "that one then"
Nth(n) == [Plain EXCEPT !.nth = n]                       \* "1"
Says(word) == [Plain EXCEPT !.says = word]               \* "I did not confirm yet"
Place == [Plain EXCEPT !.address = TRUE]
DishAtPlace(i) == [Place EXCEPT !.names = i, !.orders = TRUE]

Messages ==
  {Plain, Chat(Plain), That, Chat(That), Place, [Place EXCEPT !.says = "confirm"]}
  \cup {Nth(n) : n \in {1, 2}}
  \cup {Says(w) : w \in {"confirm", "cancel"}}
  \cup {Chat(Says(w)) : w \in {"confirm", "cancel"}}
  \cup {DishAtPlace(i) : i \in Items}
  \cup {Sure([Plain EXCEPT !.names = i, !.orders = TRUE], "order_food") : i \in Items}
  \cup {Sure([Plain EXCEPT !.asks = a], "fulfillment") : a \in {"delivery", "pickup"}}
  \cup {Sure([Plain EXCEPT !.says = w], w) : w \in {"confirm", "cancel"}}

Dishes == {<<>>} \cup [1 .. 1 -> Items] \cup {s \in [1 .. 2 -> Items] : s[1] # s[2]}
Dialogs ==
  [stage : {"ordering"}, candidate : {FALSE}, recommended : Dishes, order : Dishes,
   last : Items \cup {None}]
  \cup [stage : {"ordering", "collecting_address", "collecting_phone"},
        candidate : BOOLEAN, recommended : {<<>>}, order : {<<>>}, last : {None}]

-----------------------------------------------------------------------------
(* When the client is asked.                                               *)

LiveForCandidate == {"confirm_candidate", "reject_candidate", "replace_candidate",
                     "smalltalk", "fallback"}

Triggered(e, d, m) ==
  /\ m.sure < 85
  /\ ~(d.candidate /\ m.rules \in LiveForCandidate)
  /\ ~(d.stage \in {"collecting_address", "collecting_phone"} /\ m.rules = "fallback")
  /\ ~(m.address /\ (d.stage = "collecting_address" \/ d.candidate))
  /\ ~(m.address /\ m.rules = "fallback" /\ ~m.orders)
  /\ m.rules = "fallback" \/ m.sure < e.least

-----------------------------------------------------------------------------
(* Answers.                                                                *)

Intents == {"add_item", "remove_item", "update_quantity", "ask_menu",
            "ask_recommendation", "delivery", "pickup", "confirm_order",
            "cancel_order", "clarify", "smalltalk", "unknown"}
ActionTypes == {"add_item", "remove_item", "update_quantity", "set_delivery",
                "set_pickup", "ask_menu", "ask_recommendation", "confirm_order",
                "cancel_order"}

Action(type, item) == [type |-> type, item |-> item, quantity |-> 1]
Actions == {Action("add_item", i) : i \in Items \cup {"off the menu"}}
           \cup {Action(t, None) : t \in ActionTypes}
Payload(intent, actions) ==
  [intent |-> intent, confidence |-> 90, actions |-> actions, clarify |-> FALSE]
Adding(i) == Payload("add_item", <<Action("add_item", i)>>)

(* Well-formed answers, and answers with one thing wrong with them.        *)
Payloads ==
  {Payload(n, a) : n \in Intents, a \in {<<>>} \cup {<<x>> : x \in Actions}}
  \cup UNION {{[Adding(i) EXCEPT !.intent = "pay"],
               [Adding(i) EXCEPT !.actions[1].type = "pay"],
               [Adding(i) EXCEPT !.actions[1].quantity = 0],
               [Adding(i) EXCEPT !.actions[1].quantity = 21],
               [Adding(i) EXCEPT !.actions = [k \in 1 .. 2 |-> @[1]]],
               [Adding(i) EXCEPT !.actions = [k \in 1 .. 4 |-> @[1]]],
               [Adding(i) EXCEPT !.confidence = 50],
               [Adding(i) EXCEPT !.confidence = 70],
               [Adding(i) EXCEPT !.confidence = 101],
               [Adding(i) EXCEPT !.clarify = TRUE]} : i \in Items}

Failed(why) == [status |-> why, late |-> FALSE, payload |-> None]
Failures == {Failed(s) : s \in {"timeout", "network_error", "http_error",
                                "empty_response", "invalid_json"}}
Success(p, late) == [status |-> "success", late |-> late, payload |-> p]
FakeAnswer == Payload("clarify", <<>>)

(* A provider may answer after the time allowed; a file never does.        *)
Answers(e) ==
  CASE Source(e) = "fake" -> {Success([FakeAnswer EXCEPT !.clarify = TRUE], FALSE)}
    [] Source(e) = "replay" -> Failures \cup {Success(p, FALSE) : p \in Payloads}
    [] Source(e) = "disabled" -> {}
    [] Source(e) = "live" -> Failures \cup {Success(p, b) : p \in Payloads, b \in BOOLEAN}

Arrived(answer) == answer.status = "success" /\ ~answer.late

Parses(p) ==
  /\ p.intent \in Intents
  /\ p.confidence \in 0 .. 100
  /\ Len(p.actions) <= 3
  /\ \A k \in DOMAIN p.actions :
       p.actions[k].type \in ActionTypes /\ p.actions[k].quantity \in 1 .. 20

-----------------------------------------------------------------------------
(* What an answer may do: each reading comes with the cue it needs.        *)

Reading(intent, item) == [source |-> "llm", intent |-> intent, item |-> item]
Rules(m) == [source |-> "rules", intent |-> m.rules, item |-> m.names]
Clarification == Reading("fallback", None)

(* The dishes "that" may stand for. *)
Single(dishes) == IF Len(dishes) = 1 THEN {dishes[1]} ELSE {}
InView(d) == ({d.last} \ {None}) \cup Single(d.recommended) \cup Single(d.order)

RefersTo_AnyInView(m, d, item) == m.that /\ item \in InView(d)

RefersTo(m, d, item) ==
  \/ m.nth \in DOMAIN d.recommended /\ d.recommended[m.nth] = item
  \/ m.nth = 0 /\ m.that /\ InView(d) = {item}

AddEvidence(m, d, item) == m.names = item \/ RefersTo(m, d, item)

Implicit(intent) ==
  CASE intent \in {"ask_menu", "ask_recommendation", "confirm_order", "cancel_order"} ->
         <<Action(intent, None)>>
    [] intent = "delivery" -> <<Action("set_delivery", None)>>
    [] intent = "pickup" -> <<Action("set_pickup", None)>>
    [] OTHER -> <<>>

Act(p) == IF p.actions = <<>> THEN Implicit(p.intent) ELSE p.actions
Wants(p, intent, type) == p.intent = intent \/ Act(p)[1].type = type

(* The readings of a payload, in the order in which they are tried: the    *)
(* first that the payload wants is taken when its cue is there.            *)
Tries(m, d, p) ==
  LET item == Act(p)[1].item
  IN  << <<Wants(p, "add_item", "add_item"), item \in Items /\ AddEvidence(m, d, item),
           Reading("order_food", item)>>,
         <<Wants(p, "ask_menu", "ask_menu"), TRUE, Reading("ask_menu", None)>>,
         <<Wants(p, "ask_recommendation", "ask_recommendation"), TRUE,
           Reading("ask_recommendation", None)>>,
         <<Wants(p, "delivery", "set_delivery"), m.asks = "delivery",
           Reading("delivery", None)>>,
         <<Wants(p, "pickup", "set_pickup"), m.asks = "pickup", Reading("pickup", None)>>,
         <<Wants(p, "confirm_order", "confirm_order"), m.says = "confirm",
           Reading("confirm", None)>>,
         <<Wants(p, "cancel_order", "cancel_order"), m.says = "cancel",
           Reading("cancel", None)>> >>

Converted(m, d, p) ==
  LET tries == Tries(m, d, p)
      first == {k \in DOMAIN tries : tries[k][1] /\ \A j \in 1 .. k - 1 : ~tries[j][1]}
  IN  {tries[k][3] : k \in {j \in first : tries[j][2]}}

Validated(e, m, d, p) ==
  CASE p.confidence < e.least -> {}
    [] p.confidence >= e.least
         /\ (p.clarify \/ p.intent \in {"clarify", "unknown", "smalltalk"}) -> {Clarification}
    [] p.confidence >= e.least /\ Len(p.actions) <= 1 /\ Act(p) # <<>>
         /\ ~(p.clarify \/ p.intent \in {"clarify", "unknown", "smalltalk"}) ->
         Converted(m, d, p)
    [] OTHER -> {}

-----------------------------------------------------------------------------
(* The turn.                                                               *)

Init ==
  /\ env \in Environments /\ dialog \in Dialogs
  /\ message = Plain /\ step = "idle" /\ posted = FALSE
  /\ outcome = Rules(Plain)

Hear == \E m \in Messages :
  /\ step = "idle"
  /\ message' = m /\ step' = "heard"
  /\ outcome' = Rules(m)
  /\ UNCHANGED <<env, dialog, posted>>

Settle(reading) ==
  /\ step' = "done"
  /\ outcome' = reading
  /\ UNCHANGED <<env, dialog, message, posted>>

(* The rules were sure, or there is nobody to ask. *)
KeepRules ==
  /\ step = "heard"
  /\ ~(Triggered(env, dialog, message) /\ CanCall(env))
  /\ Settle(Rules(message))

Ask ==
  /\ step = "heard"
  /\ Triggered(env, dialog, message) /\ CanCall(env)
  /\ step' = "asked"
  /\ posted' = (Source(env) = "live")
  /\ UNCHANGED <<env, dialog, message, outcome>>

Accepted(answer) ==
  IF Arrived(answer) /\ Parses(answer.payload)
  THEN Validated(env, message, dialog, answer.payload) ELSE {}

(* A shadow's answer is looked at and dropped. *)
Observe ==
  /\ step = "asked" /\ IsShadow(env)
  /\ Answers(env) # {}
  /\ Settle(Rules(message))

(* A refused or missing answer becomes a question to the customer. *)
Degrade ==
  /\ step = "asked" /\ ~IsShadow(env)
  /\ \E answer \in Answers(env) : Accepted(answer) = {}
  /\ Settle(Clarification)

Accept ==
  /\ step = "asked" /\ ~IsShadow(env)
  /\ \E answer \in Answers(env) : \E reading \in Accepted(answer) : Settle(reading)

Next == Hear \/ KeepRules \/ Ask \/ Observe \/ Degrade \/ Accept
Spec == Init /\ [][Next]_vars

-----------------------------------------------------------------------------
(* Properties.                                                             *)

(* What an LLM's answer adds to the order is the dish the customer named,  *)
(* or pointed at while no other dish was in view; a confirmation or a      *)
(* cancellation of its making has the customer's word for it; and it       *)
(* chooses neither a delivery nor a pickup, whatever intent and action it  *)
(* pairs (the rules have read every message that asks for one).            *)
Named(item) == message.names = item
PointedAt(item) ==
  \/ message.nth # 0 /\ dialog.recommended[message.nth] = item
  \/ /\ message.that /\ message.nth = 0
     /\ ~\E other \in Items \ {item} :
          \/ dialog.last = other
          \/ dialog.recommended = <<other>>
          \/ dialog.order = <<other>>
OnlyWhatTheCustomerSaid ==
  outcome.source = "llm" =>
    /\ outcome.intent = "order_food" => Named(outcome.item) \/ PointedAt(outcome.item)
    /\ outcome.intent \in {"confirm", "cancel"} => message.says = outcome.intent
    /\ outcome.intent \notin {"delivery", "pickup"}

(* Without the three settings that allow it nothing is sent to a provider, *)
(* and the answers of a shadow, late ones or refused ones included, never  *)
(* change how the turn is read; nor is a yes, a no or a place for a        *)
(* question that waits for it ever read by the LLM.                        *)
SandboxChangesNothing ==
  /\ posted => env.mode = "live" /\ env.enabled /\ env.allowed
  /\ env.mode \in {"shadow", "disabled", "mistyped"} => outcome = Rules(message)
  /\ outcome.source = "llm" =>
       /\ message.sure < 85 /\ ~(message.address /\ ~message.orders)
       /\ ~dialog.candidate /\ (message.rules = "smalltalk" \/ dialog.stage = "ordering")
=============================================================================
