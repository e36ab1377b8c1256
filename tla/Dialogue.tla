------------------------------ MODULE Dialogue ------------------------------
(***************************************************************************)
(* The ordering conversation: OrchestratorAgent.handle_user_message with   *)
(* the agents it dispatches to (agents/orchestrator.py, order_agent.py,    *)
(* confirmation_agent.py, delivery_agent.py, context_repair_agent.py,      *)
(* recommendation_agent.py, menu_agent.py).                                *)
(*                                                                         *)
(* A turn takes what the customer said, as the intent the rule router      *)
(* returns for it (SemanticRouter models the router), and carries it       *)
(* through the steps of the handler: the context may turn it into another  *)
(* intent, stale questions expire, one agent answers, the change is kept   *)
(* for an undo.  The session's language, menu views and preferences are    *)
(* left out, and a line of the order has one option.                       *)
(***************************************************************************)
EXTENDS OrderLines

CONSTANTS Spoken,         \* the dishes the customer names
          Categories,     \* the categories the customer names
          DishesOf,       \* the dishes of a category, in the menu's order
          Recommended,    \* the dishes recommended, in order
          Fragment,       \* the dishes that one fragment of a name may mean
          Addresses,
          MaxUnasked,     \* a category of more dishes is added after a yes only
          MaxQuantity,    \* bound on the quantity of a line
          MaxLines,       \* bound on the lines of an order
          MaxTurns        \* bound on the turns of a conversation

ASSUME DishesAssumption ==
  /\ Spoken \subseteq Items
  /\ Recommended \in Seq(Items) /\ Fragment \in Seq(Items) \ {<<>>}
  /\ DishesOf \in [Categories -> Seq(Items)]
ASSUME BoundsAssumption == {MaxUnasked, MaxQuantity, MaxLines, MaxTurns} \subseteq Nat

None == "none"
ASSUME AddressesAssumption == None \notin Addresses

VARIABLES session,  \* the fields of SessionState that the dialogue works on
          asked,    \* what the reply to the last turn asked for, if anything
          listed,   \* history: the order when the customer was asked to clear it
          earlier,  \* history: the draft before the last turn that changed it
          turns     \* turns so far

vars == <<session, asked, listed, earlier, turns>>

-----------------------------------------------------------------------------
(* The session.                                                            *)

NoPending == [type |-> None, of |-> None]
Pending(type, of) == [type |-> type, of |-> of]
NoSnapshot == <<>>

Fresh ==
  [order |-> <<>>, pending |-> NoPending, candidate |-> None, address |-> None,
   phone |-> None, fulfillment |-> "delivery", stage |-> "ordering",
   recommended |-> FALSE, last |-> None, snapshot |-> NoSnapshot,
   submitted |-> FALSE]

Stages == {"ordering", "collecting_address", "collecting_phone", "confirming",
           "submitted"}

(* The fields an undo brings back. *)
Undoable == {"order", "address", "phone"}
Draft(s) == [f \in Undoable |-> s[f]]

(* The intents that may change neither the order nor the delivery details. *)
NoMutation == {"ask_menu", "ask_delivery", "smalltalk", "hold_order"}
KeepsCandidate == {"confirm_candidate", "reject_candidate", "replace_candidate",
                   "smalltalk", "fallback"}

(* A question the customer may have dropped: it goes with the next dish.   *)
Unstale(s) == IF s.pending.type \in {"clear", "which"} THEN NoPending ELSE s.pending
(* A dish named after "cancel" starts the order anew. *)
Restarted(s) == IF s.pending.type = "clear" THEN <<>> ELSE s.order

-----------------------------------------------------------------------------
(* The order agent.  A reply is the session after it and what it asks for. *)

Reply(s, asks) == [session |-> s, asks |-> asks]

OrderFood(s, item, n, mild) ==
  Reply([s EXCEPT !.order = AddLine(Restarted(s), item, mild, n),
                  !.stage = "ordering", !.last = item, !.pending = Unstale(s)],
        None)

OrderMultiple(s, items) ==
  Reply([s EXCEPT !.order = AddEach(Restarted(s), items),
                  !.stage = "ordering", !.last = Last(items), !.pending = Unstale(s)],
        None)

OrderCategory(s, c) ==
  IF Len(DishesOf[c]) > MaxUnasked
  THEN Reply([s EXCEPT !.pending = Pending("addAll", c)], "addAll")
  ELSE Reply([s EXCEPT !.order = AddEach(Restarted(s), DishesOf[c]),
                       !.stage = "ordering", !.pending = Unstale(s)], None)

SelectRecommendation(s, i, mild) == OrderFood(s, Recommended[i], 1, mild)

(* The line the customer spoke of last, or the last line. *)
Target(s) ==
  IF Named(s.order, s.last) # {} THEN Max(Named(s.order, s.last)) ELSE Len(s.order)

RepeatLast(s) ==
  IF s.order = <<>> THEN Reply(s, None)
  ELSE Reply([s EXCEPT !.order = AddQuantity(@, {Target(s)}, 1),
                       !.last = s.order[Target(s)].item, !.pending = Unstale(s)], None)

UpdateOption(s, at) ==
  Reply(IF at = {} THEN s
        ELSE [s EXCEPT !.order = MakeMild(@, at), !.last = s.order[Min(at)].item], None)

UpdateQuantity_KeepsPending(s, at, n) ==
  Reply(IF at = {} THEN s ELSE [s EXCEPT !.order = SetQuantity(@, at, n)], None)
UpdateQuantity(s, at, n) ==
  Reply(IF at = {} THEN s
        ELSE [s EXCEPT !.order = SetQuantity(@, at, n),
                       !.last = s.order[Min(at)].item, !.pending = Unstale(s)], None)

RemoveItem(s, item) == Reply([s EXCEPT !.order = Without(@, {item})], None)
RemoveIndex(s, i) == Reply([s EXCEPT !.order = LinesAt(@, DOMAIN @ \ {i})], None)

OfCategory(s, c) == {i \in DOMAIN s.order : s.order[i].item \in Range(DishesOf[c])}

RemoveCategory(s, c) ==
  IF Cardinality(OfCategory(s, c)) > 1
  THEN Reply([s EXCEPT !.pending = Pending("removeAll", c)], "removeAll")
  ELSE Reply([s EXCEPT !.order = Without(@, Range(DishesOf[c]))], None)

ReplaceItem(s, old, new) ==
  Reply(IF Named(s.order, old) = {} THEN s
        ELSE [s EXCEPT !.order = ReplaceLine(@, old, new), !.last = new,
                       !.pending = Unstale(s)], None)

ClearOrder(s) ==
  Reply([s EXCEPT !.order = <<>>, !.pending = NoPending, !.stage = "ordering",
                  !.snapshot = NoSnapshot, !.last = None], None)

-----------------------------------------------------------------------------
(* The delivery agent.                                                     *)

ChooseFulfillment(s, how) ==
  IF how = "pickup"
  THEN Reply([s EXCEPT !.fulfillment = how, !.stage = "confirming", !.address = None],
             "submit")
  ELSE Reply([s EXCEPT !.fulfillment = how, !.stage = "collecting_address"], "where")

ProvideAddress(s, a) ==
  Reply([s EXCEPT !.address = a, !.candidate = None,
                  !.stage = IF s.phone = None THEN "collecting_phone" ELSE "confirming"],
        IF s.phone = None THEN "phone" ELSE "submit")

ProvidePhone(s) == Reply([s EXCEPT !.phone = "phone", !.stage = "confirming"], "submit")

(* A question about the time, the fee or the range of a delivery. *)
AskDelivery(s, a) ==
  IF a = None THEN Reply([s EXCEPT !.stage = "collecting_address"], "where")
  ELSE Reply([s EXCEPT !.candidate = a], "address")

AddressCandidate(s, a) ==
  IF s.candidate # None \/ s.stage = "collecting_address" THEN ProvideAddress(s, a)
  ELSE Reply([s EXCEPT !.candidate = a], "address")

ConfirmCandidate(s) ==
  IF s.candidate = None THEN Reply(s, None) ELSE ProvideAddress(s, s.candidate)

RejectCandidate(s) ==
  Reply([s EXCEPT !.candidate = None, !.stage = "collecting_address"], "where")

-----------------------------------------------------------------------------
(* Repair, recommendation, confirmation and the orchestrator's own replies. *)

Repair(s, clarification) ==
  LET repaired == [s EXCEPT !.candidate = None, !.stage = "ordering"]
  IN  IF clarification = "which"
      THEN Reply([repaired EXCEPT !.pending = Pending("which", None)], "which")
      ELSE Reply(repaired, None)

Recommend(s) == Reply([s EXCEPT !.recommended = TRUE], "informed")

ConfirmPending(s) ==
  CASE s.pending.type = "addAll" ->
         Reply([s EXCEPT !.order = AddEach(@, DishesOf[s.pending.of]),
                         !.pending = NoPending, !.stage = "ordering"], None)
    [] s.pending.type = "removeAll" ->
         Reply([s EXCEPT !.order = Without(@, Range(DishesOf[s.pending.of])),
                         !.pending = NoPending], None)
    [] s.pending.type = "clear" ->
         Reply([s EXCEPT !.order = <<>>, !.pending = NoPending, !.stage = "ordering",
                         !.snapshot = NoSnapshot], None)
    [] s.pending.type = "item" ->
         Reply([s EXCEPT !.order = AddLine(@, s.pending.of, FALSE, 1),
                         !.pending = NoPending, !.stage = "ordering",
                         !.last = s.pending.of], None)

(* The first thing missing before the order can be submitted. *)
Missing(s) ==
  CASE s.order = <<>> -> "dishes"
    [] s.order # <<>> /\ s.fulfillment = "delivery" /\ s.address = None -> "address"
    [] s.order # <<>> /\ s.fulfillment = "delivery" /\ s.address # None
         /\ s.phone = None -> "phone"
    [] OTHER -> None

Confirm_AddressIsEnough(s) ==
  IF s.pending.type \notin {None, "which"} THEN ConfirmPending(s)
  ELSE IF Missing(s) \in {"dishes", "address"} THEN Reply(s, None)
       ELSE Reply([s EXCEPT !.submitted = TRUE, !.stage = "submitted"], None)
Confirm(s) ==
  IF s.pending.type \notin {None, "which"} THEN ConfirmPending(s)
  ELSE CASE Missing(s) = "dishes" -> Reply(s, None)
         [] Missing(s) = "address" -> Reply([s EXCEPT !.stage = "collecting_address"], "where")
         [] Missing(s) = "phone" -> Reply([s EXCEPT !.stage = "collecting_phone"], "phone")
         [] OTHER -> Reply([s EXCEPT !.submitted = TRUE, !.stage = "submitted"], None)

Cancel(s) ==
  CASE s.pending # NoPending -> Reply([s EXCEPT !.pending = NoPending], None)
    [] s.pending = NoPending /\ s.order # <<>> ->
         Reply([s EXCEPT !.pending = Pending("clear", None)], "clear")
    [] OTHER -> Reply([s EXCEPT !.recommended = FALSE], None)

(* "If it costs no more than ..., one of it": asked about, not added. *)
ConditionalOrder(s, item) == Reply([s EXCEPT !.pending = Pending("item", item)], "item")

-----------------------------------------------------------------------------
(* What the customer may say, one record for each intent the rule router   *)
(* returns.  "that" and "it" are references; a fragment is a piece of a    *)
(* name that several dishes share, part one that belongs to a single dish. *)

Orders == [k : {"order"}, item : Spoken, n : {1, 2}] \cup [k : {"both"}]
          \cup [k : {"category"}, of : Categories]
          \cup [k : {"repeat", "recommend", "fragment"}]
          \cup [k : {"part"}, item : Range(Fragment) \cap Spoken]
          \cup [k : {"if"}, item : Spoken]
Changes == [k : {"less", "mild", "set_two", "remove", "replace_with"}, item : Spoken]
           \cup [k : {"mild_it", "clear"}]
           \cup [k : {"remove_category"}, of : Categories]
           \cup {r \in [k : {"replace"}, item : Spoken, new : Spoken] : r.item # r.new}
References == [k : {"reference"}, ref : {"first", "second", "first_ordered", "that"},
               verb : {"take", "remove", "set_two", "mild"}, new : {None}]
              \cup [k : {"reference"}, ref : {"first", "that"}, verb : {"replace"},
                    new : Spoken]
Deliveries == [k : {"pickup", "delivery", "phone", "ask_when"}]
              \cup [k : {"address", "place", "ask_where"}, a : Addresses]
              \cup [k : {"order_pickup"}, item : Spoken]
              \cup [k : {"order_fee"}, item : Spoken, a : Addresses]
Answers == [k : {"yes", "no"}]
Asides == [k : {"menu", "hello", "hold", "nonsense"}]
Complaint == [k |-> "correct"]

-----------------------------------------------------------------------------
(* Understanding: the intent, in the context of the session.               *)

Intent(name) == [intent |-> name]
Food(item, n, mild) == [intent |-> "order_food", item |-> item, n |-> n, mild |-> mild]
Clarify(why) == [intent |-> "context_correction", why |-> why]
SetTo(at, n) == [intent |-> "update_item_quantity", at |-> at, n |-> n]
Adjust(at) == [intent |-> "update_item_option", at |-> at]

(* "One less": the first line of the dish says how many there are. *)
OneLess(s, item) ==
  LET lines == Named(s.order, item)
      left == s.order[Min(lines)].qty - 1
  IN  CASE lines = {} -> Food(item, 1, FALSE)
        [] lines # {} /\ left = 0 -> [intent |-> "remove_item", item |-> item]
        [] OTHER -> SetTo(lines, left)

(* A wish for a dish goes to its line when there is exactly one. *)
Modifier(s, item) ==
  LET lines == Named(s.order, item)
  IN  CASE lines = {} -> Food(item, 1, TRUE)
        [] Cardinality(lines) = 1 -> Adjust(lines)
        [] OTHER -> Clarify("ambiguous")

ModifierOfIt(s) ==
  CASE s.order = <<>> -> Intent("ask_recommendation")
    [] Len(s.order) = 1 -> Adjust({1})
    [] OTHER -> Clarify("ambiguous")

Replacement(s, old, new) == [intent |-> "replace_item", item |-> old, new |-> new]
ReplaceWith(s, new) ==
  IF Len(s.order) = 1 THEN Replacement(s, s.order[1].item, new) ELSE Clarify("ambiguous")

(* Does "the first" mean the order or the recommendations? *)
Domain(s, said) ==
  LET ordered == s.order # <<>>
      destroys == said.verb \in {"remove", "set_two", "replace"}
      changes == destroys \/ said.verb = "mild"
  IN  CASE said.ref = "first_ordered" -> IF ordered THEN "order" ELSE "ambiguous"
        [] said.ref # "first_ordered" /\ s.recommended /\ ~ordered ->
             IF destroys THEN "ambiguous" ELSE "recommendation"
        [] said.ref # "first_ordered" /\ ~(s.recommended /\ ~ordered) /\ changes ->
             IF ordered THEN "order" ELSE "ambiguous"
        [] OTHER -> IF s.recommended THEN "recommendation"
                    ELSE IF ordered THEN "order" ELSE None

IndexOf(said) ==
  CASE said.ref \in {"first", "first_ordered"} -> 1 [] said.ref = "second" -> 2 [] OTHER -> 0

(* "that" is the line when the order has only one. *)
LineOf(s, said) ==
  IF IndexOf(said) = 0 /\ Len(s.order) = 1 THEN 1 ELSE IndexOf(said)

ReferenceToOrder(s, said) ==
  LET i == LineOf(s, said)
  IN  CASE i \notin DOMAIN s.order -> Clarify("ambiguous")
        [] i \in DOMAIN s.order /\ said.verb = "remove" ->
             [intent |-> "remove_index", i |-> i]
        [] i \in DOMAIN s.order /\ said.verb = "set_two" -> SetTo({i}, 2)
        [] i \in DOMAIN s.order /\ said.verb = "mild" -> Adjust({i})
        [] i \in DOMAIN s.order /\ said.verb = "replace" ->
             Replacement(s, s.order[i].item, said.new)
        [] OTHER -> Clarify("unresolved")

ReferenceToRecommendation(s, said) ==
  IF IndexOf(said) \in DOMAIN Recommended
  THEN [intent |-> "select_recommendation", i |-> IndexOf(said),
        mild |-> said.verb = "mild"]
  ELSE Clarify("ambiguous")

Resolved(s, said) ==
  CASE Domain(s, said) = "order" -> ReferenceToOrder(s, said)
    [] Domain(s, said) = "recommendation" -> ReferenceToRecommendation(s, said)
    [] OTHER -> Clarify("unresolved")

(* "The first" answers the question which of several dishes is meant. *)
Chosen(s, said) ==
  s.pending.type = "which" /\ said.ref \in {"first", "second"} /\ said.verb = "take"
Reference(s, said) ==
  IF Chosen(s, said) THEN Food(Fragment[Min({IndexOf(said), Len(Fragment)})], 1, FALSE)
  ELSE Resolved(s, said)

(* A piece of a name picks its dish, unless it points at the order. *)
PartOfName(s, item) ==
  IF s.pending.type = "which" \/ s.recommended \/ s.order = <<>>
  THEN Food(item, 1, FALSE) ELSE Clarify("unresolved")

(* A bare place is the address once one was asked for; else a candidate.   *)
Place(s, a) ==
  CASE s.stage = "collecting_address" -> [intent |-> "provide_address", a |-> a]
    [] s.stage = "collecting_phone" -> Intent("fallback")
    [] OTHER -> [intent |-> "replace_candidate", a |-> a]

Yes(s) == Intent(IF s.candidate # None THEN "confirm_candidate" ELSE "confirm")
No(s) ==
  CASE s.pending.type = "which" -> Intent("cancel_selection")
    [] s.pending.type # "which" /\ s.candidate # None -> Intent("reject_candidate")
    [] OTHER -> Intent("cancel")

Understood(s, said) ==
  CASE said.k = "order" -> Food(said.item, said.n, FALSE)
    [] said.k = "less" -> OneLess(s, said.item)
    [] said.k = "mild" -> Modifier(s, said.item)
    [] said.k = "mild_it" -> ModifierOfIt(s)
    [] said.k = "both" -> Intent("order_multiple_items")
    [] said.k = "category" -> [intent |-> "order_category_items", of |-> said.of]
    [] said.k = "repeat" -> Intent("repeat_last_item")
    [] said.k = "recommend" -> Intent("ask_recommendation")
    [] said.k = "fragment" -> Clarify("which")
    [] said.k = "part" -> PartOfName(s, said.item)
    [] said.k = "if" -> [intent |-> "conditional_order", item |-> said.item]
    [] said.k = "set_two" -> SetTo(Named(s.order, said.item), 2)
    [] said.k = "remove" -> [intent |-> "remove_item", item |-> said.item]
    [] said.k = "remove_category" -> [intent |-> "remove_category_items", of |-> said.of]
    [] said.k = "replace" -> IF s.order = <<>> THEN Clarify("ambiguous")
                             ELSE Replacement(s, said.item, said.new)
    [] said.k = "replace_with" -> ReplaceWith(s, said.item)
    [] said.k = "clear" -> Intent("clear_order")
    [] said.k = "reference" -> Reference(s, said)
    [] said.k \in {"pickup", "delivery"} -> [intent |-> "fulfillment", how |-> said.k]
    [] said.k = "address" -> [intent |-> "provide_address", a |-> said.a]
    [] said.k = "place" -> Place(s, said.a)
    [] said.k = "phone" -> Intent("provide_phone")
    [] said.k = "ask_when" -> [intent |-> "ask_delivery", a |-> None]
    [] said.k = "ask_where" -> [intent |-> "ask_delivery", a |-> said.a]
    [] said.k = "order_pickup" -> [intent |-> "composite", item |-> said.item, a |-> None]
    [] said.k = "order_fee" -> [intent |-> "composite", item |-> said.item, a |-> said.a]
    [] said.k = "yes" -> Yes(s)
    [] said.k = "no" -> No(s)
    [] said.k = "menu" -> Intent("ask_menu")
    [] said.k = "hello" -> Intent("smalltalk")
    [] said.k = "hold" -> Intent("hold_order")
    [] said.k = "nonsense" -> Intent("fallback")
    [] said.k = "correct" -> Clarify("correction")

-----------------------------------------------------------------------------
(* One turn: stale questions expire, an agent answers, the change is kept. *)

Asks(i) == i.intent \in NoMutation \cup {"fallback", "ask_recommendation"}

PendingExpires_ClearOnly(s, i) == s.pending.type = "clear" /\ Asks(i)
PendingExpires(s, i) ==
  /\ i.intent \notin {"confirm", "cancel", "cancel_selection"}
  /\ \/ s.pending.type = "clear" /\ Asks(i)
     \/ s.pending.type = "which" /\ i.intent \in NoMutation \ {"hold_order"}
     \/ s.pending.type \in {"addAll", "removeAll", "item"}

Expired(s, i) ==
  [s EXCEPT !.pending = IF PendingExpires(s, i) THEN NoPending ELSE @,
            !.candidate = IF i.intent \in KeepsCandidate THEN @ ELSE None]

(* The parts of "a dish, and pick it up" are answered one after the other. *)
Composite(s, i) ==
  LET first == OrderFood(s, i.item, 1, FALSE).session
  IN  IF i.a = None THEN ChooseFulfillment(first, "pickup") ELSE AskDelivery(first, i.a)

Dispatch(s, i) ==
  CASE i.intent = "order_food" -> OrderFood(s, i.item, i.n, i.mild)
    [] i.intent = "select_recommendation" -> SelectRecommendation(s, i.i, i.mild)
    [] i.intent = "order_multiple_items" -> OrderMultiple(s, Fragment)
    [] i.intent = "order_category_items" -> OrderCategory(s, i.of)
    [] i.intent = "repeat_last_item" -> RepeatLast(s)
    [] i.intent = "ask_recommendation" -> Recommend(s)
    [] i.intent = "conditional_order" -> ConditionalOrder(s, i.item)
    [] i.intent = "update_item_option" -> UpdateOption(s, i.at)
    [] i.intent = "update_item_quantity" -> UpdateQuantity(s, i.at, i.n)
    [] i.intent = "remove_item" -> RemoveItem(s, i.item)
    [] i.intent = "remove_index" -> RemoveIndex(s, i.i)
    [] i.intent = "remove_category_items" -> RemoveCategory(s, i.of)
    [] i.intent = "replace_item" -> ReplaceItem(s, i.item, i.new)
    [] i.intent = "clear_order" -> ClearOrder(s)
    [] i.intent = "fulfillment" -> ChooseFulfillment(s, i.how)
    [] i.intent = "provide_address" -> ProvideAddress(s, i.a)
    [] i.intent = "replace_candidate" -> AddressCandidate(s, i.a)
    [] i.intent = "confirm_candidate" -> ConfirmCandidate(s)
    [] i.intent = "reject_candidate" -> RejectCandidate(s)
    [] i.intent = "provide_phone" -> ProvidePhone(s)
    [] i.intent = "ask_delivery" -> AskDelivery(s, i.a)
    [] i.intent = "composite" -> Composite(s, i)
    [] i.intent = "context_correction" -> Repair(s, i.why)
    [] i.intent = "confirm" -> Confirm(s)
    [] i.intent = "cancel" -> Cancel(s)
    [] i.intent = "cancel_selection" -> Reply([s EXCEPT !.pending = NoPending], None)
    [] i.intent = "ask_menu" -> Reply(s, "informed")
    [] i.intent \in {"smalltalk", "hold_order", "fallback"} -> Reply(s, None)

Changed(s, s2) == {f \in Undoable : s[f] # s2[f]}
                  \cup IF s2.submitted THEN {"submitted"} ELSE {}

Remembered_Emptied(s, s2) ==
  IF Changed(s, s2) = {} THEN s2.snapshot ELSE [f \in Changed(s, s2) |-> s[f]]

(* What an undo needs: the former values of the fields this turn changed.  *)
Remembered(s, s2) ==
  CASE Changed(s, s2) = {} -> s2.snapshot
    [] Changed(s, s2) # {} /\ s.order # <<>> /\ s2.order = <<>> -> NoSnapshot
    [] OTHER -> [f \in Changed(s, s2) |-> s[f]]

CanUndo(s) == s.snapshot # NoSnapshot
Undone(s) ==
  [f \in DOMAIN s |->
     CASE f = "snapshot" -> NoSnapshot
       [] f = "pending" -> NoPending
       [] f \notin {"snapshot", "pending"} /\ f \in DOMAIN s.snapshot -> s.snapshot[f]
       [] OTHER -> s[f]]

Kept(before, s, i) ==
  CASE i = Clarify("correction") /\ CanUndo(s) -> Undone(s)
    [] i.intent = "clear_order" -> s
    [] OTHER -> [s EXCEPT !.snapshot = Remembered(before, s)]

(* Not said: to put a dish in its own place (the line loses its unit). *)
Sensible(i) == i.intent = "replace_item" => i.item # i.new

InBounds(s) ==
  /\ Len(s.order) <= MaxLines
  /\ \A l \in Range(s.order) : l.qty <= MaxQuantity

History(s2, asks) ==
  /\ listed' = CASE asks = "clear" -> session.order
                 [] asks # "clear" /\ s2.pending.type = "clear" -> listed
                 [] OTHER -> <<>>
  /\ earlier' = IF Draft(s2) # Draft(session) THEN Draft(session) ELSE earlier
  /\ turns' = turns + 1

(* The agent's answer counts unless the intent may not change the draft. *)
Allowed(i, expired, answer) ==
  IF i.intent \in NoMutation /\ Draft(answer) # Draft(expired) THEN expired ELSE answer

Answered(said) ==
  \E i \in {Understood(session, said)} : \E expired \in {Expired(session, i)} :
  \E reply \in {Dispatch(expired, i)} :
  \E s2 \in {Kept(session, Allowed(i, expired, reply.session), i)} :
    /\ Sensible(i) /\ InBounds(s2)
    /\ session' = s2
    /\ asked' = reply.asks
    /\ History(s2, reply.asks)

Turn(said) == /\ turns < MaxTurns
              /\ ~session.submitted
              /\ Answered(said)

(* A submitted order is locked; only asking for a new order does anything. *)
NewOrder == /\ turns < MaxTurns
            /\ session.submitted
            /\ session' = Fresh
            /\ asked' = None
            /\ History(Fresh, None)

Ordering == \E said \in Orders : Turn(said)
Changing == \E said \in Changes : Turn(said)
Referring == \E said \in References : Turn(said)
Delivering == \E said \in Deliveries : Turn(said)
Answering == \E said \in Answers : Turn(said)
Chatting == \E said \in Asides : Turn(said)
Complaining == Turn(Complaint)

DialogueInit ==
  /\ session = Fresh /\ asked = None
  /\ listed = <<>> /\ earlier = Draft(Fresh) /\ turns = 0

DialogueNext ==
  \/ Ordering
  \/ Changing
  \/ Referring
  \/ Delivering
  \/ Answering
  \/ Chatting
  \/ Complaining
  \/ NewOrder

DialogueSpec == DialogueInit /\ [][DialogueNext]_vars

-----------------------------------------------------------------------------
(* Properties.                                                             *)

(* Every line of the order is a dish of the menu with a quantity of one or *)
(* more, and the dialogue's other fields keep to their values.             *)
DialogueTypeOK ==
  /\ session.order \in Seq(Line)
  /\ session.pending.type \in {None, "clear", "addAll", "removeAll", "item", "which"}
  /\ {session.candidate, session.address} \subseteq Addresses \cup {None}
  /\ session.phone \in {"phone", None}
  /\ session.fulfillment \in {"delivery", "pickup"}
  /\ session.stage \in Stages
  /\ session.last \in Items \cup {None}
  /\ DOMAIN session.snapshot \subseteq Undoable \cup {"submitted"}

(* No path through the conversation submits an order that lacks what the   *)
(* customer was to be asked for: dishes, and for a delivery the address    *)
(* and a phone number, whatever was undone, removed or replaced before.    *)
SubmittedIsComplete == session.submitted => Missing(session) = None

(* While the dialogue waits for the phone number (a bare address is then   *)
(* not listened to), the address is there and the number is not, whatever  *)
(* undo, change of mind or question came in between.                       *)
PhoneIsWhatIsMissing ==
  session.stage = "collecting_phone" => session.address # None /\ session.phone = None

DialogueInvariant ==
  DialogueTypeOK /\ SubmittedIsComplete /\ PhoneIsWhatIsMissing

(* "That was wrong" gives back the very draft before the last turn that    *)
(* changed it, or nothing; it never brings dishes back into an empty order.*)
DraftChanges == Draft(session') # Draft(session)
Complained == Turn(Complaint)
UndoIsExact ==
  [][DraftChanges /\ Complained =>
       /\ Draft(session') = earlier
       /\ (session.order = <<>> => session'.order = <<>>)]_vars

(* A yes adds dishes only when the last reply asked whether to add them,   *)
(* takes a part of the order away only when it asked that, and takes over  *)
(* an address only when one waits for the answer.                          *)
SaidYes == Turn([k |-> "yes"])
Total(order) == Portions(order, Items)
YesAnswersTheQuestion ==
  [][DraftChanges /\ SaidYes =>
       /\ Total(session'.order) > Total(session.order) => asked \in {"addAll", "item"}
       /\ Total(session'.order) < Total(session.order) /\ session'.order # <<>>
            => asked = "removeAll"
       /\ session'.address # session.address => session'.address = session.candidate]_vars

(* A yes that empties the order drops only what was in it when the         *)
(* customer was asked whether to clear it (a dish added, doubled or swapped *)
(* in since is safe); and once a question about the menu, a price or a     *)
(* delivery was answered, it no longer empties it: the "cancel" has lapsed. *)
YesClearsWhatWasAsked ==
  [][session.order # <<>> /\ session'.order = <<>> /\ SaidYes =>
       /\ asked \notin {"informed", "address"}
       /\ session.pending.type = "clear" =>
            \A item \in Items :
              Portions(session.order, {item}) <= Portions(listed, {item})]_vars
=============================================================================
