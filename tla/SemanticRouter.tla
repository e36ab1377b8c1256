--------------------------- MODULE SemanticRouter ---------------------------
(***************************************************************************)
(* The rule router of the ordering dialogue (agents/semantic_router.py     *)
(* with semantic_rules.py and semantic_evidence.py): one Chinese utterance *)
(* is matched against token lists by an ordered list of some thirty rules, *)
(* and the first rule that applies names the intent.                       *)
(*                                                                         *)
(* An utterance is a sequence of phrases; punctuation and spaces between   *)
(* them are removed before matching (_compact), so every rule sees all of  *)
(* them at once.  Cues[p] names the token lists of the source that match   *)
(* phrase p.  An interpretation is an intent and the changes it asks for.  *)
(***************************************************************************)
EXTENDS Naturals, Sequences, FiniteSets, FiniteSetsExt, SequencesExt

CONSTANTS Phrases,     \* the phrases a customer may say
          MaxPhrases   \* bound on the length of an utterance; one that names
                       \* two dishes may have one phrase more

Rice == "rice"         \* a dish whose name contains a category word
Potato == "potato"     \* a dish that belongs to no matched category
PhoneDigits == 99      \* the eleven digits of a phone number, as a quantity

(* The token lists each phrase matches.  rice is niu rou fan, shop is the  *)
(* same words followed by dian (a place named after the dish), buyao is    *)
(* bu yao, buyaole is bu yao le, the rest is named by its meaning.         *)
Cues ==
  [ rice        |-> {"item", "category", "dish_marker"},
    potato      |-> {"item"},
    shop        |-> {"item", "category", "dish_marker", "place"},
    drinks      |-> {"category", "exact_category"},
    staple      |-> {"category", "exact_category", "group", "staple", "preference"},
    eats        |-> {"group"},
    one         |-> {"add", "order_token", "ref_change", "unit"},
    two         |-> {"add", "counted", "number", "unit"},
    again       |-> {"add", "order_token", "ref_change", "unit", "again"},
    each        |-> {"add", "order_token", "ref_change", "unit", "each"},
    buyao       |-> {"buyao", "order_token"},
    buyaole     |-> {"buyao", "order_token", "remove", "negates", "ref_change"},
    delete      |-> {"delete", "remove", "ref_change"},
    cancel      |-> {"cancel_word"},
    nospice     |-> {"modifier", "option_change", "option_word", "not_spicy",
                     "update", "preference", "ref_change"},
    nocoriander |-> {"modifier", "option_change", "option_word", "buyao",
                     "not_removal", "order_token", "update", "preference",
                     "ref_change"},
    note        |-> {"modifier", "update"},
    changeto    |-> {"set_to", "negates", "update", "ref_change"},
    swapto      |-> {"swap", "negates", "ref_change"},
    sendto      |-> {"marker", "fee_place"},
    campus      |-> {"place", "fee_place"},
    phone       |-> {"phone"},
    pickup      |-> {"pickup", "not_an_item"},
    delivery    |-> {"deliver", "not_an_item", "add", "order_token"},
    question    |-> {"question", "asks"},
    howmuch     |-> {"question", "asks", "how_much", "price", "negates"},
    howlong     |-> {"question", "asks", "eta", "no_place"},
    candeliver  |-> {"question", "asks", "can_deliver", "marker", "fee_place",
                     "option_word"},
    fee         |-> {"fee", "not_an_item", "no_place"},
    price       |-> {"price", "cheapest", "price_word", "negates"},
    have        |-> {"question", "asks", "available", "has_word"},
    contains    |-> {"question", "asks", "ingredient", "has_word", "what_is_there",
                     "category", "dish_marker"},
    allergy     |-> {"allergen"},
    recommend   |-> {"recommend"},
    best        |-> {"ranking"},
    this        |-> {"reference", "unit"},
    if          |-> {"if"},
    ok          |-> {"confirm"},
    clear       |-> {"clear", "not_an_item", "order_word"},
    hello       |-> {"smalltalk"},
    nice        |-> {"statement"},
    notordered  |-> {"correction", "order_token"},
    bypass      |-> {"skip_confirm", "submit", "no_place"} ]

ASSUME PhrasesAssumption == Phrases \subseteq DOMAIN Cues
ASSUME MaxPhrasesAssumption == MaxPhrases \in Nat

-----------------------------------------------------------------------------
(* Matching.  The tokens of a rule are looked for anywhere in the text.    *)

OrderActions == {"order_token", "counted"}

Has(u, cue) == \E i \in DOMAIN u : cue \in Cues[u[i]]
HasAny(u, cues) == \E c \in cues : Has(u, c)
Is(u, cue) == Len(u) = 1 /\ Has(u, cue)

(* text.startswith("bu yao") *)
StartsWithNot(u) == u # <<>> /\ "buyao" \in Cues[u[1]]

Dish(p) == CASE p \in {"rice", "shop"} -> Rice
             [] p = "potato" -> Potato
             [] OTHER -> "none"

DishAt(u, i) == "item" \in Cues[u[i]]

(* The items named, the first place where one is, and the first of them. *)
ItemsInText(u) == {Dish(u[i]) : i \in {j \in DOMAIN u : DishAt(u, j)}}
Position(u, item) == Min({i \in DOMAIN u : Dish(u[i]) = item})
FirstNamed(u, items) ==
  CHOOSE item \in items : \A other \in items : Position(u, item) <= Position(u, other)
ItemByName(u) == FirstNamed(u, ItemsInText(u))
TwoItems(u) == Cardinality(ItemsInText(u)) >= 2

(* A name is no order of the dish when a place word follows it. *)
NamedAsDish_Anywhere(u, i) == DishAt(u, i)
NamedAsDish(u, i) == DishAt(u, i) /\ u[i] # "shop"

(* The rules look for a token within a window of characters around a dish. *)
Width(p) ==
  CASE p \in {"question"} -> 1
    [] p \in {"rice", "one", "buyaole", "howmuch", "howlong", "candeliver", "fee",
              "have", "best", "notordered"} -> 3
    [] p \in {"shop", "again", "each", "nocoriander", "note", "campus", "delivery",
              "clear"} -> 4
    [] p \in {"potato", "contains", "nice"} -> 5
    [] p \in {"phone", "bypass"} -> 9
    [] OTHER -> 2
Gap(u, i, j) ==
  FoldSeq(LAMBDA p, n : Width(p) + n, 0, SubSeq(u, Min({i, j}) + 1, Max({i, j}) - 1))

-----------------------------------------------------------------------------
(* Evidence (semantic_evidence.py). *)

AddEvidence(u) == Has(u, "add")
RemoveEvidence(u) ==
  \/ Has(u, "remove")
  \/ Has(u, "buyao") /\ ~Has(u, "option_change")
NonOrderingStatement(u) ==
  /\ ~Has(u, "asks")
  /\ ~AddEvidence(u)
  /\ Has(u, "statement")

Question(u) == Has(u, "question")
LooksLikeAddress(u) == Has(u, "place") /\ ~Has(u, "no_place")
ExplicitOrderAction(u) == ~StartsWithNot(u) /\ HasAny(u, OrderActions)

(* bu yao next to a dish is about one of its ingredients. *)
OptionNotRemoval(u, item) ==
  \E i, j \in DOMAIN u :
    /\ Dish(u[i]) = item /\ NamedAsDish(u, i)
    /\ "not_removal" \in Cues[u[j]]
    /\ \/ j > i /\ Gap(u, i, j) <= 8
       \/ j = i - 1

HasOrderEvidence(u, i) ==
  /\ NamedAsDish(u, i)
  /\ \E j \in DOMAIN u : /\ Cues[u[j]] \cap OrderActions # {}
                        /\ Gap(u, i, j) <= IF u[j] = "each" THEN 5 ELSE 6
OrderedItems(u) ==
  {item \in ItemsInText(u) : \E i \in DOMAIN u : Dish(u[i]) = item /\ HasOrderEvidence(u, i)}

(* The digits of the text come before its number words; "changed to two"   *)
(* comes before both.                                                      *)
Quantity(u) ==
  CASE \E i \in DOMAIN u : u[i] = "changeto" /\ i < Len(u) /\ u[i + 1] = "two" -> 2
    [] OTHER ->
        IF Has(u, "phone") THEN PhoneDigits
        ELSE LET counts == {i \in DOMAIN u : u[i] \in {"one", "two", "again", "each"}}
             IN  IF counts # {} /\ u[Min(counts)] = "two" THEN 2 ELSE 1

(* The text of an item in a list: from its name to the next item's name. *)
NextItem(u, item) ==
  Min({Position(u, other) : other \in {o \in ItemsInText(u) :
                               Position(u, o) > Position(u, item)}} \cup {Len(u) + 1})
Segment(u, item) == SubSeq(u, Position(u, item), NextItem(u, item) - 1)

-----------------------------------------------------------------------------
(* Interpretations. *)

Change(do, on, quantity) == [do |-> do, on |-> on, quantity |-> quantity]
Says(intent, changes) == [intent |-> intent, changes |-> changes]
Asks(intent) == Says(intent, {})
NoMatch == Asks("none")

Adds(item, u) == Change("order_food", item, Quantity(u))
Address == Change("provide_delivery_address", "none", 0)
Phone == Change("provide_phone", "none", 0)
Fulfillment(type) == Change("provide_fulfillment_slot", type, 0)
Removes(item) == Change("remove_item", item, 0)

OneOf(rules) ==
  LET matching == {i \in DOMAIN rules : rules[i] # NoMatch}
  IN  IF matching = {} THEN NoMatch ELSE rules[Min(matching)]

-----------------------------------------------------------------------------
(* The rules, in the order of interpret. *)

ContextCorrection(u) == IF Has(u, "correction") THEN Asks("context_correction") ELSE NoMatch

UnsafeRequest(u) ==
  IF \/ Has(u, "skip_confirm") /\ Has(u, "submit")
     \/ Has(u, "price_word") /\ Has(u, "set_to")
     \/ Has(u, "fee") /\ Has(u, "set_to")
  THEN Asks("reject_request") ELSE NoMatch

(* A condition proposes an order that a later "yes" confirms. *)
ConditionalOrder(u) ==
  IF /\ Has(u, "if")
     /\ Has(u, "item")
     /\ HasAny(u, {"how_much", "not_spicy", "has_word"})
  THEN Asks("conditional_order") ELSE NoMatch

DeliveryChild(u) ==
  IF Has(u, "fee") \/ (Has(u, "how_much") /\ Has(u, "fee_place")) THEN "ask_delivery_fee"
  ELSE IF Has(u, "eta") THEN "ask_delivery_eta"
  ELSE IF Has(u, "can_deliver") THEN "ask_deliverability"
  ELSE "none"

BulkChild(u) ==
  IF ~Has(u, "each") \/ HasAny(u, {"recommend", "what_is_there"}) THEN {}
  ELSE IF Has(u, "group") /\ ~Has(u, "category")
       THEN {Change("order_category_group_items", "none", Quantity(u))}
  ELSE IF Has(u, "category")
       THEN {Change("order_category_items", "none", Quantity(u))}
  ELSE {}

(* Each item's text starts at the last "lai", "jia" or "pei" between the   *)
(* item before it and its own name.                                        *)
CompositeSegment(u, item) ==
  LET at == Position(u, item)
      earlier == {i \in DOMAIN u : i < at /\ DishAt(u, i) /\ Dish(u[i]) # item}
      starts == {i \in 1..(at - 1) : /\ \A j \in earlier : i > j
                                     /\ u[i] \in {"one", "again", "each", "delivery", "fee"}}
  IN  SubSeq(u, IF starts = {} THEN at ELSE Max(starts), NextItem(u, item) - 1)

CompositeOrders(u) ==
  IF BulkChild(u) # {} THEN BulkChild(u)
  ELSE {Adds(item, CompositeSegment(u, item)) : item \in ItemsInText(u)}

(* Only an order together with a delivery question is split. *)
Composite(u) ==
  IF DeliveryChild(u) # "none" /\ CompositeOrders(u) # {}
  THEN Says("composite_intent", CompositeOrders(u)) ELSE NoMatch

ReferenceChanges(u) == Has(u, "ref_change")

ContextReference(u) ==
  IF /\ Has(u, "reference") /\ ~Has(u, "can_deliver")
     /\ HasAny(u, {"ref_change", "item"})
  THEN Says("context_reference_resolution",
            IF ReferenceChanges(u) THEN {Change("reference", "none", Quantity(u))} ELSE {})
  ELSE NoMatch

ExactWords(u) ==
  CASE Is(u, "clear") -> Says("clear_order", {Change("clear_order", "none", 0)})
    [] Is(u, "confirm") -> Asks("confirm")
    [] Is(u, "cancel_word") \/ u = <<"buyaole">> -> Asks("cancel")
    [] OTHER -> NoMatch

(* The text after the last address marker, up to the phone number. *)
AddressAfterMarker(u) ==
  LET marks == {i \in DOMAIN u : "marker" \in Cues[u[i]]}
      from == Max(marks) + 1
      to == Min({i \in from..Len(u) : u[i] = "phone"} \cup {Len(u) + 1}) - 1
  IN  marks # {} /\ LooksLikeAddress(SubSeq(u, from, to))

AddressPhoneMix(u) ==
  LET ordered == OrderedItems(u)
      addressed == AddressAfterMarker(u) \/ LooksLikeAddress(u)
      children == {Adds(item, u) : item \in ordered}
                    \cup (IF addressed THEN {Address} ELSE {})
  IN  IF ~Has(u, "phone") THEN NoMatch
      ELSE IF Cardinality(ordered) > 1 THEN Asks("context_correction")
      ELSE IF children # {} THEN Says("composite_intent", children \cup {Phone})
      ELSE Says("provide_phone", {Phone})

VagueOrderQuestion(u) ==
  IF /\ AddEvidence(u) /\ (Question(u) \/ Has(u, "fee"))
     /\ ~Has(u, "item") /\ Has(u, "category")
  THEN Asks("context_correction") ELSE NoMatch

Delivery(u) ==
  IF Has(u, "fee") \/ (Has(u, "how_much") /\ Has(u, "fee_place") /\ ~Has(u, "item"))
  THEN Asks("ask_delivery_fee")
  ELSE IF Has(u, "eta") THEN Asks("ask_delivery_eta")
  ELSE IF Has(u, "can_deliver") THEN Asks("ask_deliverability")
  ELSE NoMatch

NonOrdering(u) ==
  IF Has(u, "item") /\ NonOrderingStatement(u) THEN Asks("context_correction") ELSE NoMatch

OptionQuestion(u) == Question(u) /\ Has(u, "option_word")
CategoryQuestion(u) ==
  /\ ~HasAny(u, {"recommend", "each"})
  /\ Has(u, "category")
  /\ Has(u, "what_is_there") \/ Is(u, "exact_category")

MenuInformation(u) ==
  IF Has(u, "recommend") THEN NoMatch
  ELSE IF Has(u, "allergen") THEN Asks("ask_allergen")
  ELSE IF Has(u, "item") /\ Has(u, "ingredient") THEN Asks("ask_ingredient")
  ELSE IF \E i \in 1..(Len(u) - 1) : u[i] = "have" /\ u[i + 1] = "nospice"
       THEN Asks("ask_recommendation_by_preference")
  ELSE IF Has(u, "item") /\ Has(u, "price") THEN Asks("ask_price")
  ELSE IF HasAny(u, {"category", "cheapest"}) /\ Has(u, "price") THEN Asks("ask_price")
  ELSE IF Has(u, "item") /\ OptionQuestion(u) THEN Asks("ask_option")
  ELSE IF Has(u, "available") THEN Asks("ask_availability")
  ELSE IF Has(u, "staple") /\ (Has(u, "what_is_there") \/ Len(u) = 1)
       THEN Asks("ask_category_group")
  ELSE IF CategoryQuestion(u) THEN Asks("ask_category")
  ELSE IF Has(u, "item") /\ Question(u) THEN Asks("ask_ingredient")
  ELSE NoMatch

UnknownItemOption(u) ==
  IF /\ ~Has(u, "item") /\ Has(u, "dish_marker")
     /\ Has(u, "option_change")
  THEN Asks("context_correction") ELSE NoMatch

Recommendation(u) ==
  IF Has(u, "item") /\ ~Has(u, "recommend") THEN NoMatch
  ELSE IF Has(u, "ranking") THEN Asks("ask_recommendation_by_category_ranked")
  ELSE IF Has(u, "recommend") /\ Has(u, "category") THEN Asks("ask_recommendation_by_category")
  ELSE IF Has(u, "preference") THEN Asks("ask_recommendation_by_preference")
  ELSE IF Is(u, "recommend") THEN Asks("ask_recommendation")
  ELSE NoMatch

(* The address is what precedes the order words and the dish, or what      *)
(* stands between "send to" and the dish.                                  *)
MixedAddress(u, item) ==
  LET at == Min({i \in DOMAIN u : Dish(u[i]) = item /\ HasOrderEvidence(u, i)})
      tokens == {i \in 1..(at - 1) : "order_token" \in Cues[u[i]]}
      boundary == IF tokens = {} THEN at ELSE Min(tokens)
      marks == {i \in 1..(at - 1) : "marker" \in Cues[u[i]]}
  IN  IF boundary > 1 \/ marks = {}
      THEN LooksLikeAddress(SubSeq(u, 1, boundary - 1))
      ELSE LooksLikeAddress(SubSeq(u, Min(marks), at - 1))

AddressOrderMix(u) ==
  LET ordered == OrderedItems(u)
  IN  IF ~(LooksLikeAddress(u) /\ ExplicitOrderAction(u)) THEN NoMatch
      ELSE IF ordered = {} /\ AddressAfterMarker(u) THEN NoMatch
      ELSE IF Cardinality(ordered) # 1 THEN Asks("fallback")
      ELSE IF \A item \in ordered : MixedAddress(u, item) THEN
             Says("composite_intent", {Adds(item, u) : item \in ordered} \cup {Address})
      ELSE Says("order_food", {Adds(item, u) : item \in ordered})

DirectAddress_Questions(u) ==
  IF Has(u, "phone") THEN NoMatch
  ELSE IF Has(u, "item") /\ ExplicitOrderAction(u) THEN NoMatch
  ELSE IF Has(u, "marker") /\ LooksLikeAddress(u)
       THEN Says("provide_delivery_address", {Address})
  ELSE NoMatch
DirectAddress(u) ==
  IF Question(u) \/ Has(u, "phone") THEN NoMatch
  ELSE IF Has(u, "item") /\ ExplicitOrderAction(u) THEN NoMatch
  ELSE IF Has(u, "marker") /\ LooksLikeAddress(u)
       THEN Says("provide_delivery_address", {Address})
  ELSE NoMatch

AddressOnly(u) ==
  IF LooksLikeAddress(u) /\ ~ExplicitOrderAction(u) THEN Asks("fallback") ELSE NoMatch

RepeatLastItem(u) ==
  IF ~Has(u, "item") /\ ~Question(u) /\ Has(u, "again")
  THEN Says("repeat_last_item", {Change("repeat_last_item", "none", Quantity(u))})
  ELSE NoMatch

MixedAddRemove(u) ==
  LET items == ItemsInText(u)
      removed == {i \in items : RemoveEvidence(Segment(u, i)) /\ ~OptionNotRemoval(Segment(u, i), i)}
      added == {i \in items \ removed : AddEvidence(Segment(u, i))}
  IN  IF /\ AddEvidence(u) /\ RemoveEvidence(u)
         /\ removed # {} /\ added # {}
      THEN Says("composite_intent",
                {Removes(i) : i \in removed} \cup {Adds(i, Segment(u, i)) : i \in added})
      ELSE NoMatch

ItemFulfillmentMix(u) ==
  LET type == IF Has(u, "pickup") THEN "pickup" ELSE "delivery"
  IN  IF ~Question(u) /\ HasAny(u, {"pickup", "deliver"}) /\ Has(u, "item")
      THEN Says("composite_intent", {Adds(ItemByName(u), u), Fulfillment(type)})
      ELSE NoMatch

CategoryOrder(u) ==
  IF /\ Has(u, "category") /\ ~TwoItems(u)
     /\ Has(u, "each") /\ ~Question(u) /\ ~Has(u, "recommend")
  THEN Says("order_category_items", {Change("order_category_items", "none", Quantity(u))})
  ELSE NoMatch

(* The new dish is the second one named, or the only one. *)
Replacement(u) ==
  LET items == ItemsInText(u)
      others == items \ {ItemByName(u)}
      new == IF others = {} THEN ItemByName(u) ELSE FirstNamed(u, others)
  IN  IF ~Has(u, "swap") \/ items = {} \/ (~TwoItems(u) /\ Has(u, "modifier"))
      THEN NoMatch
      ELSE Says("replace_item", {Change("replace_item", new, 0)})

MultipleOrder(u) ==
  IF Has(u, "swap") \/ RemoveEvidence(u) \/ ~TwoItems(u) \/ Question(u)
  THEN NoMatch
  ELSE Says("order_multiple_items", {Adds(i, Segment(u, i)) : i \in ItemsInText(u)})

(* Delete, cancel or bu yao next to a dish that is named as a dish. *)
ExplicitRemoval_CancelOnly(u, item) ==
  /\ \E i \in DOMAIN u : Dish(u[i]) = item /\ NamedAsDish(u, i)
  /\ Has(u, "cancel_word") /\ ~Has(u, "not_an_item")
ExplicitRemoval(u, item) ==
  /\ \E i \in DOMAIN u : Dish(u[i]) = item /\ NamedAsDish(u, i)
  /\ \/ Has(u, "delete")
     \/ Has(u, "cancel_word") /\ ~Has(u, "not_an_item")
     \/ Has(u, "buyao") /\ ~OptionNotRemoval(u, item)

SingleOrder(u) ==
  IF ~Has(u, "item") \/ Question(u) \/ StartsWithNot(u) \/ Has(u, "negates") THEN NoMatch
  ELSE IF ExplicitRemoval(u, ItemByName(u)) THEN Says("remove_item", {Removes(ItemByName(u))})
  ELSE Says("order_food", {Adds(ItemByName(u), u)})

ChangesNumber(u) == Has(u, "number")

Modification(u) ==
  LET item == ItemByName(u)
  IN  IF /\ Has(u, "item") /\ (StartsWithNot(u) \/ \E i \in DOMAIN u : u[i] = "buyaole")
           /\ ~OptionNotRemoval(u, item)
      THEN Says("remove_item", {Removes(item)})
      ELSE IF Has(u, "category") /\ ~Has(u, "item") /\ Has(u, "buyao") THEN
             Says("remove_category_items", {Change("remove_category_items", "none", 0)})
      ELSE IF Has(u, "item") /\ Has(u, "update") /\ ChangesNumber(u) THEN
             Says("update_item_quantity", {Change("update_item_quantity", item, Quantity(u))})
      ELSE IF Has(u, "item") /\ HasAny(u, {"update", "modifier"}) THEN
             Says("update_item_option", {Change("update_item_option", item, 0)})
      ELSE NoMatch

FulfillmentWords(u) ==
  CASE u \in {<<"pickup">>, <<"changeto", "pickup">>} ->
         Says("provide_fulfillment_slot", {Fulfillment("pickup")})
    [] u = <<"delivery">> -> Says("provide_fulfillment_slot", {Fulfillment("delivery")})
    [] OTHER -> NoMatch

Leftover(u) == IF Has(u, "smalltalk") THEN Asks("smalltalk") ELSE Asks("fallback")

Rules(u) ==
  << ContextCorrection(u), UnsafeRequest(u), ConditionalOrder(u), Composite(u),
     ContextReference(u), ExactWords(u), AddressPhoneMix(u), VagueOrderQuestion(u),
     Delivery(u), NonOrdering(u), MenuInformation(u), UnknownItemOption(u),
     Recommendation(u), AddressOrderMix(u), DirectAddress(u), AddressOnly(u),
     RepeatLastItem(u), MixedAddRemove(u), ItemFulfillmentMix(u), CategoryOrder(u),
     Replacement(u), MultipleOrder(u), SingleOrder(u), Modification(u),
     FulfillmentWords(u), Leftover(u) >>

Interpret(u) == OneOf(Rules(u))

-----------------------------------------------------------------------------
(* A customer who keeps talking: after every phrase, what the utterance    *)
(* would be taken to mean if it ended there.                               *)

VARIABLES said, heard
vars == <<said, heard>>

Init == said = <<>> /\ heard = Interpret(<<>>)

Say(p) ==
  /\ Len(said) < MaxPhrases + (IF TwoItems(said) THEN 1 ELSE 0)
  /\ \A i \in DOMAIN said : said[i] # p
  /\ said' = Append(said, p)
  /\ heard' = Interpret(said')

Next == \E p \in Phrases : Say(p)
Spec == Init /\ [][Next]_vars

-----------------------------------------------------------------------------
Intents ==
  {"context_correction", "reject_request", "conditional_order", "composite_intent",
   "context_reference_resolution", "clear_order", "confirm", "cancel", "provide_phone",
   "ask_delivery_fee", "ask_delivery_eta", "ask_deliverability", "ask_allergen",
   "ask_ingredient", "ask_price", "ask_option", "ask_availability", "ask_category_group",
   "ask_category", "ask_recommendation", "ask_recommendation_by_preference",
   "ask_recommendation_by_category", "ask_recommendation_by_category_ranked",
   "order_food", "order_multiple_items", "order_category_items", "repeat_last_item",
   "provide_delivery_address", "remove_item", "remove_category_items", "replace_item",
   "update_item_quantity", "update_item_option", "provide_fulfillment_slot",
   "smalltalk", "fallback"}

(* Every utterance is given one of the router's intents, and every dish at *)
(* most one change: an order line and its removal never come together.     *)
RouterTypeOK ==
  /\ said \in Seq(Phrases) /\ Len(said) <= MaxPhrases + 1
  /\ heard.intent \in Intents
  /\ \A c, d \in heard.changes : c.on = d.on /\ c.on \in {Rice, Potato} => c = d

AddedDishes == {c.on : c \in {d \in heard.changes : d.do = "order_food"}}
RemovedDishes == {c.on : c \in {d \in heard.changes : d.do = "remove_item"}}

(* A question without an order word, a removal, a phone number, a          *)
(* reference to an earlier dish or a request for a recommendation (which   *)
(* turns MenuInformation off) changes nothing: every ordering rule that a  *)
(* question may reach has looked for the question marks first.  What is    *)
(* left is the split of a dish and a delivery question.                    *)
QuestionsChangeNothing ==
  Question(said)
    /\ ~HasAny(said, OrderActions \cup {"remove", "phone", "reference", "recommend"})
    => heard.changes = {} \/ heard.intent = "composite_intent"

(* A customer who denies having ordered, or asks to skip the confirmation, *)
(* changes nothing, whatever dishes, numbers or addresses the utterance    *)
(* names and wherever the denial stands in it.                             *)
DenialsChangeNothing ==
  HasAny(said, {"correction", "skip_confirm"})
    => heard.changes = {} /\ heard.intent \in {"context_correction", "reject_request"}

(* Neither kind of talk changes the order, and no utterance changes one    *)
(* dish twice.                                                             *)
TalkChangesNothing == RouterTypeOK /\ QuestionsChangeNothing /\ DenialsChangeNothing

(* The rules that take a dish out of its context: a fulfilment word, a     *)
(* delivery question, a phone number or an address in the same utterance.  *)
PlainTalk ==
  ~HasAny(said, {"question", "phone", "pickup", "deliver", "fee", "price", "place", "reference"})

RemovalWords == {"remove", "buyao", "delete", "cancel_word"}

(* In plain talk a dish followed by a removal word is not ordered, and one *)
(* followed by a number is not removed, also when another dish in the same *)
(* utterance is given the opposite word.  (Unless an unwanted ingredient   *)
(* is named too: next to it, the removal is taken for an option.)          *)
EachDishItsOwnWord ==
  PlainTalk => \A i \in 1..(Len(said) - 1) : NamedAsDish(said, i) =>
    LET word == said[i + 1]
        others == {said[j] : j \in DOMAIN said \ {i + 1}}
    IN  /\ word \in {"buyaole", "delete"} /\ ~Has(said, "not_removal")
             => Dish(said[i]) \notin AddedDishes
        /\ word \in {"one", "two"} /\ (\A p \in others : Cues[p] \cap RemovalWords = {})
             => Dish(said[i]) \notin RemovedDishes

PlaceOnly ==
  /\ Has(said, "place")
  /\ ~\E i \in DOMAIN said : said[i] = "rice"
  /\ ~HasAny(said, {"question", "pickup", "deliver", "no_place", "marker", "price"})
(* A place named after a dish is not an order of that dish, as long as the *)
(* utterance neither asks nor names a fulfilment or an address marker.     *)
PlacesAreNoDishes == PlaceOnly => Rice \notin AddedDishes \cup RemovedDishes
=============================================================================
