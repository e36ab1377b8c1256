------------------------ MODULE SemanticRouterProofs ------------------------
(* What the router makes of an utterance, for any phrases of the table and    *)
(* utterances of any length without a phrase twice.                          *)
(*                                                                           *)
(* The argument goes rule by rule: the rule that speaks is the first that     *)
(* matches (FirstRule), so that whatever an earlier rule always takes never   *)
(* reaches a later one.  About the token lists only a few facts are needed    *)
(* (CueFacts): which lists imply or exclude which.                            *)
EXTENDS SemanticRouter, SequenceTheorems, TLAPS

\* What the proofs use of the token lists.
LEMMA CueFacts ==
  ASSUME NEW p \in DOMAIN Cues
  PROVE  /\ "item" \in Cues[p] <=> p \in { "rice", "potato", "shop" }
         /\ "buyao" \in Cues[p] => "order_token" \in Cues[p]
         /\ "question" \in Cues[p] =>
              "clear" \notin Cues[p] /\ p \notin { "pickup", "delivery", "changeto" }
         /\ "skip_confirm" \in Cues[p] => "submit" \in Cues[p]
         /\ "fee" \in Cues[p] => "no_place" \in Cues[p]
         /\ p \in { "buyaole", "delete" } => "remove" \in Cues[p]
         /\ p = "delete" => "delete" \in Cues[p]
         /\ p = "buyaole" => "negates" \in Cues[p] /\ "buyao" \in Cues[p]
         /\ p \in { "one", "two" } =>
              Cues[p] \cap { "remove", "buyao", "delete", "cancel_word" } = {}
         /\ Cues[p] \cap { "how_much", "eta", "can_deliver" } # {} => "question" \in Cues[p]
  BY DEF Cues

\* A non-empty set of rules has a first.
LEMMA LeastRule ==
  ASSUME NEW T \in SUBSET (1 .. 26), NEW i \in T
  PROVE  \E m \in T : \A k \in T : m <= k
  OBVIOUS

\* The rule that speaks is the first that matches, and one always does.
LEMMA FirstRule ==
  ASSUME NEW u
  PROVE  \E k \in 1 .. 26 : /\ Interpret(u) = Rules(u)[k] /\ Rules(u)[k] # NoMatch
                            /\ \A j \in 1 .. (k - 1) : Rules(u)[j] = NoMatch
<1> DEFINE T == { i \in DOMAIN Rules(u) : Rules(u)[i] # NoMatch }
<1>1. DOMAIN Rules(u) = 1 .. 26
  BY DEF Rules
<1>2. Rules(u)[26] = Leftover(u) /\ Leftover(u) # NoMatch
  BY DEF Rules, Leftover, NoMatch, Asks, Says
<1>3. 26 \in T /\ T \in SUBSET (1 .. 26)
  BY <1>1, <1>2
<1>4. PICK m \in T : \A k \in T : m <= k
  <2> HIDE DEF T
  <2> QED
    BY <1>3, LeastRule
<1>5. Min(T) \in T /\ \A k \in T : Min(T) <= k
  <2> HIDE DEF T
  <2> QED
    BY <1>4 DEF Min
<1>6. Interpret(u) = Rules(u)[Min(T)]
  BY <1>3 DEF Interpret, OneOf
<1>7. Min(T) \in 1 .. 26
  BY <1>1, <1>5
<1>8. \A j \in 1 .. (Min(T) - 1) : j \notin T /\ j \in 1 .. 26
  <2> DEFINE first == Min(T)
  <2>1. first \in 1 .. 26 /\ \A k \in T : first <= k
    BY <1>5, <1>7
  <2> HIDE DEF first, T
  <2> QED
    BY <2>1 DEF first
<1> QED
  BY <1>1, <1>5, <1>6, <1>7, <1>8

-----------------------------------------------------------------------------
(* Talk                                                                       *)

\* An answer with one of the intents, or none, that changes no dish twice.
Once(changes) == \A c, d \in changes : c.on = d.on /\ c.on \in { Rice, Potato } => c = d
Fine(answer) == answer = NoMatch \/ (answer.intent \in Intents /\ Once(answer.changes))

\* An answer without changes, with one, or with one per dish and others.
LEMMA AskFine ==
  ASSUME NEW intent \in Intents
  PROVE  Fine(Asks(intent))
  BY DEF Fine, Once, Asks, Says

LEMMA SayFine ==
  ASSUME NEW intent \in Intents, NEW c
  PROVE  Fine(Says(intent, { c }))
  BY DEF Fine, Once, Says

LEMMA SaysFine ==
  ASSUME NEW intent \in Intents, NEW changes, Once(changes)
  PROVE  Fine(Says(intent, changes))
  BY DEF Fine, Once, Says

LEMMA IntentsHave ==
  /\ "composite_intent" \in Intents /\ "order_food" \in Intents
  /\ "remove_item" \in Intents /\ "context_correction" \in Intents
  /\ "fallback" \in Intents
  BY DEF Intents

LEMMA NoMatchFine == Fine(NoMatch)
  BY DEF Fine

\* What the actions of the changes are on.
LEMMA OnWhat ==
  /\ \A item, u : Adds(item, u).on = item /\ Removes(item).on = item
  /\ Address.on \notin { Rice, Potato } /\ Phone.on \notin { Rice, Potato }
  /\ \A t \in { "pickup", "delivery" } : Fulfillment(t).on \notin { Rice, Potato }
  BY DEF Adds, Removes, Address, Phone, Fulfillment, Change, Rice, Potato

\* So every rule's answer.
LEMMA AnswersAreFine ==
  ASSUME NEW u, NEW k \in 1 .. 26
  PROVE  Fine(Rules(u)[k])
<1> USE NoMatchFine, AskFine, SayFine
<1>1. Fine(ContextCorrection(u)) /\ Fine(UnsafeRequest(u)) /\ Fine(ConditionalOrder(u))
  BY DEF ContextCorrection, UnsafeRequest, ConditionalOrder, Intents
<1>2. Fine(Composite(u))
  <2>1. Once(CompositeOrders(u))
    BY OnWhat DEF CompositeOrders, BulkChild, Once
  <2> QED
    BY <2>1, SaysFine, IntentsHave DEF Composite
<1>3. Fine(ContextReference(u))
  <2>1. Once({})
    BY DEF Once
  <2>2. "context_reference_resolution" \in Intents
    BY DEF Intents
  <2> QED
    BY <2>1, <2>2, SaysFine DEF ContextReference
<1>4. Fine(ExactWords(u))
  BY DEF ExactWords, Intents
<1>5. Fine(AddressPhoneMix(u))
  <2> DEFINE children == { Adds(item, u) : item \in OrderedItems(u) }
                           \cup (IF AddressAfterMarker(u) \/ LooksLikeAddress(u)
                                 THEN { Address } ELSE {})
  <2>1. Once(children \cup { Phone })
    BY OnWhat DEF Once
  <2>2. "provide_phone" \in Intents
    BY DEF Intents
  <2> QED
    BY <2>1, <2>2, SaysFine, IntentsHave DEF AddressPhoneMix
<1>6. Fine(VagueOrderQuestion(u)) /\ Fine(Delivery(u)) /\ Fine(NonOrdering(u))
  BY DEF VagueOrderQuestion, Delivery, NonOrdering, Intents
<1>7. Fine(MenuInformation(u)) /\ Fine(UnknownItemOption(u)) /\ Fine(Recommendation(u))
  BY DEF MenuInformation, UnknownItemOption, Recommendation, Intents
<1>8. Fine(AddressOrderMix(u))
  <2> DEFINE adds == { Adds(item, u) : item \in OrderedItems(u) }
  <2>1. Once(adds) /\ Once(adds \cup { Address })
    BY OnWhat DEF Once
  <2> QED
    BY <2>1, SaysFine, IntentsHave DEF AddressOrderMix
<1>9. Fine(DirectAddress(u)) /\ Fine(AddressOnly(u)) /\ Fine(RepeatLastItem(u))
  BY DEF DirectAddress, AddressOnly, RepeatLastItem, Intents
<1>10. Fine(MixedAddRemove(u))
  <2> DEFINE items == ItemsInText(u)
             removed == { i \in items : /\ RemoveEvidence(Segment(u, i))
                                        /\ ~ OptionNotRemoval(Segment(u, i), i) }
             added == { i \in items \ removed : AddEvidence(Segment(u, i)) }
             changes == { Removes(i) : i \in removed }
                          \cup { Adds(i, Segment(u, i)) : i \in added }
  <2>1. Once(changes)
    BY OnWhat DEF Once
  <2> QED
    BY <2>1, SaysFine, IntentsHave DEF MixedAddRemove
<1>11. Fine(ItemFulfillmentMix(u))
  <2>1. \A t \in { "pickup", "delivery" } : Once({ Adds(ItemByName(u), u), Fulfillment(t) })
    BY OnWhat DEF Once
  <2> QED
    BY <2>1, SaysFine, IntentsHave DEF ItemFulfillmentMix
<1>12. Fine(CategoryOrder(u)) /\ Fine(Replacement(u))
  BY DEF CategoryOrder, Replacement, Intents
<1>13. Fine(MultipleOrder(u))
  <2>1. Once({ Adds(i, Segment(u, i)) : i \in ItemsInText(u) })
    BY OnWhat DEF Once
  <2>2. "order_multiple_items" \in Intents
    BY DEF Intents
  <2> QED
    BY <2>1, <2>2, SaysFine DEF MultipleOrder
<1>14. Fine(SingleOrder(u)) /\ Fine(Modification(u))
  BY DEF SingleOrder, Modification, Intents
<1>15. Fine(FulfillmentWords(u)) /\ Fine(Leftover(u))
  BY DEF FulfillmentWords, Leftover, Intents
<1> QED
  BY <1>1, <1>2, <1>3, <1>4, <1>5, <1>6, <1>7, <1>8, <1>9, <1>10, <1>11, <1>12, <1>13, <1>14,
     <1>15 DEF Rules

-----------------------------------------------------------------------------
\* What was said is an utterance, and what was heard its interpretation.
RouterInv ==
  /\ said \in Seq(Phrases) /\ Len(said) <= MaxPhrases + 1
  /\ \A i, j \in DOMAIN said : said[i] = said[j] => i = j
  /\ heard = Interpret(said)

\* RouterInv is inductive: a phrase is said once, and everything is heard anew.
LEMMA HeardAsSaid == Spec => []RouterInv
<1>1. Init => RouterInv
  BY MaxPhrasesAssumption DEF Init, RouterInv
<1>2. RouterInv /\ [Next]_vars => RouterInv'
  <2> SUFFICES ASSUME RouterInv, [Next]_vars PROVE RouterInv'
    OBVIOUS
  <2>1. CASE UNCHANGED vars
    BY <2>1 DEF RouterInv, vars
  <2>2. ASSUME NEW p \in Phrases, Say(p) PROVE RouterInv'
    <3>1. Len(said) < MaxPhrases + 1
      BY <2>2, MaxPhrasesAssumption DEF Say, RouterInv
    <3>2. said' = Append(said, p) /\ heard' = Interpret(said')
      BY <2>2 DEF Say
    <3>3. \A i \in DOMAIN said : said[i] # p
      BY <2>2 DEF Say
    <3>4. \A i, j \in DOMAIN said' : said'[i] = said'[j] => i = j
      BY <3>2, <3>3 DEF RouterInv
    <3> QED
      BY <3>1, <3>2, <3>4, MaxPhrasesAssumption DEF RouterInv
  <2> QED
    BY <2>1, <2>2 DEF Next
<1> QED
  BY <1>1, <1>2, PTL DEF Spec

\* Every phrase said is one of the table.
LEMMA SaidKnown ==
  ASSUME RouterInv
  PROVE  \A i \in DOMAIN said : said[i] \in DOMAIN Cues
<1>1. \A i \in DOMAIN said : said[i] \in Phrases
  BY DEF RouterInv
<1> QED
  BY <1>1, PhrasesAssumption

\* An item is named where one is found.
LEMMA ItemsAreNamed ==
  ASSUME NEW u
  PROVE  ItemsInText(u) # {} <=> Has(u, "item")
  BY DEF ItemsInText, Has, DishAt

\* A question changes nothing: the rules before the eleventh change nothing or have
\* looked for other words, and the eleventh takes every question about a dish.
LEMMA QuestionsAskOnly ==
  ASSUME RouterInv
  PROVE  QuestionsChangeNothing
<1> DEFINE u == said
<1> SUFFICES ASSUME Question(u),
                    ~ HasAny(u, OrderActions \cup { "remove", "phone", "reference", "recommend" })
             PROVE  heard.changes = {} \/ heard.intent = "composite_intent"
  BY DEF QuestionsChangeNothing
<1>1. /\ ~ Has(u, "order_token") /\ ~ Has(u, "counted") /\ ~ Has(u, "remove") /\ ~ Has(u, "phone")
      /\ ~ Has(u, "reference") /\ ~ Has(u, "recommend")
  BY DEF HasAny, OrderActions
<1>2. ~ Has(u, "buyao") /\ ~ RemoveEvidence(u) /\ ~ StartsWithNot(u) /\ ~ ExplicitOrderAction(u)
  <2>1. ~ Has(u, "buyao")
    BY <1>1, SaidKnown, CueFacts DEF Has
  <2>2. ~ StartsWithNot(u)
    <3>1. u # << >> => 1 \in DOMAIN u
      BY DEF RouterInv
    <3> QED
      BY <2>1, <3>1 DEF StartsWithNot, Has
  <2> QED
    BY <1>1, <2>1, <2>2 DEF RemoveEvidence, ExplicitOrderAction, HasAny, OrderActions
<1>3. ~ Is(u, "clear") /\ FulfillmentWords(u) = NoMatch
  <2>1. PICK i \in DOMAIN u : "question" \in Cues[u[i]]
    BY DEF Question, Has
  <2>2. "clear" \notin Cues[u[i]] /\ u[i] \notin { "pickup", "delivery", "changeto" }
    BY <2>1, SaidKnown, CueFacts
  <2>3. ~ Is(u, "clear")
    BY <2>1, <2>2 DEF Is, Has, RouterInv
  <2>4. u \notin { << "pickup" >>, << "changeto", "pickup" >>, << "delivery" >> }
    BY <2>1, <2>2
  <2> QED
    BY <2>3, <2>4 DEF FulfillmentWords
<1>4. Has(u, "item") => MenuInformation(u) # NoMatch
  BY <1>1 DEF MenuInformation, NoMatch, Asks, Says
<1>5. PICK k \in 1 .. 26 : /\ heard = Rules(u)[k] /\ Rules(u)[k] # NoMatch
                           /\ \A j \in 1 .. (k - 1) : Rules(u)[j] = NoMatch
  BY FirstRule DEF RouterInv
<1> DEFINE Quiet(answer) == answer.changes = {} \/ answer.intent = "composite_intent"
<1>6. Quiet(NoMatch) /\ \A intent : Quiet(Asks(intent))
  BY DEF NoMatch, Asks, Says
<1>7. /\ Quiet(ContextCorrection(u)) /\ Quiet(UnsafeRequest(u)) /\ Quiet(ConditionalOrder(u))
      /\ Quiet(Composite(u)) /\ Quiet(ContextReference(u)) /\ Quiet(ExactWords(u))
      /\ Quiet(AddressPhoneMix(u))
  <2>1. Quiet(Composite(u))
    BY <1>6 DEF Composite, Says
  <2>2. Quiet(ExactWords(u))
    BY <1>3, <1>6 DEF ExactWords
  <2> HIDE DEF Quiet
  <2> QED
    BY <1>1, <1>6, <2>1, <2>2 DEF ContextCorrection, UnsafeRequest, ConditionalOrder,
                                  ContextReference, AddressPhoneMix
<1>8. /\ Quiet(VagueOrderQuestion(u)) /\ Quiet(Delivery(u)) /\ Quiet(NonOrdering(u))
      /\ Quiet(MenuInformation(u)) /\ Quiet(UnknownItemOption(u)) /\ Quiet(Recommendation(u))
  <2> HIDE DEF Quiet
  <2> QED
    BY <1>6 DEF VagueOrderQuestion, Delivery, NonOrdering, MenuInformation, UnknownItemOption,
                Recommendation
<1>9. /\ Quiet(AddressOrderMix(u)) /\ Quiet(DirectAddress(u)) /\ Quiet(AddressOnly(u))
      /\ Quiet(RepeatLastItem(u)) /\ Quiet(MixedAddRemove(u)) /\ Quiet(ItemFulfillmentMix(u))
      /\ Quiet(CategoryOrder(u)) /\ Quiet(MultipleOrder(u)) /\ Quiet(SingleOrder(u))
      /\ Quiet(FulfillmentWords(u)) /\ Quiet(Leftover(u))
  <2> HIDE DEF Quiet
  <2> QED
    BY <1>2, <1>3, <1>6 DEF AddressOrderMix, DirectAddress, AddressOnly, RepeatLastItem,
         MixedAddRemove, ItemFulfillmentMix, CategoryOrder, MultipleOrder, SingleOrder, Leftover
<1>10. ~ Has(u, "item") => Quiet(Replacement(u)) /\ Quiet(Modification(u))
  <2> HIDE DEF Quiet
  <2> QED
    BY <1>2, <1>6, ItemsAreNamed DEF Replacement, Modification
<1>11. k > 11 => ~ Has(u, "item")
  BY <1>4, <1>5 DEF Rules
<1>12. Quiet(Rules(u)[k])
  <2> HIDE DEF Quiet
  <2> QED
    BY <1>7, <1>8, <1>9, <1>10, <1>11 DEF Rules
<1> QED
  BY <1>5, <1>12

\* The first two rules take every denial.
LEMMA DenialsComeFirst ==
  ASSUME RouterInv
  PROVE  DenialsChangeNothing
<1> SUFFICES ASSUME HasAny(said, { "correction", "skip_confirm" })
             PROVE  heard.changes = {} /\ heard.intent \in { "context_correction", "reject_request" }
  BY DEF DenialsChangeNothing
<1>1. Has(said, "correction") \/ (Has(said, "skip_confirm") /\ Has(said, "submit"))
  BY SaidKnown, CueFacts DEF HasAny, Has
<1>2. PICK k \in 1 .. 26 : /\ heard = Rules(said)[k] /\ Rules(said)[k] # NoMatch
                           /\ \A j \in 1 .. (k - 1) : Rules(said)[j] = NoMatch
  BY FirstRule DEF RouterInv
<1>3. Rules(said)[1] = ContextCorrection(said) /\ Rules(said)[2] = UnsafeRequest(said)
  BY DEF Rules
<1>4. /\ Has(said, "correction") => ContextCorrection(said) = Asks("context_correction")
      /\ ~ Has(said, "correction") => ContextCorrection(said) = NoMatch
      /\ UnsafeRequest(said) \in { NoMatch, Asks("reject_request") }
      /\ Has(said, "skip_confirm") /\ Has(said, "submit") => UnsafeRequest(said) # NoMatch
  BY DEF ContextCorrection, UnsafeRequest, NoMatch, Asks, Says
<1>5. Asks("context_correction") # NoMatch
  BY DEF NoMatch, Asks, Says
<1>6. k = 1 \/ k = 2
  BY <1>1, <1>2, <1>3, <1>4, <1>5
<1>7. heard \in { Asks("context_correction"), Asks("reject_request") }
  BY <1>2, <1>3, <1>4, <1>6
<1> QED
  BY <1>7 DEF Asks, Says

\* No dish is changed twice.
LEMMA HeardIsTyped ==
  ASSUME RouterInv
  PROVE  RouterTypeOK
<1>1. PICK k \in 1 .. 26 : heard = Rules(said)[k] /\ Rules(said)[k] # NoMatch
  BY FirstRule DEF RouterInv
<1>2. heard.intent \in Intents /\ Once(heard.changes)
  BY <1>1, AnswersAreFine DEF Fine
<1> QED
  BY <1>2 DEF RouterTypeOK, RouterInv, Once

\* Talk changes nothing: a question without an order word and a denial leave the
\* order alone, and no utterance changes a dish twice.
THEOREM TalkIsTalk == Spec => []TalkChangesNothing
<1>1. RouterInv => TalkChangesNothing
  BY HeardIsTyped, QuestionsAskOnly, DenialsComeFirst DEF TalkChangesNothing
<1> QED
  BY <1>1, HeardAsSaid, PTL

-----------------------------------------------------------------------------
(* Places                                                                     *)

\* Rules that neither order a dish nor remove one.
Neutral(answer) == \A c \in answer.changes : c.do \notin { "order_food", "remove_item" }

LEMMA NeutralRules ==
  ASSUME NEW u
  PROVE  /\ Neutral(ContextCorrection(u)) /\ Neutral(UnsafeRequest(u))
         /\ Neutral(ConditionalOrder(u)) /\ Neutral(ContextReference(u))
         /\ Neutral(ExactWords(u)) /\ Neutral(VagueOrderQuestion(u)) /\ Neutral(Delivery(u))
         /\ Neutral(NonOrdering(u)) /\ Neutral(MenuInformation(u))
         /\ Neutral(UnknownItemOption(u)) /\ Neutral(Recommendation(u))
         /\ Neutral(DirectAddress(u)) /\ Neutral(AddressOnly(u)) /\ Neutral(RepeatLastItem(u))
         /\ Neutral(CategoryOrder(u)) /\ Neutral(Replacement(u))
         /\ Neutral(FulfillmentWords(u)) /\ Neutral(Leftover(u)) /\ Neutral(NoMatch)
<1>1. Neutral(NoMatch) /\ \A intent : Neutral(Asks(intent))
  BY DEF Neutral, NoMatch, Asks, Says
<1>2. \A intent, do, on, quantity : do \notin { "order_food", "remove_item" } =>
        Neutral(Says(intent, { Change(do, on, quantity) }))
  BY DEF Neutral, Says, Change
<1>3. \A intent : Neutral(Says(intent, {}))
  BY DEF Neutral, Says
<1>4. /\ Neutral(ContextCorrection(u)) /\ Neutral(UnsafeRequest(u))
      /\ Neutral(ConditionalOrder(u)) /\ Neutral(ContextReference(u)) /\ Neutral(ExactWords(u))
  BY <1>1, <1>2, <1>3 DEF ContextCorrection, UnsafeRequest, ConditionalOrder, ContextReference,
                          ExactWords
<1>5. /\ Neutral(VagueOrderQuestion(u)) /\ Neutral(Delivery(u)) /\ Neutral(NonOrdering(u))
      /\ Neutral(MenuInformation(u)) /\ Neutral(UnknownItemOption(u))
      /\ Neutral(Recommendation(u)) /\ Neutral(AddressOnly(u)) /\ Neutral(Leftover(u))
  BY <1>1 DEF VagueOrderQuestion, Delivery, NonOrdering, MenuInformation, UnknownItemOption,
              Recommendation, AddressOnly, Leftover
<1>6. /\ Neutral(DirectAddress(u)) /\ Neutral(RepeatLastItem(u)) /\ Neutral(CategoryOrder(u))
      /\ Neutral(Replacement(u)) /\ Neutral(FulfillmentWords(u))
  BY <1>1, <1>2 DEF DirectAddress, RepeatLastItem, CategoryOrder, Replacement, FulfillmentWords,
                    Address, Fulfillment
<1> QED
  BY <1>1, <1>4, <1>5, <1>6

\* A place named after a dish: a rule about addresses takes every utterance that is
\* about a place only, and none of the rules up to it orders what is no dish.
LEMMA PlacesStayPlaces ==
  ASSUME RouterInv
  PROVE  PlacesAreNoDishes
<1> DEFINE u == said
           Free(answer) == \A c \in answer.changes :
                             c.do \in { "order_food", "remove_item" } => c.on # Rice
<1> SUFFICES ASSUME PlaceOnly PROVE Free(heard)
  BY DEF PlacesAreNoDishes, AddedDishes, RemovedDishes
<1>1. /\ ~ Has(u, "question") /\ ~ Has(u, "no_place") /\ ~ Has(u, "marker")
      /\ LooksLikeAddress(u) /\ ~ \E i \in DOMAIN u : u[i] = "rice"
  BY DEF PlaceOnly, HasAny, LooksLikeAddress
<1>2. DeliveryChild(u) = "none"
  <2>1. ~ Has(u, "fee") /\ ~ Has(u, "how_much") /\ ~ Has(u, "eta") /\ ~ Has(u, "can_deliver")
    BY <1>1, SaidKnown, CueFacts DEF Has
  <2> QED
    BY <2>1 DEF DeliveryChild
<1>3. Rice \notin OrderedItems(u)
  BY <1>1 DEF OrderedItems, HasOrderEvidence, NamedAsDish, DishAt, Dish, Rice, Potato
<1>4. ~ AddressAfterMarker(u)
  BY <1>1 DEF AddressAfterMarker, Has
<1>5. PICK k \in 1 .. 26 : /\ heard = Rules(u)[k] /\ Rules(u)[k] # NoMatch
                           /\ \A j \in 1 .. (k - 1) : Rules(u)[j] = NoMatch
  BY FirstRule DEF RouterInv
<1>6. k <= 16
  <2>1. ExplicitOrderAction(u) => AddressOrderMix(u) # NoMatch
    BY <1>1, <1>4 DEF AddressOrderMix, NoMatch, Asks, Says
  <2>2. ~ ExplicitOrderAction(u) => AddressOnly(u) # NoMatch
    BY <1>1 DEF AddressOnly, NoMatch, Asks, Says
  <2>3. Rules(u)[14] = AddressOrderMix(u) /\ Rules(u)[16] = AddressOnly(u)
    BY DEF Rules
  <2> QED
    BY <1>5, <2>1, <2>2, <2>3
<1>7. \A answer : Neutral(answer) => Free(answer)
  BY DEF Neutral
<1>8. Free(Composite(u))
  BY <1>2, <1>7, NeutralRules DEF Composite
<1>9. Free(AddressPhoneMix(u)) /\ Free(AddressOrderMix(u))
  BY <1>3, <1>7, NeutralRules
  DEF AddressPhoneMix, AddressOrderMix, Asks, Says, Adds, Address, Phone, Change
<1>10. Free(Rules(u)[k])
  <2> HIDE DEF Free
  <2> QED
    BY <1>6, <1>7, <1>8, <1>9, NeutralRules DEF Rules
<1> QED
  BY <1>5, <1>10

\* A place named after a dish is not an order of that dish.
THEOREM PlacesArePlaces == Spec => []PlacesAreNoDishes
  BY PlacesStayPlaces, HeardAsSaid, PTL

-----------------------------------------------------------------------------
(* Each dish its own word                                                     *)

\* Without a place named after a dish, an item stands in one place.
LEMMA OnePlace ==
  ASSUME RouterInv, ~ Has(said, "place"), NEW i \in DOMAIN said, DishAt(said, i)
  PROVE  /\ Dish(said[i]) \in ItemsInText(said) /\ NamedAsDish(said, i)
         /\ { j \in DOMAIN said : Dish(said[j]) = Dish(said[i]) } = { i }
         /\ Position(said, Dish(said[i])) = i
<1>1. \A j \in DOMAIN said : said[j] # "shop"
  <2>1. "shop" \in DOMAIN Cues => "place" \in Cues["shop"]
    BY DEF Cues
  <2> QED
    BY <2>1, SaidKnown DEF Has
<1>2. said[i] \in { "rice", "potato" }
  BY <1>1, SaidKnown, CueFacts DEF DishAt
<1>3. \A j \in DOMAIN said : Dish(said[j]) = Dish(said[i]) => said[j] = said[i]
  BY <1>1, <1>2 DEF Dish, Rice, Potato
<1>4. { j \in DOMAIN said : Dish(said[j]) = Dish(said[i]) } = { i }
  BY <1>3 DEF RouterInv
<1>5. Min({ i }) = i
  BY DEF Min, RouterInv
<1> QED
  BY <1>1, <1>4, <1>5 DEF ItemsInText, NamedAsDish, Position

\* The first item is one of the items.
LEMMA FirstIsNamed ==
  ASSUME RouterInv, ~ Has(said, "place"), Has(said, "item")
  PROVE  \E i \in DOMAIN said : DishAt(said, i) /\ Dish(said[i]) = ItemByName(said)
<1> DEFINE items == ItemsInText(said)
<1>1. \A item \in items : \E i \in DOMAIN said : DishAt(said, i) /\ Dish(said[i]) = item
  BY DEF ItemsInText
<1>2. \A item \in items : Position(said, item) \in Int
  BY <1>1, OnePlace DEF RouterInv
<1>3. items \subseteq { Rice, Potato }
  BY <1>1, SaidKnown, CueFacts DEF DishAt, Dish
<1>4. \E item \in items : \A other \in items : Position(said, item) <= Position(said, other)
  <2>1. PICK a \in items : TRUE
    BY ItemsAreNamed
  <2> HIDE DEF items
  <2> QED
    BY <1>2, <1>3, <2>1
<1>5. ItemByName(said) \in items
  BY <1>4 DEF ItemByName, FirstNamed
<1> QED
  BY <1>1, <1>5

\* The text of a dish holds the word that follows it.
LEMMA WordBelongs ==
  ASSUME RouterInv, ~ Has(said, "place"), NEW i \in 1 .. (Len(said) - 1), DishAt(said, i),
         ~ DishAt(said, i + 1)
  PROVE  LET part == Segment(said, Dish(said[i]))
         IN  /\ \A cue \in Cues[said[i + 1]] : Has(part, cue)
             /\ \A cue : Has(part, cue) => Has(said, cue)
<1> DEFINE d == Dish(said[i])
           later == { o \in ItemsInText(said) : Position(said, o) > i }
           ends == { Position(said, o) : o \in later } \cup { Len(said) + 1 }
<1>1. /\ Position(said, d) = i /\ i \in DOMAIN said
      /\ Len(said) \in Nat /\ DOMAIN said = 1 .. Len(said)
  BY OnePlace DEF RouterInv
<1>2. \A o \in later : Position(said, o) \in (i + 2) .. Len(said)
  <2> TAKE o \in later
  <2>1. PICK j \in DOMAIN said : DishAt(said, j) /\ Dish(said[j]) = o
    BY DEF ItemsInText
  <2>2. Position(said, o) = j /\ j > i /\ j # i + 1
    BY <2>1, OnePlace
  <2> QED
    BY <1>1, <2>2
<1>3. \A o, q \in later : o = q
  <2>1. \A o \in ItemsInText(said) : o \in { Rice, Potato }
    BY SaidKnown, CueFacts DEF ItemsInText, DishAt, Dish
  <2>2. d \in { Rice, Potato } /\ d \notin later
    <3>1. d \in ItemsInText(said)
      BY <1>1, OnePlace
    <3> QED
      BY <1>1, <2>1, <3>1
  <2> QED
    BY <2>1, <2>2
<1>4. Min(ends) \in (i + 2) .. (Len(said) + 1)
  <2>1. ends # {} /\ ends \subseteq (i + 2) .. (Len(said) + 1)
    BY <1>1, <1>2
  <2>2. \E m \in ends : \A n \in ends : m <= n
    <3>1. CASE later = {}
      BY <1>1, <3>1
    <3>2. ASSUME NEW o \in later PROVE \E m \in ends : \A n \in ends : m <= n
      <4>1. ends = { Position(said, o), Len(said) + 1 }
        BY <1>3
      <4>2. Position(said, o) <= Position(said, o) /\ Position(said, o) <= Len(said) + 1
        BY <1>1, <1>2
      <4> HIDE DEF ends
      <4> QED
        BY <4>1, <4>2
    <3> QED
      BY <3>1, <3>2
  <2>3. Min(ends) \in ends
    <3> HIDE DEF ends
    <3> QED
      BY <2>2 DEF Min
  <2> HIDE DEF ends
  <2> QED
    BY <2>1, <2>3
<1>5. NextItem(said, d) = Min(ends)
  BY <1>1 DEF NextItem
<1> DEFINE n == Min(ends) - 1
           part == Segment(said, d)
<1>6. part = SubSeq(said, i, n) /\ n \in (i + 1) .. Len(said)
  <2>1. part = SubSeq(said, i, n)
    BY <1>1, <1>5 DEF Segment
  <2> HIDE DEF ends
  <2> QED
    BY <1>1, <1>4, <2>1
<1>7. DOMAIN part = 1 .. (n - i + 1) /\ \A j \in DOMAIN part : part[j] = said[i + j - 1]
  <2> HIDE DEF n, part
  <2> QED
    BY <1>1, <1>6 DEF RouterInv
<1>8. 2 \in DOMAIN part /\ part[2] = said[i + 1]
  <2> HIDE DEF n, part
  <2> QED
    BY <1>1, <1>6, <1>7
<1>9. \A j \in DOMAIN part : i + j - 1 \in DOMAIN said
  <2> HIDE DEF n, part
  <2> QED
    BY <1>1, <1>6, <1>7
<1> QED
  <2> HIDE DEF n, part
  <2>1. \A cue \in Cues[said[i + 1]] : Has(part, cue)
    BY <1>8 DEF Has
  <2>2. \A cue : Has(part, cue) => Has(said, cue)
    BY <1>7, <1>9 DEF Has
  <2> QED
    BY <2>1, <2>2 DEF part

\* Of the rules that order or remove a dish, plain talk leaves four.
LEMMA PlainRules ==
  ASSUME RouterInv, PlainTalk
  PROVE  \/ Neutral(heard) \/ heard = MixedAddRemove(said) \/ heard = MultipleOrder(said)
         \/ heard = SingleOrder(said) \/ heard = Modification(said)
<1>1. /\ ~ Has(said, "question") /\ ~ Has(said, "phone") /\ ~ Has(said, "pickup")
      /\ ~ Has(said, "deliver") /\ ~ Has(said, "fee") /\ ~ Has(said, "place")
  BY DEF PlainTalk, HasAny
<1>2. Composite(said) = NoMatch
  <2>1. ~ Has(said, "how_much") /\ ~ Has(said, "eta") /\ ~ Has(said, "can_deliver")
    BY <1>1, SaidKnown, CueFacts DEF Has
  <2>2. DeliveryChild(said) = "none"
    BY <1>1, <2>1 DEF DeliveryChild
  <2> QED
    BY <2>2 DEF Composite
<1>3. AddressPhoneMix(said) = NoMatch /\ AddressOrderMix(said) = NoMatch
  BY <1>1 DEF AddressPhoneMix, AddressOrderMix, LooksLikeAddress
<1>4. ItemFulfillmentMix(said) = NoMatch
  BY <1>1 DEF ItemFulfillmentMix, HasAny
<1>5. PICK k \in 1 .. 26 : heard = Rules(said)[k]
  BY FirstRule DEF RouterInv
<1> QED
  BY <1>2, <1>3, <1>4, <1>5, NeutralRules DEF Rules

\* A dish that the customer takes back is not ordered.
LEMMA TakenBack ==
  ASSUME RouterInv, PlainTalk, NEW i \in 1 .. (Len(said) - 1), NamedAsDish(said, i),
         said[i + 1] \in { "buyaole", "delete" }, ~ Has(said, "not_removal")
  PROVE  Dish(said[i]) \notin AddedDishes
<1> DEFINE d == Dish(said[i])
           Spares(answer) == \A c \in answer.changes : c.do = "order_food" => c.on # d
<1>1. i \in DOMAIN said /\ i + 1 \in DOMAIN said
  BY DEF RouterInv
<1>2. DishAt(said, i) /\ ~ DishAt(said, i + 1) /\ ~ Has(said, "place")
  BY <1>1, SaidKnown, CueFacts DEF NamedAsDish, DishAt, PlainTalk, HasAny
<1>3. "remove" \in Cues[said[i + 1]]
  BY <1>1, SaidKnown, CueFacts
<1>4. Neutral(heard) => Spares(heard)
  BY DEF Neutral
<1>5. Spares(NoMatch)
  BY DEF NoMatch, Asks, Says
<1>6. Spares(MixedAddRemove(said))
  <2> DEFINE items == ItemsInText(said)
             Dropped(o) == /\ RemoveEvidence(Segment(said, o))
                           /\ ~ OptionNotRemoval(Segment(said, o), o)
             removed == { o \in items : Dropped(o) }
             added == { o \in items \ removed : AddEvidence(Segment(said, o)) }
             changes == { Removes(o) : o \in removed }
                          \cup { Adds(o, Segment(said, o)) : o \in added }
  <2>1. Dropped(d)
    <3>1. Has(Segment(said, d), "remove") /\ ~ Has(Segment(said, d), "not_removal")
      BY <1>2, <1>3, WordBelongs
    <3> QED
      BY <3>1 DEF RemoveEvidence, OptionNotRemoval, Has
  <2>2. \A c \in changes : c.do = "order_food" => c.on \in added
    BY DEF Removes, Adds, Change
  <2>3. d \notin added
    <3> HIDE DEF d, Dropped
    <3> QED
      BY <2>1
  <2>4. MixedAddRemove(said) \in { NoMatch, Says("composite_intent", changes) }
    BY DEF MixedAddRemove
  <2>5. Says("composite_intent", changes).changes = changes
    BY DEF Says
  <2> HIDE DEF changes, added, d
  <2> QED
    BY <1>5, <2>2, <2>3, <2>4, <2>5
<1>7. Spares(MultipleOrder(said))
  <2>1. RemoveEvidence(said)
    BY <1>1, <1>3 DEF RemoveEvidence, Has
  <2> QED
    BY <1>5, <2>1 DEF MultipleOrder
<1>8. Spares(SingleOrder(said))
  <2>1. CASE said[i + 1] = "buyaole"
    <3>1. Has(said, "negates")
      BY <1>1, <2>1, SaidKnown, CueFacts DEF Has
    <3> QED
      BY <1>5, <3>1 DEF SingleOrder
  <2>2. CASE said[i + 1] = "delete"
    <3>1. Has(said, "delete") /\ Has(said, "item")
      BY <1>1, <1>2, <2>2, SaidKnown, CueFacts DEF Has, DishAt
    <3>2. \E j \in DOMAIN said : Dish(said[j]) = ItemByName(said) /\ NamedAsDish(said, j)
      BY <1>2, <3>1, FirstIsNamed, OnePlace
    <3>3. ExplicitRemoval(said, ItemByName(said))
      BY <3>1, <3>2 DEF ExplicitRemoval
    <3>4. SingleOrder(said) \in { NoMatch, Says("remove_item", { Removes(ItemByName(said)) }) }
      BY <3>3 DEF SingleOrder
    <3>5. Spares(Says("remove_item", { Removes(ItemByName(said)) }))
      BY DEF Says, Removes, Change
    <3> QED
      BY <1>5, <3>4, <3>5
  <2> QED
    BY <2>1, <2>2
<1>9. Spares(Modification(said))
  BY <1>5 DEF Modification, Says, Removes, Change
<1>10. Spares(heard)
  <2> HIDE DEF Spares
  <2> QED
    BY <1>4, <1>6, <1>7, <1>8, <1>9, PlainRules
<1> QED
  BY <1>10 DEF AddedDishes

\* A dish that the customer counts is not removed, if nothing else is.
LEMMA Counted ==
  ASSUME RouterInv, PlainTalk, \A i \in DOMAIN said : Cues[said[i]] \cap RemovalWords = {}
  PROVE  RemovedDishes = {}
<1> DEFINE Keeps(answer) == \A c \in answer.changes : c.do # "remove_item"
<1>1. /\ ~ Has(said, "remove") /\ ~ Has(said, "buyao") /\ ~ Has(said, "delete")
      /\ ~ Has(said, "cancel_word")
  BY DEF Has, RemovalWords
<1>2. ~ StartsWithNot(said) /\ ~ \E i \in DOMAIN said : said[i] = "buyaole"
  <2>1. said # << >> => 1 \in DOMAIN said
    BY DEF RouterInv
  <2> QED
    BY <1>1, <2>1, SaidKnown, CueFacts DEF StartsWithNot, Has
<1>3. Neutral(heard) => Keeps(heard)
  BY DEF Neutral
<1>4. Keeps(NoMatch)
  BY DEF NoMatch, Asks, Says
<1>5. Keeps(MixedAddRemove(said))
  BY <1>1, <1>4 DEF MixedAddRemove, RemoveEvidence
<1>6. Keeps(MultipleOrder(said))
  BY <1>4 DEF MultipleOrder, Says, Adds, Change
<1>7. Keeps(SingleOrder(said))
  <2>1. ~ ExplicitRemoval(said, ItemByName(said))
    BY <1>1 DEF ExplicitRemoval
  <2> QED
    BY <1>4, <2>1 DEF SingleOrder, Says, Adds, Change
<1>8. Keeps(Modification(said))
  BY <1>2, <1>4 DEF Modification, Says, Change
<1>9. Keeps(heard)
  <2> HIDE DEF Keeps
  <2> QED
    BY <1>3, <1>5, <1>6, <1>7, <1>8, PlainRules
<1> QED
  BY <1>9 DEF RemovedDishes

\* In plain talk each dish is ordered or removed as the word after it says.
THEOREM DishesHaveTheirWords == Spec => []EachDishItsOwnWord
<1>1. RouterInv => EachDishItsOwnWord
  <2> SUFFICES ASSUME RouterInv, PlainTalk, NEW i \in 1 .. (Len(said) - 1), NamedAsDish(said, i)
               PROVE  LET word == said[i + 1]
                          others == { said[j] : j \in DOMAIN said \ { i + 1 } }
                      IN  /\ word \in { "buyaole", "delete" } /\ ~ Has(said, "not_removal")
                               => Dish(said[i]) \notin AddedDishes
                          /\ word \in { "one", "two" }
                             /\ (\A p \in others : Cues[p] \cap RemovalWords = {})
                               => Dish(said[i]) \notin RemovedDishes
    BY DEF EachDishItsOwnWord
  <2>1. said[i + 1] \in { "one", "two" } => Cues[said[i + 1]] \cap RemovalWords = {}
    <3>1. said[i + 1] \in DOMAIN Cues
      BY SaidKnown DEF RouterInv
    <3> QED
      BY <3>1, CueFacts DEF RemovalWords
  <2> QED
    BY <2>1, TakenBack, Counted
<1> QED
  BY <1>1, HeardAsSaid, PTL
=============================================================================
