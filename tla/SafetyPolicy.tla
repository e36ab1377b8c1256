---------------------------- MODULE SafetyPolicy ----------------------------
(* The deterministic policy engine: SafetyDecisionService.evaluate and the   *)
(* counters SafetyAuditService advances before it asks for a decision.       *)
(* Confidence values, risk ids and explanation codes are abstracted: a       *)
(* confidence is "missing", "low" (under confirm_threshold) or "enough".     *)
EXTENDS Naturals, Sequences

\* The enumerations, in declaration order: the index is the priority.
HandoffReasonCode ==
  << "EXPLICIT_HUMAN_REQUEST", "SEVERE_ALLERGY", "CROSS_CONTAMINATION",
     "REPEATED_MISUNDERSTANDING", "AMBIGUOUS_ITEM", "AMBIGUOUS_QUANTITY",
     "UNVERIFIED_ADDRESS", "PRICE_UNAVAILABLE", "MENU_DATA_MISSING",
     "COMPLAINT", "REFUND_REQUEST", "PAYMENT_DISPUTE", "MERCHANT_REJECTED",
     "MERCHANT_TIMEOUT", "SYSTEM_FAILURE", "LANGUAGE_UNSUPPORTED",
     "ABUSE_OR_SECURITY", "REGULATED_ITEM" >>

RefusalReasonCode ==
  << "CROSS_TENANT_ACCESS", "UNAUTHORIZED_ORDER_ACCESS",
     "FORGE_MERCHANT_ACCEPTANCE", "BYPASS_CONFIRMATION", "CARD_DATA_STORAGE",
     "UNSUPPORTED_SAFETY_GUARANTEE", "INTERNAL_SECRET_EXTRACTION",
     "SECURITY_ATTACK" >>

CONFIRMATION_SIGNALS ==
  { "FINAL_ORDER", "ADDRESS", "PHONE", "AMBIGUOUS_ITEM_CANDIDATES",
    "AMBIGUOUS_QUANTITY_CANDIDATES", "LARGE_MODIFICATION",
    "DELETE_ALL_ITEMS", "IMPORTANT_NOTE", "INFERRED_VALUE", "DELIVERY_FEE",
    "ORDER_VERSION_CHANGED" }

CodesOf(order) == { order[i] : i \in DOMAIN order }

HandoffReasons == CodesOf(HandoffReasonCode)
RefusalReasons == CodesOf(RefusalReasonCode)
NoReason == "none"
Explicit == "EXPLICIT_HUMAN_REQUEST"

\* max_consecutive_misunderstandings and max_confirmation_failures; counting
\* stops at the threshold, which is all the policy compares a counter with.
CounterLimit == 2

Counters == [ low : 0 .. CounterLimit, missed : 0 .. CounterLimit,
              corrected : 0 .. CounterLimit, failed : 0 .. CounterLimit ]
ZeroCounters == [ low |-> 0, missed |-> 0, corrected |-> 0, failed |-> 0 ]
Confidences == { "missing", "low", "enough" }

\* Raised when `up`, cleared when `clear`, else kept.
Advance(n, up, clear) ==
  IF up THEN (IF n < CounterLimit THEN n + 1 ELSE n)
  ELSE IF clear THEN 0 ELSE n

AdvanceCounters(c, signals, confidence, deterministic) ==
  [ low |-> Advance(c.low, confidence = "low",
                    confidence = "enough" \/ deterministic),
    missed |-> Advance(c.missed, "MISUNDERSTANDING" \in signals,
                       "UNDERSTOOD" \in signals),
    corrected |-> Advance(c.corrected, "CORRECTION" \in signals,
                          "UNDERSTOOD" \in signals),
    failed |-> Advance(c.failed, "CONFIRMATION_FAILED" \in signals,
                       "CONFIRMATION_SUCCEEDED" \in signals) ]

\* A counter at its limit is itself a reason for a handoff.
CounterReasons(c) ==
  IF \E f \in {"low", "missed", "corrected", "failed"} : c[f] = CounterLimit
  THEN { "REPEATED_MISUNDERSTANDING" } ELSE {}

\* The code of `order` that comes first among those in `codes`.
Foremost(order, codes) ==
  order[CHOOSE i \in DOMAIN order :
          /\ order[i] \in codes
          /\ \A j \in 1 .. (i - 1) : order[j] \notin codes]

Decision(class, reason) == [ class |-> class, reason |-> reason ]

\* SafetyDecisionService.evaluate, on the counters already advanced.
Evaluate(signals, c, confidence, deterministic, required) ==
  LET refusals == signals \cap RefusalReasons
      handoffs == (signals \cap HandoffReasons) \union CounterReasons(c)
      confirm == \/ required
                 \/ signals \cap CONFIRMATION_SIGNALS # {}
                 \/ confidence = "low"
                 \/ confidence = "missing" /\ ~ deterministic
  IN  IF refusals # {} THEN Decision("REFUSE", Foremost(RefusalReasonCode, refusals))
      ELSE IF handoffs # {} THEN Decision("HANDOFF", Foremost(HandoffReasonCode, handoffs))
      ELSE IF confirm THEN Decision("CONFIRM", NoReason)
      ELSE Decision("AUTO_DRAFT", NoReason)
=============================================================================
