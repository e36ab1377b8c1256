SPECIFICATION Spec
CONSTANTS
  Workers = {w1}
  RestClients = {r1}
  Drafts = {soup}
  NoItems = none
  ClientKeys = {}
  NoKey = nokey
  Kinds = {"edit", "confirm"}
  ChatSignals = {"EXPLICIT_HUMAN_REQUEST"}
  ChatConfidences = {"missing"}
  RestReasons = {"EXPLICIT_HUMAN_REQUEST", "SEVERE_ALLERGY"}
  MaxDraft = 4
  MaxVersion = 4
  MaxOrders = 1
  MaxCases = 2
  MaxTakings = 1
INVARIANTS ActiveCaseHolds ConfirmationTracksOrder DraftCanBeConfirmed
PROPERTIES VersionNamesContent CasesImplementLifecycle HoldLiftedByCancelOnly
CHECK_DEADLOCK FALSE
