SPECIFICATION Spec
CONSTANTS
  Workers = {w1}
  RestClients = {}
  Drafts = {soup}
  NoItems = none
  ClientKeys = {}
  NoKey = nokey
  Kinds = {"edit", "confirm", "new_order", "cancel_handoff", "ambiguous", "unclear", "signal"}
  ChatSignals = {"SEVERE_ALLERGY", "EXPLICIT_HUMAN_REQUEST"}
  ChatConfidences = {"low", "enough"}
  RestReasons = {}
  MaxDraft = 3
  MaxVersion = 6
  MaxOrders = 2
  MaxCases = 2
  MaxTakings = 2
PROPERTY MandatoryGuardStays
CHECK_DEADLOCK FALSE
