SPECIFICATION Spec
CONSTANTS
  Workers = {w1}
  RestClients = {}
  Drafts = {soup}
  NoItems = none
  ClientKeys = {}
  NoKey = nokey
  Kinds = {"edit", "confirm", "cancel_handoff", "signal"}
  ChatSignals = {"EXPLICIT_HUMAN_REQUEST"}
  ChatConfidences = {"missing"}
  RestReasons = {}
  MaxDraft = 4
  MaxVersion = 6
  MaxOrders = 2
  MaxCases = 1
  MaxTakings = 1
PROPERTY NoDuplicate
CHECK_DEADLOCK FALSE
