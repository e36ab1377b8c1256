SPECIFICATION Spec
CONSTANTS
  Workers = {w1, w2}
  RestClients = {}
  Drafts = {soup}
  NoItems = none
  ClientKeys = {k1}
  NoKey = nokey
  Kinds = {"edit", "confirm", "cancel_handoff", "signal"}
  ChatSignals = {"EXPLICIT_HUMAN_REQUEST"}
  ChatConfidences = {"missing"}
  RestReasons = {}
  MaxDraft = 3
  MaxVersion = 4
  MaxOrders = 2
  MaxCases = 1
  MaxTakings = 1
SYMMETRY WorkerSymmetry
INVARIANT TypeOK
PROPERTIES  ToldTheTruth GuardedSessionNeverConfirms DraftVersionGrows
CHECK_DEADLOCK FALSE
