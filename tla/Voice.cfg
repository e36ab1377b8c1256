SPECIFICATION Spec
CONSTANTS
  k1 = k1
  k2 = k2
  u1 = u1
  u2 = u2
  Sessions <- MCSessions
  Calls <- MCSockets
  Sockets <- MCSockets
  SessionOf <- MCSessionOf
  Locks <- MCLocks
  NoLock = NoLock
  MaxLocks = 1
  Utterances <- MCUtterances
  NoUtterance = NoUtterance
  MaxObjects = 5
  MaxIds = 1
  MaxJobs = 1
SYMMETRY MCSymmetry
INVARIANTS
  VoiceInvariant
  ProcessedIsAnswered
  QuietMeansUnmuted
PROPERTIES
  PreferenceIsKept
CHECK_DEADLOCK FALSE
