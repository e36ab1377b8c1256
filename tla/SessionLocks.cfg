SPECIFICATION LocksFairSpec
CONSTANTS
  Sessions <- MCSessions
  Calls <- MCCalls
  SessionOf <- MCSessionOf
  Locks <- MCLocks
  NoLock = NoLock
  MaxLocks = 1
INVARIANT OneTurnAtATime
PROPERTIES
  TurnsStartInOrder
  TableIsBounded
  WaitersRun
