SPECIFICATION FairSpec
CONSTANTS
  MaxQueue = 2
  MaxJobs = 3
  MaxGeneration = 2
INVARIANTS StoppedNeverSucceeds IdleMeansDone
PROPERTIES OutcomeIsFinal QueuedJobsEnd
CHECK_DEADLOCK FALSE
