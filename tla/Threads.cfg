SPECIFICATION MCSpec
CONSTANTS
  j1 = j1
  j2 = j2
  j3 = j3
  j4 = j4
  Job <- MCJob
  NoJob = NoJob
  SpuriousWakeups = TRUE
  Connection = {w1, w2}
  MaxMessages = 2
INVARIANTS QueuedJobsAreReferenced NothingFreedIsUsed
PROPERTIES KeepsOrder KeepsPromise DiscardedJobsAreReleased ProgramEnds
CHECK_DEADLOCK FALSE
