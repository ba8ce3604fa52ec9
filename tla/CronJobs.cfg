CONSTANTS
  j1 = j1
  j2 = j2
  j3 = j3
  o1 = o1
  o2 = o2
  NoJob = NoJob
  Jobs <- ThreeJobs
  Ops <- TwoOps
  LastTick = 2
  MaxCrashes = 1
  MayReload = TRUE
SPECIFICATION FairSpec
INVARIANTS TypeOK EnabledIsScheduled NoPileUp
PROPERTIES BeginsOnce ReminderComesBack
CHECK_DEADLOCK FALSE
