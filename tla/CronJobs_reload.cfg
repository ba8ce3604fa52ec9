CONSTANTS
  j1 = j1
  j2 = j2
  j3 = j3
  o1 = o1
  o2 = o2
  NoJob = NoJob
  Jobs <- ThreeJobs
  Ops <- NoOps
  LastTick = 1
  MaxCrashes = 1
  MayReload = TRUE
SPECIFICATION Spec
INVARIANT ReminderKept
CHECK_DEADLOCK FALSE
