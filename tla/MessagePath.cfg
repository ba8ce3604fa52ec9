CONSTANTS
  s1 = s1
  s2 = s2
  l1 = l1
  l2 = l2
  alice = alice
  bob = bob
  NoLock = NoLock
  NoSession = NoSession
  Watched = s1
  Nobody = Nobody
  NoEvent = NoEvent
  LockIds <- TwoLocks
  Messages <- FourAndCopy
  Tasks <- FourAndCopy
  Events <- FourAndCopy
  Copies <- OneCopy
  Casts <- SomeCasts
  Ids <- SessionIds
  Sessions <- TwoSessions
  Limits <- SomeLimits
  Window = 2
  LastArrival = 2
SPECIFICATION PathSpec
INVARIANTS TypeOK MutualExclusion EntryMatchesUsers WakeNotLost PathTypeOK WindowBound EntriesMatchWaiters
PROPERTIES FifoPerSession HandlersInTime Answered
CHECK_DEADLOCK FALSE
