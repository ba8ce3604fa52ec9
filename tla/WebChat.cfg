CONSTANTS
  r1 = r1
  r2 = r2
  r3 = r3
  n1 = n1
  NoRequest = NoRequest
  Nothing = Nothing
  Requests <- ThreeRequests
  Sockets <- SecondRequest
  Streamed <- FirstRequest
  Notices <- OneNotice
  MaxOutside = 2
  MaxPieces = 3
  Casts <- ChatCasts
  Cap = 1
SPECIFICATION FairSpec
INVARIANTS TypeOK QueueHasListener AnswerKept
PROPERTY Finished
CHECK_DEADLOCK FALSE
