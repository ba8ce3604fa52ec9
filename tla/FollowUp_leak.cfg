CONSTANTS
  e1 = e1
  e2 = e2
  e3 = e3
  alice = alice
  NoSender = NoSender
  NoEvent = NoEvent
  Events <- Three
  SenderOf <- OneUser
  Faults <- LoopFault
SPECIFICATION FairSpec
PROPERTY MonitorsEnd
CHECK_DEADLOCK FALSE
