CONSTANTS
  e1 = e1
  e2 = e2
  e3 = e3
  alice = alice
  NoSender = NoSender
  NoEvent = NoEvent
  Events <- Three
  SenderOf <- OneUser
  Faults <- AllFaults
SPECIFICATION FairSpec
INVARIANTS TypeOK TurnOrder SlotsHeld OpenTicketsHaveRunner
PROPERTIES HandledInOrder Served
CHECK_DEADLOCK FALSE
