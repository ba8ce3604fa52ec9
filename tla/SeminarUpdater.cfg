CONSTANTS
  u1 = u1
  u2 = u2
  A = A
  B = B
  Y = Y
  Z = Z
  m1 = m1
  m2 = m2
  m3 = m3
  m4 = m4
  pdf1 = pdf1
  NoTitle = NoTitle
  NoPdf = NoPdf
  Messages <- FourMessages
  UserOf <- Sender
  KindOf <- Kinds
  PaperOf <- PaperIn
  PdfOf <- OnePdf
  Users <- TwoUsers
  Titles <- Papers
  LackSets <- SomeLack
  Dates <- CustomDates
  OldTable <- Draft
  Week = 1
  LastTick = 1
SPECIFICATION FairSpec
INVARIANTS TypeOK OneRowPerPaper PlanFits
PROPERTIES MeetingsKept Handled
CHECK_DEADLOCK FALSE
