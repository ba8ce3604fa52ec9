CONSTANTS
  u1 = u1
  u2 = u2
  A = A
  B = B
  Y = Y
  Z = Z
  m1 = m1
  m2 = m2
  m3 = m3
  m4 = m4
  pdf1 = pdf1
  NoTitle = NoTitle
  NoPdf = NoPdf
  Messages <- TwoLinks
  UserOf <- OneUser
  KindOf <- Links
  PaperOf <- TwoPapers
  PdfOf <- OnePdf
  Users <- TwoUsers
  Titles <- Papers
  LackSets <- NothingLacks
  Dates <- CustomDates
  OldTable <- Before
  Week = 1
  LastTick = 0
SPECIFICATION Spec
INVARIANT AskedBeforeDoubling
CHECK_DEADLOCK FALSE
