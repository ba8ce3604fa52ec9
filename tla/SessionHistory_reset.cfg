CONSTANTS
  m1 = m1
  m2 = m2
  m3 = m3
  r1 = r1
  n1 = n1
  d1 = d1
  s1 = s1
  c1 = c1
  c2 = c2
  c3 = c3
  NoConv = NoConv
  Tasks <- TwoTasks
  Kinds <- OnlyMessageTasks
  Cmds <- ResetOnly
  CommandOf <- CommandFor
  Convs <- TwoConvs
SPECIFICATION Spec
INVARIANT ResetSticks
CHECK_DEADLOCK FALSE
