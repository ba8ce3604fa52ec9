CONSTANTS
  m1 = m1
  m2 = m2
  m3 = m3
  r1 = r1
  n1 = n1
  d1 = d1
  s1 = s1
  c1 = c1
  c2 = c2
  c3 = c3
  NoConv = NoConv
  Tasks <- ThreeTasks
  Kinds <- EveryKind
  Cmds <- AllCommands
  CommandOf <- CommandFor
  Convs <- TwoConvs
SPECIFICATION Spec
INVARIANTS TypeOK BaseIsCurrent StoppedLeavesNoTrace
PROPERTY TurnsKept
SYMMETRY SymmetricTasks
CHECK_DEADLOCK FALSE
