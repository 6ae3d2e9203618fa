SPECIFICATION FairSpec
CONSTANTS
  m1 = m1
  m2 = m2
  s1 = s1
  r1 = r1
  r2 = r2
  p1 = p1
  Free = Free
  Managers <- MCTwoManagers
  Scanners <- MCScanner
  Readers <- MCOneReader
  Pollers <- MCPoller
  Workers = 5
CHECK_DEADLOCK FALSE
INVARIANTS
  TypeOK
  ReaderCanRun
PROPERTIES
  EveryCallIsAnswered
