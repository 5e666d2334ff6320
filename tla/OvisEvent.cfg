CONSTANTS
  t1 = t1
  t2 = t2
  t3 = t3
  t4 = t4
  t5 = t5
  t6 = t6
  p1 = p1
  f1 = f1
  o1 = o1
  Timeouts = {t1, t2}
  Periodics = {p1}
  Files = {f1}
  Oneshots = {o1}
  Wait <- MCWait
  Phase <- MCPhase
  HeapSize = 2
  PipeSize = 1
  ReturnOnEmpty = FALSE
  MaxNow = 3
  MaxOps = 4
SPECIFICATION FairSpec
INVARIANTS TypeOK EvcountExact NoOversleep PeriodicOnGrid
PROPERTIES DueIsCalled TermEnds
CHECK_DEADLOCK FALSE
