CONSTANTS
  t1 = t1
  t2 = t2
  t3 = t3
  t4 = t4
  t5 = t5
  t6 = t6
  p1 = p1
  f1 = f1
  o1 = o1
  Timeouts = {t1, t2, t3, t4, t5, t6}
  Periodics = {}
  Files = {}
  Oneshots = {}
  Wait <- MCWait
  Phase <- MCPhase
  HeapSize = 6
  PipeSize = 1
  ReturnOnEmpty = FALSE
  MaxNow = 0
  MaxOps = 10
SPECIFICATION FairSpec
INVARIANTS NoOversleep
CHECK_DEADLOCK FALSE
