CONSTANTS
  Threads = {t1, t2}
  NoThread = NoThread
  Admins = {a1}
  Slots = {x1, x2}
  NoXprt = NoXprt
  Types = {"agg", "sampler"}
SPECIFICATION FairSpec
INVARIANTS TypeOK NoAssertFails NoXprtForgotten SetsOfXprt ScheduledHasTimer
PROPERTIES StoppingEnds
CHECK_DEADLOCK FALSE
