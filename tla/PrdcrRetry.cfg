CONSTANTS
  Threads = {t1, t2}
  NoThread = NoThread
  Admins = {a1}
  Slots = {x1, x2}
  NoXprt = NoXprt
  Types = {"agg", "sampler"}
SPECIFICATION FairSpec
PROPERTIES DisconnectedIsRetried
CHECK_DEADLOCK FALSE
