CONSTANTS
  NEps = 2
  Pubs = {p1}
  Freers = {f1}
  Sizes = {1, 2}
  Word = 32
  Limits = {1, 2}
  QGQuota = 2
  RateLimited = TRUE
  MaxEvents = 1
SPECIFICATION FairSpec
INVARIANTS TypeOK Conserved QueueExact
PROPERTIES QueuedIsReturned
CHECK_DEADLOCK FALSE
