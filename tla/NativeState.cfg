SPECIFICATION FairSpec
CONSTANTS
  Finalizers = {f1, f2}
  Tokens = {t1, t2}
  States = {s1, s2, s3}
  NoState = NoState
  Null = Null
  Closed = Closed
  Limit = 2
  MaxGeneration = 3
INVARIANTS QueueIsExact RegistryIsExact StatesDropOnce
PROPERTY FinalizedStatesDrop
CHECK_DEADLOCK FALSE
