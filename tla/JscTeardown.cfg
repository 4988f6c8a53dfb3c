SPECIFICATION FairSpec
CONSTANTS
  a = a
  b = b
  c = c
  x = x
  Owned = {a, b, c}
  Adopted = {x}
  Group <- MCGroup
  NoRuntime = NoRuntime
INVARIANT DestroyedIsHonest
PROPERTIES EntriesStayApart DroppedIsDestroyed
CHECK_DEADLOCK FALSE
