SPECIFICATION Spec
CONSTANTS
  Primitives = {"Number"}
  Owners = {o1, o2}
  NoOwner = NoOwner
  None = None
  MAX = 3
  MaxSlots = 2
  MaxRoots = 2
  MaxProgram = 1
  MaxViews = 1
SYMMETRY OwnerSymmetry
INVARIANTS OwnershipIsExact ConformanceHolds
PROPERTY ImplementsContract
CHECK_DEADLOCK FALSE
