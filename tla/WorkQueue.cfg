SPECIFICATION Spec
CONSTANTS
  Payloads = {p1, p2, p3, p4}
  Capacity = 2
  MAX = 3
PROPERTY ImplementsWorkCustody
CHECK_DEADLOCK FALSE
