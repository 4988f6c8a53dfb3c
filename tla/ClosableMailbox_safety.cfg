SPECIFICATION Spec
CONSTANTS
  Producers = {p1, p2}
  Consumers = {c1, c2, c3}
  Closers = {k1, k2}
  Payloads = {v1, v2, v3}
  NoPayload = NoPayload
  Capacity = 2
  ReservationMask = 2
  MaxPosts = 1
SYMMETRY ThreadSymmetry
INVARIANTS TypeOK NoUnreachable TerminalIsExclusive RetainedWorkIsCovered
PROPERTIES ImplementsWorkCustody NoPostAfterTerminalClaim
