SPECIFICATION FairSpec
CONSTANTS
  Producers = {p1}
  Consumers = {c1}
  Closers = {k1}
  Payloads = {v1, v2}
  NoPayload = NoPayload
  Capacity = 1
  ReservationMask = 3
  MaxPosts = 1
PROPERTIES RetainedWorkIsHandedOver ClosingCompletes
