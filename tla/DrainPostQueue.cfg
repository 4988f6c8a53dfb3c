SPECIFICATION QueueSpec
CONSTANTS
  Producers = {p1, p2}
  Consumers = {c1, c2}
  x1 = x1
  x2 = x2
  x3 = x3
  x4 = x4
  Payloads = {x1, x2, x3, x4}
  Attachment <- MCAttachment
  Capacity = 2
INVARIANTS OneDrainIsOwed EveryPostIsARecord
PROPERTY RetainedWorkIsDelivered
CHECK_DEADLOCK FALSE
