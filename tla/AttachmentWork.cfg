SPECIFICATION FairSpec
CONSTANTS
  Payloads = {w1, w2}
  Capacity = 1
  MaxEpoch = 2
  MaxPosts = 1
INVARIANTS RetiredIsSettled RunsUnderItsAttachment
PROPERTIES NothingRunsWhileClosing AdmittedIsAccountedFor
