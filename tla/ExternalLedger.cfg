SPECIFICATION Spec
CONSTANTS
  Buffers = {b1, b2, b3}
  Sizes = {0, 1, 2}
  AllocationLimit = 2
  ByteLimit = 3
INVARIANTS LedgerIsExact ReportIsPlausible TransferIsHonest
CHECK_DEADLOCK FALSE
