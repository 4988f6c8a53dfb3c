SPECIFICATION FairSpec
CONSTANTS
  Values = {v1, v2, v3, v4}
  NoValue = NoValue
  Limit = 3
  MaxGeneration = 3
INVARIANTS RegistryIsExact ProtectionIsBalanced
PROPERTY DroppedLeaseIsReleased
CHECK_DEADLOCK FALSE
