SPECIFICATION Spec
CONSTANTS
  NoString = NoString
  Texts <- MCTexts
  MAX_MESSAGE_BYTES = 8
  SUFFIX_BYTES = 3
  FailedMessage <- MCFailed
  PanicMessage <- MCPanic
  ErrorPrefix <- MCPrefix
  Free = Free
  Plain = Plain
  Scalar = Scalar
  Cells = {c1, c2}
  local_roots = 3
  persistent_slots = 1
  MAX_SCOPE_DEPTH = 1
  call_arguments = 2
  call_bytes = 2
  Arguments <- MCArguments
  registrations = 2
  inbound_arguments = 1
  inbound_bytes = 2
  Strings <- MCStrings
  MaxInstalls = 2
  MaxEpoch = 2
  MaxDepth = 5
SYMMETRY CellSymmetry
INVARIANTS LocalsAreExact CallsReachTheirCallback CallbacksAreExact CrossingsAreExact
CHECK_DEADLOCK FALSE
