SPECIFICATION HostSpec
CONSTANTS
  Limit = 3
  MAX = 5
INVARIANTS NoAccessAfterDrain OutcomeIsHonest OracleAgrees
PROPERTY DrainCompletes
