CONSTANTS
  Namelists <- Orderly
  Produced = {1}
  MaxRecords = 1
  MaxLinks = 1
SPECIFICATION Spec
INVARIANT PrintsItsRecord
CHECK_DEADLOCK FALSE
