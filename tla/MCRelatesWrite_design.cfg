SPECIFICATION DesignSpec
CONSTANTS
  Key = {1, 2}
  MaxDocs = 2
  MaxItems = 2
CHECK_DEADLOCK FALSE
INVARIANTS
  DesignKept
