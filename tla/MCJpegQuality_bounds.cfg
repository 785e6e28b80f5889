CONSTANTS
  File <- MCShortFiles
  SniffWindow = 12
SPECIFICATION ScanSpec
INVARIANTS NeverReadsPastTheEnd
CHECK_DEADLOCK FALSE
