CONSTANTS
  File <- MCFiles
  SniffWindow = 12
SPECIFICATION FairScanSpec
INVARIANTS FirstTableDecides PrefixAgrees GateMatchesEncoder
PROPERTIES ScansEnd
\* Both scans return.
CHECK_DEADLOCK FALSE
