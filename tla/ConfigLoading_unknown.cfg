\* The supported version and a later one, the nonce length there is and another.
CONSTANTS
  Unknown = "unknown"
  Version = {1, 2}
  NonceLen = {12, 16}
SPECIFICATION Spec
INVARIANTS NothingIsDropped
\* A configuration is refused, or runs.
CHECK_DEADLOCK FALSE
