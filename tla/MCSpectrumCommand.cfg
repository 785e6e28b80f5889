CONSTANTS
  Unknown = "unknown"
  Version <- MCVersion
  NonceLen <- MCNonceLen
  Photo = {"png", "jpeg", "flat", "junk"}
  Refused <- MCRefused
  Unreadable <- MCUnreadable
  Witness <- MCWitness
  p1 = p1  p2 = p2
  KeyPair = {p1, p2}
  Rot = Rot
  Cap = 2
  Overhead = 1
  Session <- MCSession
SPECIFICATION CommandSpec
SYMMETRY PairsAreAlike
INVARIANTS RunsOnlySupported SavedConfigLoads 
\* A program's configuration is refused, or runs; a session has its length.
CHECK_DEADLOCK FALSE
