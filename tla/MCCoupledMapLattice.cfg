CONSTANTS
  Height = 3
  Width = 2
  MaxSweeps = 3
  State <- MCState
  Couple <- MCCouple
  Quantize <- MCQuantize
SPECIFICATION LatticeSpec
INVARIANTS LatticeTypeOK SignsMiddleAndEnd FlatStaysFlat
PROPERTIES ImplementsEvolution
\* The extraction returns: a behaviour ends there.
CHECK_DEADLOCK FALSE
