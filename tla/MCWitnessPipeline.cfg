CONSTANTS
  Call <- MCCall
  MaxBoxes = 256
  MaxTracked = 30
  MaximaCount <- MCMaximaCount
  EntropyBits <- MCEntropyBits
  OwnStrategies <- MCOwnStrategies
SPECIFICATION Spec
INVARIANTS BoxesStayApart NoBandSkipped TilesAreWhole BlocksShareNoPixel ScalesPairUp ReadsStayInside StopsOnlyOnPlateau TransformIsExact WitnessIsWhole
\* The derivation ends with a witness or a refusal.
CHECK_DEADLOCK FALSE
