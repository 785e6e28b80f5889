CONSTANTS
  Picture <- MCPictures
  Intruder <- MCIntruder
  Extension <- MCExtensions
  Settings <- MCSettings
  MaxCells = 3
  AllocFloor = 16
SPECIFICATION Spec
INVARIANTS QuietPictureJudged MemoryBounded CanonicalFits KeyBindsWhatWasDecoded
PROPERTIES IntakeEnds
