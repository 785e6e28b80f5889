CONSTANTS
  NumSources <- MCNumSources
  Scale <- MCScale
SPECIFICATION Spec
INVARIANTS TypeOK FailureIsNeverLost
PROPERTIES ImplementsContract AlwaysAnswers
\* analyze_image returns: a behaviour ends there.
CHECK_DEADLOCK FALSE
