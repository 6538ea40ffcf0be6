SPECIFICATION Spec
CONSTANTS
  FloatOf <- MCFloatOf
  ExactInts = 2
  Numbers <- MCNumbers
  Vocabularies <- MCVocabularies
INVARIANTS
  FlaggedHasNoGuardedExit
  OnlyNestingOrElseInventsBounds
  RecordedBoundsAreTrue
  TimeoutsAreTrue
  UntilSuccessIsSeen
  DetectorsAgree
PROPERTIES
  BoundsPersist
  RetriesPersist
CHECK_DEADLOCK FALSE
