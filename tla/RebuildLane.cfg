SPECIFICATION Spec
CONSTANTS
  None = None
  Stamps <- Times
  SnapshotTime = 2
  MaxFaults = 2
INVARIANTS
  NothingSkipped
  SearchBracket
  CursorInStep
PROPERTIES
  HandsOver
