SPECIFICATION Spec
CONSTANTS
  None = None
  a = a
  b = b
  Roots <- TwoRoots
  Initial <- OneRoot
  Changes <- SomeChanges
  MaxSeq = 3
  Window = 2
  MaxAhead = 2
  MaxCrashes = 0
  Interrupts = FALSE
  Lingers = FALSE
PROPERTIES
  NoTaskLost
