SPECIFICATION Spec
CONSTANTS
  None = None
  a = a
  b = b
  Roots <- TwoRoots
  Initial <- OneRoot
  Changes <- SomeChanges
  MaxSeq = 3
  Window = 2
  MaxAhead = 2
  MaxCrashes = 1
  Interrupts = TRUE
  Lingers = FALSE
INVARIANTS
  FilterKnowsRoots
