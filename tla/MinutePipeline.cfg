SPECIFICATION Spec
CONSTANTS
  None = None
  a = a
  b = b
  Roots <- TwoRoots
  Initial <- OneRoot
  Changes <- SomeChanges
  MaxSeq = 3
  Window = 2
  MaxAhead = 2
  MaxCrashes = 1
  Interrupts = FALSE
  Lingers = FALSE
INVARIANTS
  CursorsOrdered
  DeltasRecoverable
  FilterKnowsRoots
  DatabaseConverges
  CatalogConverges
  MergedLoaded
PROPERTIES
  CatchesUp
  QueueDrains
