SPECIFICATION Spec
CONSTANTS
  None = None
  Object <- Things
  InitialWorlds <- Worlds
  Files <- Changes
  MaxFiles = 2
  MaxLag = 1
  MaxFaults = 1
  Pooled = TRUE
  Vanishes = FALSE
INVARIANTS
  TypeOK
  RootsServed
  RootsLoaded
  DependenciesEmitted
PROPERTIES
  CatchesUp
  Converges
