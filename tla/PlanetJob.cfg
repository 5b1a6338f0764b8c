SPECIFICATION Spec
CONSTANTS
  None = None
  Cron = cron
  Manual = {manual}
  Taken <- TwoSnapshots
  MaxTime = 4
  MaxManual = 1
  MaxFaults = 1
INVARIANTS
  MetadataTrue
PROPERTIES
  PlanetKept
  ExtractForward
  NewPlanetUsed
