SPECIFICATION Spec
CONSTANTS
  None = None
  Cadences <- HourMinute
  Span <- TwoMinuteHours
  MaxMinute = 3
  PrefetchFiles = 2
  MaxKills = 2
  MaxPlanets = 1
  Perilous <- Perils
INVARIANTS
  TypeOK
  NoGap
  StateCovered
  TaggedPublished
  ImportSparesActive
  CutoverComplete
PROPERTIES
  PlanetOnlyGrows
  CatchesUp
  TaggedServed
CHECK_DEADLOCK FALSE
