SPECIFICATION Spec
CONSTANTS
  None = None
  Cadences <- HourMinute
  Span <- TwoMinuteHours
  MaxMinute = 3
  PrefetchFiles = 2
  MaxKills = 2
  MaxPlanets = 1
  Perilous <- ExtractsSurvive
INVARIANT TaggedPublished
CHECK_DEADLOCK FALSE
