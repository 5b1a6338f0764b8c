SPECIFICATION Spec
CONSTANTS
  None = None
  Cron = cron
  Manual = {manual}
  Taken <- TwoSnapshots
  MaxTime = 4
  MaxManual = 1
  MaxFaults = 0
PROPERTY ExtractProtected
