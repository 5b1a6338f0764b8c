SPECIFICATION Spec
CONSTANTS
  None = None
  MaxGen = 3
  MaxFaults = 1
  Faults <- ImportFaults
  Timely = TRUE
  Installed = TRUE
  Legacy = FALSE
PROPERTIES
  StartsComplete
