SPECIFICATION Spec
CONSTANTS
  None = None
  MaxGen = 2
  MaxFaults = 0
  Faults <- NoFaults
  Timely = FALSE
  Installed = FALSE
  Legacy = FALSE
PROPERTIES
  FirstRunInitializes
