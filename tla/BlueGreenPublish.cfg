SPECIFICATION Spec
CONSTANTS
  None = None
  MaxGen = 2
  MaxFaults = 0
  Faults <- NoFaults
  Timely = TRUE
  Installed = TRUE
  Legacy = FALSE
PROPERTIES
  PublishesComplete
