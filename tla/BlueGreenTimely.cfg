SPECIFICATION Spec
CONSTANTS
  None = None
  MaxGen = 2
  MaxFaults = 2
  Faults <- CalmFaults
  Timely = TRUE
  Installed = TRUE
  Legacy = FALSE
INVARIANTS
  ActiveComplete
  ImportSparesActive
PROPERTIES
  StartsComplete
  ImplementsService
  KeepsServing
  CutsOver
