SPECIFICATION Spec
CONSTANTS
  None = None
  MaxGen = 2
  MaxFaults = 1
  Faults <- AllFaults
  Timely = FALSE
  Installed = TRUE
  Legacy = TRUE
INVARIANTS
  RetireSparesActive
