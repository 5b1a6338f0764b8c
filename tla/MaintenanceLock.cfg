SPECIFICATION Spec
CONSTANTS
  None = None
  a = a
  b = b
  c = c
  Process <- Three
  MaxFaults = 2
INVARIANTS
  MutualExclusion
PROPERTIES
  OrphansRemoved
