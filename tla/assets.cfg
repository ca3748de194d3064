SPECIFICATION Spec
CONSTANTS
  Procs = {p1, p2}
  Generations = 2
  FetchPolicy = "if_missing"
  Faults = 1
PROPERTIES
  SwapsAreSafe
  AdoptsLatest
CHECK_DEADLOCK FALSE
