SPECIFICATION MCSpec
CONSTANTS
  Runs = {e1, e2}
  Cases = {1, 2}
  Selections = {{1, 2}, {2}}
  Versions = {1, 2}
  Ungated = {2}
  Threshold = 2
  Retention = 3
  MaxEdits = 1
  MaxStamps = 2
  MaxCrashes = 1
  None = None
  Newline = Newline
  Torn = Torn
  Servers = {1}
  Commands = {c1, c2}
  MaxTouches = 1
  Instances <- MCInstances
  Home <- MCHome
  Size <- MCSize
  Requests <- MCRequests
SYMMETRY MCSymmetry
INVARIANTS
  GateSound
  InstancesKept
CHECK_DEADLOCK FALSE
