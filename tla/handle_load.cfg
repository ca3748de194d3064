SPECIFICATION Spec
CONSTANTS
  Clients = {c1, c2}
  Waiters = {}
  Boot = Boot
  Loop = Loop
  Sources = {s1}
  Contents = {x, y}
  Catalogued = {}
  RefreshOn = {TRUE, FALSE}
  None = None
  StatCap = 3
SYMMETRY Symmetry
INVARIANTS
  OneLoadInFlight
  CountersAddUp
PROPERTIES
  FailureKeepsServing
CHECK_DEADLOCK FALSE
