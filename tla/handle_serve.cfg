SPECIFICATION FairSpec
CONSTANTS
  Clients = {c1}
  Waiters = {w1}
  Boot = Boot
  Loop = Loop
  Sources = {s1, s2}
  Contents = {x, y}
  Catalogued = {}
  RefreshOn = {TRUE}
  None = None
  StatCap = 0
PROPERTIES
  WaitersReturn
  ServedFollowsSource
  RefreshSettles
