SPECIFICATION MCSpec
CONSTANTS
  Requests = {r1, r2, r3}
  MaxSlots = 1
  MaxQueue = 1
  RateLimit = 1
  Callers = {c1, c2}
  Keys = {k1, k2}
  MaxAge = 2
  Skew = 1
  Top = 4
  Writers = {w1, w2}
  Procs = {p1, p2}
  MaxBytes = 3
  RowBytes = {1, 2, 4}
  MaxCalls = 2
  Chars <- MCChars
  MaxStatement = 4
  NodeKinds = {"select", "setop", "select_into", "insert"}
  MaxNodes = 3
  ItemSizes = {1, 2, 4}
  MaxItems = 4
  Limits = {2, 4}
  Budgets = {0, 1, 2, 3, 5, 8}
  Cuts <- MCCuts
INVARIANTS
  CallsAccounted
  IdentitySound
  
  AnswersFit
PROPERTIES
  TraceSound
  CallsInTime
