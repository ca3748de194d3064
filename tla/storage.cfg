SPECIFICATION FairSpec
CONSTANTS
  Loaders = {p1, p2}
  Manifests = {m1, m2}
  None = None
  Empty = Empty
  ReadOnly = {}
  MaxKeep = 0
  MinKeep = 0
  ByteCap = FALSE
  StableSource = TRUE
INVARIANTS
  BuilderHoldsLock
  SignatureCertifies
  PublishedIsSigned
  ContentAddressed
PROPERTIES
  ServedConverges
