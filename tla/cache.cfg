SPECIFICATION MCSpec
CONSTANTS
  Resolvers = {r1, r2}
  MaxPub = 2
  MaxAttempts = 2
  Pieces = 2
  Builders = {b1, b2}
  Searches = {s1, s2}
  Models = {"a/b", "a--b"}
  Manifests <- MCManifests
  Configs <- MCConfigs
  Slug <- MCSlug
  OldFiles <- MCOldFiles
  BatchSize = 2
  MaxFaults = 1
INVARIANTS
  ConfirmedIsServed
  CachesSound
PROPERTIES
  ImplementsSource
  ResolverConverges
