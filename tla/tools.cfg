SPECIFICATION Spec
INVARIANTS
  GraphToolsExact
  SearchSound
  EvalsSound
  RecipesSound
  StartsAsMeant
  MetadataSound
