SPECIFICATION Spec
CONSTANTS
  MaxKeys = 3
  Keys <- ThirteenKeys
  Offset <- Offsets
INVARIANTS
  SearchMatchesContent
  TreeBalanced
  DamageContained
