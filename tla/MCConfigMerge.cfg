SPECIFICATION MergeSpec
CONSTANTS
  Keys <- MCKeys
  Sources <- MCSources
  Kind <- MCKind
INVARIANTS
  NothingDiscarded
  CollisionIsReal
