SPECIFICATION MCSpec
CONSTANTS
  Sizes = {1, 2, 3}
  Models <- MCModels
  r1 = r1
  r2 = r2
  r3 = r3
  NoHistogram = NoHistogram
INVARIANTS
  PlacedOnce
  RoutesExact
CHECK_DEADLOCK FALSE
