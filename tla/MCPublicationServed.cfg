SPECIFICATION PublisherSpec
CONSTANTS
  MaxHeight = 5
  MaxEra = 1
  EpochSize = 2
  SnapshotKeep = 2
  Holes = {1, 3}
  MaxCrashes = 2
INVARIANTS AlwaysServable ServableAtRest
PROPERTIES RecutLands
