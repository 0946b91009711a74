SPECIFICATION FeedLiveSpec
CONSTANTS
  MaxHeight = 3
  MaxEra = 2
  EpochSize = 2
  SnapshotKeep = 1
  Holes = {}
  MaxCrashes = 0
  ColdStart = TRUE
INVARIANTS SyncedIsMirror
PROPERTIES ReplacedBumps CatchesUp
