SPECIFICATION LiveSpec
CONSTANTS
  MaxHeight = 3
  MaxReorgs = 1
  LateNotice = FALSE
  MaxCuts = 1
  EpochSize = 2
  MaxInline = 2
  Overhead = 0
  MaxWire = 1
  MaxDrops = 1
INVARIANTS DeltaRebuilds
PROPERTIES ReachesSubscriber
CHECK_DEADLOCK FALSE
