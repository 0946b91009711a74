SPECIFICATION WorkerSpec
CONSTANTS
  MaxHeight = 2
  MaxReorgs = 1
  MaxCuts = 2
  EpochSize = 1
  MaxQueued = 1
  MaxInline = 1
  MaxWire = 1
  MaxFaults = 1
  MaxReads = 2
INVARIANTS NeverSilentlyBehind VerifiedStoreKept
CHECK_DEADLOCK FALSE
