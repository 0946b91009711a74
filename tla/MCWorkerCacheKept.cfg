SPECIFICATION CacheSpec
CONSTANTS
  MaxChanges = 4
  MaxClears = 2
  MaxFaults = 2
  MaxRestarts = 2
  ClearWhen = "quiet"
INVARIANTS SavedIsOnDisk ClearedIsGone ClosedIsFlushed
PROPERTIES StateIsSaved
CHECK_DEADLOCK FALSE
