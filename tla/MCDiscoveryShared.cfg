SPECIFICATION Spec
CONSTANTS
  MaxLen = 3
  MaxEra = 2
  MaxSyncs = 3
  Kinds = {"quiet", "note", "spend"}
INVARIANTS BalancesExact CursorsMatchGeneration ReportFresh
CHECK_DEADLOCK FALSE
