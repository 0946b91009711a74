SPECIFICATION Spec
CONSTANTS
  MaxHeight = 2
  MaxEra = 2
  Kinds = {"event"}
  EpochSize = 1
  NumSlots = 1
  AnchorKeep = 1
  SnapshotKeep = 1
  TailSpan = 1
  Batch = 2
  Segment = 2
  MaxLag = 0
  Feeder = TRUE
  WrongLabels = FALSE
  HighAnswers = TRUE
  LateNotice = TRUE
  ReorgWhen = "any"
  TornRollback = TRUE
  MaxFaults = 1
  ProofAnswers = {"bound", "unavailable", "error", "unbound"}
  BasisBudget = 1
INVARIANTS TypeOK FloorHolds OneAttempt
PROPERTIES ImplementsFeedLog SnapshotGate
