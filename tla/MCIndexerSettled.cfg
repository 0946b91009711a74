SPECIFICATION Spec
CONSTANTS
  MaxHeight = 3
  MaxEra = 2
  Kinds = {"quiet", "event"}
  EpochSize = 2
  NumSlots = 4
  AnchorKeep = 1
  SnapshotKeep = 1
  TailSpan = 2
  Batch = 1
  Segment = 2
  MaxLag = 1
  Feeder = FALSE
  WrongLabels = TRUE
  HighAnswers = FALSE
  LateNotice = FALSE
  ReorgWhen = "settled"
  TornRollback = FALSE
  MaxFaults = 1
  ProofAnswers = {"unavailable"}
  BasisBudget = 0
INVARIANTS HeadVouches EpochsFinal FinalRowsCanonical
