SPECIFICATION LiveSpec
CONSTANTS
  MaxHeight = 3
  MaxEra = 1
  Kinds = {"quiet", "silent"}
  EpochSize = 2
  NumSlots = 4
  AnchorKeep = 1
  SnapshotKeep = 1
  TailSpan = 1
  Batch = 1
  Segment = 2
  MaxLag = 0
  Feeder = FALSE
  WrongLabels = FALSE
  HighAnswers = FALSE
  LateNotice = FALSE
  ReorgWhen = "settled"
  TornRollback = FALSE
  MaxFaults = 0
  ProofAnswers = {"bound"}
  BasisBudget = 1
INVARIANTS NoHolePublished
PROPERTIES FinalEpochsCut
