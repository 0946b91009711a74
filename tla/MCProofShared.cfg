SPECIFICATION BrokerSpec
CONSTANTS
  MaxHeight = 2
  MaxReorgs = 1
  Slots = 2
  MaxEntries = 1
  Window = 1
INVARIANTS ServedProofsCurrent
PROPERTIES AcquisitionEnds
