SPECIFICATION AuditSpec
CONSTANTS
  MaxBlock = 3
  Counts = {0, 1, 3}
  Requested = 2
  Limits = {1, 5}
  MaxWindow = 3
  TransportAttempts = 8
  FailoverAfter = 5
  ThrottleRetries = 2
  CapabilityRetries = 1
  ProofAttempts = 2
  ProofRetries = 2
  MaxShort = 2
  MaxProofs = 2
INVARIANTS ScanExact WindowPositive HealthyEndpointServes ProofSought AuditExact RepairCloses
PROPERTIES ScanEnds
CHECK_DEADLOCK FALSE
