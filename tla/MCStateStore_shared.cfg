CONSTANTS
  Run = {p1, p2}
  MaxWrites = 3
  MaxSerial = 4
  MaxFaults = 2
  Foreign = "outside_window"
SPECIFICATION FairSpec
INVARIANT TypeOK
INVARIANT OneWriter
INVARIANT AcknowledgedSurvives
INVARIANT FailedLeavesNoTrace
PROPERTY ImplementsAtomicFile
PROPERTY LockEventuallyFree
CHECK_DEADLOCK FALSE
