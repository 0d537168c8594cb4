CONSTANTS
  None = None
  w0 = w0
  w1 = w1
  k1 = k1
  k2 = k2
  k3 = k3
  k4 = k4
  k5 = k5
  g1 = g1
  a1 = a1
  d1 = d1
  n1 = n1
  n2 = n2
  Workspace <- MCWorkspace
  Default = w0
  Start <- MCStart
  Fresh <- MCFresh
  Changing <- MCChanging
  MaxChanges = 2
  Totals = {"none", "low", "exact"}
  PageSize = 2
  MaxPages = 4
  MaxItems = 5
  MaxAttempts = 3
  InitialBackoff = 1
  MaxBackoff = 2
  RetryAfter = {0, 3}
SPECIFICATION FairSpec
INVARIANT TypeOK
INVARIANT OmitsOnlyDisplaced
INVARIANT SnapshotIsWhole
INVARIANT WaitBounded
PROPERTY SnapshotEnds
CHECK_DEADLOCK FALSE
