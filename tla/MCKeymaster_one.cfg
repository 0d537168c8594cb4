CONSTANTS
  Address = {a1}
  Hash = {h1, h2}
  Receiver = {r1}
  OpId = {o1, o2}
  MaxGeneration = 2
  None = None
  Preexisting = {}
  MaxFaults = 2
SYMMETRY Symmetry
SPECIFICATION Spec
INVARIANT TypeOK
INVARIANT NoSilentOrphan
INVARIANT ExposedIsRestricted
INVARIANT CurrentWasDelivered
INVARIANT RetiredIsDead
INVARIANT ReportedIsSo
PROPERTY ServingKeyKilledOnlyOnRequest
PROPERTY FollowUpOnlyOnTrackedKeys
CHECK_DEADLOCK FALSE
