CONSTANTS
  Address = {a1}
  Hash = {h1, p1}
  Receiver = {r1}
  OpId = {o1}
  MaxGeneration = 4
  None = None
  Preexisting = {p1}
  MaxFaults = 2
SPECIFICATION FairSpec
PROPERTY EveryOperationSettles
CHECK_DEADLOCK FALSE
