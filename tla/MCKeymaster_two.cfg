CONSTANTS
  Address = {a1, a2}
  Hash = {h1, h2}
  Receiver = {r1}
  OpId = {o1, o2}
  MaxGeneration = 1
  None = None
  Preexisting = {}
  MaxFaults = 2
SYMMETRY Symmetry
SPECIFICATION Spec
INVARIANT NoSilentOrphan
CHECK_DEADLOCK FALSE
