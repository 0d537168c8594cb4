CONSTANTS
  Address = {a1, a2}
  Hash = {h1, h2}
  Receiver = {r1}
  OpId = {o1}
  MaxGeneration = 3
  None = None
SYMMETRY Symmetry
SPECIFICATION Spec
INVARIANT TypeOK
INVARIANT LedgerConsistent
INVARIANT GenerationNamesOneKey
PROPERTY DeliveryStartsOnce
PROPERTY RetainedNeverReturns
