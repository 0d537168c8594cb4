CONSTANTS
  None = None
  MaxChanges = 2
  Forgets = FALSE
  Envelope = 2
  MaxCapacity = 2
  MaxOutput = 2
SPECIFICATION FairSpec
INVARIANT KeyOnlyWhereChecked
PROPERTY ImplementsDelivery
PROPERTY DeliveryEnds
PROPERTY ObligingIsHeard
CHECK_DEADLOCK FALSE
