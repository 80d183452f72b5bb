CONSTANTS
  MaxEvents = 2
  max_attempts = 3
  Delayed = {2}
SPECIFICATION FairSpec
INVARIANTS
  TypeOK
  TrueMeansDelivered
  FalseMeansExhausted
  DuplicatesBounded
  AcknowledgedInOrder
PROPERTIES
  EmitReturns
  ImplementsDelivery
CHECK_DEADLOCK FALSE
