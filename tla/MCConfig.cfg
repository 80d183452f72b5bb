CONSTANTS
  Nan = Nan
  Inf = Inf
  One = 10
  Scalars <- Written
  MaxKeys = 2
SPECIFICATION Spec
INVARIANTS
  ContextInRange
  StakeIsOptimal
