\* Two overlapping tasks, one restart, one transaction from outside.
SPECIFICATION Spec
CONSTANTS
  Tasks = {t1, t2}
  EndpointCounts = {0, 2}
  Variants = {FALSE, TRUE}
  MaxBlocks = 2
  MaxJobs = 2
  MaxRestarts = 1
  MaxChain = 1
SYMMETRY TaskSymmetry
INVARIANTS
  TypeOK
  NoNonceReuse
  FailureCountBounded
PROPERTIES
  ImplementsLedger
  LostNonceStaysLost
\* every call has been made and the chain has caught up
CHECK_DEADLOCK FALSE
