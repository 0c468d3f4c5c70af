\* Two pairs.  Every second block is a refresh, and starts the build beside the loop as well,
\* so that it can end in this body, after it, or with the next one.
SPECIFICATION Spec
CONSTANTS
  Pairs = 2
  RefreshEvery = 2
  BackgroundEvery = 2
  Selectors = {"liquidity", "totalSupply"}
  MaxBlock = 3
  MaxMoves = 1
  MaxFailing = 1
INVARIANTS
  StatesAreOwn
CHECK_DEADLOCK FALSE
