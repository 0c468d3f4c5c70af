SPECIFICATION IndexSpec
CONSTANTS
  Borrowers = {b1, b2}
  DebtAssets = {usdc}
  Candidates = {weth}
  DebtAmounts = {1}
  CollAmounts = {1}
  FromBlock = 1
  Heads = {3, 4, 5}
  ChunkSize = 2
  BatchLimit = 1
  MaxHf = 1000000
  LastBlock = 7
  AaveBlocks = {1, 2, 3, 4, 5, 6, 7}
  MorphoBlocks = {1, 2, 3, 4, 5, 6, 7}
  NoAsset = none
INVARIANTS
  IndexTypeOK
  ScanTiles
  ScanReachesHead
PROPERTIES
  NewestEventWins
CHECK_DEADLOCK FALSE
