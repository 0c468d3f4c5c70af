SPECIFICATION Spec
CONSTANTS
  EthQuotes = {10}
  BtcQuotes = {}
  Rates = {}
  FallbackEth = 9
  Transmitted = {7}
  Fees = {120}
  Tips = {}
  Swaps = {}
  Window = 3
  RefreshEvery = 2
  MaxBlock = 2
  MaxPending = 2
  Borrowers = {b1}
  DebtAssets = {"USDC"}
  Candidates = {"WETH"}
  DebtAmounts = {3000}
  CollAmounts = {400}
  FromBlock = 1
  Heads = {2}
  ChunkSize = 1
  BatchLimit = 50
  MaxHf = 1000000
  LastBlock = 3
  AaveBlocks = {2, 3}
  MorphoBlocks = {}
  NoAsset = "none"
  Tasks = {t1, t2}
  BaseHf = 1030
  Widenings = {80}
  FlatFloor = 750
  Opportunity = 15
  GasDollars = 6
  Profits = {800, 1000}
INVARIANTS
  StrategyTypeOK
  PickedArePriced
  OffersAreDue
CHECK_DEADLOCK FALSE
SYMMETRY Symmetry
VIEW WithoutHistory
