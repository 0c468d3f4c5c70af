SPECIFICATION MarketSpec
CONSTANTS
  EthQuotes = {10}
  BtcQuotes = {30}
  Rates = {2}
  FallbackEth = 9
  Transmitted = {7}
  Fees = {50}
  Tips = {}
  Swaps = {s1}
  s1 = s1
  Window = 3
  RefreshEvery = 2
  MaxBlock = 4
  MaxPending = 3
INVARIANTS
  MarketTypeOK
  TokenPricesConfirmed
  PendingLifetimes
CHECK_DEADLOCK FALSE
