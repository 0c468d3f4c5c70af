\* One collateral, two debts: a direct route, a detour over WETH, and a loan of WETH for
\* which the detour would end where it began.  A reserve of 5 is dust that is not zero.  The
\* loans are 20000 and 40000 raw units.  Gas at 3 is offered through the fallback haircut
\* with nothing to spare, gas at 4 is not.
SPECIFICATION Spec
CONSTANTS
  Collaterals = {"wstETH"}
  Debts = {"USDC", "WETH"}
  DebtUsd = {2000}
  EthPrice = 10
  UsdcUnit = 10
  EthUnit = 200
  Reserves = {5, 4000000}
  Dust = 10
  Depths = {19600, 20600, 31000, 50000}
  GasCosts = {3, 4}
  FlatFloor = 50
  Opportunity = 47
  Fallback = 200
  Selectors = {"liquidity", "totalSupply"}
  MaxPools = 2
  MaxMoves = 1
INVARIANTS
  QuoteTypeOK
  FeeCovered
  CheapestLender
  MarginAbsorbs
  RouteSound
  HaircutOfRoute
  RouteComplete
  UnreadableNeverOffers
  MinimumInEther
