\* The timelock: three keys and a clock of two and a half delays, while nothing else happens,
\* so that a proposal matures, is replaced just before and is repeated.  In the first block one
\* transaction from either entry point or from the bot, with every lender, protocol and pair of
\* tokens; its router is a token, a lender like any contract, or an address without code.
\* While it runs others send tokens, spend what they were allowed, borrow and call back, one
\* callback inside another; then sweeps.
SPECIFICATION CallSpec
CONSTANTS
  Keys = {k1, k2, k3}
  FirstKey = k1
  Protocols = {"aave", "morpho", "fluid"}
  Routers = {empty, usdc, "aave"}
  Vaults = {vault}
  Listable = {"fluid", empty}
  NoKey = NoKey
  Delay = 2
  MaxTime = 5
  Tokens = {usdc, weth}
  Amounts = {1}
  Limits = {1}
  Moves = {0, 2}
  Fees = {2}
  Liquidity = 1
  WithCode = {usdc, "aave"}
  NoRouter = NoRouter
  NoToken = NoToken
  MaxCalls = 1
  MaxDepth = 2
  Unlisted = "fluid"
  MaxBalance = 4
CONSTRAINTS
  TimelockOrCalls
  BeforeTheCall
  InTheCall
  InsideACallback
  AfterTheCall
INVARIANTS
  TypeOK
  ContextClean
  LendersGetTheirFees
  BotCallsRevert
PROPERTIES
  TimelockRespected
  ProfitToOwner
  ImplementsAtomic
\* the calls are used up
CHECK_DEADLOCK FALSE
