# Goshawk: TLA+ models, checks and proofs

Goshawk is a liquidation bot for Ethereum: a Rust engine (`src/bot`) that watches blocks and
the mempool, decides which loans to liquidate and submits transactions to private builders,
and a Solidity contract (`src/contracts`) that borrows the debt in a flash loan, liquidates,
swaps, repays and keeps the profit.  This directory holds TLA+ models of both, the TLC
configurations that check them on small instances, and TLAPS proofs of their main invariants.

Every definition that models code is listed in `PROJECT.json` under `map` with the lines it
stands for; `hazards` lists what is hard to test in this code and which property covers it.

## The system

| Part | State it keeps | Operations | Talks to |
|---|---|---|---|
| Boot, block loop and strategy task (`main.rs`) | the shutdown notification, the awaited task | boot, `select!` of next block / shutdown, the body, spawn, wait 900 ms | everything below |
| Circuit breaker (`chains/mod.rs`) | weighted reverts, successes in a row, accumulated loss | `is_tripped`, `record_revert_with_cost`, `record_success` | strategy tasks |
| Submission pipeline (`submission.rs`, `signing.rs`) | nonce, failure counter, relay index | `submit`, `submit_priority`, `submit_with_escalation`, `resync_nonce`, broadcast | builders, the chain; called by strategy and presign tasks and the loop |
| Position indexer | a concurrent map of loans | bootstrap scan, live log stream, collateral lookup, health factors | archive node; read by the strategy |
| Mempool monitor | current and pending prices, price window, pending swaps | watch pending transactions, evict per block | loop, presign tasks |
| Price and gas oracles | shared price map, base fee and tip | poll, refresh | loop, strategy |
| Liquidation strategy | none of its own | gates, simulation, route, calldata, submit, in one batch per block | all of the above |
| Simulation engine (`simulation.rs`, `math.rs`) | none | slippage, profit, swap route; two arbitrage simulations that nobody calls | strategy; reads pools by RPC |
| Flash-loan router (`flash_loan.rs`) | addresses of the lenders | balances, choice of a lender, calldata | strategy; reads lenders by RPC |
| Swap builders, adapters, market registry | lists of addresses | encode | nobody after boot |
| Pool registry and price feed | pools and their reserves | rebuild every 50 blocks in the loop and every 1000 beside it, reload by multicall or pool by pool | loop |
| `ExecutorBase.sol` | pause flag, executor, pending executor and its ETA, whitelists | the owner's and the executor's calls | owner, hot key |
| `FlashExecutor.sol` | reentrancy lock, loan context; tokens and allowances | `executeLiquidation`, `execute`, five lender callbacks | lenders, markets, routers |

What is hard about it: strategy tasks overlap (a task is detached after 900 ms and keeps
running), they share the nonce, the failover state and the breaker through single atomic
operations and the loans and prices through maps that lock one key at a time, the process can
die between any two steps while builders keep its transactions,
one key is used by more than the bot, SIGINT can come at any time, and the contract hands
control to lenders, markets and routers in the middle of its own transaction.

What makes each part correct, in a sentence: no two submissions share a nonce, and an
escalated one lands at most once; the breaker overshoots its limits by a bounded amount and a
halt is final; the loop always returns to the next block and stops when told to; the executor
key changes only after 24 hours of notice; the scan covers its range once, an unconfirmed
price is never taken for a confirmed one, and what is submitted was due; the profit covers the fee of
whichever lender is chosen and was judged with the pool it will be swapped in; a liquidation
happens entirely or not at all, repays every lender it borrowed from whatever the router does
meanwhile, pays only the owner and leaves no flag behind;
a route is found if there is one and leads where it should; a pool's state is its own and of one
moment; the integer arithmetic never overflows, and no simulation finds a profit where the prices
show none.

## Modules

| Module | Models | Depends on |
|---|---|---|
| `SubmissionPipeline` | nonce counter, broadcast, failover, escalation, resync, restart | `WalletLedger` (refines it) |
| `MCSubmissionPipeline` | its bounds and symmetry for TLC | `SubmissionPipeline` |
| `WalletLedger` | what the pipeline promises (abstract) | |
| `SubmissionProofs` | proofs, refinement included | `SubmissionPipeline`, `WalletLedger` |
| `ChainBreaker` | the breaker and the strategy task as the breaker sees it | |
| `BlockLoop` | boot, the loop, SIGINT and timeouts, composed with the breaker | `ChainBreaker` |
| `EngineProofs` | proofs | `BlockLoop` |
| `MarketData` | price map, pending prices and swaps, price window, gas fees | |
| `PositionIndexer` | boot scan, live log stream, health factors | |
| `DataProofs` | proofs about both | `MarketData`, `PositionIndexer` |
| `LiquidationStrategy` | strategy and presign tasks over both | `MarketData`, `PositionIndexer` |
| `MCLiquidationStrategy` | its symmetry for TLC | `LiquidationStrategy` |
| `StrategyProofs` | proofs; cites those of both parts | `LiquidationStrategy`, `DataProofs` |
| `LiquidationQuote` | one position behind gate 2: profit, route, lender, minimum, call by call | |
| `QuoteProofs` | proofs | `LiquidationQuote` |
| `ExecutorBase` | owner calls, whitelists, timelock | |
| `FlashExecutor` | one transaction of the contract, step by step | `ExecutorBase` |
| `AtomicLiquidation` | what the contract promises (abstract) | |
| `LiquidationCall` | the bot's calldata decoded by its contract | `FlashExecutor` |
| `MCLiquidationCall` | its constraint for TLC | `LiquidationCall` |
| `ExecutorProofs` | proofs, refinement included | `LiquidationCall`, `AtomicLiquidation` |
| `PoolFeed` | pool registry and price feed | |
| `FeedProofs` | proofs | `PoolFeed` |
| `ArbSimulation` | `isqrt`, sizes, `amm_out`, `stable_amm_out`, the arbitrage simulations | |
| `ArbProofs` | proofs | `ArbSimulation` |

### Submission pipeline

A task is one call of `submit_priority` or `submit_with_escalation`.  `pc[t]` says where it
is; each atomic operation of the code is an action of its own: `Submit` is the `fetch_add` on
the nonce, `CountFailure` the `fetch_add` on the failure counter, `LoadIndex` and `StoreIndex`
the two halves of the rotation, `ResyncLoad` and `ResyncStore` the two halves of
`resync_nonce`.  The builders are a set of signed transactions (`pool`); whether a builder
keeps a transaction and whether it says so are independent choices, which covers lost answers
and builders that accept and drop.  The chain includes one transaction per nonce in order
(`Mine`), the same key may send from outside (`ForeignSend`, as `sweep.sh` does), and
`Restart` drops everything in memory while `pool` survives.  The node's answer to
`get_transaction_count(pending)` is the mined nonce, because the bot's transactions are never
in a public pool.  The strategy calls the variant without escalation; the escalating one is
public API and modelled too.

`issued`, `foreign`, `life` and `landed` are history variables.  `NoNonceReuse` is claimed
only while no outside transaction has landed since boot (`foreign`): with one, a `fetch_add`
between the load and the store of `resync_nonce` really is overwritten, and the hazard list
says so.

`WalletLedger` sees what the owner of the key sees: calls are made, each is included at most
once and under the wallet's next nonce, and somebody else may spend a nonce.  Signatures,
builders, retries, resyncs and restarts do not exist there.  `ImplementsLedger` maps its
entries to `landed` without the attempt and the life a transaction was signed in.

### Breaker and block loop

`ChainBreaker` splits `is_tripped` into its two loads and the `record_` functions into their
stores.  Money is whole dollars: the penalty weight is truncated to a `u32` in the code, and
`1 + c \div 5` is that truncation.  The success counter is only ever compared with 3, so it
stops there.  A task may also panic (`RunPanics`): `get_uni_virtual_reserves` slices a word out of
an answer of any length, and the loop drops the `JoinError`, so the breaker hears nothing of it.
Boot is two steps: until the `ctrl_c` task exists a SIGINT kills the process,
after that boot and body hold it off alike.  Either half may end `main` (`ConfigRefused`,
`BootFails`); the registry's check of the oracles cannot, since all six adapters are
Chainlink-priced.  `BlockLoop` composes the tasks with the loop.  `awaited` is the handle the loop
waits on; a task that is neither `idle` nor in `awaited` is detached.  `BlockArrives` needs a
free task: that is the bound on overlapping tasks.  The body of the loop (gas, pools, nonce,
prices) is one step: none of it can end the loop, since the only `?` in it,
`pf.update(..).await?`, has no error to propagate (`reload_sequential` always returns `Ok`),
and none of it touches the breaker; the nonce part is in the submission model.
The notification is `armed`, then `notified` if the loop was in `select!`, or else `lost`.

### Market data

One map holds the prices, under two kinds of keys: a feed's address and a token's.  The poll
writes it once per block, one feed after the other with an await in between, so each feed is
an action (`PollEth`, `PollBtc`, `PollRated`); the inserts that follow one answer are one step.
The mempool watcher writes the ETH feed's key, the pending price and the price window at any
moment (`WatchTransmit`), also as one step: they are three synchronous calls, and every reader
takes only one of the three at a time.  `SeenBlocks` lets the node report no block or
any: the loop works through its headers one by one between RPC calls without a timeout, and
nothing ties its block to the node's.
`Volatile` keeps of the realised volatility only whether it is zero: zero with fewer than
three samples or with equal returns; how far the threshold widens then is chosen from
`Widenings`.  The fees are whole gwei, so the floor of a thousandth of a gwei is 0.
`flushes` and `sighting` are history variables: the flushes that an entry has survived, and of the
last oracle transaction whether it had a block and by how many that was ahead of the loop.

### Position index

`visits` counts, as a history variable, how often the scan came to a block.  What a block
contains is chosen when it is read: nothing depends on it before.  A fetch that fails is
swallowed, as `if let Ok(logs)` does, and its range counts as visited.  The lookup of
collateral (`Lookup`) is one step although it awaits many calls: it runs only in the boot scan,
when nothing else touches the map.  `LiveLog` continues at any block after the head, because
the filter is installed after the scan; that leaves a gap the code does not close.  A health
factor is an integer number of thousandths; `MaxHf` stands for `f64::MAX`.

### Strategy

A task goes through `refresh`, `select`, `batch`, `simulate`, `submit`; a presign task through
`presign` instead of the first two.  The passes over the map visit one key per step, because
the map locks one shard at a time, so log stream and other tasks come between any two keys.
A task works on copies: `picked` are the clones not yet worked off, `current` the one it is
at, `gas` the gas price it read before the batch.  Any of the steps behind the gates may fail
and end the batch (`OfferFails`, or `Simulate` without a price).  A task is spawned by the
block loop at the end of its body (`SpawnRun`, together with `Spawned` of the market) or by
the fast loop whenever a price is pending.  The breaker in front of it is left to `BlockLoop`:
here a task always starts, which only adds behaviours.

`offers` is a history variable: the last position each task submitted and the regime it
assumed.  `OffersAreDue` judges it with the constants only, never with the variables the task
decided with, so that it does not restate the guards.

At this commit some addresses are empty strings (`CHAINLINK_CBETH_ETH`, `USDBC`, `CBBTC`, the
Uniswap factory and router), which `parse` refuses: the bot as it stands stops in
`MempoolMonitor::new`.  The models take the addresses as sourced and distinct.

### Quote

`LiquidationStrategy` takes the profit of a position from a set and lets the steps behind the
gates fail; `LiquidationQuote` is what happens there.  Every pool and every lender that is
looked at is an RPC call and an action: `EstimateSlippage` and the hops try one fee tier per
step (`tier`), `Simulate` is the rest of `simulate_liquidation` together with gate 1, the
multicall is one step (`QueryDepths`) or fails and is replaced by two
(`MulticallFails`, `QueryBalancer`, `QueryMorpho`), `QuerySpark` follows and `Build` is the
choice and the calldata.  A pool is the smaller of its two virtual reserves, which is all that
the code compares.  Existence of a pool and its reserves are two calls in the code that are
skipped alike when they fail, so they are one step.  A failed call of a balance counts as
zero (`unwrap_or`).  Raw units are kept because the minimum profit depends on them; money is
whole dollars and haircuts are basis points, truncated where the code has fractions.
The task only reads, so one task is enough; the chain moves under it (`SwapOrMint`,
`LenderMoves`).  `selector` is what the four bytes `SEL_LIQUIDITY` stand for: at this commit
those of `totalSupply()`, which a Uniswap pool does not have, while the comment beside them says
`liquidity()`.  With the former every read of a pool fails (`Readable`), and
`UnreadableNeverOffers` says what comes of it; the properties of routes are about the latter,
the program its authors meant.  `disturbed` is a history variable: some call failed or the chain moved since
the position was taken.  A missing price cannot occur behind gate 2, since the position was
judged with both prices and none is ever removed (`PickedArePriced`).

### Contract

`FlashExecutor` is one transaction as a sequence of steps, the context switches of the code:
enter, lend, then a callback of the lender, end, settle.  `frames` is the stack of callbacks that
are running, and the place of each (`received`, `swap`, `out`, `check`, `repay`) is where in
`_onFlashReceived` it is.  Any step may `Revert`, which stands for every failing check and every
failing callee, and restores `committed`.  Lenders and lending pools do what their interfaces
say: a lender transfers the loan and takes it back with its premium, a pool takes up to the debt
and pays out some collateral.

The router is an arbitrary call to an address that the caller chooses, so while it runs (`out`)
others do what anybody may do:

- `Outside`: tokens of any kind arrive, and those for which the contract has ever approved
  anybody leave, all or a part of them, by the running router or by an earlier one; between
  transactions as well.  If the router is itself a token, its calldata moves or approves
  (`CalledTokenApproves`) that token.
- `CallBack`: a lender calls back because the router asked it for a loan in the contract's name,
  or anybody calls `uniswapV3FlashCallback`, which checks only that a loan is running.  A second
  frame is pushed and goes through the same pipeline with its own data and router, while debt
  asset and context are still the outer call's.  `Accepted` is the sum of the callbacks' checks.

Approvals are a set, because `_ensureApprove` only ever grants the maximum.  `earned` is a
history variable: the premiums that the running transaction has paid.  The contract's two entry
points are distinguished only where the code does (`ExecuteLiquidation` consults the whitelists,
`Execute` does not and carries a minimum profit).

`LendersGetTheirFees` says that when the callbacks are over every lender has what it had plus its
premiums, in every token.  `ProfitToOwner` says who is paid: the owner gets all of the token that
the caller named, at least the minimum, and the cold wallet gets nothing from a call; it is paid
by `emergencySweep` alone.

`AtomicLiquidation` sees only what everybody owns and which of the contract's tokens are
`exposed`, that is, somebody has an allowance for them.  A call happens at once, leaves nothing
of one token in the contract, never leaves a lender with less and exposes tokens for good;
outside a call and a sweep only exposed tokens leave the contract.  `ImplementsAtomic` maps
`wealth` to `committed.bal` and `exposed` to the committed approvals.  `NobodyLoses` is what
follows for everybody: no one but the contract itself ever ends a transaction with less.

Left out of this model: transactions of the owner or the executor from inside a router's call
(one of the two would have to be a contract that the router calls); the comparison of the router's own report with `minCollateralOut`, which can only
make a call revert; callees that catch a revert inside; tokens with hooks or with transfer fees;
finite allowances that a token counts down (with the maximum they stay); what the lenders and the
receivers of payouts do with others, the router included.

Two sentences of the documents are not what the code does and have no property.
Invariant 1 of docs/whitepaper.md:156 says that the contract holds nothing between transactions:
what is seized and not swapped, and what others send, stays until it is swept.  And SECURITY.md:33
and docs/whitepaper.md:175 say that callbacks are protected by `nonReentrant`: they carry
`onlyFlashLoan`, and the model lets them be entered again.

### The bot's call

`LiquidationCall` puts the two halves together.  `StratData` is what `build_liquidation` writes,
word by word, as `encode` lays out one dynamic tuple: an offset, then the fields in the bot's
order.  `DecodedProtocol` is what the contract makes of the first word.  What the later words
decode to is left free, except that they must decode to something for the call to go on:
whatever it is, no such call gets past the dispatcher (`BotCallsRevert`).  The other entry
points stay as they are, so the contract's own properties are checked and proved about calls
that an operator's script would make.

### Pool registry and price feed

`PoolFeed` lets a build of the registry look at one exchange of one pair per step while the
chain moves (`Move`), in the loop body and, every `BackgroundEvery` blocks, in a task beside it;
the last one to finish replaces the map (`Built`).  The body works on a clone of the feed
(`copy`), and `EndOfBody` drops it: cloning copies the map, so `feed` stays what the boot read.
Nothing but the next clone reads it, so no property is about it.  A reload is one multicall of
which any call may fail, with the running index into its answers that the code keeps
(`Advance`), or, when the multicall fails as a whole, single calls (`ReadOne`, `ReadLiquidity`)
with moves between them.  A word that was read is kept as the pool, the kind and the moment it
was read of, which is all that can be mixed up.
`get`, `get_by_tokens` and `rate` have no caller.

### Arithmetic and arbitrage

`ArbSimulation` is one call: a square root, the two sizes of an arbitrage, or one of the two
simulations, leg by leg with the pools chosen as they are read.  A word of `U256` is a number
below `Radix * Radix`; `MulOr`, `SatAdd` and `SatSub` are the checked and saturating operations
and `panic` is where an unchecked one would overflow.  Loops of the code are steps (`RootStep`,
`Newton`).  `simulate_tri_arb` takes `token0` of each pool for what goes in whatever the
direction, and the model does the same.  Profits above 2^128, on which `as_u128` panics,
are left out.  Nothing but tests calls the simulations in this repository.

## Runs

| Run | Expect | What it asks | Bounds |
|---|---|---|---|
| `submission` | pass | `TypeOK`, `NoNonceReuse`, `FailureCountBounded`, `ImplementsLedger`, `LostNonceStaysLost` | 2 tasks, 2 calls of up to 2 attempts, 0 or 2 endpoints, one restart, one outside transaction |
| `engine` | pass | `TypeOK`, `PenaltyOvershoot`, `LossOvershoot`, `HaltIsPermanent`, `LoopNotWedged` | 2 tasks, threshold 6, charges of 9 and 70 dollars |
| `shutdown_lost` | violation | a received SIGINT ends the loop | 1 task |
| `market` | pass | `MarketTypeOK`, `TokenPricesConfirmed`, `PendingLifetimes` | 4 blocks, any of which the node may be at, 3 mempool transactions, window of 3, one quote per feed beside the fallback |
| `indexer` | pass | `IndexTypeOK`, `ScanTiles`, `ScanReachesHead`, `NewestEventWins` | 2 accounts, blocks 1 to 7, heads 3 to 5, chunks of 3 blocks, one lookup per chunk |
| `live_collateral` | violation | collateral that was looked up stays | as `indexer` |
| `strategy` | pass | `StrategyTypeOK`, `PickedArePriced`, `OffersAreDue` | 2 tasks, 1 account, 2 blocks, one live log, two pending prices |
| `presign_blind` | violation | a presign task picks what the pending price puts at risk | as `strategy`, with a Morpho log besides |
| `quote` | pass | `QuoteTypeOK`, `FeeCovered`, `CheapestLender`, `MarginAbsorbs`, `RouteSound`, `RouteComplete`, `HaircutOfRoute`, `UnreadableNeverOffers`, `MinimumInEther` | 1 collateral, 2 debts, at most 2 of 12 possible pools, 2 reserves, 4 balances per lender, one change of the chain |
| `contract` | pass | `TypeOK`, `ContextClean`, `LendersGetTheirFees`, `BotCallsRevert`, `TimelockRespected`, `ProfitToOwner`, `ImplementsAtomic` | 3 keys, delay 2, clock up to 5; 1 call with callbacks two deep, 2 tokens, 3 routers, 4 lenders, 3 protocols, 0 or 2 of a token sent, left or seized, balances up to 4 |
| `pools` | pass | `StatesAreOwn` | 2 pairs on 2 exchanges, 3 blocks, a build every second one, one move, one failing call |
| `amm` | pass | `SizingIsSound`, `NoFreeProfit`, `StableOverpays` | words of 24 bits, fees in tenths, 5 reserves, 8 sizes, 3 amounts |

Why these bounds are enough for the cases that matter.

- *submission*: two calls and one restart give a builder transactions of two lives with one
  nonce; one outside transaction is what makes `resync_nonce` store.
- *engine*: a threshold of 6 lies above one capped penalty and below two, and 70 lies above the
  loss limit of 60, so each of the two limits trips alone; the state space is finite without a
  bound on the number of blocks because a tripped breaker stops charging.
- *market*: the price seen in the mempool (7) differs from the quote (10), the fallback (9) and
  every product of a rate with them, so it is recognised wherever it goes; four blocks and a
  refresh every second one let a swap live through its flushes, a price that was seen ahead of
  the loop outlive those of its own block, and one without a block outlive them all.
- *indexer*: the three heads end the range with a full chunk, with a chunk of one block and with
  a cut chunk; two accounts and one lookup per chunk leave one account for the next chunk.
- *strategy*: a loan of 3000 dollars against 400 WETH has a health factor of 1.1 at 10 dollars,
  between the plain threshold of 1.03 and the widened one of 1.11, and 0.99 at 9; two pending
  prices make the volatility positive; two Aave logs (`AaveBlocks`) leave one for the stream,
  which replaces what the scan found, and the Morpho logs are left to the runs *presign_blind*
  and *indexer*; the two fees (0 and 120 gwei) give both regimes, and of the two profits one
  clears only the flat floor.  With two tasks one can have judged a loan before the log replaces
  it and the other after.
- *quote*: two pools are a direct route beside another, a detour over WETH, or the two halves of
  one; a reserve of 5 is dust, the other gives a haircut inside the clamp; 20000 raw units are
  lent by none, by Spark, or by Morpho and 40000 by Balancer alone or by Aave, and each margin
  lies between two of the balances; with the fallback haircut and gas at 3 the profit meets the
  floor exactly once the fee is deducted.  USDC and WETH have units apart (10 and 200 per
  token), so a minimum in the wrong one shows.
- *contract*: the clock runs for two and a half delays, so a proposal can mature, be replaced just
  before, and be repeated.  One call is enough because the proofs show the state between calls to
  be the initial state with other balances and more approvals; what others send before the call
  provides the former, and the second callback meets what the first one approved.  The router
  `empty` has no code, `usdc` is a token called as a router, and the lender `"aave"` stands for
  every other contract as well: what may happen while it runs does not depend on it, but for the
  loans it can ask of itself.  A loan of 1 with a premium of 2 makes a callback that forgets the
  premium visible in every balance.  `MCLiquidationCall` cuts what multiplies without adding a
  case: the timelock is played on an untouched contract and everything else in the first block
  (`TimelockOrCalls`), leftovers meet one lender (`BeforeTheCall`, `InTheCall`), the second
  callback runs under one lender and with fewer routers (`InsideACallback`), and leftovers are
  swept once (`AfterTheCall`).  The proofs do without all of these, for callbacks of any depth.
- *pools*: a build beside the loop starts in the second block and can end in that body, after it
  or with the next one; with two pairs there are pools of both kinds before and behind one whose
  calls fail, which is where an index into the answers would slip.
- *amm*: 24 bits are enough for every product of the code to fit, to fail its check and to
  saturate: `k` of a stable pool fits for reserves of 50 and saturates for 100, as it does in the
  code from about 2^64 on.  The radicands lie on, below and above squares and include the two
  largest words; the three fees are none, the lower and the higher one, on either leg.

The three violations are disagreements between the code and its own text, each quoted with its
line under `findings`: an ignored signal; a live borrow that erases the collateral of its
account; presign tasks that look tokens up among feeds.  Ten more findings are shown by
properties that *hold*, because what the code does is what the property states, for every
behaviour of the model.  Four are defects of the program: no call that the bot builds passes the
dispatcher of its contract (`BotCallsRevert`); with the selector as it stands no pool can be read
and nothing is offered (`UnreadableNeverOffers`); the minimum profit of a USDC loan is an amount
of ether (`MinimumInEther`); a Morpho loan is indexed without its assets, so that no task picks
one (`PickedArePriced`; the run *strategy* has no Morpho logs, the theorem `PricedAlways` has them).
The other six are about what the text promises: a stable pool always pays more than its curve
(`StableOverpays`); fees shrink the size of an arbitrage only if the buy leg is not the dearer
one (`SizingIsSound`); a revert weighs at most 5, where the whitepaper has 6
(`PenaltyOvershoot`); the profit goes to the owner and not to the cold wallet (`ProfitToOwner`); a
pending price without a block is never evicted (`PendingLifetimes`); and allowances are never
taken back (`ImplementsAtomic`).

Some disagreements no property can show, because the program's behaviour does not depend on
them.  The body updates a clone of the price feed, which nobody reads.  The spike regime begins at
100 gwei in the code (liquidation.rs:167) and at 60 in CHANGELOG.md:16, docs/ARCHITECTURE.md:127
and docs/whitepaper.md:104: it decides only about debts in WBTC, for which the price map has no
price.  And quiet blocks reset the breaker, which `hazards` notes.

Each property of a passing run has a mutant in `PROJECT.json`: a definition replaced by one
with a plausible mistake, which that run then catches.  The mutants sit under "Mistakes the
properties must notice" in each module and are used by nothing else.

### Fairness

Only `BlockLoop` assumes any: `WF(Joined \/ TimedOut)`, because tokio's timer fires whatever
the task does, and `WF(Shutdown)`, because a woken loop is polled.  Nothing is assumed of tasks
(they may hang in an RPC) or of the body (its RPC calls have no timeout), of blocks or of
signals.  `LoopNotWedged` therefore says exactly what the 900 ms timeout buys.  The other
modules state no liveness: nothing in the pipeline or the contract promises that a transaction
is ever included.

## Proofs

| Theorem | States | Inductive invariant |
|---|---|---|
| `SubmissionProofs!TypeCorrect` | types; the relay index is in range | `Types` and `IndexInv`: a task that stores holds an index below the number of endpoints |
| `SubmissionProofs!NonceNeverReused` | `NoNonceReuse` | `NonceInv`: until an outside transaction lands, the chain, the pool's current-life nonces and the tasks' nonces are below the counter, and what resync loaded is not ahead of what it compared with |
| `SubmissionProofs!FailuresBounded` | `FailureCountBounded` | inductive with the types: each task that is failing over accounts for one |
| `SubmissionProofs!KeepsTheBooks` | the pipeline implements `WalletLedger` | `JobInv`: the transactions of a call share its nonce, the chain is past what landed and at nothing a builder holds, and takes one transaction per nonce |
| `SubmissionProofs!JobsLandOnce` | the same as an invariant, on the level of signatures | `JobInv` |
| `SubmissionProofs!ResyncChangesNothing` | until an outside transaction lands, `resync_nonce` stores only what the counter holds | `NonceInv` |
| `SubmissionProofs!LostForGood` | `LostNonceStaysLost` | an action property over `NonceInv`: a nonce below the counter is not handed out again |
| `EngineProofs!TypeCorrect` | types; one awaited task | inductive as it stands |
| `EngineProofs!HaltStaysHalted` | `HaltIsPermanent` | an action property over typed states |
| `EngineProofs!HaltedForGood` | after the halt no task ever works again in this life of the process | from `HaltIsPermanent` |
| `EngineProofs!PenaltyBounded` | `PenaltyOvershoot` | inductive with the types; every task between its load and its penalty holds one capped weight in reserve |
| `EngineProofs!LossBounded` | `LossOvershoot` | with `ChargeInv`: a charge a task carries is one it may be given |
| `DataProofs!PricesConfirmed` | `TokenPricesConfirmed` | with `PollInv`: between two feeds the poll holds a confirmed ETH price of its own |
| `DataProofs!MarketTypes` | types | with `PollInv`, which bounds the products of rates |
| `DataProofs!AgesBounded` | `PendingLifetimes` | `AgeInv`: flushes and time to live of a swap add up to three at most, and a pending price's flushes to no more than the blocks since it was seen and its lead over the loop |
| `DataProofs!ScanTilesAll`, `ScanReaches` | `ScanTiles`, `ScanReachesHead` | `ScanInv`: at every step, up to where each protocol has been read (`Frontier`) |
| `DataProofs!IndexTypes`, `NewestWins` | `IndexTypeOK`, `NewestEventWins` | `EntryInv`: every entry's block lies below the horizon of its protocol, which only moves forward (`HorizonGrows`) |
| `StrategyProofs!StrategyTypes` | types | `CompositionInv`: the invariants of market and index hold in the composition, where each also stutters |
| `StrategyProofs!PricedAlways` | `PickedArePriced` | `PricedInv`: a health factor other than the maximum was computed with both prices (`JudgedArePriced`), no price is ever removed, and nothing is judged before the scan is over |
| `StrategyProofs!OffersDue` | `OffersAreDue` | `DueInv`: what is in the index was judged with confirmed prices or not at all (`AllJudged`), what a task holds was below a threshold (`AllBelow`), and what is past the gates cleared the debt gate (`AllCleared`) |
| `StrategyProofs!MarketInside` | inside the strategy the market takes only its own steps, so its theorems hold there (`PricesConfirmedInside`) | every task step leaves the market alone |
| `StrategyProofs!ScanInside`, `IndexTypesInside`, `NewestWinsInside` | the index keeps its promises although the tasks write health factors into it, which are no steps of its own | `CompositionInv`, from which the index's lemmas give each of them |
| `StrategyProofs!PresignIsIdle` | no presign task ever submits anything | `PresignInv`, by `PresignBlind`: among pending prices no loan has one of its own tokens, so its health factor is the maximum |
| `QuoteProofs!TypeCorrect` | types, the haircut's clamp, two hops at most | with `ShortRoute`: how long a route is at each step |
| `QuoteProofs!FeeIsCovered` | `FeeCovered` | `Judged`: from gate 1 on the profit clears the floor with the dearest fee deducted |
| `QuoteProofs!LenderIsCheapest`, `MarginsAbsorb` | `CheapestLender`, `MarginAbsorbs` | `SeenTrue` and `OfferChosen`: an undisturbed balance is the lender's own, and the offer stays the one that was chosen |
| `QuoteProofs!RouteIsSound`, `RouteIsComplete` | `RouteSound`, `RouteComplete` | `RouteInv`: the hops found so far (`Found`), and that every tier before the current one was dry if nothing disturbed the search (`Searched`) |
| `QuoteProofs!UnreadablePools` | `UnreadableNeverOffers` | inductive as it stands |
| `QuoteProofs!MinimumIsEther` | `MinimumInEther` | `JudgedInv`: profit, floor and minimum of an offer are those of the loan that was taken, at prices nothing changes |
| `QuoteProofs!HaircutIsOfRoute` | `HaircutOfRoute` | `HaircutInv`: the haircut is that of the first tier the estimate could read, or the fallback if there is none (`Estimated`); a direct route takes the first tier that is not dry (`FirstTier`); behind gate 1 the two are the same, for the haircut of dust leaves no profit |
| `ArbProofs!SizesAreSound` | `SizingIsSound` | `ArbInv`: the root in progress is taken of the product it belongs to (`Taken`) and the iterate stays above it, by `4 a (q + 1) <= (a + q + 1)^2` for `q = m \div a` (`NewtonStep`); `RootShrinks` compares the two roots |
| `ArbProofs!SwapKeepsProduct` | what `amm_out` pays, for all reserves, amounts and fees | a fact about an operator, no invariant |
| `ArbProofs!ProfitIsPriced` | `NoFreeProfit` | `LegInv`: after each leg what is held is no more than its price (`Bargain`), by `SwapKeepsProduct` |
| `ArbProofs!StablePaysMore` | `StableOverpays` | `LegInv`, where `Iterate` says that the loop is at its first value or within the curve |
| `FeedProofs!StatesOwn` | `StatesAreOwn` | `FeedInv`, with the decoding loop (`LoopRuns`) by induction over the index into the answers |
| `ExecutorProofs!TimelockAlone`, `TimelockHolds` | `TimelockRespected` for `BaseSpec` and for the whole contract | `EtaInv`: the ETA lies a full delay after the key became pending |
| `ExecutorProofs!TypeCorrect`, `ContextAlwaysClean` | types, no balance below zero; `ContextClean` | `ShapeInv`: the two together with `CallersInv`, by whom each callback was called and that it has data where it uses them |
| `ExecutorProofs!LendersAreRepaid` | `LendersGetTheirFees` | `LoansInv`: what a lender has, less what it earned (`Net`), is short by exactly the loans of the callbacks that are running, told from frame to frame |
| `ExecutorProofs!ProfitIsTheOwners` | `ProfitToOwner` | `LedgerInv`: what owner, cold wallet and others have is what was committed, until the sweep |
| `ExecutorProofs!Implements` | the contract implements `AtomicLiquidation` | `LedgerInv` with `LoansInv`; approvals only grow within a transaction |
| `ExecutorProofs!NobodyLosesTokens` | no lender, owner, cold wallet or receiver of sweeps loses a token | from the abstract specification alone, through the refinement |
| `ExecutorProofs!BotCallsAreCalls`, `ContractKeepsItsWord` | all of the above for the contract with the bot in front of it | the bot's call is one of the calls anybody may make |
| `ExecutorProofs!NoBotCallSucceeds` | `BotCallsRevert` | with the loan of the running call being the one the bot built |

They hold for every value of the constants that satisfies the named assumptions
(`SubmissionAssumption`, `BreakerAssumption`, `MarketAssumption`, `HashesAreNoFeeds`,
`IndexerAssumption`, `StrategyAssumption`, `AssetAssumption`, `QuoteAssumption`,
`DustAssumption`, `MinimumAssumption`, `ArbAssumption`, `RangeAssumption`, `CurveAssumption`,
`FeedAssumption`, `BaseAssumption`, `ExecutorAssumption`, `CallAssumption`): any finite set of
tasks, any number of endpoints and pools, any threshold and charge, any tokens, routers, amounts
and fees, words of any width.  Most only give the constants their types.  The others:

- `HashesAreNoFeeds` and `AssetAssumption`: a transaction hash is no feed and a token is no
  feed, which live in one map.
- `ArbAssumption` bounds what the code adds and multiplies unchecked.  `RangeAssumption` (a
  reserve and an amount, added and scaled by the fee, fit a word) excludes the one corner where
  `amm_out` can pay too much: a product that is exactly the largest word over a denominator that
  saturated.  Reserves of 112 bits and words of 256 are far from it.
- `CurveAssumption`: a stable pool that is left with a single unit of a token lies within its
  curve, or past the range of a word.  Amounts up to the reserve with at least 8 units of the
  other token satisfy it; below that a pool is all but empty, and rounding decides.
- `DustAssumption`: a debt is at least a nineteenth of the 1000 raw units of `min_reserves` (the
  debts that pass gate 2 are 10^6 and more), so a pool of dust has its haircut clamped to the
  whole bonus and the position is dropped.  Without it the two searches, one of which ignores
  dust and one not, could disagree.
- `MinimumAssumption`: no debt is so large (about 3.7 * 10^11 dollars) that its profit in
  millionths exceeds the floor in wei.
- `FeedAssumption` bounds the blocks such that one build at most runs beside the loop.

### How the proofs are built

Each module's invariant is inductive relative to the type invariant before it, proved action by
action, with a frame lemma for the actions that leave its variables alone.  Facts about
`Cardinality` come from the library.  Arithmetic with products and quotients of variables is
beyond the SMT solver; lemmas such as `ProductMonotone`, `QuotientMonotone` and `DivisionNat`
state the few laws that are needed and are cited by name.  Induction over numbers goes through
well-foundedness: `FeedProofs!LeastNumber` is the library's `WFMin` for the natural numbers, and
what holds at 0 and passes from each index to the next holds up to the end because there is no
first index where it fails.  `LoopRuns` gets the run of a loop of any length in this way.

The contract's proof has one lemma per kind of change instead of one per action, since most of its
actions only move a program counter: a callback opens (`SomeOpens`), moves on, repays, or something
happens outside it (`StepKinds` sorts the actions into these), and each effect on the balances is
stated once (`OpenEffect`, `RepayEffect`, `OutsideEffect`, `SettleEffect`, `SweepEffect`).

Two refinements carry theorems over: what `AtomicLiquidation` and `WalletLedger` promise holds
of the contract and the pipeline, and `MarketInside` and `BotCallsAreCalls` bring the theorems
about a part into the composition that contains it.

Two findings are theorems of their own: `NoBotCallSucceeds` and `PresignIsIdle` say for every
value of the constants what the runs *contract* and *presign_blind* show on an instance.

Only model-checked:

- `LoopNotWedged`: liveness under fairness and `ENABLED` are out of the prover's reach.
- The violations, of course; but for *presign_blind* see `PresignIsIdle`.

Out of reach as well, and not needed so far: induction theorems that take an operator as a
parameter, and `RECURSIVE` operators, of which no module here has any.

## Not modelled, and the plan

Written in this order, the most important behaviour first: submission, engine, contract, market
data, index, strategy, quote; then the calldata between bot and contract, the pool feed, and the
arithmetic.  What is left:

1. Composition of `LiquidationStrategy` with `SubmissionPipeline`: what is offered twice, and
   what a batch that fails half-way leaves behind.  An abstract specification of an offer that
   passes the gates, implemented by the strategy.
2. The breaker across restarts of the process: it lives in memory and the service restarts.
3. The profit of `LiquidationQuote` as the profit of `LiquidationStrategy`, which takes it from
   a set.
4. Proofs: `StrategyProofs` about the presign tasks once their lookup is corrected, and that the
   strategy implements the abstract offer of item 1.

Left out for good, with the reason in `PROJECT.json` under each component: encoders of calldata
but for the one that meets the contract, metrics, message texts, configuration parsing, and the
swap and lender adapters that only build bytes; `floor_tick` and `ceil_tick`, which have no
caller; the call by REVM, whose only user, `simulate_swap_ending_tick`, has no caller; the market
registry, which nobody reads after boot.
