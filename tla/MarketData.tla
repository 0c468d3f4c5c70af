------------------------------ MODULE MarketData ------------------------------
(***************************************************************************)
(* The prices and the gas fees the engine decides with: the shared price   *)
(* map (bot/src/shared/price_oracle.rs writes it once per block,           *)
(* bot/src/shared/mempool_monitor.rs whenever it sees an oracle            *)
(* transaction), the pending prices, and the cached fees                   *)
(* (bot/src/shared/gas_oracle.rs).  The writers are the block loop, whose  *)
(* body awaits a feed between any two writes, and the mempool watcher.     *)
(***************************************************************************)
EXTENDS Integers, Sequences

CONSTANTS
  EthQuotes,    \* answers of the ETH/USD feed
  BtcQuotes,    \* answers of the cbBTC/USD feed
  Rates,        \* answers of the cbETH/ETH and wstETH/ETH feeds
  FallbackEth,  \* native_price_fallback_usd
  Transmitted,  \* prices decoded from transmit() transactions in the mempool
  Fees,         \* base fees of block headers, in gwei
  Tips,         \* averaged 75th percentile tips, in gwei
  Swaps,        \* hashes of large pending swaps
  Window,       \* samples kept in price_history (50)
  RefreshEvery, \* blocks between refreshes of the fee history (5)
  MaxBlock,     \* bound: last block
  MaxPending    \* bound: oracle transactions seen in the mempool

FeeFloor == 0   \* BASE_FEE_FLOOR_WEI, a thousandth of a gwei

ASSUME MarketAssumption ==
  /\ EthQuotes \union BtcQuotes \union Rates \union Transmitted \subseteq Nat \ {0}
  /\ FallbackEth \in Nat \ {0}
  /\ Fees \union Tips \subseteq Nat
  /\ Window \in Nat \ {0} /\ RefreshEvery \in Nat \ {0}
  /\ MaxBlock \in Nat /\ MaxPending \in Nat

VARIABLES
  prices,      \* current_prices: key -> price, for the keys written so far
  pending,     \* pending_prices: oracle -> [price, seen_block]
  history,     \* price_history: the last Window prices of ETH
  swaps,       \* pending_swaps: hash -> [block, ttl]
  base_fee,    \* cached_base_fee
  tip,         \* dynamic_priority_fee
  block,       \* the block the loop is at
  stage,       \* where in its body the loop is
  eth_usd,     \* local of poll: what it multiplies rates with
  transmits,   \* bound: oracle transactions seen so far
  flushes,     \* history: flushes each pending price and swap has been through
  sighting     \* history: whether the last transmit() seen had a block, and by how many
               \* blocks that was ahead of the loop

marketVars == <<prices, pending, history, swaps, base_fee, tip, block, stage, eth_usd,
                transmits, flushes, sighting>>
fees == <<base_fee, tip>>

\* keys of the price map: feeds by their address, tokens by theirs
EthFeed == "ETH_USD"
BtcFeed == "BTC_USD"
Stables == {"USDC", "USDbC", "DAI"}
Rated   == {"cbETH", "wstETH"}
Tokens  == Stables \union Rated \union {"WETH", "cbBTC"}

\* the history of flushes is kept for feeds and for transactions
ASSUME HashesAreNoFeeds == EthFeed \notin Swaps

\* DashMap::insert of several keys
Written(map, new) ==
  [k \in DOMAIN map \union DOMAIN new |-> IF k \in DOMAIN new THEN new[k] ELSE map[k]]
Kept(map, Keep(_)) == [k \in {x \in DOMAIN map : Keep(x)} |-> map[k]]

\* GasOracle::refresh before the loop starts, MempoolMonitor::new
MarketInit ==
  /\ prices = [k \in {EthFeed} |-> FallbackEth]
  /\ pending = <<>>
  /\ history = <<FallbackEth>>
  /\ swaps = <<>>
  /\ base_fee \in Fees \union {FeeFloor}
  /\ tip \in Tips \union {0}
  /\ block = 0
  /\ stage = "idle"
  /\ eth_usd = 0
  /\ transmits = 0
  /\ flushes = <<>>
  /\ sighting = [mined |-> TRUE, lead |-> 0]

-----------------------------------------------------------------------------
(* Mistakes the properties must notice.                                    *)

RateFromSharedMap(t, rate) == rate * prices[EthFeed]
AlsoWrapsEther(p) == [k \in {EthFeed, "WETH"} |-> p]
SampledForever(h, p) == Append(h, p)
TtlOfMinedOnly(s) ==
  swaps[s].block = 0 \/ (swaps[s].ttl > 1 /\ swaps[s].block + 3 > block)

-----------------------------------------------------------------------------
(* The loop: fees, flush, poll, in this order.                             *)

At(from, to) == stage = from /\ stage' = to

\* set_base_fee; a header without a base fee goes straight to refresh
NewBlock ==
  /\ stage = "idle" /\ block < MaxBlock
  /\ block' = block + 1
  /\ \/ /\ base_fee' \in Fees
        /\ stage' = IF block' % RefreshEvery = 0 THEN "refresh" ELSE "flush"
     \/ stage' = "refresh" /\ UNCHANGED base_fee
  /\ UNCHANGED <<prices, pending, history, swaps, tip, eth_usd, transmits, flushes, sighting>>

\* fee_history: a failed call, or an empty list, leaves the cached value
RefreshGas ==
  /\ At("refresh", "flush")
  /\ base_fee' \in Fees \union {base_fee}
  /\ tip' \in Tips \union {tip}
  /\ UNCHANGED <<prices, pending, history, swaps, block, eth_usd, transmits, flushes, sighting>>

\* one more flush survived
Aged(keys) ==
  [k \in keys |-> 1 + IF k \in DOMAIN flushes THEN flushes[k] ELSE 0]

StillPending(o) == pending[o].seen_block = 0 \/ pending[o].seen_block + 3 > block
\* ttl counts down first; a swap that has been mined is also dropped by its age
StillSwapping(s) ==
  /\ swaps[s].ttl > 1
  /\ swaps[s].block = 0 \/ swaps[s].block + 3 > block

\* flush_confirmed_pending
Flush ==
  /\ At("flush", "eth")
  /\ pending' = Kept(pending, StillPending)
  /\ swaps' = [s \in {x \in DOMAIN swaps : StillSwapping(x)} |->
                 [swaps[s] EXCEPT !.ttl = @ - 1]]
  /\ flushes' = Aged(DOMAIN pending' \union DOMAIN swaps')
  /\ UNCHANGED <<prices, history, fees, block, eth_usd, transmits, sighting>>

\* poll writes ETH under both of its keys and the stables at peg; a feed that fails is
\* replaced by the configured price
PollEth ==
  /\ At("eth", "btc")
  /\ eth_usd' \in EthQuotes \union {FallbackEth}
  /\ prices' = Written(prices, [k \in Stables \union {EthFeed, "WETH"} |->
                                  IF k \in Stables THEN 1 ELSE eth_usd'])
  /\ UNCHANGED <<pending, history, swaps, fees, block, transmits, flushes, sighting>>

\* the other feeds: one that fails is skipped, and its token keeps its price
PollBtc ==
  /\ At("btc", "cbETH")
  /\ \/ \E p \in BtcQuotes : prices' = Written(prices, [k \in {"cbBTC", BtcFeed} |-> p])
     \/ UNCHANGED prices
  /\ UNCHANGED <<pending, history, swaps, fees, block, eth_usd, transmits, flushes, sighting>>

RatedPrice(t, rate) == rate * eth_usd
NextFeed == [cbETH |-> "wstETH", wstETH |-> "spawn"]

PollRated(t) ==
  /\ At(t, NextFeed[t])
  /\ \/ \E r \in Rates : prices' = Written(prices, [k \in {t} |-> RatedPrice(t, r)])
     \/ UNCHANGED prices
  /\ UNCHANGED <<pending, history, swaps, fees, block, eth_usd, transmits, flushes, sighting>>

\* the loop spawns the strategy task and waits for it or for the timer
Spawned ==
  /\ At("spawn", "idle")
  /\ eth_usd' = 0
  /\ UNCHANGED <<prices, pending, history, swaps, fees, block, transmits, flushes, sighting>>

-----------------------------------------------------------------------------
(* MempoolMonitor::watch.  A lost connection restarts it and leaves no     *)
(* trace but the transactions it misses.  A transmit() to the cbETH/ETH    *)
(* feed never passes the price range check (100 to 1000000).               *)

CurrentWrite(p) == [k \in {EthFeed} |-> p]

\* push, then remove(0) beyond the window
Sampled(h, p) ==
  LET longer == Append(h, p) IN IF Len(longer) > Window THEN Tail(longer) ELSE longer

\* tx.block_number is absent while the transaction is pending, and the node's block otherwise:
\* the loop works through its headers one by one and knows nothing of how far the node is
SeenBlocks == 0..MaxBlock

Sighted(b) == [mined |-> b # 0, lead |-> IF b > block THEN b - block ELSE 0]

WatchTransmit ==
  /\ transmits < MaxPending
  /\ transmits' = transmits + 1
  /\ \E p \in Transmitted, b \in SeenBlocks :
       /\ pending' = Written(pending, [k \in {EthFeed} |-> [price |-> p, seen_block |-> b]])
       /\ prices' = Written(prices, CurrentWrite(p))
       /\ history' = Sampled(history, p)
       /\ sighting' = Sighted(b)
  /\ flushes' = Kept(flushes, LAMBDA k : k # EthFeed)
  /\ UNCHANGED <<swaps, fees, block, stage, eth_usd>>

\* what the decoders make of a swap of 50000 dollars or more; what they refuse is not here
NewSwap(b) == [block |-> b, ttl |-> 3]

WatchSwap(s) ==
  /\ s \notin DOMAIN swaps /\ transmits < MaxPending
  /\ transmits' = transmits + 1
  /\ \E b \in SeenBlocks : swaps' = Written(swaps, [k \in {s} |-> NewSwap(b)])
  /\ UNCHANGED <<prices, pending, history, fees, block, stage, eth_usd, flushes, sighting>>

-----------------------------------------------------------------------------
(* What is read from it.                                                   *)

\* pending_oracle_prices
PendingPrices == [o \in DOMAIN pending |-> pending[o].price]

\* realized_volatility is zero with fewer than three samples, or equal returns
Volatile ==
  /\ Len(history) >= 3
  /\ \E i, j \in 2..Len(history) : history[i] * history[j - 1] # history[j] * history[i - 1]

-----------------------------------------------------------------------------
MarketStep ==
  \/ NewBlock
  \/ RefreshGas
  \/ Flush
  \/ PollEth
  \/ PollBtc
  \/ \E t \in Rated : PollRated(t)
  \/ WatchTransmit
  \/ \E s \in Swaps : WatchSwap(s)

MarketNext == MarketStep \/ Spawned

MarketSpec == MarketInit /\ [][MarketNext]_marketVars

-----------------------------------------------------------------------------
(* Properties.                                                             *)

Keys == Tokens \union {EthFeed, BtcFeed}
EthPrices == EthQuotes \union {FallbackEth}

\* What a confirmed block can make the price of a token: never a price that is only in
\* the mempool.
ConfirmedPrices(t) ==
  CASE t = "WETH"       -> EthPrices
    [] t \in Stables    -> {1}
    [] t = "cbBTC"      -> BtcQuotes
    [] t \in Rated      -> {r * e : r \in Rates, e \in EthPrices}

\* Types of the market state (price_oracle.rs, mempool_monitor.rs, gas_oracle.rs).
MarketTypeOK ==
  /\ DOMAIN prices \subseteq Keys /\ \A k \in DOMAIN prices : prices[k] \in Nat \ {0}
  /\ DOMAIN pending \subseteq {EthFeed}
  /\ \A o \in DOMAIN pending : pending[o] \in [price : Transmitted, seen_block : 0..MaxBlock]
  /\ history \in Seq(Nat \ {0}) /\ Len(history) \in 1..Window
  /\ DOMAIN swaps \subseteq Swaps
  /\ \A s \in DOMAIN swaps : swaps[s] \in [block : 0..MaxBlock, ttl : 1..3]
  /\ base_fee \in Fees \union {FeeFloor} /\ tip \in Tips \union {0}
  /\ block \in 0..MaxBlock
  /\ stage \in {"idle", "refresh", "flush", "eth", "btc", "spawn"} \union Rated
  /\ eth_usd \in EthPrices \union {0}

\* The price of a token is confirmed at all times, although the watcher writes an
\* unconfirmed ETH price into the same map between any two writes of the poll
\* (mempool_monitor.rs:174, price_oracle.rs:80-107): what health factors and gates read
\* by token is never taken from the mempool.
TokenPricesConfirmed ==
  \A t \in Tokens \intersect DOMAIN prices : prices[t] \in ConfirmedPrices(t)

\* A pending swap survives at most two flushes.  A price seen in a block survives three and
\* as many more as that block was ahead of the loop.  One seen without a block is kept for
\* ever: it leaves only when a later sighting replaces it (mempool_monitor.rs:230-244).
PendingLifetimes ==
  /\ \A s \in DOMAIN swaps \intersect DOMAIN flushes : flushes[s] <= 2
  /\ sighting.mined =>
       \A o \in DOMAIN pending \intersect DOMAIN flushes : flushes[o] <= 3 + sighting.lead
  /\ ~sighting.mined => EthFeed \in DOMAIN pending

=============================================================================
