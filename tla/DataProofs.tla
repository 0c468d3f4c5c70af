------------------------------ MODULE DataProofs ------------------------------
(***************************************************************************)
(* Proofs about the two maps that the strategy reads: MarketData, whose    *)
(* token prices are confirmed ones, and PositionIndexer, whose scan covers *)
(* the past exactly once and whose entries only give way to newer ones.    *)
(***************************************************************************)
EXTENDS MarketData, PositionIndexer, TLAPS

-----------------------------------------------------------------------------
(* While poll is between two feeds it holds the ETH price it has written.  *)

PollInv == stage \in {"btc"} \union Rated => eth_usd \in EthPrices

PriceInv == TokenPricesConfirmed /\ PollInv

\* Inserting keys into the price map keeps what the other keys had.
LEMMA WrittenValues ==
  ASSUME NEW map, NEW new
  PROVE  /\ DOMAIN Written(map, new) = DOMAIN map \union DOMAIN new
         /\ \A k \in DOMAIN new : Written(map, new)[k] = new[k]
         /\ \A k \in DOMAIN map \ DOMAIN new : Written(map, new)[k] = map[k]
  BY DEF Written

\* The price map stays confirmed when the tokens that are written get confirmed prices.
LEMMA WritingConfirmed ==
  ASSUME NEW new, TokenPricesConfirmed, prices' = Written(prices, new),
         \A t \in Tokens \intersect DOMAIN new : new[t] \in ConfirmedPrices(t)
  PROVE  TokenPricesConfirmed'
<1> SUFFICES ASSUME NEW t \in Tokens, t \in DOMAIN prices'
             PROVE  prices'[t] \in ConfirmedPrices(t)
  BY DEF TokenPricesConfirmed
<1>1. CASE t \in DOMAIN new
  <2>1. prices'[t] = new[t]
    BY <1>1 DEF Written
  <2>2. t \in Tokens \intersect DOMAIN new
    BY <1>1
  <2> QED BY <2>1, <2>2
<1>2. CASE t \notin DOMAIN new
  <2>1. t \in DOMAIN prices /\ prices'[t] = prices[t]
    BY <1>2, WrittenValues
  <2> QED BY <2>1 DEF TokenPricesConfirmed
<1> QED BY <1>1, <1>2

LEMMA PriceInit == MarketInit => PriceInv
  BY DEF MarketInit, PriceInv, TokenPricesConfirmed, PollInv, Tokens, Stables, Rated, EthFeed

LEMMA PriceStep == PriceInv /\ [MarketNext]_marketVars => PriceInv'
<1> SUFFICES ASSUME TokenPricesConfirmed, PollInv, [MarketNext]_marketVars
             PROVE  TokenPricesConfirmed' /\ PollInv'
  BY DEF PriceInv
<1> USE DEF PollInv, At, Rated
<1>1. CASE NewBlock
  BY <1>1 DEF NewBlock, TokenPricesConfirmed
<1>2. CASE RefreshGas
  BY <1>2 DEF RefreshGas, TokenPricesConfirmed
<1>3. CASE Flush
  BY <1>3 DEF Flush, TokenPricesConfirmed
<1>4. CASE PollEth
  <2> DEFINE new == [k \in Stables \union {EthFeed, "WETH"} |->
                       IF k \in Stables THEN 1 ELSE eth_usd']
  <2>1. eth_usd' \in EthPrices /\ prices' = Written(prices, new)
    BY <1>4 DEF PollEth, EthPrices
  <2>2. \A t \in Tokens \intersect DOMAIN new : new[t] \in ConfirmedPrices(t)
    <3>1. \A t \in Stables : new[t] = 1 /\ ConfirmedPrices(t) = {1}
      BY DEF ConfirmedPrices, Stables
    <3>2. new["WETH"] = eth_usd' /\ ConfirmedPrices("WETH") = EthPrices
      BY DEF ConfirmedPrices, Stables
    <3>3. Tokens \intersect DOMAIN new = Stables \union {"WETH"}
      BY DEF Tokens, EthFeed
    <3> QED BY <2>1, <3>1, <3>2, <3>3
  <2>3. TokenPricesConfirmed'
    BY <2>1, <2>2, WritingConfirmed
  <2>4. PollInv'
    BY <1>4 DEF PollEth, EthPrices
  <2> QED BY <2>3, <2>4
<1>5. CASE PollBtc
  <2>1. PollInv'
    BY <1>5 DEF PollBtc
  <2>2. CASE prices' = prices
    BY <2>1, <2>2 DEF TokenPricesConfirmed
  <2>3. CASE \E p \in BtcQuotes : prices' = Written(prices, [k \in {"cbBTC", BtcFeed} |-> p])
    <3> PICK p \in BtcQuotes : prices' = Written(prices, [k \in {"cbBTC", BtcFeed} |-> p])
      BY <2>3
    <3>1. \A t \in Tokens \intersect {"cbBTC", BtcFeed} : p \in ConfirmedPrices(t)
      BY DEF ConfirmedPrices, Tokens, Stables, BtcFeed
    <3> QED BY <3>1, <2>1, WritingConfirmed
  <2> QED BY <1>5, <2>1, <2>2, <2>3 DEF PollBtc
<1>6. ASSUME NEW f \in Rated, PollRated(f)
      PROVE  TokenPricesConfirmed' /\ PollInv'
  <2>1. PollInv' /\ eth_usd \in EthPrices
    BY <1>6 DEF PollRated, NextFeed
  <2>2. CASE prices' = prices
    BY <2>1, <2>2 DEF TokenPricesConfirmed
  <2>3. CASE \E r \in Rates : prices' = Written(prices, [k \in {f} |-> RatedPrice(f, r)])
    <3> PICK r \in Rates : prices' = Written(prices, [k \in {f} |-> RatedPrice(f, r)])
      BY <2>3
    <3>1. \A t \in Tokens \intersect {f} : RatedPrice(f, r) \in ConfirmedPrices(t)
      BY <2>1, f \in Rated DEF ConfirmedPrices, RatedPrice, Stables
    <3> QED BY <3>1, <2>1, WritingConfirmed
  <2> QED BY <1>6, <2>1, <2>2, <2>3 DEF PollRated
<1>7. CASE WatchTransmit
  <2> PICK p \in Transmitted : prices' = Written(prices, CurrentWrite(p))
    BY <1>7 DEF WatchTransmit
  <2>1. \A t \in Tokens \intersect DOMAIN CurrentWrite(p) : CurrentWrite(p)[t] \in ConfirmedPrices(t)
    BY DEF CurrentWrite, Tokens, Stables, EthFeed
  <2>2. PollInv'
    BY <1>7 DEF WatchTransmit, EthPrices
  <2> QED BY <2>1, <2>2, WritingConfirmed
<1>8. ASSUME NEW s \in Swaps, WatchSwap(s)
      PROVE  TokenPricesConfirmed' /\ PollInv'
  BY <1>8 DEF WatchSwap, TokenPricesConfirmed
<1>9. CASE Spawned
  BY <1>9 DEF Spawned, TokenPricesConfirmed
<1>10. CASE UNCHANGED marketVars
  BY <1>10 DEF marketVars, TokenPricesConfirmed
<1> QED
  BY <1>1, <1>2, <1>3, <1>4, <1>5, <1>6, <1>7, <1>8, <1>9, <1>10 DEF MarketNext, MarketStep

-----------------------------------------------------------------------------
\* No price by token ever comes from the mempool, whatever the watcher writes into the
\* shared map between two steps of poll (mempool_monitor.rs:174, price_oracle.rs:80-107).
THEOREM PricesConfirmed == MarketSpec => []TokenPricesConfirmed
<1>1. PriceInv => TokenPricesConfirmed
  BY DEF PriceInv
<1> QED BY PriceInit, PriceStep, <1>1, PTL DEF MarketSpec

-----------------------------------------------------------------------------
(* Types.                                                                  *)

USE MarketAssumption DEF fees

\* Inserting typed prices keeps the price map typed.
LEMMA WritingTyped ==
  ASSUME MarketTypeOK, NEW new, prices' = Written(prices, new), DOMAIN new \subseteq Keys,
         \A k \in DOMAIN new : new[k] \in Nat \ {0}
  PROVE  DOMAIN prices' \subseteq Keys /\ \A k \in DOMAIN prices' : prices'[k] \in Nat \ {0}
<1>1. DOMAIN prices' = DOMAIN prices \union DOMAIN new
  BY WrittenValues
<1>2. ASSUME NEW k \in DOMAIN prices' PROVE prices'[k] \in Nat \ {0}
  BY WrittenValues DEF MarketTypeOK, Written
<1> QED BY <1>1, <1>2 DEF MarketTypeOK

LEMMA SampledType ==
  ASSUME NEW h \in Seq(Nat \ {0}), Len(h) \in 1..Window, NEW p \in Nat \ {0}
  PROVE  Sampled(h, p) \in Seq(Nat \ {0}) /\ Len(Sampled(h, p)) \in 1..Window
<1> DEFINE longer == Append(h, p)
<1>1. longer \in Seq(Nat \ {0}) /\ Len(longer) = Len(h) + 1 /\ longer # <<>>
  OBVIOUS
<1>2. Tail(longer) \in Seq(Nat \ {0}) /\ Len(Tail(longer)) = Len(longer) - 1
  BY <1>1
<1> HIDE DEF longer
<1>3. Sampled(h, p) = IF Len(longer) > Window THEN Tail(longer) ELSE longer
  BY DEF Sampled, longer
<1>4. CASE Len(longer) > Window
  <2>1. Sampled(h, p) = Tail(longer)
    BY <1>3, <1>4
  <2> QED BY <1>1, <1>2, <1>4, <2>1
<1>5. CASE ~(Len(longer) > Window)
  <2>1. Sampled(h, p) = longer
    BY <1>3, <1>5
  <2>2. Len(longer) <= Window /\ Len(longer) >= 1
    BY <1>1, <1>5, MarketAssumption DEF MarketAssumption
  <2> QED BY <1>1, <2>1, <2>2
<1> QED BY <1>4, <1>5

\* The rest of the types: everything but the prices.
RestTyped ==
  /\ DOMAIN pending \subseteq {EthFeed}
  /\ \A o \in DOMAIN pending : pending[o] \in [price : Transmitted, seen_block : 0..MaxBlock]
  /\ history \in Seq(Nat \ {0}) /\ Len(history) \in 1..Window
  /\ DOMAIN swaps \subseteq Swaps
  /\ \A s \in DOMAIN swaps : swaps[s] \in [block : 0..MaxBlock, ttl : 1..3]
  /\ base_fee \in Fees \union {FeeFloor} /\ tip \in Tips \union {0}
  /\ block \in 0..MaxBlock
  /\ stage \in {"idle", "refresh", "flush", "eth", "btc", "spawn"} \union Rated
  /\ eth_usd \in EthPrices \union {0}

LEMMA MarketTypeInit == MarketInit => MarketTypeOK
<1> SUFFICES ASSUME MarketInit PROVE MarketTypeOK
  OBVIOUS
<1>1. prices = [k \in {EthFeed} |-> FallbackEth] /\ EthFeed \in Keys
  BY DEF MarketInit, Keys
<1>2. history \in Seq(Nat \ {0}) /\ Len(history) = 1
  BY DEF MarketInit
<1> QED BY <1>1, <1>2 DEF MarketInit, MarketTypeOK, EthPrices, FeeFloor

LEMMA MarketTypeStep ==
  MarketTypeOK /\ PollInv /\ [MarketNext]_marketVars => MarketTypeOK'
<1> SUFFICES ASSUME MarketTypeOK, PollInv, [MarketNext]_marketVars PROVE MarketTypeOK'
  OBVIOUS
<1> DEFINE PricesTyped == DOMAIN prices \subseteq Keys
                          /\ \A k \in DOMAIN prices : prices[k] \in Nat \ {0}
<1>0. /\ MarketTypeOK <=> PricesTyped /\ RestTyped
      /\ MarketTypeOK' <=> PricesTyped' /\ RestTyped'
  BY DEF MarketTypeOK, RestTyped
<1> SUFFICES PricesTyped' /\ RestTyped'
  BY <1>0
<1>a. PricesTyped /\ RestTyped
  BY <1>0
<1>b. prices' = prices => PricesTyped'
  BY <1>a
<1>1. CASE NewBlock
  <2>1. RestTyped'
    BY <1>1, <1>a DEF NewBlock, RestTyped
  <2> QED BY <1>1, <1>b, <2>1 DEF NewBlock
<1>2. CASE RefreshGas
  <2>1. RestTyped'
    BY <1>2, <1>a DEF RefreshGas, RestTyped, At
  <2> QED BY <1>2, <1>b, <2>1 DEF RefreshGas
<1>3. CASE Flush
  <2>1. /\ DOMAIN pending' \subseteq DOMAIN pending
        /\ \A o \in DOMAIN pending' : pending'[o] = pending[o]
    BY <1>3 DEF Flush, Kept
  <2>2. /\ DOMAIN swaps' \subseteq DOMAIN swaps
        /\ \A s \in DOMAIN swaps' : swaps[s].ttl > 1 /\ swaps'[s] = [swaps[s] EXCEPT !.ttl = @ - 1]
    BY <1>3 DEF Flush, StillSwapping
  <2>3. \A s \in DOMAIN swaps' : swaps'[s] \in [block : 0..MaxBlock, ttl : 1..3]
    <3> SUFFICES ASSUME NEW s \in DOMAIN swaps'
                 PROVE  swaps'[s] \in [block : 0..MaxBlock, ttl : 1..3]
      OBVIOUS
    <3>1. swaps[s] \in [block : 0..MaxBlock, ttl : 1..3] /\ swaps[s].ttl > 1
      BY <1>a, <2>2 DEF RestTyped
    <3>2. swaps[s].ttl - 1 \in 1..3
      BY <3>1
    <3> QED BY <2>2, <3>1, <3>2
  <2>4. RestTyped'
    BY <1>3, <1>a, <2>1, <2>2, <2>3 DEF Flush, RestTyped, At
  <2> QED BY <1>3, <1>b, <2>4 DEF Flush
<1>4. CASE PollEth
  <2> DEFINE new == [k \in Stables \union {EthFeed, "WETH"} |->
                       IF k \in Stables THEN 1 ELSE eth_usd']
  <2>1. eth_usd' \in EthPrices /\ eth_usd' \in Nat \ {0} /\ prices' = Written(prices, new)
    BY <1>4 DEF PollEth, EthPrices
  <2>2. DOMAIN new \subseteq Keys /\ \A k \in DOMAIN new : new[k] \in Nat \ {0}
    BY <2>1 DEF Keys, Tokens
  <2>3. PricesTyped'
    BY <2>1, <2>2, WritingTyped
  <2>4. RestTyped'
    BY <1>4, <1>a, <2>1 DEF PollEth, RestTyped, At
  <2> QED BY <2>3, <2>4
<1>5. CASE PollBtc
  <2>1. RestTyped'
    BY <1>5, <1>a DEF PollBtc, RestTyped, At, Rated
  <2>2. CASE \E p \in BtcQuotes : prices' = Written(prices, [k \in {"cbBTC", BtcFeed} |-> p])
    <3> PICK p \in BtcQuotes : prices' = Written(prices, [k \in {"cbBTC", BtcFeed} |-> p])
      BY <2>2
    <3>1. {"cbBTC", BtcFeed} \subseteq Keys /\ p \in Nat \ {0}
      BY DEF Keys, Tokens
    <3>2. PricesTyped'
      BY <3>1, WritingTyped
    <3> QED BY <2>1, <3>2
  <2> QED BY <1>5, <1>b, <2>1, <2>2 DEF PollBtc
<1>6. ASSUME NEW f \in Rated, PollRated(f) PROVE PricesTyped' /\ RestTyped'
  <2>1. RestTyped' /\ eth_usd \in EthPrices
    BY <1>6, <1>a DEF PollRated, RestTyped, At, Rated, NextFeed, PollInv
  <2>2. CASE \E r \in Rates : prices' = Written(prices, [k \in {f} |-> RatedPrice(f, r)])
    <3> PICK r \in Rates : prices' = Written(prices, [k \in {f} |-> RatedPrice(f, r)])
      BY <2>2
    <3>1. r \in Nat \ {0} /\ eth_usd \in Nat \ {0}
      BY <2>1 DEF EthPrices
    <3>2. {f} \subseteq Keys /\ RatedPrice(f, r) \in Nat \ {0}
      BY <3>1 DEF Keys, Tokens, RatedPrice
    <3>3. PricesTyped'
      BY <3>2, WritingTyped
    <3> QED BY <2>1, <3>3
  <2> QED BY <1>6, <1>b, <2>1, <2>2 DEF PollRated
<1>7. CASE WatchTransmit
  <2>1. PICK p \in Transmitted, b \in SeenBlocks :
          /\ pending' = Written(pending, [k \in {EthFeed} |-> [price |-> p, seen_block |-> b]])
          /\ prices' = Written(prices, CurrentWrite(p))
          /\ history' = Sampled(history, p)
    BY <1>7 DEF WatchTransmit
  <2>2. p \in Nat \ {0} /\ b \in 0..MaxBlock
    BY <1>a DEF SeenBlocks, RestTyped
  <2>3. PricesTyped'
    BY <2>1, <2>2, WritingTyped DEF CurrentWrite, Keys
  <2>4. history' \in Seq(Nat \ {0}) /\ Len(history') \in 1..Window
    BY <1>a, <2>1, <2>2, SampledType DEF RestTyped
  <2>5. /\ DOMAIN pending' \subseteq {EthFeed}
        /\ \A o \in DOMAIN pending' : pending'[o] \in [price : Transmitted, seen_block : 0..MaxBlock]
    BY <1>a, <2>1, <2>2 DEF RestTyped, Written
  <2>6. RestTyped'
    BY <1>7, <1>a, <2>4, <2>5 DEF WatchTransmit, RestTyped
  <2> QED BY <2>3, <2>6
<1>8. ASSUME NEW s \in Swaps, WatchSwap(s) PROVE PricesTyped' /\ RestTyped'
  <2>1. PICK b \in SeenBlocks : swaps' = Written(swaps, [k \in {s} |-> NewSwap(b)])
    BY <1>8 DEF WatchSwap
  <2>2. NewSwap(b) \in [block : 0..MaxBlock, ttl : 1..3]
    BY <1>a DEF NewSwap, SeenBlocks, RestTyped
  <2>3. /\ DOMAIN swaps' \subseteq Swaps
        /\ \A x \in DOMAIN swaps' : swaps'[x] \in [block : 0..MaxBlock, ttl : 1..3]
    BY <1>a, <2>1, <2>2 DEF RestTyped, Written
  <2>4. RestTyped'
    BY <1>8, <1>a, <2>3 DEF WatchSwap, RestTyped
  <2> QED BY <1>8, <1>b, <2>4 DEF WatchSwap
<1>9. CASE Spawned
  <2>1. RestTyped'
    BY <1>9, <1>a DEF Spawned, RestTyped, At
  <2> QED BY <1>9, <1>b, <2>1 DEF Spawned
<1>10. CASE UNCHANGED marketVars
  <2>1. RestTyped'
    BY <1>10, <1>a DEF marketVars, RestTyped
  <2> QED BY <1>10, <1>b, <2>1 DEF marketVars
<1> HIDE DEF PricesTyped
<1> QED
  BY <1>1, <1>2, <1>3, <1>4, <1>5, <1>6, <1>7, <1>8, <1>9, <1>10 DEF MarketNext, MarketStep

\* The run's MarketTypeOK, for all quotes, fees, windows and interleavings.
THEOREM MarketTypes == MarketSpec => []MarketTypeOK
<1>1. PriceInv => PollInv
  BY DEF PriceInv
<1> QED BY PriceInit, PriceStep, MarketTypeInit, MarketTypeStep, <1>1, PTL DEF MarketSpec

-----------------------------------------------------------------------------
(* How long something pending has been flushed: a swap as often as its ttl *)
(* went down, a price at most once per block since it was seen.            *)

Flushed == IF stage \in {"refresh", "flush"} THEN 0 ELSE 1

AgeInv ==
  /\ DOMAIN flushes \subseteq DOMAIN pending \union DOMAIN swaps
  /\ \A k \in DOMAIN flushes : flushes[k] \in Nat
  /\ \A s \in DOMAIN swaps \intersect DOMAIN flushes : flushes[s] + swaps[s].ttl <= 3
  /\ sighting \in [mined : BOOLEAN, lead : Nat]
  /\ \A o \in DOMAIN pending :
       /\ sighting.mined <=> pending[o].seen_block # 0
       /\ pending[o].seen_block <= block + sighting.lead
  /\ ~sighting.mined => EthFeed \in DOMAIN pending
  /\ \A o \in DOMAIN pending \intersect DOMAIN flushes :
       sighting.mined =>
         /\ flushes[o] <= 3 + sighting.lead
         /\ flushes[o] + pending[o].seen_block <= block + Flushed + sighting.lead

\* what is bounded with a lead stays so when the bound grows
LEMMA ChainedBound ==
  ASSUME NEW a \in Int, NEW b \in Int, NEW lead \in Int, NEW x \in Int, NEW y \in Int,
         a + b <= x + lead, x <= y
  PROVE  a + b <= y + lead
OBVIOUS

LEMMA AgeStep == MarketTypeOK /\ AgeInv /\ [MarketNext]_marketVars => AgeInv'
<1> SUFFICES ASSUME MarketTypeOK, AgeInv, [MarketNext]_marketVars PROVE AgeInv'
  OBVIOUS
<1>0. RestTyped
  BY DEF MarketTypeOK, RestTyped
<1>1. CASE NewBlock
  <2>1. /\ UNCHANGED <<pending, swaps, flushes, sighting>>
        /\ stage = "idle" /\ block' = block + 1
    BY <1>1 DEF NewBlock
  <2>2. /\ block \in Nat /\ block' \in Nat
        /\ block + Flushed \in Int /\ block' + Flushed' \in Int
        /\ block + Flushed <= block' + Flushed'
    BY <1>0, <2>1 DEF RestTyped, Flushed
  <2>3. ASSUME NEW o \in DOMAIN pending
        PROVE  pending[o].seen_block \in Nat
    BY <1>0 DEF RestTyped
  <2>4. \A o \in DOMAIN pending : pending[o].seen_block <= block' + sighting.lead
    BY <2>1, <2>2, <2>3 DEF AgeInv
  <2>5. ASSUME NEW o \in DOMAIN pending \intersect DOMAIN flushes, sighting.mined
        PROVE  flushes[o] + pending[o].seen_block <= block' + Flushed' + sighting.lead
    <3>1. flushes[o] + pending[o].seen_block <= block + Flushed + sighting.lead
      BY <2>5 DEF AgeInv
    <3>2. flushes[o] \in Nat /\ pending[o].seen_block \in Nat /\ sighting.lead \in Nat
      BY <2>3, <2>5 DEF AgeInv
    <3> QED BY <2>2, <3>1, <3>2, ChainedBound
  <2> QED BY <2>1, <2>4, <2>5 DEF AgeInv
<1>2. CASE Flush
  <2>1. /\ DOMAIN pending' \subseteq DOMAIN pending
        /\ \A o \in DOMAIN pending' : pending'[o] = pending[o] /\ StillPending(o)
    BY <1>2 DEF Flush, Kept
  <2>2. /\ DOMAIN swaps' \subseteq DOMAIN swaps
        /\ \A s \in DOMAIN swaps' : swaps[s].ttl > 1 /\ swaps'[s] = [swaps[s] EXCEPT !.ttl = @ - 1]
    BY <1>2 DEF Flush, StillSwapping
  <2>3. /\ DOMAIN flushes' = DOMAIN pending' \union DOMAIN swaps'
        /\ \A k \in DOMAIN flushes' :
             flushes'[k] = 1 + IF k \in DOMAIN flushes THEN flushes[k] ELSE 0
    BY <1>2 DEF Flush, Aged
  <2>4. stage = "flush" /\ stage' = "eth" /\ block' = block /\ sighting' = sighting
    BY <1>2 DEF Flush, At
  <2>5. \A k \in DOMAIN flushes' : flushes'[k] \in Nat
    BY <2>3 DEF AgeInv
  <2>6. ASSUME NEW s \in DOMAIN swaps', s \in DOMAIN flushes'
        PROVE  flushes'[s] + swaps'[s].ttl <= 3
    <3>1. swaps[s].ttl \in 1..3 /\ swaps'[s].ttl = swaps[s].ttl - 1
      BY <1>0, <2>2 DEF RestTyped
    <3> QED BY <2>2, <2>3, <2>6, <3>1 DEF AgeInv
  <2>7. ASSUME NEW o \in DOMAIN pending', o \in DOMAIN flushes', sighting'.mined
        PROVE  /\ flushes'[o] <= 3 + sighting'.lead
               /\ flushes'[o] + pending'[o].seen_block <= block' + Flushed' + sighting'.lead
    <3>0. sighting.mined /\ sighting.lead \in Nat
      BY <2>4, <2>7 DEF AgeInv
    <3>1. /\ pending[o].seen_block \in Nat /\ pending[o].seen_block + 3 > block
          /\ pending'[o] = pending[o] /\ o \in DOMAIN pending
      BY <1>0, <2>1, <2>7, <3>0 DEF RestTyped, StillPending, AgeInv
    <3>2. pending[o].seen_block <= block + sighting.lead /\ block \in Nat
      BY <1>0, <3>1 DEF AgeInv, RestTyped
    <3>3. CASE o \in DOMAIN flushes
      <4>1. /\ flushes[o] \in Nat /\ flushes'[o] = 1 + flushes[o]
            /\ flushes[o] + pending[o].seen_block <= block + sighting.lead
        BY <2>3, <2>4, <2>7, <3>0, <3>1, <3>2, <3>3 DEF AgeInv, Flushed
      <4> QED BY <2>4, <3>0, <3>1, <3>2, <4>1 DEF Flushed
    <3>4. CASE o \notin DOMAIN flushes
      BY <2>3, <2>4, <2>7, <3>0, <3>1, <3>2, <3>4 DEF Flushed
    <3> QED BY <3>3, <3>4
  <2>8. \A o \in DOMAIN pending' : /\ sighting'.mined <=> pending'[o].seen_block # 0
                                   /\ pending'[o].seen_block <= block' + sighting'.lead
    BY <2>1, <2>4 DEF AgeInv
  <2>9. ~sighting'.mined => EthFeed \in DOMAIN pending'
    <3>1. ASSUME ~sighting.mined PROVE EthFeed \in DOMAIN pending /\ StillPending(EthFeed)
      BY <3>1 DEF AgeInv, StillPending
    <3> QED BY <1>2, <2>4, <3>1 DEF Flush, Kept
  <2>10. sighting' \in [mined : BOOLEAN, lead : Nat]
    BY <2>4 DEF AgeInv
  <2> QED BY <2>3, <2>5, <2>6, <2>7, <2>8, <2>9, <2>10 DEF AgeInv
<1>3. CASE WatchTransmit
  <2>1. /\ DOMAIN flushes' = DOMAIN flushes \ {EthFeed}
        /\ \A k \in DOMAIN flushes' : flushes'[k] = flushes[k]
    BY <1>3 DEF WatchTransmit, Kept
  <2>2. DOMAIN pending \subseteq {EthFeed} /\ DOMAIN pending' = {EthFeed}
    BY <1>0, <1>3 DEF WatchTransmit, RestTyped, Written
  <2>3. swaps' = swaps /\ block' = block /\ stage' = stage
    BY <1>3 DEF WatchTransmit
  <2>4. PICK b \in SeenBlocks : pending'[EthFeed].seen_block = b /\ sighting' = Sighted(b)
    BY <1>3 DEF WatchTransmit, Written
  <2>5. b \in Nat /\ block \in Nat
    BY <1>0 DEF SeenBlocks, RestTyped
  <2> DEFINE lead == IF b > block THEN b - block ELSE 0
  <2>6. lead \in Nat /\ b <= block + lead
    BY <2>5
  <2>7. sighting' = [mined |-> b # 0, lead |-> lead] /\ (b # 0) \in BOOLEAN
    BY <2>4 DEF Sighted
  <2> HIDE DEF lead
  <2>8. sighting' \in [mined : BOOLEAN, lead : Nat]
    BY <2>6, <2>7, Zenon
  <2>9. sighting'.lead = lead /\ (sighting'.mined <=> b # 0)
    BY <2>7
  <2> QED BY <2>1, <2>2, <2>3, <2>4, <2>6, <2>8, <2>9 DEF AgeInv
<1>4. ASSUME NEW s \in Swaps, WatchSwap(s) PROVE AgeInv'
  <2>1. s \notin DOMAIN flushes
    BY <1>0, <1>4, HashesAreNoFeeds DEF WatchSwap, AgeInv, RestTyped
  <2>2. /\ DOMAIN swaps' = DOMAIN swaps \union {s}
        /\ \A x \in DOMAIN swaps : swaps'[x] = swaps[x]
    BY <1>4 DEF WatchSwap, Written
  <2>3. UNCHANGED <<pending, flushes, block, stage, sighting>>
    BY <1>4 DEF WatchSwap
  <2> QED BY <2>1, <2>2, <2>3 DEF AgeInv, Flushed
<1>5. CASE RefreshGas
  <2>1. UNCHANGED <<pending, swaps, flushes, block, sighting>> /\ Flushed' = Flushed
    BY <1>5 DEF RefreshGas, At, Flushed
  <2> QED BY <2>1 DEF AgeInv
<1>6. CASE PollEth \/ PollBtc \/ (\E t \in Rated : PollRated(t)) \/ Spawned \/ UNCHANGED marketVars
  <2>1. UNCHANGED <<pending, swaps, flushes, block, sighting>> /\ Flushed' = Flushed
    BY <1>6 DEF PollEth, PollBtc, PollRated, Spawned, marketVars, At, Flushed, NextFeed, Rated
  <2> QED BY <2>1 DEF AgeInv
<1> QED
  BY <1>1, <1>2, <1>3, <1>4, <1>5, <1>6 DEF MarketNext, MarketStep

\* Nothing pending outlives its flushes, wherever the watcher adds to it between two blocks
\* (mempool_monitor.rs:230-244).
THEOREM AgesBounded == MarketSpec => []PendingLifetimes
<1>1. MarketInit => AgeInv
  BY DEF MarketInit, AgeInv
<1>2. ASSUME MarketTypeOK, AgeInv PROVE PendingLifetimes
  <2>1. RestTyped
    BY <1>2 DEF MarketTypeOK, RestTyped
  <2>2. ASSUME NEW s \in DOMAIN swaps \intersect DOMAIN flushes PROVE flushes[s] <= 2
    <3>1. swaps[s].ttl \in 1..3 /\ flushes[s] \in Nat /\ flushes[s] + swaps[s].ttl <= 3
      BY <1>2, <2>1, <2>2 DEF RestTyped, AgeInv
    <3> QED BY <3>1
  <2>3. ASSUME sighting.mined, NEW o \in DOMAIN pending \intersect DOMAIN flushes
        PROVE  flushes[o] <= 3 + sighting.lead
    BY <1>2, <2>3 DEF AgeInv
  <2>4. ~sighting.mined => EthFeed \in DOMAIN pending
    BY <1>2 DEF AgeInv
  <2> QED BY <2>2, <2>3, <2>4 DEF PendingLifetimes
<1> QED BY MarketTypes, AgeStep, <1>1, <1>2, PTL DEF MarketSpec

-----------------------------------------------------------------------------
(* In the middle of a chunk each protocol has been at the blocks up to a   *)
(* frontier: the chunk's start, the cursor, or the chunk's end.            *)

Frontier(p) ==
  IF phase = "lookup" \/ (p = "Aave" /\ phase \in {"fetchMorpho", "readMorpho"})
  THEN ChunkEnd + 1
  ELSE IF phase = Reading(p) THEN cursor ELSE start

Before(b, n) == IF b < n THEN 1 ELSE 0

ScanTypes ==
  /\ phase \in {"chunk", "fetchAave", "readAave", "fetchMorpho", "readMorpho", "lookup", "live"}
  /\ start \in FromBlock..(head + 1)
  /\ cursor \in Nat
  /\ head \in FromBlock..LastBlock
  /\ visits \in [Protocols -> [Blocks -> Nat]]

ScanInv ==
  /\ ScanTypes
  /\ phase = "live" => start >= head /\ cursor >= head
  /\ phase \notin {"chunk", "live"} => start < head
  /\ phase \in {"readAave", "readMorpho"} => cursor \in start..ChunkEnd
  /\ \A p \in Protocols, b \in Blocks : visits[p][b] = Before(b, Frontier(p))

\* A chunk that is scanned lies between its start and the head.
LEMMA ChunkEndRange ==
  ASSUME ScanTypes, start < head
  PROVE  ChunkEnd \in start..head /\ ChunkEnd \in Nat
  BY IndexerAssumption DEF ScanTypes, ChunkEnd

LEMMA ScanInit == IndexInit => ScanInv
<1> SUFFICES ASSUME IndexInit PROVE ScanInv
  OBVIOUS
<1>1. ScanTypes
  BY IndexerAssumption DEF IndexInit, ScanTypes, Blocks
<1>2. \A p \in Protocols, b \in Blocks : visits[p][b] = Before(b, Frontier(p))
  BY IndexerAssumption DEF IndexInit, Before, Frontier, Blocks, Reading
<1> QED BY <1>1, <1>2 DEF ScanInv, IndexInit

\* What a visit of a range adds to the counts.
LEMMA VisitedCounts ==
  ASSUME ScanTypes, NEW p \in Protocols, NEW range, visits' = Visited(p, range)
  PROVE  /\ visits' \in [Protocols -> [Blocks -> Nat]]
         /\ \A b \in Blocks : visits'[p][b] = visits[p][b] + IF b \in range THEN 1 ELSE 0
         /\ \A q \in Protocols \ {p}, b \in Blocks : visits'[q][b] = visits[q][b]
<1>1. \A b \in Blocks : visits[p][b] \in Nat
  BY DEF ScanTypes
<1>2. visits' = [visits EXCEPT ![p] =
                   [b \in Blocks |-> visits[p][b] + IF b \in range THEN 1 ELSE 0]]
  BY DEF Visited
<1>3. [b \in Blocks |-> visits[p][b] + IF b \in range THEN 1 ELSE 0] \in [Blocks -> Nat]
  BY <1>1
<1> QED BY <1>2, <1>3 DEF ScanTypes

LEMMA ScanStepInv == ScanInv /\ [IndexNext]_indexVars => ScanInv'
<1> SUFFICES ASSUME ScanInv, [IndexNext]_indexVars PROVE ScanInv'
  OBVIOUS
<1> USE IndexerAssumption DEF ScanInv
<1>0. ScanTypes /\ ChunkEnd' = IF start' + ChunkSize < head' THEN start' + ChunkSize ELSE head'
  BY DEF ChunkEnd
<1>1. CASE NextChunk
  <2>1. ScanTypes' /\ UNCHANGED <<visits, start, head>>
    BY <1>1 DEF NextChunk, ScanTypes, MoreToScan
  <2>2. \A p \in Protocols : Frontier(p)' = Frontier(p)
    BY <1>1 DEF NextChunk, Frontier, MoreToScan, Reading
  <2>3. start < head => start \in start..ChunkEnd
    BY ChunkEndRange DEF ScanTypes
  <2> QED BY <1>1, <2>1, <2>2 DEF NextChunk, MoreToScan, Before, ScanTypes
<1>2. ASSUME NEW p \in Protocols, FetchLogs(p) PROVE ScanInv'
  <2>1. ScanTypes' /\ UNCHANGED <<visits, start, head>> /\ start < head /\ ChunkEnd' = ChunkEnd
    BY <1>2 DEF FetchLogs, ScanTypes, Fetching, Reading, ChunkEnd
  <2>2. \A q \in Protocols : Frontier(q)' = Frontier(q)
    BY <1>2, <2>1 DEF FetchLogs, Frontier, Protocols, Fetching, Reading
  <2>3. cursor' \in start'..ChunkEnd'
    BY <1>2, <2>1, ChunkEndRange DEF FetchLogs, ScanTypes
  <2> QED BY <1>2, <2>1, <2>2, <2>3 DEF FetchLogs, Fetching, Reading, Before
<1>3. ASSUME NEW p \in Protocols, FetchFails(p) PROVE ScanInv'
  <2>1. UNCHANGED <<start, head, cursor>> /\ start < head /\ ChunkEnd' = ChunkEnd
    BY <1>3 DEF FetchFails, Fetching, ChunkEnd
  <2>2. ChunkEnd \in start..head /\ ChunkEnd \in Nat
    BY <2>1, ChunkEndRange
  <2>3. /\ visits' \in [Protocols -> [Blocks -> Nat]]
        /\ \A b \in Blocks : visits'[p][b] = visits[p][b] + IF b \in start..ChunkEnd THEN 1 ELSE 0
        /\ \A q \in Protocols \ {p}, b \in Blocks : visits'[q][b] = visits[q][b]
    BY <1>3, VisitedCounts DEF FetchFails
  <2>4. ScanTypes'
    BY <1>3, <2>1, <2>3 DEF FetchFails, ScanTypes, After
  <2>5. Frontier(p) = start /\ Frontier(p)' = ChunkEnd + 1
    BY <1>3, <2>1 DEF FetchFails, Frontier, Fetching, After, Protocols, Reading
  <2>6. \A q \in Protocols \ {p} : Frontier(q)' = Frontier(q)
    BY <1>3, <2>1 DEF FetchFails, Frontier, Fetching, After, Protocols, Reading
  <2>7. \A q \in Protocols, b \in Blocks : visits'[q][b] = Before(b, Frontier(q)')
    <3>1. \A b \in Blocks : visits'[p][b] = Before(b, ChunkEnd + 1)
      BY <2>2, <2>3, <2>5 DEF Before, ScanTypes, Blocks
    <3> QED BY <3>1, <2>3, <2>5, <2>6
  <2> QED BY <1>3, <2>1, <2>4, <2>7 DEF FetchFails, After
<1>4. ASSUME NEW p \in Protocols, ReadBlock(p) PROVE ScanInv'
  <2>1. UNCHANGED <<start, head>> /\ start < head /\ ChunkEnd' = ChunkEnd
        /\ cursor \in start..ChunkEnd /\ cursor' = cursor + 1
    BY <1>4 DEF ReadBlock, Reading, ChunkEnd
  <2>2. ChunkEnd \in start..head /\ ChunkEnd \in Nat
    BY <2>1, ChunkEndRange
  <2>3. /\ visits' \in [Protocols -> [Blocks -> Nat]]
        /\ \A b \in Blocks : visits'[p][b] = visits[p][b] + IF b \in {cursor} THEN 1 ELSE 0
        /\ \A q \in Protocols \ {p}, b \in Blocks : visits'[q][b] = visits[q][b]
    BY <1>4, VisitedCounts DEF ReadBlock
  <2>4. ScanTypes'
    <3>1. phase' \in {phase, After(p)}
      BY <1>4 DEF ReadBlock
    <3>2. cursor' \in Nat
      BY <2>1 DEF ScanTypes
    <3> QED BY <2>1, <2>3, <3>1, <3>2 DEF ScanTypes, After
  <2>5. Frontier(p) = cursor /\ Frontier(p)' = cursor + 1
    <3>1. Frontier(p) = cursor
      BY <1>4 DEF ReadBlock, Frontier, Reading
    <3>2. cursor < ChunkEnd => phase' = Reading(p)
      BY <1>4 DEF ReadBlock
    <3>3. cursor >= ChunkEnd => phase' = After(p) /\ ChunkEnd = cursor
      BY <1>4, <2>1, <2>2 DEF ReadBlock, ScanTypes
    <3>4. phase' = Reading(p) => Frontier(p)' = cursor'
      BY DEF Frontier, Reading
    <3>5. phase' = After(p) => Frontier(p)' = ChunkEnd' + 1
      BY p \in {"Aave", "Morpho"} DEF Frontier, After, Protocols
    <3> QED BY <2>1, <2>2, <3>1, <3>2, <3>3, <3>4, <3>5 DEF ScanTypes
  <2>6. \A q \in Protocols \ {p} : Frontier(q)' = Frontier(q)
    BY <1>4, <2>1 DEF ReadBlock, Frontier, Reading, After, Protocols
  <2>7. \A q \in Protocols, b \in Blocks : visits'[q][b] = Before(b, Frontier(q)')
    <3>1. \A b \in Blocks : visits'[p][b] = Before(b, cursor + 1)
      BY <2>1, <2>3, <2>5 DEF Before, ScanTypes, Blocks
    <3> QED BY <3>1, <2>3, <2>5, <2>6
  <2>8. phase' \in {"readAave", "readMorpho"} => cursor' \in start'..ChunkEnd'
    BY <1>4, <2>1, <2>2 DEF ReadBlock, After, ScanTypes
  <2> QED BY <1>4, <2>1, <2>4, <2>7, <2>8 DEF ReadBlock, Reading, After
<1>5. CASE Lookup
  <2>1. UNCHANGED <<visits, head, cursor>> /\ start < head /\ start' = ChunkEnd + 1
    BY <1>5 DEF Lookup
  <2>2. ChunkEnd \in start..head /\ ChunkEnd \in Nat
    BY <2>1, ChunkEndRange
  <2>3. ScanTypes'
    BY <1>5, <2>1, <2>2 DEF Lookup, ScanTypes
  <2>4. \A q \in Protocols : Frontier(q)' = Frontier(q)
    BY <1>5, <2>1 DEF Lookup, Frontier, Reading
  <2> QED BY <1>5, <2>1, <2>3, <2>4 DEF Lookup, Before
<1>6. ASSUME NEW p \in Protocols, LiveLog(p) PROVE ScanInv'
  <2>1. UNCHANGED <<visits, head, start, phase>> /\ phase = "live" /\ cursor' \in Nat
        /\ cursor' >= head'
    BY <1>6 DEF LiveLog, StreamBlocks, ScanTypes
  <2>2. \A q \in Protocols : Frontier(q)' = Frontier(q)
    BY <2>1 DEF Frontier, Reading
  <2> QED BY <2>1, <2>2 DEF ScanTypes, Before
<1>7. CASE UNCHANGED indexVars
  <2>1. UNCHANGED <<visits, head, start, phase, cursor>> /\ ChunkEnd' = ChunkEnd
    BY <1>7 DEF indexVars, ChunkEnd
  <2>2. \A q \in Protocols : Frontier(q)' = Frontier(q)
    BY <2>1 DEF Frontier, Reading
  <2> QED BY <2>1, <2>2 DEF ScanTypes, Before
<1> QED
  BY <1>1, <1>2, <1>3, <1>4, <1>5, <1>6, <1>7 DEF IndexNext, ScanStep

-----------------------------------------------------------------------------
LEMMA TilesByInv == ScanInv => ScanTiles
<1> SUFFICES ASSUME ScanInv, phase \in {"chunk", "live"}, NEW p \in Protocols, NEW b \in Blocks
             PROVE  visits[p][b] = IF b < start /\ b <= head THEN 1 ELSE 0
  BY DEF ScanTiles
<1>1. visits[p][b] = Before(b, start)
  BY DEF ScanInv, Frontier, Reading
<1>2. b < start => b <= head
  BY IndexerAssumption DEF ScanInv, ScanTypes, Blocks
<1> QED BY <1>1, <1>2 DEF Before

\* Between two chunks the scan has been exactly once at every block before it and at none
\* beyond, for every start, head and chunk size (position_indexer.rs:90-103).
THEOREM ScanTilesAll == IndexSpec => []ScanTiles
<1> QED BY ScanInit, ScanStepInv, TilesByInv, PTL DEF IndexSpec

LEMMA ReachesByInv == ScanInv => ScanReachesHead
<1> SUFFICES ASSUME ScanInv, phase = "live", NEW p \in Protocols,
                    NEW b \in FromBlock..(head - 1)
             PROVE  visits[p][b] = 1
  BY DEF ScanReachesHead
<1>1. b \in Blocks /\ b < start
  BY IndexerAssumption DEF ScanInv, ScanTypes, Blocks
<1>2. visits[p][b] = Before(b, start)
  BY <1>1 DEF ScanInv, Frontier, Reading
<1> QED BY <1>1, <1>2 DEF Before

\* When the scan ends no block before the head has been left out (position_indexer.rs:94).
THEOREM ScanReaches == IndexSpec => []ScanReachesHead
<1> QED BY ScanInit, ScanStepInv, ReachesByInv, PTL DEF IndexSpec

-----------------------------------------------------------------------------
(* An entry carries the block of the log it was made of, and that block    *)
(* lies before the horizon of its protocol, which only moves forward.      *)

Horizon(p) ==
  IF phase = "live" THEN cursor + 1
  ELSE IF Frontier(p) <= head THEN Frontier(p) ELSE head + 1

Fits(k, pos) ==
  /\ k \in IndexKeys
  /\ pos \in PositionType
  /\ Protocol(k) = "Aave" => pos.debt_amount \in DebtAmounts
  /\ Protocol(k) = "Morpho" => pos.debt = NoAsset

EntryInv ==
  \A k \in DOMAIN positions :
    Fits(k, positions[k]) /\ positions[k].block < Horizon(Protocol(k))

\* What a log makes of an entry has the type of one and carries the log's block.
LEMMA LoggedFits ==
  ASSUME NEW p \in Protocols, NEW who \in Borrowers, NEW b \in Blocks, NEW pos \in Logged(p, b)
  PROVE  Fits(<<who, p>>, pos) /\ pos.block = b
<1>1. <<who, p>> \in IndexKeys /\ Protocol(<<who, p>>) = p
  BY DEF IndexKeys, Protocol
<1>2. CASE p = "Aave"
  <2>1. PICK a \in DebtAssets, n \in DebtAmounts : pos = AavePosition(a, n, b)
    BY <1>2 DEF Logged
  <2> QED BY <1>1, <1>2, <2>1, IndexerAssumption DEF AavePosition, PositionType, Fits
<1>3. CASE p # "Aave"
  <2>1. PICK n \in CollAmounts : pos = MorphoPosition(n, b)
    BY <1>3 DEF Logged
  <2> QED BY <1>1, <1>3, <2>1, IndexerAssumption DEF MorphoPosition, PositionType, Fits
<1> QED BY <1>2, <1>3

\* Looking up a collateral keeps the type of an entry, its debt and its block.
LEMMA HoldingFits ==
  ASSUME NEW k, NEW pos, Fits(k, pos), NEW h \in Holdings
  PROVE  Fits(k, WithHolding(pos, h)) /\ WithHolding(pos, h).block = pos.block
<1>1. CASE h.coll = NoAsset
  BY <1>1 DEF WithHolding
<1>2. CASE h.coll # NoAsset
  <2>1. h.coll \in Candidates /\ h.coll_amount \in Nat
    BY <1>2, IndexerAssumption DEF Holdings
  <2> QED BY <1>2, <2>1 DEF WithHolding, PositionType, Fits
<1> QED BY <1>1, <1>2

\* No step of the scan or of the stream moves a horizon back; a log that is processed lies
\* at its protocol's horizon or beyond, and before the next one.
LEMMA HorizonGrows ==
  ASSUME ScanInv, [IndexNext]_indexVars
  PROVE  /\ \A q \in Protocols : Horizon(q) \in Nat /\ Horizon(q)' \in Nat
         /\ \A q \in Protocols : Horizon(q) <= Horizon(q)'
         /\ \A p \in Protocols : ReadBlock(p) =>
              cursor \in Blocks /\ Horizon(p) <= cursor /\ cursor < Horizon(p)'
<1> USE IndexerAssumption DEF ScanInv, Horizon
<1> DEFINE Grown(q) == Horizon(q) \in Nat /\ Horizon(q)' \in Nat /\ Horizon(q) <= Horizon(q)'
           Reads(p) == ReadBlock(p) =>
              cursor \in Blocks /\ Horizon(p) <= cursor /\ cursor < Horizon(p)'
<1> SUFFICES ASSUME NEW q \in Protocols PROVE Grown(q) /\ Reads(q)
  OBVIOUS
<1>0. /\ ScanTypes /\ start < head => ChunkEnd \in start..head /\ ChunkEnd \in Nat
      /\ start' = start /\ head' = head => ChunkEnd' = ChunkEnd
      /\ start \in Nat /\ head \in Nat /\ cursor \in Nat /\ FromBlock \in Nat
  BY ChunkEndRange DEF ChunkEnd, ScanTypes
<1>1. CASE NextChunk
  BY <1>0, <1>1 DEF NextChunk, Frontier, MoreToScan, Reading, ScanTypes, ReadBlock, Protocols
<1>2. ASSUME NEW p \in Protocols, FetchLogs(p) PROVE Grown(q) /\ Reads(q)
  BY <1>0, <1>2 DEF FetchLogs, Frontier, Fetching, Reading, ScanTypes, ReadBlock, Protocols
<1>3. ASSUME NEW p \in Protocols, FetchFails(p) PROVE Grown(q) /\ Reads(q)
  BY <1>0, <1>3 DEF FetchFails, Frontier, Fetching, Reading, After, ScanTypes, ReadBlock, Protocols
<1>4. ASSUME NEW p \in Protocols, ReadBlock(p) PROVE Grown(q) /\ Reads(q)
  <2>1. /\ UNCHANGED <<start, head>> /\ start < head /\ ChunkEnd' = ChunkEnd
        /\ cursor \in start..ChunkEnd /\ cursor' = cursor + 1 /\ ChunkEnd \in start..head
    BY <1>0, <1>4 DEF ReadBlock, Reading
  <2>2. cursor \in Blocks
    BY <1>0, <2>1 DEF ScanTypes, Blocks
  <2>3. CASE cursor < ChunkEnd
    BY <1>0, <1>4, <2>1, <2>2, <2>3 DEF ReadBlock, Frontier, Reading, Protocols
  <2>4. CASE cursor = ChunkEnd
    BY <1>0, <1>4, <2>1, <2>2, <2>4 DEF ReadBlock, Frontier, Reading, After, Protocols
  <2> QED BY <1>0, <2>1, <2>3, <2>4
<1>5. CASE Lookup
  BY <1>0, <1>5 DEF Lookup, Frontier, Reading, ScanTypes, ReadBlock, Protocols
<1>6. ASSUME NEW p \in Protocols, LiveLog(p) PROVE Grown(q) /\ Reads(q)
  BY <1>0, <1>6 DEF LiveLog, StreamBlocks, ReadBlock, Reading, Protocols
<1>7. CASE UNCHANGED indexVars
  <2>1. UNCHANGED <<start, head, phase, cursor>> /\ ChunkEnd' = ChunkEnd
    BY <1>0, <1>7 DEF indexVars
  <2>2. Horizon(q) \in Nat /\ Horizon(q)' = Horizon(q)
    BY <1>0, <2>1 DEF Frontier, Reading
  <2>3. ~ReadBlock(q)
    BY <1>0, <2>1 DEF ReadBlock
  <2> QED BY <2>2, <2>3
<1> QED
  BY <1>1, <1>2, <1>3, <1>4, <1>5, <1>6, <1>7 DEF IndexNext, ScanStep

\* A step leaves the index as it is, or replaces or adds one entry by a newer one, or fills
\* in collaterals.
LEMMA EntryStep ==
  ASSUME ScanInv, EntryInv, [IndexNext]_indexVars
  PROVE  /\ EntryInv'
         /\ \A k \in DOMAIN positions :
              k \in DOMAIN positions' /\ positions'[k].block >= positions[k].block
<1>1. /\ \A q \in Protocols : Horizon(q) \in Nat /\ Horizon(q)' \in Nat
      /\ \A q \in Protocols : Horizon(q) <= Horizon(q)'
      /\ \A p \in Protocols : ReadBlock(p) =>
           cursor \in Blocks /\ Horizon(p) <= cursor /\ cursor < Horizon(p)'
  BY HorizonGrows
<1>2. \A k \in DOMAIN positions :
        /\ Protocol(k) \in Protocols /\ positions[k].block \in Nat
        /\ positions[k].block < Horizon(Protocol(k))'
  <2> SUFFICES ASSUME NEW k \in DOMAIN positions
               PROVE  /\ Protocol(k) \in Protocols /\ positions[k].block \in Nat
                      /\ positions[k].block < Horizon(Protocol(k))'
    OBVIOUS
  <2>1. Protocol(k) \in Protocols /\ positions[k].block \in Nat
    BY IndexerAssumption DEF EntryInv, Fits, IndexKeys, Protocol, PositionType, Blocks
  <2>2. positions[k].block < Horizon(Protocol(k))
    BY DEF EntryInv
  <2> HIDE DEF Horizon
  <2> QED BY <1>1, <2>1, <2>2
<1>3. CASE positions' = positions
  BY <1>2, <1>3 DEF EntryInv, Fits
<1>4. ASSUME NEW p \in Protocols, NEW who \in Borrowers, NEW b \in Blocks,
             NEW pos \in Logged(p, b), positions' = Inserted(positions, <<who, p>>, pos),
             Horizon(p) <= b, b < Horizon(p)'
      PROVE  /\ EntryInv'
             /\ \A k \in DOMAIN positions :
                  k \in DOMAIN positions' /\ positions'[k].block >= positions[k].block
  <2>1. Fits(<<who, p>>, pos) /\ pos.block = b /\ Protocol(<<who, p>>) = p
    BY LoggedFits DEF Protocol
  <2>2. \A k \in DOMAIN positions' :
          \/ k = <<who, p>> /\ positions'[k] = pos
          \/ k \in DOMAIN positions /\ k # <<who, p>> /\ positions'[k] = positions[k]
    BY <1>4 DEF Inserted
  <2>3. DOMAIN positions \subseteq DOMAIN positions'
    BY <1>4 DEF Inserted
  <2>4. EntryInv'
    BY <1>2, <1>4, <2>1, <2>2 DEF EntryInv, Fits
  <2>5. b \in Nat
    BY IndexerAssumption DEF Blocks
  <2>6. \A k \in DOMAIN positions : positions'[k].block >= positions[k].block
    <3> SUFFICES ASSUME NEW k \in DOMAIN positions
                 PROVE  positions'[k].block >= positions[k].block
      OBVIOUS
    <3>1. CASE k = <<who, p>>
      <4>1. positions[k].block < Horizon(p)
        BY <2>1, <3>1 DEF EntryInv
      <4> QED BY <1>1, <1>2, <1>4, <2>1, <2>2, <2>3, <2>5, <3>1, <4>1
    <3>2. CASE k # <<who, p>>
      BY <1>2, <2>2, <2>3, <3>2
    <3> QED BY <3>1, <3>2
  <2> QED BY <2>3, <2>4, <2>6
<1>5. ASSUME NEW p \in Protocols, ReadBlock(p)
      PROVE  /\ EntryInv'
             /\ \A k \in DOMAIN positions :
                  k \in DOMAIN positions' /\ positions'[k].block >= positions[k].block
  <2>1. CASE positions' = positions
    BY <1>3, <2>1
  <2>2. CASE \E who \in Borrowers, pos \in Logged(p, cursor) :
               positions' = Inserted(positions, <<who, p>>, pos)
    BY <1>1, <1>4, <1>5, <2>2
  <2> QED BY <1>5, <2>1, <2>2 DEF ReadBlock
<1>6. ASSUME NEW p \in Protocols, LiveLog(p)
      PROVE  /\ EntryInv'
             /\ \A k \in DOMAIN positions :
                  k \in DOMAIN positions' /\ positions'[k].block >= positions[k].block
  <2>1. PICK b \in StreamBlocks, who \in Borrowers : \E pos \in Logged(p, b) :
          positions' = Inserted(positions, <<who, p>>, pos) /\ cursor' = b
    BY <1>6 DEF LiveLog
  <2>2. Horizon(p) <= b /\ b < Horizon(p)'
    BY <1>6, <2>1 DEF LiveLog, StreamBlocks, Horizon, ScanInv, ScanTypes
  <2>3. b \in Blocks
    <3>1. cursor >= FromBlock
      BY <1>6, IndexerAssumption DEF LiveLog, ScanInv, ScanTypes
    <3> QED BY <2>1, <3>1, IndexerAssumption DEF StreamBlocks, Blocks, ScanInv, ScanTypes
  <2> QED BY <1>4, <2>1, <2>2, <2>3
<1>7. CASE Lookup
  <2>0. PICK keys \in Batches : \E found \in [keys -> Holdings] :
          positions' = [k \in DOMAIN positions |->
                          IF k \in keys THEN WithHolding(positions[k], found[k])
                                        ELSE positions[k]]
    BY <1>7 DEF Lookup
  <2>1. PICK found \in [keys -> Holdings] :
          positions' = [k \in DOMAIN positions |->
                          IF k \in keys THEN WithHolding(positions[k], found[k])
                                        ELSE positions[k]]
    BY <2>0
  <2>2. ASSUME NEW k \in DOMAIN positions
        PROVE  Fits(k, positions'[k]) /\ positions'[k].block = positions[k].block
    <3>1. Fits(k, positions[k])
      BY DEF EntryInv
    <3>2. CASE k \in keys
      <4>1. found[k] \in Holdings /\ positions'[k] = WithHolding(positions[k], found[k])
        BY <2>1, <3>2
      <4> QED BY <3>1, <4>1, HoldingFits
    <3>3. CASE k \notin keys
      BY <2>1, <3>1, <3>3
    <3> QED BY <3>2, <3>3
  <2>3. DOMAIN positions' = DOMAIN positions
    BY <2>1
  <2> QED BY <1>2, <2>2, <2>3 DEF EntryInv, Fits
<1>8. CASE NextChunk \/ (\E p \in Protocols : FetchLogs(p) \/ FetchFails(p))
           \/ UNCHANGED indexVars
  BY <1>3, <1>8 DEF NextChunk, FetchLogs, FetchFails, indexVars
<1> QED
  BY <1>5, <1>6, <1>7, <1>8 DEF IndexNext, ScanStep

LEMMA EntryInvariant == IndexSpec => [](ScanInv /\ EntryInv)
<1>1. IndexInit => EntryInv
  BY DEF IndexInit, EntryInv
<1> QED BY ScanInit, ScanStepInv, EntryStep, <1>1, PTL DEF IndexSpec

\* The head the scan works towards is the one it booted at.
Booted == head \in Heads

LEMMA TypesByInv == ScanInv /\ EntryInv /\ Booted => IndexTypeOK
<1> SUFFICES ASSUME ScanInv, EntryInv, Booted PROVE IndexTypeOK
  OBVIOUS
<1>1. \A k \in DOMAIN positions : Fits(k, positions[k])
  BY DEF EntryInv
<1>2. ScanTypes /\ start \in Nat
  BY IndexerAssumption DEF ScanInv, ScanTypes
<1> QED BY <1>1, <1>2 DEF ScanTypes, Fits, Booted, IndexTypeOK

LEMMA BootedStep == Booted /\ [IndexNext]_indexVars => Booted'
  BY DEF Booted, IndexNext, ScanStep, NextChunk, FetchLogs, FetchFails, ReadBlock, Lookup,
     LiveLog, indexVars

\* The run's IndexTypeOK, for every number of accounts and assets and every chain.
THEOREM IndexTypes == IndexSpec => []IndexTypeOK
<1>1. IndexInit => Booted
  BY DEF IndexInit, Booted
<1> QED BY EntryInvariant, BootedStep, TypesByInv, <1>1, PTL DEF IndexSpec

\* An entry only ever gives way to a newer event of its account: the chunks, the blocks of a
\* chunk and the stream come in the chain's order (position_indexer.rs:97-150, 246-251).
THEOREM NewestWins == IndexSpec => NewestEventWins
<1>1. ScanInv /\ EntryInv /\ [IndexNext]_indexVars =>
        [\A k \in DOMAIN positions :
           /\ k \in DOMAIN positions'
           /\ positions'[k].block >= positions[k].block]_indexVars
  BY EntryStep
<1> QED BY EntryInvariant, <1>1, PTL DEF IndexSpec, NewestEventWins
===============================================================================
