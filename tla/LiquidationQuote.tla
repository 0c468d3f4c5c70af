--------------------------- MODULE LiquidationQuote ---------------------------
(***************************************************************************)
(* What a strategy task does with one position behind gate 2: simulate the *)
(* profit, find a swap route, choose a lender, build the calldata.         *)
(* (bot/src/shared/simulation.rs, bot/src/shared/flash_loan.rs and the end *)
(* of the loop in bot/src/strategies/liquidation.rs.)                      *)
(*                                                                         *)
(* Every look at a pool or a lender is an RPC of its own that may fail,    *)
(* and the chain moves between any two of them.  Tasks only read, so one   *)
(* of them is enough.  Amounts are raw token units, as in the code; money  *)
(* is whole dollars, haircuts are basis points.                            *)
(***************************************************************************)
EXTENDS Integers, Sequences, FiniteSets

CONSTANTS
  Collaterals, Debts,         \* the assets of the loans, by name
  DebtUsd,                    \* what is owed, in dollars
  EthPrice,                   \* dollars per ETH; the other debts are stable coins
  UsdcUnit, EthUnit,          \* raw units of a whole token: 6 decimals, and all others 18
  Reserves,                   \* the smaller virtual reserve of a pool that exists
  Dust,                       \* min_reserves
  Depths,                     \* what a lender may hold of the debt asset
  GasCosts,                   \* what the gas of a liquidation may cost, in dollars
  FlatFloor,                  \* min_liquidation_profit_usd
  Opportunity,                \* opportunity_cost_usd
  Fallback,                   \* liquidation_swap_haircut
  Selectors,                  \* what SEL_LIQUIDITY may select: see selector
  MaxPools,                   \* bound: pools that exist
  MaxMoves                    \* bound: changes of the chain's liquidity

Tokens == Collaterals \union Debts \union {"WETH"}

\* WBTC would have 8 decimals, but the oracle has no price for it: it never gets here
Unit(token)  == IF token = "USDC" THEN UsdcUnit ELSE EthUnit
Price(token) == IF token = "WETH" THEN EthPrice ELSE 1

RawAmount(token, usd) == (usd * Unit(token)) \div Price(token)

ASSUME QuoteAssumption ==
  /\ EthPrice \in Nat \ {0} /\ UsdcUnit \in Nat \ {0} /\ EthUnit \in Nat \ {0}
  /\ Reserves \subseteq Nat /\ Depths \subseteq Nat
  /\ DebtUsd \subseteq Nat /\ GasCosts \subseteq Nat
  /\ \A d \in Debts, usd \in DebtUsd : RawAmount(d, usd) > 0
  /\ Dust \in Nat /\ FlatFloor \in Nat /\ Opportunity \in Nat
  /\ Fallback \in 5..500

Fees == <<500, 3000, 100, 10000>>  \* fee tiers, in the order they are tried

Lenders == {"Morpho", "Balancer", "SparkDss", "Aave"}
Free    == Lenders \ {"Aave"}

VARIABLES
  pools,      \* the chain: the reserve of each pool there is, by pair and tier
  lent,       \* the chain: what each lender without a fee holds of the debt asset
  selector,   \* SEL_LIQUIDITY: this commit's bytes are those of totalSupply(), which a
              \* Uniswap pool does not have; the comment beside them says liquidity()
  moves,      \* bound: how often the chain has moved
  step,       \* where the task is
  loan,       \* pos
  gas,        \* dollars of gas at the price read before the batch
  tier,       \* index of the fee tier it is about to look at
  haircut,    \* swap_haircut
  gross,      \* gross_profit_usd
  sim_gas,    \* gas_cost_usd inside the simulation, at the price of that moment
  route,      \* the hops found so far
  depth,      \* what the lenders were seen to hold
  offer,      \* the calldata: lender and minimum profit
  disturbed   \* history: a read failed or the chain moved since the position was taken

chain == <<pools, lent, selector, moves>>
task  == <<step, loan, gas, tier, haircut, gross, sim_gas, route, depth, offer>>
vars  == <<chain, task, disturbed>>

Pairs == {pair \in SUBSET Tokens : Cardinality(pair) = 2}
Places == Pairs \X {Fees[i] : i \in DOMAIN Fees}

Steps == {"idle", "slippage", "gate", "direct", "hopA", "hopB", "depths", "balancer",
          "morpho", "spark", "build", "offered", "discarded", "failed"}

NoLoan  == [coll |-> "WETH", debt |-> "WETH", usd |-> 0]
NoDepth == [l \in Free |-> 0]
NoOffer == [lender |-> "Aave", min |-> 0]

Init ==
  /\ \E there \in {S \in SUBSET Places : Cardinality(S) <= MaxPools} :
       pools \in [there -> Reserves]
  /\ \E d \in Depths : lent = [l \in Free |-> d]
  /\ selector \in Selectors
  /\ moves = 0
  /\ step = "idle" /\ loan = NoLoan /\ gas = 0 /\ tier = 1
  /\ haircut = Fallback /\ gross = 0 /\ sim_gas = 0
  /\ route = <<>> /\ depth = NoDepth /\ offer = NoOffer
  /\ disturbed = FALSE

-----------------------------------------------------------------------------
(* Mistakes the properties must notice.                                    *)

Unclamped(amount, reserve) == (amount * 10000) \div (amount + reserve)
FreeLoan                   == 0
NoMargin(l)                == 100
BalancerFirst(l)           == IF l = "Balancer" THEN 0 ELSE IF l = "Morpho" THEN 1
                              ELSE IF l = "SparkDss" THEN 2 ELSE 3
AnyPair(a, b, fee)         == IF a = b THEN Dust + 1
                              ELSE IF <<{a, b}, fee>> \in DOMAIN pools
                              THEN pools[<<{a, b}, fee>>] ELSE 0
AllTiers                   == 4
GiveUpEarly(last, otherwise) ==
  IF tier < last - 1 THEN tier' = tier + 1 /\ UNCHANGED step ELSE step' = otherwise /\ tier' = 1
MinInDebtUnits(required)   == (required * Unit(loan.debt)) \div Price(loan.debt)
ReadAnyway                 == TRUE

-----------------------------------------------------------------------------
(* What the actions read.                                                  *)

SlipTiers == 3  \* the slippage estimate tries the first three

\* getPool answers zero where there is none, so for a token and itself; the callers skip
\* it as they skip a pool that is empty
Reserve(a, b, fee) ==
  IF <<{a, b}, fee>> \in DOMAIN pools THEN pools[<<{a, b}, fee>>] ELSE 0
Amount == RawAmount(loan.debt, loan.usd)

\* get_uni_virtual_reserves asks the pool for its liquidity
Readable == selector = "liquidity"

-----------------------------------------------------------------------------
(* The chain.  Liquidity comes and goes; pools are not created meanwhile.   *)
(* It moves while it is being looked at: before, and after the last look,  *)
(* a change is only another initial state.                                 *)

SwapOrMint ==
  /\ moves < MaxMoves /\ step \in {"slippage", "gate", "direct", "hopA", "hopB"}
  /\ \E p \in DOMAIN pools, r \in Reserves :
       r # pools[p] /\ pools' = [pools EXCEPT ![p] = r]
  /\ moves' = moves + 1
  /\ disturbed' = TRUE
  /\ UNCHANGED <<lent, selector, task>>

LenderMoves ==
  /\ moves < MaxMoves /\ step \in {"spark", "build", "offered"}
  /\ \E l \in Free, d \in Depths :
       d # lent[l] /\ lent' = [lent EXCEPT ![l] = d]
  /\ moves' = moves + 1
  /\ disturbed' = TRUE
  /\ UNCHANGED <<pools, selector, task>>

-----------------------------------------------------------------------------
(* The simulation.                                                         *)

\* in / (in + reserve), clamped to 5..500
Slippage(amount, reserve) ==
  LET s == (amount * 10000) \div (amount + reserve)
  IN IF s < 5 THEN 5 ELSE IF s > 500 THEN 500 ELSE s

\* debt_usd * (bonus of 5% - haircut) * safety factor of 0.9
Gross(usd, cut) == (usd * (500 - cut) * 9) \div 100000

\* What is owed is far above dust, so that a pool of dust costs the whole bonus ...
ASSUME DustAssumption ==
  \A d \in Debts, usd \in DebtUsd : Dust <= 19 * RawAmount(d, usd)

\* ... and far below what would, in units of a millionth, pass for the floor in wei
ASSUME MinimumAssumption ==
  \A usd \in DebtUsd : Gross(usd, 5) * UsdcUnit < (FlatFloor * EthUnit) \div EthPrice

FeeOf(l, amount) == IF l = "Aave" THEN (amount * 5) \div 10000 ELSE 0
FeeUsd(l) == (FeeOf(l, Amount) * Price(loan.debt)) \div Unit(loan.debt)

\* the simulation charges the dearest lender, whichever will lend
DeductedFee == FeeUsd("Aave")
NetOf(before, cost) == before - cost - DeductedFee
Net == NetOf(gross, sim_gas)

Required ==
  LET dynamic == (gas * 115) \div 100 + Opportunity
  IN IF dynamic > FlatFloor THEN dynamic ELSE FlatFloor

-----------------------------------------------------------------------------
(* The choice of a lender.                                                 *)

Rank(l) == IF l = "Morpho" THEN 0 ELSE IF l = "Balancer" THEN 1
           ELSE IF l = "SparkDss" THEN 2 ELSE 3

\* per cent of what is there that is counted on
Margin(l) == IF l = "Morpho" THEN 60 ELSE IF l = "Balancer" THEN 95 ELSE 100

Eligible(l) == IF l = "Aave" THEN TRUE ELSE (depth[l] * Margin(l)) \div 100 >= Amount

\* lowest fee first, then the order of the list
Before(l, m) ==
  \/ FeeOf(l, Amount) < FeeOf(m, Amount)
  \/ FeeOf(l, Amount) = FeeOf(m, Amount) /\ Rank(l) <= Rank(m)

Chosen(l) == Eligible(l) /\ \A m \in Lenders : Eligible(m) => Before(l, m)

\* required_profit_usd / eth_price * 1e18, whatever the debt asset is
MinProfit(required) == (required * EthUnit) \div EthPrice

-----------------------------------------------------------------------------
(* One position after the other.                                           *)

Take ==
  /\ step = "idle"
  /\ \E c \in Collaterals, d \in Debts, usd \in DebtUsd :
       loan' = [coll |-> c, debt |-> d, usd |-> usd]
  /\ \E g \in GasCosts : gas' = g
  /\ step' = "slippage" /\ tier' = 1
  /\ haircut' = Fallback /\ gross' = 0 /\ sim_gas' = 0
  /\ route' = <<>> /\ depth' = NoDepth /\ offer' = NoOffer
  /\ disturbed' = FALSE
  /\ UNCHANGED chain

Goto(s) == step' = s /\ tier' = 1

\* an answer that cannot be used: the next tier, or what comes after the last one
TryNext(last, otherwise) ==
  IF tier < last THEN tier' = tier + 1 /\ UNCHANGED step ELSE Goto(otherwise)

\* estimate_realized_slippage: the first pool with anything in it
EstimateSlippage(ok) ==
  LET reserve == Reserve(loan.coll, loan.debt, Fees[tier])
  IN /\ step = "slippage"
     /\ IF ok /\ Readable /\ reserve > 0
        THEN haircut' = Slippage(Amount, reserve) /\ Goto("gate")
        ELSE TryNext(SlipTiers, "gate") /\ UNCHANGED haircut
     /\ disturbed' = (disturbed \/ ~ok)
     /\ UNCHANGED <<chain, loan, gas, gross, sim_gas, route, depth, offer>>

\* the rest of simulate_liquidation, which reads the gas price once more, and gate 1
Simulate(g) ==
  /\ step = "gate"
  /\ LET before == Gross(loan.usd, haircut)
     IN /\ gross' = before
        /\ IF before > 0 /\ NetOf(before, g) > 0 /\ NetOf(before, g) >= Required
           THEN Goto("direct") ELSE Goto("discarded")
  /\ sim_gas' = g
  /\ UNCHANGED <<chain, loan, gas, haircut, route, depth, offer, disturbed>>

\* one tier of one hop: a pool that exists and holds more than dust
Probe(a, b, ok, found, otherwise) ==
  LET fee == Fees[tier]
  IN /\ IF ok /\ Readable /\ Reserve(a, b, fee) > Dust
        THEN /\ route' = Append(route, [from |-> a, to |-> b, fee |-> fee])
             /\ Goto(found)
        ELSE TryNext(Len(Fees), otherwise) /\ UNCHANGED route
     /\ disturbed' = (disturbed \/ ~ok)
     /\ UNCHANGED <<chain, loan, gas, haircut, gross, sim_gas, depth, offer>>

DirectHop(ok) == step = "direct" /\ Probe(loan.coll, loan.debt, ok, "depths", "hopA")

\* best_fee_tier, twice; without a pool the whole batch ends
FirstHop(ok)  == step = "hopA" /\ Probe(loan.coll, "WETH", ok, "hopB", "failed")
SecondHop(ok) == step = "hopB" /\ Probe("WETH", loan.debt, ok, "depths", "failed")

\* a balance that is not answered counts as zero
See(lenders, failing) ==
  /\ depth' = [l \in Free |-> IF l \in lenders
                              THEN IF l \in failing THEN 0 ELSE lent[l]
                              ELSE depth[l]]
  /\ disturbed' = (disturbed \/ failing # {})
  /\ UNCHANGED <<chain, loan, gas, tier, haircut, gross, sim_gas, route, offer>>

\* one multicall for both vaults, each of its two calls allowed to fail
QueryDepths(failing) ==
  step = "depths" /\ step' = "spark" /\ See({"Balancer", "Morpho"}, failing)

MulticallFails ==
  /\ step = "depths" /\ step' = "balancer"
  /\ UNCHANGED <<chain, loan, gas, tier, haircut, gross, sim_gas, route, depth, offer,
                 disturbed>>

Ask(l, ok) == See({l}, IF ok THEN {} ELSE {l})

QueryBalancer(ok) == step = "balancer" /\ step' = "morpho" /\ Ask("Balancer", ok)
QueryMorpho(ok)   == step = "morpho" /\ step' = "spark" /\ Ask("Morpho", ok)
QuerySpark(ok)    == step = "spark" /\ step' = "build" /\ Ask("SparkDss", ok)

\* select_provider returns; build_liquidation
Build(l) ==
  /\ step = "build" /\ Chosen(l)
  /\ offer' = [lender |-> l, min |-> MinProfit(Required)]
  /\ step' = "offered"
  /\ UNCHANGED <<chain, loan, gas, tier, haircut, gross, sim_gas, route, depth, disturbed>>

NextPosition ==
  /\ step \in {"offered", "discarded", "failed"}
  /\ step' = "idle" /\ tier' = 1 /\ loan' = NoLoan /\ gas' = 0
  /\ haircut' = Fallback /\ gross' = 0 /\ sim_gas' = 0
  /\ route' = <<>> /\ depth' = NoDepth /\ offer' = NoOffer
  /\ disturbed' = FALSE
  /\ UNCHANGED chain

TaskStep ==
  \/ Take
  \/ \E ok \in BOOLEAN : EstimateSlippage(ok)
  \/ \E g \in GasCosts : Simulate(g)
  \/ \E ok \in BOOLEAN : DirectHop(ok) \/ FirstHop(ok) \/ SecondHop(ok)
  \/ \E failing \in SUBSET {"Balancer", "Morpho"} : QueryDepths(failing)
  \/ \E ok \in BOOLEAN : QueryBalancer(ok) \/ QueryMorpho(ok) \/ QuerySpark(ok)
  \/ MulticallFails
  \/ \E l \in Lenders : Build(l)
  \/ NextPosition

Next == SwapOrMint \/ LenderMoves \/ TaskStep

Spec == Init /\ [][Next]_vars

-----------------------------------------------------------------------------
(* Properties.                                                             *)

Hop == [from : Tokens, to : Tokens, fee : {Fees[i] : i \in DOMAIN Fees}]

\* Types; the haircut never leaves its clamp, and a route has at most two hops.
QuoteTypeOK ==
  /\ DOMAIN pools \subseteq Places /\ pools \in [DOMAIN pools -> Reserves]
  /\ lent \in [Free -> Depths] /\ depth \in [Free -> Nat]
  /\ step \in Steps /\ tier \in DOMAIN Fees /\ haircut \in 5..500
  /\ loan \in [coll : Tokens, debt : Tokens, usd : DebtUsd \union {0}]
  /\ gas \in Nat /\ sim_gas \in Nat /\ gross \in Int
  /\ route \in Seq(Hop) /\ Len(route) <= 2
  /\ offer \in [lender : Lenders, min : Nat]

\* The lender is chosen after the profit was judged, and may turn out to be the dearest
\* one: the profit still clears the floor of gate 1 with its fee (simulation.rs:462-474,
\* liquidation.rs:216, flash_loan.rs:80).
FeeCovered ==
  step = "offered" => gross - sim_gas - FeeUsd(offer.lender) >= Required

\* whitepaper 4.5: the order is Morpho, Balancer, Spark, Aave, and a lender is only passed
\* over if it was seen not to hold enough (flash_loan.rs:80-115).  If nothing has moved and
\* no balance went unanswered, what was seen is what they hold, also when the multicall had
\* to be replaced by single calls (flash_loan.rs:141-145).
CheapestLender ==
  step = "offered" =>
    /\ \A l \in Free :
         (l = "Morpho" \/ (l = "Balancer" /\ offer.lender # "Morpho")
            \/ (l = "SparkDss" /\ offer.lender = "Aave")) /\ l # offer.lender
         => (depth[l] * Margin(l)) \div 100 < Amount
    /\ ~disturbed => depth = lent

\* The margins are 40% for Morpho and 5% for Balancer: a lender that has lost no more than
\* its margin since it was asked still holds the loan when the transaction is signed.
MarginAbsorbs ==
  step = "offered" /\ offer.lender # "Aave" =>
    LET l == offer.lender
        kept == IF l = "Morpho" THEN 60 ELSE IF l = "Balancer" THEN 95 ELSE 100
    IN lent[l] * 100 >= depth[l] * kept => lent[l] >= Amount

\* The route leads from the collateral to the debt over pools of two different tokens,
\* directly or over WETH.  If nothing has moved and no read failed, every hop holds more
\* than dust, and a detour is only made when no direct pool does.
RouteSound ==
  step = "offered" =>
    LET last == Len(route)
        live(h) == Reserve(h.from, h.to, h.fee) > Dust
    IN /\ last \in 1..2
       /\ route[1].from = loan.coll /\ route[last].to = loan.debt
       /\ last = 2 => route[1].to = "WETH" /\ route[2].from = "WETH"
       /\ \A i \in 1..last : route[i].from # route[i].to
       /\ ~disturbed =>
            /\ \A i \in 1..last : live(route[i])
            /\ last = 2 /\ loan.coll # loan.debt =>
                 \A i \in DOMAIN Fees : Reserve(loan.coll, loan.debt, Fees[i]) <= Dust

\* The haircut and the route are found by two passes with different thresholds and tiers.
\* If nothing has moved and no read failed, what is offered was judged with the slippage
\* of the very pool it swaps through, or with the configured haircut where the estimate
\* has no pool to look at: a pool of dust costs the whole bonus and is never offered.
HaircutOfRoute ==
  step = "offered" /\ ~disturbed =>
    haircut = IF Len(route) = 1 /\ route[1].fee # 10000
              THEN Slippage(Amount, Reserve(loan.coll, loan.debt, route[1].fee))
              ELSE Fallback

\* The search gives up only when there is no route: if nothing has moved and no read
\* failed, then no pool of the pair holds more than dust in any tier, and the detour lacks
\* a hop (simulation.rs:309-333 and 514-528).
RouteComplete ==
  step = "failed" /\ ~disturbed /\ Readable =>
    LET live(a, b) == \E i \in DOMAIN Fees : Reserve(a, b, Fees[i]) > Dust
    IN ~live(loan.coll, loan.debt) /\ ~(live(loan.coll, "WETH") /\ live("WETH", loan.debt))

\* math.rs:7 has the selector of totalSupply() for liquidity(): with it no pool can be
\* read, whatever it holds, no route is found, and no position is ever offered.
UnreadableNeverOffers ==
  selector # "liquidity" =>
    route = <<>> /\ step \notin {"hopB", "depths", "balancer", "morpho", "spark",
                                 "build", "offered"}

\* The minimum is ETH whatever the debt: the profit of a position behind both gates, in
\* the unit in which the contract counts it, reaches the minimum unless the debt is
\* USDC, and then never (liquidation.rs:232-237, flash_loan.rs:215-220).
MinimumInEther ==
  step = "offered" =>
    (offer.min * Price(loan.debt) <= Net * Unit(loan.debt) <=> loan.debt # "USDC")
=============================================================================
