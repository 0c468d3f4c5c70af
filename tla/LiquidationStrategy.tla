-------------------------- MODULE LiquidationStrategy --------------------------
(***************************************************************************)
(* bot/src/strategies/liquidation.rs over the index and the market data:   *)
(* strategy tasks, spawned once per block and left running when they are   *)
(* late, and presign tasks, spawned by the mempool loop.  Both read and    *)
(* write the shared maps key by key, and work through copies of positions  *)
(* that are replaced in the meantime.                                      *)
(***************************************************************************)
EXTENDS MarketData, PositionIndexer

CONSTANTS
  Tasks,        \* bound: strategy and presign tasks in flight
  BaseHf,       \* hf_threshold, in thousandths
  Widenings,    \* realized_vol * volatility_scale, cut off at max_hf_widening
  FlatFloor,    \* min_liquidation_profit_usd
  Opportunity,  \* opportunity_cost_usd
  GasDollars,   \* what a liquidation's gas costs per gwei of the gas price
  Profits       \* what the simulation can come to, in dollars

ASSUME StrategyAssumption ==
  /\ BaseHf \in 0..MaxHf
  /\ \A w \in Widenings : w \in Nat /\ BaseHf + w <= MaxHf
  /\ FlatFloor \in Nat /\ Opportunity \in Nat /\ GasDollars \in Nat
  /\ Profits \subseteq Int

\* assets are no feeds, and Address::zero() has no price
ASSUME AssetAssumption ==
  /\ (DebtAssets \union Candidates) \intersect {EthFeed, BtcFeed} = {}
  /\ NoAsset \notin Keys

VARIABLES
  at,         \* where each task is
  kind,       \* "run" or "presign"
  todo,       \* keys its current pass over the map has still to visit
  threshold,  \* local hf_thresh
  snapshot,   \* local pending_prices of a presign task
  picked,     \* the positions it has copied and not yet worked off
  current,    \* the position it is at, if any
  gas,        \* local effective_gas_wei, read once for the batch
  offers      \* history: the last position each task submitted, with the regime

locals == <<kind, todo, threshold, snapshot, picked, current, gas, offers>>
vars == <<marketVars, indexVars, at, locals>>

Steps == {"idle", "refresh", "select", "presign", "batch", "simulate", "submit",
          "ok", "failed"}

Init ==
  /\ MarketInit /\ IndexInit
  /\ at = [t \in Tasks |-> "idle"]
  /\ kind = [t \in Tasks |-> "run"]
  /\ todo = [t \in Tasks |-> {}]
  /\ threshold = [t \in Tasks |-> BaseHf]
  /\ snapshot = [t \in Tasks |-> <<>>]
  /\ picked = [t \in Tasks |-> {}]
  /\ current = [t \in Tasks |-> {}]
  /\ gas = [t \in Tasks |-> 0]
  /\ offers = [t \in Tasks |-> {}]

-----------------------------------------------------------------------------
(* Gate 2: break-even debt and minimum clip, in dollars.  Only Aave's      *)
(* WBTC depends on the gas regime; Fluid and Euler have the flat floor.    *)
(* The index knows no position of four of these protocols, and the price   *)
(* map no WBTC: the runs reach what remains, the lemmas cover all of it.   *)

BreakEvenDebt(protocol, wbtc, spiking) ==
  CASE protocol = "Aave" /\ wbtc       -> IF spiking THEN 5600 ELSE 770
    [] protocol = "Aave" /\ ~wbtc      -> 2700
    [] protocol = "Morpho"             -> 900
    [] protocol = "CompoundV3"         -> 1200
    [] protocol = "Spark"              -> 2334   \* 2333.33
    [] protocol \in {"Fluid", "EulerV2"} -> FlatFloor

MinClip(protocol, wbtc, spiking) ==
  IF protocol = "Aave" /\ wbtc THEN IF spiking THEN 25000 ELSE 5000 ELSE FlatFloor

DebtGate(protocol, wbtc, spiking, debt_usd) ==
  /\ debt_usd >= BreakEvenDebt(protocol, wbtc, spiking)
  /\ debt_usd >= MinClip(protocol, wbtc, spiking)

\* effective_gas_price_wei, in gwei: without a tip, a tenth of the base fee
EffectiveGas == IF tip > 0 THEN base_fee + tip ELSE base_fee + base_fee \div 10
SpikeRegime(t) == gas[t] >= 100

\* Gate 1: the dynamic floor with its safety margin of 1.15, or the flat one
RequiredProfit(t) ==
  LET dynamic == (gas[t] * GasDollars * 115) \div 100 + Opportunity
  IN IF dynamic > FlatFloor THEN dynamic ELSE FlatFloor

ProfitGate(t, profit) == profit >= RequiredProfit(t)

-----------------------------------------------------------------------------
(* Mistakes the properties must notice.                                    *)

UncappedWidening == {BaseHf} \union IF Volatile THEN {BaseHf + 2 * w : w \in Widenings} ELSE {}

-----------------------------------------------------------------------------
(* A task starts.  The threshold widens with the volatility of ETH.        *)

Widened == {BaseHf} \union IF Volatile THEN {BaseHf + w : w \in Widenings} ELSE {}

Begin(t, k, step) ==
  /\ at[t] = "idle"
  /\ at' = [at EXCEPT ![t] = step]
  /\ kind' = [kind EXCEPT ![t] = k]
  /\ todo' = [todo EXCEPT ![t] = DOMAIN positions]
  /\ \E h \in Widened : threshold' = [threshold EXCEPT ![t] = h]
  /\ offers' = [offers EXCEPT ![t] = {}]
  /\ UNCHANGED <<picked, current, gas>>

\* the block loop spawns liquidation::run; without a free task there is no block
SpawnRun(t) ==
  /\ Spawned
  /\ Begin(t, "run", "refresh")
  /\ UNCHANGED <<indexVars, snapshot>>

\* the mempool loop spawns run_presign for any transaction while a price is pending
SpawnPresign(t) ==
  /\ phase = "live" /\ DOMAIN pending # {}
  /\ Begin(t, "presign", "presign")
  /\ snapshot' = [snapshot EXCEPT ![t] = PendingPrices]
  /\ UNCHANGED <<marketVars, indexVars>>

-----------------------------------------------------------------------------
(* The passes over the map.  A key inserted meanwhile may or may not be    *)
(* visited: it has no health factor and no collateral, so nothing happens. *)

Visit(t, k, step) ==
  /\ at[t] = step /\ k \in todo[t]
  /\ todo' = [todo EXCEPT ![t] = @ \ {k}]
  /\ UNCHANGED <<at, kind, threshold, snapshot, current, gas, offers>>

Refresh(t, k) ==
  /\ Visit(t, k, "refresh")
  /\ RefreshKey(k, prices)
  /\ UNCHANGED <<marketVars, picked>>

\* refresh_health_factors returns, positions_below_hf starts
Refreshed(t) ==
  /\ at[t] = "refresh" /\ todo[t] = {}
  /\ at' = [at EXCEPT ![t] = "select"]
  /\ todo' = [todo EXCEPT ![t] = DOMAIN positions]
  /\ UNCHANGED <<marketVars, indexVars, kind, threshold, snapshot, picked, current, gas, offers>>

Keyed(k) == [key |-> k, pos |-> positions[k]]
BelowHf(t, k) == positions[k].hf < threshold[t]
BelowPendingHf(t, k) == ComputeHf(positions[k], snapshot[t]) < threshold[t]

Pick(t, k) == picked' = [picked EXCEPT ![t] = @ \union {Keyed(k)}]

Select(t, k) ==
  /\ Visit(t, k, "select")
  /\ IF BelowHf(t, k) THEN Pick(t, k) ELSE UNCHANGED picked
  /\ UNCHANGED <<marketVars, indexVars>>

\* positions_below_pending_hf, over the pending prices alone
PresignSelect(t, k) ==
  /\ Visit(t, k, "presign")
  /\ IF BelowPendingHf(t, k) THEN Pick(t, k) ELSE UNCHANGED picked
  /\ UNCHANGED <<marketVars, indexVars>>

\* the gas price, and with it the regime and the floor, is read once for the batch
Batch(t) ==
  /\ at[t] \in {"select", "presign"} /\ todo[t] = {}
  /\ at' = [at EXCEPT ![t] = "batch"]
  /\ gas' = [gas EXCEPT ![t] = EffectiveGas]
  /\ UNCHANGED <<marketVars, indexVars, kind, todo, threshold, snapshot, picked, current, offers>>

-----------------------------------------------------------------------------
(* execute_liquidations_for_positions: one position after the other.       *)

DebtUsd(pos) == prices[pos.debt] * pos.debt_amount

PassesDebtGate(t, e) ==
  /\ e.pos.debt \in DOMAIN prices
  /\ DebtGate(Protocol(e.key), e.pos.debt = "WBTC", SpikeRegime(t), DebtUsd(e.pos))

\* gate 2, which also skips a position whose debt has no price
Take(t, e) ==
  /\ at[t] = "batch" /\ e \in picked[t]
  /\ picked' = [picked EXCEPT ![t] = @ \ {e}]
  /\ IF PassesDebtGate(t, e)
     THEN at' = [at EXCEPT ![t] = "simulate"] /\ current' = [current EXCEPT ![t] = {e}]
     ELSE UNCHANGED <<at, current>>
  /\ UNCHANGED <<marketVars, indexVars, kind, todo, threshold, snapshot, gas, offers>>

Proceed(t, step, left, e) ==
  /\ at' = [at EXCEPT ![t] = step]
  /\ picked' = [picked EXCEPT ![t] = left]
  /\ current' = [current EXCEPT ![t] = e]
  /\ UNCHANGED <<marketVars, indexVars, kind, todo, threshold, snapshot, gas>>

\* simulate_liquidation, then gate 1: the profit is what pools, bonus and fees leave.
\* A position without both prices ends the whole batch.
Simulate(t) ==
  /\ at[t] = "simulate"
  /\ IF \A e \in current[t] : Priced(e.pos, prices)
     THEN \E profit \in Profits :
            IF ProfitGate(t, profit) THEN Proceed(t, "submit", picked[t], current[t])
                                  ELSE Proceed(t, "batch", picked[t], {})
     ELSE Proceed(t, "failed", {}, {})
  /\ UNCHANGED offers

\* route, lender, calldata and submission are there: on to the next position
Offer(t) ==
  /\ at[t] = "submit"
  /\ offers' = [offers EXCEPT ![t] = {[e |-> x, spike |-> SpikeRegime(t)] : x \in current[t]}]
  /\ Proceed(t, "batch", picked[t], {})

\* no pool on the route, or the submission fails: the batch ends, the rest is dropped
OfferFails(t) ==
  /\ at[t] = "submit"
  /\ Proceed(t, "failed", {}, {})
  /\ UNCHANGED offers

BatchDone(t) ==
  /\ at[t] = "batch" /\ picked[t] = {}
  /\ Proceed(t, "ok", {}, {})
  /\ UNCHANGED offers

\* the outcome goes to the breaker, or into the log for a presign task
Ended(t) ==
  /\ at[t] \in {"ok", "failed"}
  /\ Proceed(t, "idle", {}, {})
  /\ UNCHANGED offers

-----------------------------------------------------------------------------
\* the block loop starts after the scan, the mempool watcher before it
Environment ==
  \/ MarketStep /\ (stage = "idle" /\ stage' # "idle" => phase = "live") /\ UNCHANGED indexVars
  \/ IndexNext /\ UNCHANGED marketVars

TaskStep(t) ==
  \/ SpawnRun(t)
  \/ SpawnPresign(t)
  \/ \E k \in todo[t] : Refresh(t, k)
  \/ Refreshed(t)
  \/ \E k \in todo[t] : Select(t, k)
  \/ \E k \in todo[t] : PresignSelect(t, k)
  \/ Batch(t)
  \/ \E e \in picked[t] : Take(t, e)
  \/ Simulate(t)
  \/ Offer(t)
  \/ OfferFails(t)
  \/ BatchDone(t)
  \/ Ended(t)

Next ==
  \/ Environment /\ UNCHANGED <<at, locals>>
  \/ \E t \in Tasks : TaskStep(t)

Spec == Init /\ [][Next]_vars

-----------------------------------------------------------------------------
(* Properties.                                                             *)

Entries == [key : IndexKeys, pos : PositionType]

\* Types of the tasks' locals (liquidation.rs:93-167).
StrategyTypeOK ==
  /\ at \in [Tasks -> Steps]
  /\ kind \in [Tasks -> {"run", "presign"}]
  /\ todo \in [Tasks -> SUBSET IndexKeys]
  /\ threshold \in [Tasks -> {BaseHf} \union {BaseHf + w : w \in Widenings}]
  /\ \A t \in Tasks : DOMAIN snapshot[t] \subseteq {EthFeed}
  /\ \A t \in Tasks : \A e \in picked[t] \union current[t] : e \in Entries
  /\ gas \in [Tasks -> Nat]

\* A position a task works on always has both of its prices: between refresh and
\* selection another task or the log stream may replace it, and the stream erases its
\* collateral, but then it is not selected.  The error that would end the whole batch
\* (simulation.rs:208-219) therefore never comes from one position without a price.
PickedArePriced ==
  \A t \in Tasks : \A e \in picked[t] \union current[t] : Priced(e.pos, prices)

\* hf was computed from these very amounts with confirmed prices
HfAt(pos, p, q) == (p * pos.coll_amount * LiqThreshold) \div (q * pos.debt_amount)

Due(o) ==
  LET pos == o.e.pos
  IN /\ \E p \in ConfirmedPrices(pos.coll), q \in ConfirmedPrices(pos.debt) :
          /\ pos.hf = HfAt(pos, p, q)
          /\ \E w \in Widenings \union {0} : pos.hf < BaseHf + w
     /\ \E q \in ConfirmedPrices(pos.debt) :
          DebtGate(Protocol(o.e.key), FALSE, o.spike, q * pos.debt_amount)

\* What is submitted is a loan whose health factor, computed from the amounts that are
\* submitted and from confirmed prices, lies below the widened threshold, and whose debt
\* clears gate 2 at a confirmed price, whatever replaced it in the index and whatever the
\* mempool wrote into the price map on the way (liquidation.rs:132-241).
OffersAreDue == \A t \in Tasks : \A o \in offers[t] : Due(o)

\* liquidation.rs:107 and main.rs:239 promise to act on pending oracle prices: when a
\* presign task visits a loan that the pending ETH price puts below the threshold, it
\* picks it.
WithPendingEth(t) == Written(prices, [k \in {"WETH"} |-> snapshot[t][EthFeed]])

PresignActsOnPrice ==
  [][\A t \in Tasks : \A k \in todo[t] \ todo'[t] :
       at[t] = "presign" /\ ComputeHf(positions[k], WithPendingEth(t)) < BaseHf
         => Keyed(k) \in picked'[t]]_vars

=============================================================================
