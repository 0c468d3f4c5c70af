----------------------------- MODULE ArbSimulation -----------------------------
(***************************************************************************)
(* The arithmetic of the exchanges, and the arbitrage simulations built on *)
(* it.  (bot/src/shared/math.rs; simulate_cross_dex_arb, simulate_tri_arb, *)
(* their readers and estimate_flash_fee_usd in                             *)
(* bot/src/shared/simulation.rs.)                                          *)
(*                                                                         *)
(* A run is one call: the square root, the size of an arbitrage with and   *)
(* without fees, or a simulation leg by leg.  The loops of the code are    *)
(* steps.  U256 is 0..Max; its checked, saturating and panicking           *)
(* operations are told apart.  A price in USD is in 1/Scale of the token.  *)
(***************************************************************************)
EXTENDS Integers, Sequences

CONSTANTS
  Radix,     \* 2^128: a word is below its square
  Scale,     \* 10_000, the unit of a fee
  Fees,      \* the fee_bps of pools
  AeroFee,   \* fee_bps that fetch_aero_reserves answers, and that stands for a failed one, 30
  UniFee,    \* fee_bps that stands for a Uniswap pool that cannot be read, 5
  StableFee, \* an Aerodrome pool is stable if its fee is below this one, 10
  Premium,   \* AAVE_FLASH_PREMIUM_BPS
  GasPrice,  \* what 10_000 gas cost, with gas_estimate_safety_margin, in 1/Scale
  MinBps,    \* min_profit_slippage_bps
  MaxPct,    \* max_pct, of 100
  Rounds,    \* 64, of stable_amm_out
  Reserves,  \* bound: reserves of pools
  Sizes,     \* bound: reserves that are sized
  Amounts,   \* bound: amounts simulated
  Radicands  \* bound: what the root is taken of, besides the largest words

Max == Radix * Radix - 1

ASSUME ArbAssumption ==
  /\ Radix \in Nat \ {0, 1} /\ Scale \in Nat \ {0}
  /\ Fees \subseteq 0..(Scale - 1) /\ {AeroFee, UniFee} \subseteq Fees /\ StableFee \in Nat
  /\ Premium \in Nat /\ GasPrice \in Nat
  /\ MinBps \in 0..Scale /\ MaxPct \in 0..100 /\ Rounds \in Nat \ {0}
  /\ Reserves \subseteq 0..Max /\ Sizes \subseteq 0..Max /\ Amounts \subseteq 1..Max
  /\ Radicands \subseteq 0..Max
  \* the sums and products that the code takes unchecked
  /\ \A r \in Sizes : r * 100 <= Max
  /\ \A r \in Reserves, a \in Amounts : r + a <= Max /\ a * Scale <= Max

\* the curve of a stable pool
Cubic(a, b) == (a * b) * (a * a + b * b)

\* What goes into a pool is an amount, or what the pool before it paid.  Such sums leave amm_out
\* room for the unit of a fee, as those of tokens do ...
ASSUME RangeAssumption ==
  \A r, s \in Reserves \union Amounts : (r + s) * Scale <= Max

\* ... and a stable pool that is left with a single unit of a token is within its curve, unless
\* that fits into a word: so it is for amounts up to the reserve, if the other is not below 8
ASSUME CurveAssumption ==
  \A r, b \in Reserves \ {0}, s \in Reserves \union Amounts :
    Cubic(r + s, 1) <= Max \/ Cubic(r + s, 1) <= Cubic(r, b)

VARIABLES
  call,    \* the function called, and its arguments
  pc,      \* where it is
  n, x, y, \* isqrt
  plain,   \* optimal_arb_input
  path,    \* the pools of the legs so far, as they were read
  given,   \* what goes into the leg
  out,     \* what comes out of it
  rest,    \* y of stable_amm_out
  round,   \* history: how often rest has moved
  gas,     \* base_gas, in 10_000
  size,    \* optimal_arb_input_with_fees
  sim      \* the SimResult

vars == <<call, pc, n, x, y, plain, path, given, out, rest, round, gas, size, sim>>
root == <<n, x, y, plain, size>>
legs == <<path, given, out, rest, round, gas>>

None == -1
Loss == [usd |-> -1, min |-> 0]

-----------------------------------------------------------------------------
(* Words.                                                                  *)

\* checked_mul(..).unwrap_or(d)
MulOr(a, b, d) == IF a = 0 \/ b <= Max \div a THEN a * b ELSE d
SatAdd(a, b)   == IF a + b > Max THEN Max ELSE a + b
SatSub(a, b)   == IF a < b THEN 0 ELSE a - b
Least(a, b)    == IF a < b THEN a ELSE b

-----------------------------------------------------------------------------
(* Mistakes the properties must notice.                                    *)

NoGuard                == {0}
RoundedUp(a)           == (a + n \div a + 1) \div 2
Averaged(newIn, b, k)  == (b + k \div (newIn * (newIn * newIn + b * b))) \div 2

FeeAdded(rIn, rOut, amount, fee) ==
  LET paid == amount * (Scale + fee)
  IN IF rIn = 0 THEN 0 ELSE (paid * rOut) \div (rIn * Scale + paid)

-----------------------------------------------------------------------------
(* amm_out, and what stable_amm_out computes before and in its loop.       *)

AmmOut(rIn, rOut, amount, fee) ==
  LET paid == MulOr(amount, Scale - fee, 0)
  IN IF rIn = 0 \/ rOut = 0 \/ amount = 0 THEN 0
     ELSE MulOr(paid, rOut, 0) \div SatAdd(MulOr(rIn, Scale, Max), paid)

SumOfSquares(a, b)   == SatAdd(MulOr(a, a, Max), MulOr(b, b, Max))
StableK(a, b)        == MulOr(MulOr(a, b, Max), SumOfSquares(a, b), Max)
StableIn(rIn, a, fee) == rIn + MulOr(a, Scale - fee, 0) \div Scale

-----------------------------------------------------------------------------
(* isqrt.                                                                  *)

\* the words isqrt answers without iterating
Special == {0, Max}

EnterRoot(m) ==
  /\ n' = m
  /\ x' = IF m = Max THEN Radix - 1 ELSE m
  /\ y' = (m + 1) \div 2
  /\ pc' = IF m \in Special THEN "rooted" ELSE IF m + 1 > Max THEN "panic" ELSE "sqrt"

Guess(a) == (a + n \div a) \div 2

RootStep ==
  /\ pc = "sqrt" /\ y < x
  /\ x' = y
  /\ IF y = 0 \/ y + n \div y > Max THEN pc' = "panic" /\ UNCHANGED y
     ELSE y' = Guess(y) /\ UNCHANGED pc
  /\ UNCHANGED <<call, n, plain, size, legs, sim>>

RootEnds ==
  /\ pc = "sqrt" /\ y >= x /\ pc' = "rooted"
  /\ UNCHANGED <<call, root, legs, sim>>

-----------------------------------------------------------------------------
(* optimal_arb_input, and then optimal_arb_input_with_fees, of the same    *)
(* reserves.                                                               *)

Product == MulOr(call.rIn, call.rOut, None)

\* the product less both fees, or None if any product on the way overflows
Adjusted ==
  LET less(p, f) == IF p = None THEN None ELSE MulOr(p, Scale - f, None)
  IN less(less(Product, call.feeIn), call.feeOut)

Capped(total) == Least(SatSub(total, call.rIn), (call.rIn * MaxPct) \div 100)
Unscaled(r)  == MulOr(r, Scale, 0) \div (Scale - call.feeIn)

SizePlain ==
  /\ pc = "plain"
  /\ \/ Product = None /\ plain' = 0 /\ pc' = "fees" /\ UNCHANGED <<n, x, y>>
     \/ Product # None /\ EnterRoot(Product) /\ UNCHANGED plain
  /\ UNCHANGED <<call, size, legs, sim>>

SizeWithFees ==
  /\ pc = "fees"
  /\ \/ Adjusted = None /\ size' = 0 /\ pc' = "done" /\ UNCHANGED <<n, x, y>>
     \/ Adjusted # None /\ EnterRoot(Adjusted \div (Scale * Scale)) /\ UNCHANGED size
  /\ UNCHANGED <<call, plain, legs, sim>>

Rooted ==
  /\ pc = "rooted"
  /\ \/ call.of = "root" /\ pc' = "done" /\ UNCHANGED <<plain, size>>
     \/ call.of = "size" /\ plain = None
        /\ plain' = Capped(x) /\ pc' = "fees" /\ UNCHANGED size
     \/ call.of = "size" /\ plain # None
        /\ size' = Capped(Unscaled(x)) /\ pc' = "done" /\ UNCHANGED plain
  /\ UNCHANGED <<call, n, x, y, legs, sim>>

-----------------------------------------------------------------------------
(* The simulations.                                                        *)

Pool(rIn, rOut, fee, stable, read) ==
  [rIn |-> rIn, rOut |-> rOut, fee |-> fee, stable |-> stable, read |-> read]

\* what the leg costs is added to base_gas in the tri-arb only
Leg(pool, cost) ==
  /\ pc = "leg"
  /\ path' = Append(path, pool) /\ given' = out /\ gas' = gas + cost
  /\ IF pool.stable /\ pool.rIn # 0 /\ pool.rOut # 0
     THEN pc' = "newton" /\ rest' = pool.rOut /\ round' = 0 /\ UNCHANGED out
     ELSE /\ out' = IF pool.stable THEN 0 ELSE AmmOut(pool.rIn, pool.rOut, out, pool.fee)
          /\ pc' = "paid" /\ UNCHANGED <<rest, round>>
  /\ UNCHANGED <<call, root, sim>>

\* a pool known to the caller, for the first leg or, the other way round, for the second
CrossLeg ==
  /\ call.of = "cross"
  /\ \E a, b \in Reserves, fee \in Fees, aero \in BOOLEAN :
       Leg(Pool(a, b, fee, aero /\ fee < StableFee, TRUE), 0)

\* fetch_aero_reserves answers token0 as what goes in, a fee of its own and never a stable pool
AeroLeg ==
  /\ call.of = "tri"
  /\ \E a, b \in Reserves : Leg(Pool(a, b, AeroFee, FALSE, TRUE), 8)

UniLeg ==
  /\ call.of = "tri"
  /\ \E a, b \in Reserves, fee \in Fees : Leg(Pool(a, b, fee, FALSE, TRUE), 15)

\* unwrap_or((1, 1, ..)) when a call fails or its answer is too short
UnreadLeg ==
  /\ call.of = "tri"
  /\ \/ Leg(Pool(1, 1, AeroFee, FALSE, FALSE), 8)
     \/ Leg(Pool(1, 1, UniFee, FALSE, FALSE), 15)

Now == path[Len(path)]

\* one round of the loop of stable_amm_out
Better(newIn, b, k) == k \div MulOr(newIn, SatAdd(MulOr(newIn, newIn, Max), MulOr(b, b, Max)), Max)

Newton ==
  LET new == Better(StableIn(Now.rIn, given, Now.fee), rest, StableK(Now.rIn, Now.rOut))
  IN /\ pc = "newton"
     /\ IF new >= rest THEN pc' = "stable" /\ UNCHANGED <<rest, round>>
        ELSE /\ rest' = new /\ round' = round + 1
             /\ pc' = IF rest - new <= 1 \/ round' = Rounds THEN "stable" ELSE pc
     /\ UNCHANGED <<call, root, path, given, out, gas, sim>>

StablePays ==
  /\ pc = "stable"
  /\ out' = SatSub(Now.rOut, rest) /\ pc' = "paid"
  /\ UNCHANGED <<call, root, path, given, rest, round, gas, sim>>

Wanted == IF call.of = "cross" THEN 2 ELSE 3

NextLeg ==
  /\ pc = "paid" /\ out # 0 /\ Len(path) < Wanted
  /\ pc' = "leg"
  /\ UNCHANGED <<call, root, legs, sim>>

\* no profit to report: nothing comes out of a leg, or no more than went in
Rejected ==
  /\ pc = "paid"
  /\ out = 0 \/ (Len(path) = Wanted /\ out <= call.amount)
  /\ sim' = Loss /\ pc' = "loss"
  /\ UNCHANGED <<call, root, legs>>

\* what is left after the flash-loan fee and the gas, and min_profit_wei
Profitable ==
  LET profit == out - call.amount
      fee    == (call.amount * Premium) \div Scale
  IN /\ pc = "paid" /\ Len(path) = Wanted /\ out > call.amount
     /\ sim' = [usd |-> Scale * (profit - fee) - gas * GasPrice,
                min |-> (profit * MinBps) \div Scale]
     /\ pc' = "profit"
     /\ UNCHANGED <<call, root, legs>>

-----------------------------------------------------------------------------
Calls ==
  [of : {"root"}, radicand : Radicands \union {Max - 1, Max}]
    \union [of : {"size"}, rIn : Sizes, rOut : Sizes, feeIn : Fees, feeOut : Fees]
    \union [of : {"cross", "tri"}, amount : Amounts]

Idle == /\ plain = None /\ size = None /\ path = <<>> /\ given = 0
        /\ rest = 0 /\ round = 0 /\ sim = Loss

Init ==
  /\ call \in Calls /\ Idle /\ n = 0 /\ x = 0 /\ y = 0
  /\ out = IF call.of \in {"cross", "tri"} THEN call.amount ELSE 0
  /\ gas = IF call.of = "cross" THEN 30 ELSE 5
  /\ pc = CASE call.of = "root" -> "call" [] call.of = "size" -> "plain" [] OTHER -> "leg"

CallRoot ==
  /\ pc = "call" /\ EnterRoot(call.radicand)
  /\ UNCHANGED <<call, plain, size, legs, sim>>

Next ==
  \/ CallRoot \/ RootStep \/ RootEnds
  \/ SizePlain \/ SizeWithFees \/ Rooted
  \/ CrossLeg \/ AeroLeg \/ UniLeg \/ UnreadLeg
  \/ Newton \/ StablePays \/ NextLeg \/ Rejected \/ Profitable

Spec == Init /\ [][Next]_vars

-----------------------------------------------------------------------------
(* Properties.                                                             *)

RootIsFloor   == pc = "rooted" => x * x <= n /\ n < (x + 1) * (x + 1)
FeesShrinkSize == size # None /\ call.feeIn <= call.feeOut => size <= plain

\* isqrt never overflows and never divides by zero, it ends in the floor of the root of every
\* word, and so the size with fees is at most the one without, as the test
\* fee_adjusted_optimal_is_smaller expects -- if the buy leg is not the dearer one: only the
\* fee of that leg is divided out again (math.rs:13-29, 32-37, 46-78).
SizingIsSound == pc # "panic" /\ RootIsFloor /\ FeesShrinkSize

\* what the reserves of a path's legs multiply to, of which there are three at most
Bought(p) == LET Reserve(i) == IF i \in DOMAIN p THEN p[i].rOut ELSE 1
             IN Reserve(1) * Reserve(2) * Reserve(3)
Sold(p)   == LET Reserve(i) == IF i \in DOMAIN p THEN p[i].rIn ELSE 1
             IN Reserve(1) * Reserve(2) * Reserve(3)

\* A simulation reports a profit only if the prices of its pools, multiplied, are above one,
\* so never for one pool there and back, and never with a leg that could not be read: the
\* reserves (1, 1) that stand for it end the simulation (math.rs:83-96,
\* simulation.rs:96-138 and 143-194).  Stable pools are excluded: see StableOverpays.
NoFreeProfit ==
  pc = "profit" =>
    /\ \A i \in DOMAIN path : path[i].read
    /\ (\A i \in DOMAIN path : ~path[i].stable) => Bought(path) > Sold(path)

\* The loop of stable_amm_out never moves twice, so that what it pays is never less than
\* x^3 y + x y^3 = k allows: the first iterate lies on the far side of the root and the test
\* for convergence takes the next one, which lies on this side, for the end.  And a k that
\* does not fit saturates, which pays out more again (math.rs:113-131).
StableOverpays ==
  pc = "stable" =>
    /\ round <= 1
    /\ Cubic(StableIn(Now.rIn, given, Now.fee), rest) <= Cubic(Now.rIn, Now.rOut)
=============================================================================
