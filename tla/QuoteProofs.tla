------------------------------ MODULE QuoteProofs ------------------------------
(***************************************************************************)
(* Theorems about LiquidationQuote, for every loan, price, pool and lender *)
(* and whatever the chain does meanwhile.                                  *)
(***************************************************************************)
EXTENDS LiquidationQuote, FiniteSetTheorems, SequenceTheorems, TLAPS

LEMMA DivisionType == \A a \in Int, b \in Nat \ {0} : a \div b \in Int
  OBVIOUS

LEMMA DivisionNat == \A a \in Nat, b \in Nat \ {0} : a \div b \in Nat
  OBVIOUS

LEMMA ProductNat == \A a \in Nat, b \in Nat : a * b \in Nat
  OBVIOUS

LEMMA ProductInt == \A a \in Int, b \in Int : a * b \in Int
  OBVIOUS

\* Units and prices are positive, so that raw amounts are natural numbers.
LEMMA AmountType ==
  ASSUME NEW token, NEW usd \in Nat
  PROVE  /\ Unit(token) \in Nat \ {0} /\ Price(token) \in Nat \ {0}
         /\ RawAmount(token, usd) \in Nat
<1>1. Unit(token) \in Nat \ {0}
  BY QuoteAssumption DEF QuoteAssumption, Unit
<1>2. Price(token) \in Nat \ {0}
  BY QuoteAssumption DEF QuoteAssumption, Price
<1>3. usd * Unit(token) \in Nat
  BY <1>1, ProductNat
<1>4. RawAmount(token, usd) \in Nat
  BY <1>2, <1>3, DivisionNat DEF RawAmount
<1> QED BY <1>1, <1>2, <1>4

\* The slippage estimate is clamped, whatever the pool holds.
LEMMA SlippageType ==
  ASSUME NEW amount \in Nat, NEW reserve \in Nat \ {0}
  PROVE  Slippage(amount, reserve) \in 5..500
<1> DEFINE s == (amount * 10000) \div (amount + reserve)
<1>1. amount * 10000 \in Int /\ amount + reserve \in Nat \ {0}
  OBVIOUS
<1>2. s \in Int
  BY <1>1, DivisionType
<1> HIDE DEF s
<1>3. (IF s < 5 THEN 5 ELSE IF s > 500 THEN 500 ELSE s) \in 5..500
  BY <1>2
<1> QED BY <1>3 DEF Slippage, s

LEMMA GrossType ==
  ASSUME NEW usd \in Nat, NEW cut \in 5..500
  PROVE  Gross(usd, cut) \in Int
<1>1. usd * (500 - cut) * 9 \in Int
  BY ProductInt
<1> QED BY <1>1, DivisionType DEF Gross

LEMMA RequiredType == gas \in Nat => Required \in Nat
  BY QuoteAssumption DEF QuoteAssumption, Required

-----------------------------------------------------------------------------
(* Types.                                                                  *)

LEMMA ReserveType ==
  ASSUME QuoteTypeOK, NEW a, NEW b, NEW fee
  PROVE  Reserve(a, b, fee) \in Nat
<1>1. CASE <<{a, b}, fee>> \in DOMAIN pools
  BY <1>1, QuoteAssumption DEF QuoteAssumption, QuoteTypeOK, Reserve
<1>2. CASE <<{a, b}, fee>> \notin DOMAIN pools
  BY <1>2 DEF Reserve
<1> QED BY <1>1, <1>2

LEMMA LoanType ==
  ASSUME QuoteTypeOK
  PROVE  /\ loan.usd \in Nat /\ Amount \in Nat /\ loan.debt \in Tokens
         /\ loan.coll \in Tokens
<1>1. loan.usd \in Nat /\ loan.debt \in Tokens /\ loan.coll \in Tokens
  BY QuoteAssumption DEF QuoteAssumption, QuoteTypeOK
<1> QED BY <1>1, AmountType DEF Amount

\* One tier of one hop adds at most one hop, between two tokens, at a known fee.
LEMMA ProbeType ==
  ASSUME QuoteTypeOK, NEW a \in Tokens, NEW b \in Tokens, NEW ok \in BOOLEAN,
         NEW found \in Steps, NEW otherwise \in Steps, Len(route) <= 1,
         Probe(a, b, ok, found, otherwise)
  PROVE  QuoteTypeOK'
<1> DEFINE h == [from |-> a, to |-> b, fee |-> Fees[tier]]
<1>1. h \in Hop
  BY DEF Hop, QuoteTypeOK
<1>2. route' \in Seq(Hop) /\ Len(route') <= 2
  <2>1. CASE route' = Append(route, h)
    BY <1>1, <2>1 DEF QuoteTypeOK
  <2>2. CASE route' = route
    BY <2>2 DEF QuoteTypeOK
  <2> QED BY <2>1, <2>2 DEF Probe
<1>3. tier' \in DOMAIN Fees /\ step' \in Steps
  <2>1. tier \in 1..4 /\ DOMAIN Fees = 1..4 /\ Len(Fees) = 4
    BY DEF QuoteTypeOK, Fees
  <2>2. step \in Steps
    BY DEF QuoteTypeOK
  <2> QED BY <2>1, <2>2 DEF Probe, Goto, TryNext
<1> QED BY <1>2, <1>3 DEF Probe, QuoteTypeOK, chain

LEMMA SeeType ==
  ASSUME QuoteTypeOK, NEW lenders, NEW failing, See(lenders, failing), step' \in Steps
  PROVE  QuoteTypeOK'
<1>1. depth' \in [Free -> Nat]
  BY QuoteAssumption DEF QuoteAssumption, QuoteTypeOK, See
<1> QED BY <1>1 DEF QuoteTypeOK, See, chain

\* A route in the making is no longer than the step it belongs to.
ShortRoute ==
  /\ step \in {"direct", "hopA"} => Len(route) = 0
  /\ step = "hopB" => Len(route) = 1

TypeInv == QuoteTypeOK /\ ShortRoute /\ (step \in {"slippage", "gate"} => route = <<>>)

LEMMA InitTypeInv == Init => TypeInv
<1> SUFFICES ASSUME Init PROVE TypeInv
  OBVIOUS
<1>1. PICK there \in SUBSET Places : pools \in [there -> Reserves]
  BY DEF Init
<1>2. DOMAIN pools \subseteq Places /\ pools \in [DOMAIN pools -> Reserves]
  BY <1>1
<1>3. PICK d \in Depths : lent = [l \in Free |-> d]
  BY DEF Init
<1>4. loan \in [coll : Tokens, debt : Tokens, usd : DebtUsd \union {0}]
  BY DEF Init, NoLoan, Tokens
<1>5. offer \in [lender : Lenders, min : Nat] /\ depth \in [Free -> Nat]
  BY DEF Init, NoOffer, NoDepth, Lenders, Free
<1>6. step \in Steps /\ tier \in DOMAIN Fees /\ haircut \in 5..500
  BY QuoteAssumption DEF QuoteAssumption, Init, Steps, Fees
<1>7. route \in Seq(Hop) /\ Len(route) <= 2
  BY DEF Init
<1> QED BY <1>2, <1>3, <1>4, <1>5, <1>6, <1>7 DEF Init, TypeInv, QuoteTypeOK, ShortRoute

\* A hop that is found ends its search with the length the next step expects.
LEMMA ProbeRoute ==
  ASSUME QuoteTypeOK, NEW a, NEW b, NEW ok, NEW found, NEW otherwise,
         Probe(a, b, ok, found, otherwise)
  PROVE  \/ step' = found /\ Len(route') = Len(route) + 1
         \/ step' \in {step, otherwise} /\ route' = route
<1>1. CASE ok /\ Readable /\ Reserve(a, b, Fees[tier]) > Dust
  <2>1. route' = Append(route, [from |-> a, to |-> b, fee |-> Fees[tier]]) /\ step' = found
    BY <1>1 DEF Probe, Goto
  <2> QED BY <2>1 DEF QuoteTypeOK
<1>2. CASE ~(ok /\ Readable /\ Reserve(a, b, Fees[tier]) > Dust)
  BY <1>2 DEF Probe, TryNext, Goto
<1> QED BY <1>1, <1>2

LEMMA NextTypeInv == TypeInv /\ [Next]_vars => TypeInv'
<1> SUFFICES ASSUME TypeInv, [Next]_vars PROVE TypeInv'
  OBVIOUS
<1> USE DEF TypeInv
<1>1. CASE SwapOrMint
  <2>1. DOMAIN pools' \subseteq Places /\ pools' \in [DOMAIN pools' -> Reserves]
    BY <1>1 DEF SwapOrMint, QuoteTypeOK
  <2> QED BY <1>1, <2>1 DEF SwapOrMint, QuoteTypeOK, ShortRoute, task
<1>2. CASE LenderMoves
  <2>1. lent' \in [Free -> Depths]
    BY <1>2 DEF LenderMoves, QuoteTypeOK
  <2> QED BY <1>2, <2>1 DEF LenderMoves, QuoteTypeOK, ShortRoute, task
<1>3. CASE Take
  <2>1. loan' \in [coll : Tokens, debt : Tokens, usd : DebtUsd \union {0}]
    BY <1>3 DEF Take, Tokens
  <2>2. gas' \in Nat
    BY <1>3, QuoteAssumption DEF Take, QuoteAssumption
  <2>3. offer' \in [lender : Lenders, min : Nat] /\ depth' \in [Free -> Nat]
    BY <1>3 DEF Take, NoOffer, NoDepth, Lenders, Free
  <2>4. step' \in Steps /\ tier' \in DOMAIN Fees /\ haircut' \in 5..500
    BY <1>3, QuoteAssumption DEF QuoteAssumption, Take, Steps, Fees
  <2>5. route' \in Seq(Hop) /\ Len(route') = 0 /\ route' = <<>>
    BY <1>3 DEF Take
  <2> QED BY <1>3, <2>1, <2>2, <2>3, <2>4, <2>5
          DEF Take, QuoteTypeOK, ShortRoute, chain
<1>4. ASSUME NEW ok \in BOOLEAN, EstimateSlippage(ok) PROVE TypeInv'
  <2> DEFINE reserve == Reserve(loan.coll, loan.debt, Fees[tier])
  <2>1. haircut' \in 5..500
    <3>1. CASE ok /\ Readable /\ reserve > 0
      <4>1. haircut' = Slippage(Amount, reserve)
        BY <1>4, <3>1 DEF EstimateSlippage
      <4>2. reserve \in Nat \ {0} /\ Amount \in Nat
        BY <3>1, ReserveType, LoanType
      <4> HIDE DEF reserve
      <4> QED BY <4>1, <4>2, SlippageType
    <3>2. CASE ~(ok /\ Readable /\ reserve > 0)
      BY <1>4, <3>2 DEF EstimateSlippage, QuoteTypeOK
    <3> QED BY <3>1, <3>2
  <2>2. tier' \in DOMAIN Fees /\ step' \in {"slippage", "gate"}
    <3>1. tier \in 1..4 /\ DOMAIN Fees = 1..4 /\ SlipTiers = 3
      BY DEF QuoteTypeOK, Fees, SlipTiers
    <3> QED BY <1>4, <3>1 DEF EstimateSlippage, Goto, TryNext
  <2> QED BY <1>4, <2>1, <2>2 DEF EstimateSlippage, QuoteTypeOK, ShortRoute, chain, Steps
<1>5. ASSUME NEW g \in GasCosts, Simulate(g) PROVE TypeInv'
  <2>1. gross' \in Int
    BY <1>5, LoanType, GrossType DEF Simulate, QuoteTypeOK
  <2>2. step' \in {"direct", "discarded"} /\ tier' \in DOMAIN Fees
    BY <1>5 DEF Simulate, Goto, Fees
  <2>3. sim_gas' \in Nat
    BY <1>5, QuoteAssumption DEF QuoteAssumption, Simulate
  <2>4. route' = <<>>
    BY <1>5 DEF Simulate
  <2> QED BY <1>5, <2>1, <2>2, <2>3, <2>4 DEF Simulate, QuoteTypeOK, ShortRoute, chain, Steps
<1>6. ASSUME NEW ok \in BOOLEAN, DirectHop(ok) PROVE TypeInv'
  <2>1. Probe(loan.coll, loan.debt, ok, "depths", "hopA") /\ Len(route) = 0
    BY <1>6 DEF DirectHop, ShortRoute
  <2>2. QuoteTypeOK'
    BY <2>1, LoanType, ProbeType DEF Steps
  <2>3. step' = "depths" \/ (step' \in {"direct", "hopA"} /\ route' = route)
    BY <1>6, <2>1, ProbeRoute DEF DirectHop
  <2> QED BY <2>1, <2>2, <2>3 DEF ShortRoute
<1>7. ASSUME NEW ok \in BOOLEAN, FirstHop(ok) PROVE TypeInv'
  <2>1. Probe(loan.coll, "WETH", ok, "hopB", "failed") /\ Len(route) = 0
    BY <1>7 DEF FirstHop, ShortRoute
  <2>2. QuoteTypeOK'
    <3>1. "WETH" \in Tokens /\ {"hopB", "depths", "failed"} \subseteq Steps
      BY DEF Tokens, Steps
    <3>2. Len(route) <= 1
      BY <2>1
    <3> QED BY <2>1, <3>1, <3>2, LoanType, ProbeType
  <2>3. \/ step' = "hopB" /\ Len(route') = 1
        \/ step' \in {"hopA", "failed"} /\ route' = route
    BY <1>7, <2>1, ProbeRoute DEF FirstHop
  <2> QED BY <2>1, <2>2, <2>3 DEF ShortRoute
<1>8. ASSUME NEW ok \in BOOLEAN, SecondHop(ok) PROVE TypeInv'
  <2>1. Probe("WETH", loan.debt, ok, "depths", "failed") /\ Len(route) = 1
    BY <1>8 DEF SecondHop, ShortRoute
  <2>2. QuoteTypeOK'
    <3>1. "WETH" \in Tokens /\ {"hopB", "depths", "failed"} \subseteq Steps
      BY DEF Tokens, Steps
    <3>2. Len(route) <= 1
      BY <2>1
    <3> QED BY <2>1, <3>1, <3>2, LoanType, ProbeType
  <2>3. step' = "depths" \/ (step' \in {"hopB", "failed"} /\ route' = route)
    BY <1>8, <2>1, ProbeRoute DEF SecondHop
  <2> QED BY <2>1, <2>2, <2>3 DEF ShortRoute
<1>9. ASSUME NEW failing, QueryDepths(failing) PROVE TypeInv'
  BY <1>9, SeeType DEF QueryDepths, ShortRoute, Steps
<1>10. CASE MulticallFails
  BY <1>10 DEF MulticallFails, QuoteTypeOK, ShortRoute, chain, Steps
<1>11. ASSUME NEW ok, QueryBalancer(ok) PROVE TypeInv'
  BY <1>11, SeeType DEF QueryBalancer, Ask, ShortRoute, Steps
<1>12. ASSUME NEW ok, QueryMorpho(ok) PROVE TypeInv'
  BY <1>12, SeeType DEF QueryMorpho, Ask, ShortRoute, Steps
<1>13. ASSUME NEW ok, QuerySpark(ok) PROVE TypeInv'
  BY <1>13, SeeType DEF QuerySpark, Ask, ShortRoute, Steps
<1>14. ASSUME NEW l \in Lenders, Build(l) PROVE TypeInv'
  <2>1. MinProfit(Required) \in Nat
    BY RequiredType, QuoteAssumption, ProductNat, DivisionNat
       DEF QuoteAssumption, MinProfit, QuoteTypeOK
  <2> QED BY <1>14, <2>1 DEF Build, QuoteTypeOK, ShortRoute, chain, Steps
<1>15. CASE NextPosition
  <2>1. loan' \in [coll : Tokens, debt : Tokens, usd : DebtUsd \union {0}]
    BY <1>15 DEF NextPosition, NoLoan, Tokens
  <2>2. offer' \in [lender : Lenders, min : Nat] /\ depth' \in [Free -> Nat]
    BY <1>15 DEF NextPosition, NoOffer, NoDepth, Lenders, Free
  <2>3. step' \in Steps /\ tier' \in DOMAIN Fees /\ haircut' \in 5..500
    BY <1>15, QuoteAssumption DEF QuoteAssumption, NextPosition, Steps, Fees
  <2>4. route' \in Seq(Hop) /\ Len(route') <= 2 /\ gas' \in Nat /\ sim_gas' \in Nat
        /\ gross' \in Int /\ step' = "idle"
    BY <1>15 DEF NextPosition
  <2> QED BY <1>15, <2>1, <2>2, <2>3, <2>4 DEF NextPosition, QuoteTypeOK, ShortRoute, chain
<1>16. CASE UNCHANGED vars
  BY <1>16 DEF vars, chain, task, QuoteTypeOK, ShortRoute
<1> QED BY <1>1, <1>2, <1>3, <1>4, <1>5, <1>6, <1>7, <1>8, <1>9, <1>10, <1>11, <1>12, <1>13,
           <1>14, <1>15, <1>16 DEF Next, TaskStep

\* Types hold, and the haircut stays between 5 and 500 basis points, whatever the pools hold.
THEOREM TypeCorrect == Spec => []QuoteTypeOK
<1>1. Spec => []TypeInv
  BY InitTypeInv, NextTypeInv, PTL DEF Spec
<1> QED BY <1>1, PTL DEF TypeInv

-----------------------------------------------------------------------------
(* The fee of whichever lender is chosen is covered.                       *)

Accepted == {"direct", "hopA", "hopB", "depths", "balancer", "morpho", "spark", "build",
             "offered"}

Cleared == gross - sim_gas - DeductedFee >= Required

\* From gate 1 on, the profit clears the floor with the dearest fee deducted.
Judged == step \in Accepted => Cleared

FeeInv == TypeInv /\ Judged

LEMMA ClearedFrame ==
  ASSUME loan' = loan, gas' = gas, gross' = gross, sim_gas' = sim_gas, Cleared
  PROVE  Cleared'
  BY DEF Cleared, DeductedFee, FeeUsd, Amount, Required

\* No lender is dearer than the one whose fee was deducted.
LEMMA DearestFee ==
  ASSUME QuoteTypeOK, NEW l \in Lenders
  PROVE  /\ FeeUsd(l) \in Nat /\ DeductedFee \in Nat /\ FeeUsd(l) <= DeductedFee
         /\ FeeOf(l, Amount) \in Nat /\ (l # "Aave" => FeeOf(l, Amount) = 0)
<1>1. Unit(loan.debt) \in Nat \ {0} /\ Price(loan.debt) \in Nat \ {0} /\ Amount \in Nat
  BY LoanType, AmountType
<1>2. FeeOf("Aave", Amount) \in Nat
  <2>1. Amount * 5 \in Nat /\ 10000 \in Nat \ {0}
    BY <1>1
  <2> QED BY <2>1, DivisionNat DEF FeeOf
<1>3. DeductedFee \in Nat
  BY <1>1, <1>2, ProductNat, DivisionNat DEF DeductedFee, FeeUsd
<1>4. CASE l = "Aave"
  BY <1>2, <1>3, <1>4 DEF DeductedFee
<1>5. CASE l # "Aave"
  <2>1. FeeOf(l, Amount) = 0
    BY <1>5 DEF FeeOf
  <2>2. 0 * Price(loan.debt) = 0 /\ 0 \div Unit(loan.debt) = 0
    BY <1>1
  <2>3. FeeUsd(l) = 0
    BY <2>1, <2>2 DEF FeeUsd
  <2> QED BY <1>3, <2>1, <2>3
<1> QED BY <1>4, <1>5

LEMMA NextJudged == FeeInv /\ [Next]_vars => FeeInv'
<1> SUFFICES ASSUME FeeInv, [Next]_vars PROVE Judged'
  BY NextTypeInv DEF FeeInv
<1> USE DEF FeeInv
<1> DEFINE kept == loan' = loan /\ gas' = gas /\ gross' = gross /\ sim_gas' = sim_gas
<1>1. ASSUME kept, step' \in Accepted => step \in Accepted PROVE Judged'
  BY <1>1, ClearedFrame DEF Judged
<1>2. CASE SwapOrMint \/ LenderMoves \/ UNCHANGED vars
  BY <1>1, <1>2 DEF SwapOrMint, LenderMoves, vars, task
<1>3. CASE Take \/ NextPosition \/ \E ok \in BOOLEAN : EstimateSlippage(ok)
  <2>1. step' \notin Accepted
    BY <1>3 DEF Take, NextPosition, EstimateSlippage, Goto, TryNext, Accepted
  <2> QED BY <2>1 DEF Judged
<1>4. ASSUME NEW g \in GasCosts, Simulate(g) PROVE Judged'
  <2> DEFINE before == Gross(loan.usd, haircut)
  <2>1. CASE before > 0 /\ NetOf(before, g) > 0 /\ NetOf(before, g) >= Required
    <3>1. gross' = before /\ sim_gas' = g /\ loan' = loan /\ gas' = gas
      BY <1>4 DEF Simulate
    <3>2. DeductedFee' = DeductedFee /\ Required' = Required
      BY <3>1 DEF DeductedFee, FeeUsd, Amount, Required
    <3>3. before - g - DeductedFee >= Required
      BY <2>1 DEF NetOf
    <3> HIDE DEF before
    <3> QED BY <3>1, <3>2, <3>3 DEF Judged, Cleared
  <2>2. CASE ~(before > 0 /\ NetOf(before, g) > 0 /\ NetOf(before, g) >= Required)
    <3>1. step' = "discarded"
      BY <1>4, <2>2 DEF Simulate, Goto
    <3> QED BY <3>1 DEF Judged, Accepted
  <2> QED BY <2>1, <2>2
<1>5. ASSUME NEW ok \in BOOLEAN, DirectHop(ok) \/ FirstHop(ok) \/ SecondHop(ok)
      PROVE  Judged'
  <2>1. kept /\ step \in Accepted
    BY <1>5 DEF DirectHop, FirstHop, SecondHop, Probe, Accepted
  <2> QED BY <1>1, <2>1
<1>6. ASSUME NEW failing, QueryDepths(failing) PROVE Judged'
  BY <1>1, <1>6 DEF QueryDepths, See, Accepted
<1>7. CASE MulticallFails
  BY <1>1, <1>7 DEF MulticallFails, Accepted
<1>8. ASSUME NEW ok, QueryBalancer(ok) \/ QueryMorpho(ok) \/ QuerySpark(ok) PROVE Judged'
  BY <1>1, <1>8 DEF QueryBalancer, QueryMorpho, QuerySpark, Ask, See, Accepted
<1>9. ASSUME NEW l \in Lenders, Build(l) PROVE Judged'
  BY <1>1, <1>9 DEF Build, Accepted
<1> QED BY <1>2, <1>3, <1>4, <1>5, <1>6, <1>7, <1>8, <1>9 DEF Next, TaskStep

\* Whichever lender is chosen after the profit was judged, its fee is covered.
THEOREM FeeIsCovered == Spec => []FeeCovered
<1>1. Init => FeeInv
  <2>1. Init => step = "idle"
    BY DEF Init
  <2> QED BY <2>1, InitTypeInv DEF FeeInv, Judged, Accepted
<1>2. FeeInv => FeeCovered
  <2> SUFFICES ASSUME FeeInv, step = "offered"
               PROVE  gross - sim_gas - FeeUsd(offer.lender) >= Required
    BY DEF FeeCovered
  <2>1. Cleared
    BY DEF FeeInv, Judged, Accepted
  <2>2. offer.lender \in Lenders /\ gross \in Int /\ sim_gas \in Nat /\ gas \in Nat
    BY DEF FeeInv, TypeInv, QuoteTypeOK
  <2>3. FeeUsd(offer.lender) \in Nat /\ DeductedFee \in Nat
        /\ FeeUsd(offer.lender) <= DeductedFee
    BY <2>2, DearestFee DEF FeeInv, TypeInv
  <2>4. Required \in Nat
    BY <2>2, RequiredType
  <2> QED BY <2>1, <2>2, <2>3, <2>4 DEF Cleared
<1> QED BY <1>1, <1>2, NextJudged, PTL DEF Spec

-----------------------------------------------------------------------------
(* The lender is the first in the order that was seen to hold enough.      *)

\* Without disturbance a balance that has been asked for is what the lender holds.
SeenTrue ==
  ~disturbed =>
    /\ step \in {"morpho", "spark", "build", "offered"} => depth["Balancer"] = lent["Balancer"]
    /\ step \in {"spark", "build", "offered"} => depth["Morpho"] = lent["Morpho"]
    /\ step \in {"build", "offered"} => depth["SparkDss"] = lent["SparkDss"]

\* The offer stays the one select_provider made.
OfferChosen == step = "offered" => Chosen(offer.lender)

LenderInv == TypeInv /\ SeenTrue /\ OfferChosen

LEMMA ChosenFrame ==
  ASSUME loan' = loan, depth' = depth, NEW l, Chosen(l)
  PROVE  Chosen(l)'
  BY DEF Chosen, Eligible, Before, Amount

LEMMA FreeLenders == Free = {"Morpho", "Balancer", "SparkDss"}
  BY DEF Free, Lenders

\* One answer, and what was known before it.
LEMMA SeeFrame ==
  ASSUME QuoteTypeOK, NEW lenders \in SUBSET Free, NEW failing, See(lenders, failing),
         ~disturbed'
  PROVE  /\ ~disturbed /\ lent' = lent
         /\ \A l \in lenders : depth'[l] = lent'[l]
         /\ \A l \in Free \ lenders : depth'[l] = depth[l]
<1>1. failing = {} /\ ~disturbed /\ lent' = lent
  BY DEF See, chain
<1>2. depth' = [l \in Free |-> IF l \in lenders THEN IF l \in failing THEN 0 ELSE lent[l]
                               ELSE depth[l]]
  BY DEF See
<1> QED BY <1>1, <1>2

LEMMA NextLenderInv == LenderInv /\ [Next]_vars => LenderInv'
<1> SUFFICES ASSUME LenderInv, [Next]_vars PROVE SeenTrue' /\ OfferChosen'
  BY NextTypeInv DEF LenderInv
<1> USE DEF LenderInv
<1> DEFINE asking == {"morpho", "spark", "build", "offered"}
<1>1. ASSUME step' \notin asking PROVE SeenTrue' /\ OfferChosen'
  BY <1>1 DEF SeenTrue, OfferChosen
<1>2. CASE SwapOrMint \/ LenderMoves
  <2>1. disturbed' /\ step' = step /\ loan' = loan /\ depth' = depth /\ offer' = offer
    BY <1>2 DEF SwapOrMint, LenderMoves, task
  <2> QED BY <2>1, ChosenFrame DEF SeenTrue, OfferChosen
<1>3. CASE Take \/ NextPosition \/ \E ok \in BOOLEAN : EstimateSlippage(ok)
  BY <1>1, <1>3 DEF Take, NextPosition, EstimateSlippage, Goto, TryNext
<1>4. CASE \E g \in GasCosts : Simulate(g)
  BY <1>1, <1>4 DEF Simulate, Goto
<1>5. ASSUME NEW ok \in BOOLEAN, DirectHop(ok) \/ FirstHop(ok) \/ SecondHop(ok)
      PROVE  SeenTrue' /\ OfferChosen'
  BY <1>1, <1>5 DEF DirectHop, FirstHop, SecondHop, Probe, Goto, TryNext
<1>6. ASSUME NEW failing \in SUBSET {"Balancer", "Morpho"}, QueryDepths(failing)
      PROVE  SeenTrue' /\ OfferChosen'
  <2>1. step' = "spark" /\ See({"Balancer", "Morpho"}, failing)
    BY <1>6 DEF QueryDepths
  <2>2. ~disturbed' => depth'["Balancer"] = lent'["Balancer"]
                       /\ depth'["Morpho"] = lent'["Morpho"]
    BY <2>1, SeeFrame, FreeLenders DEF TypeInv
  <2> QED BY <2>1, <2>2 DEF SeenTrue, OfferChosen
<1>7. CASE MulticallFails
  BY <1>1, <1>7 DEF MulticallFails
<1>8. ASSUME NEW ok \in BOOLEAN, QueryBalancer(ok) PROVE SeenTrue' /\ OfferChosen'
  <2> DEFINE failing == IF ok THEN {} ELSE {"Balancer"}
  <2>1. step' = "morpho" /\ See({"Balancer"}, failing)
    BY <1>8 DEF QueryBalancer, Ask
  <2> HIDE DEF failing
  <2>2. ~disturbed' => depth'["Balancer"] = lent'["Balancer"]
    BY <2>1, SeeFrame, FreeLenders DEF TypeInv
  <2> QED BY <2>1, <2>2 DEF SeenTrue, OfferChosen
<1>9. ASSUME NEW ok \in BOOLEAN, QueryMorpho(ok) PROVE SeenTrue' /\ OfferChosen'
  <2> DEFINE failing == IF ok THEN {} ELSE {"Morpho"}
  <2>1. step = "morpho" /\ step' = "spark" /\ See({"Morpho"}, failing)
    BY <1>9 DEF QueryMorpho, Ask
  <2> HIDE DEF failing
  <2>2. ~disturbed' => /\ depth'["Morpho"] = lent'["Morpho"] /\ ~disturbed /\ lent' = lent
                       /\ depth'["Balancer"] = depth["Balancer"]
    BY <2>1, SeeFrame, FreeLenders DEF TypeInv
  <2> QED BY <2>1, <2>2 DEF SeenTrue, OfferChosen
<1>10. ASSUME NEW ok \in BOOLEAN, QuerySpark(ok) PROVE SeenTrue' /\ OfferChosen'
  <2> DEFINE failing == IF ok THEN {} ELSE {"SparkDss"}
  <2>1. step = "spark" /\ step' = "build" /\ See({"SparkDss"}, failing)
    BY <1>10 DEF QuerySpark, Ask
  <2> HIDE DEF failing
  <2>2. ~disturbed' => /\ depth'["SparkDss"] = lent'["SparkDss"] /\ ~disturbed
                       /\ lent' = lent /\ depth'["Balancer"] = depth["Balancer"]
                       /\ depth'["Morpho"] = depth["Morpho"]
    BY <2>1, SeeFrame, FreeLenders DEF TypeInv
  <2> QED BY <2>1, <2>2 DEF SeenTrue, OfferChosen
<1>11. ASSUME NEW l \in Lenders, Build(l) PROVE SeenTrue' /\ OfferChosen'
  <2>1. /\ step = "build" /\ step' = "offered" /\ Chosen(l) /\ offer'.lender = l
        /\ loan' = loan /\ depth' = depth /\ lent' = lent /\ disturbed' = disturbed
    BY <1>11 DEF Build, chain
  <2> QED BY <2>1, ChosenFrame DEF SeenTrue, OfferChosen
<1>12. CASE UNCHANGED vars
  <2>1. /\ step' = step /\ loan' = loan /\ depth' = depth /\ lent' = lent /\ offer' = offer
        /\ disturbed' = disturbed
    BY <1>12 DEF vars, chain, task
  <2> QED BY <2>1, ChosenFrame DEF SeenTrue, OfferChosen
<1> QED BY <1>2, <1>3, <1>4, <1>5, <1>6, <1>7, <1>8, <1>9, <1>10, <1>11, <1>12
        DEF Next, TaskStep

LEMMA LenderInvariant == Spec => []LenderInv
<1>1. Init => LenderInv
  <2>1. Init => step = "idle"
    BY DEF Init
  <2> QED BY <2>1, InitTypeInv DEF LenderInv, SeenTrue, OfferChosen
<1> QED BY <1>1, NextLenderInv, PTL DEF Spec

\* A lender is only passed over in favour of a later one if it was seen not to hold enough,
\* and without disturbance what was seen is what it holds.
THEOREM LenderIsCheapest == Spec => []CheapestLender
<1>1. LenderInv => CheapestLender
  <2> SUFFICES ASSUME LenderInv, step = "offered"
               PROVE  /\ \A l \in Free :
                           (l = "Morpho" \/ (l = "Balancer" /\ offer.lender # "Morpho")
                              \/ (l = "SparkDss" /\ offer.lender = "Aave"))
                           /\ l # offer.lender
                           => (depth[l] * Margin(l)) \div 100 < Amount
                      /\ ~disturbed => depth = lent
    BY DEF CheapestLender
  <2>1. Chosen(offer.lender) /\ offer.lender \in Lenders /\ QuoteTypeOK
    BY DEF LenderInv, OfferChosen, TypeInv, QuoteTypeOK
  <2>2. ASSUME NEW l \in Free, l # offer.lender,
               l = "Morpho" \/ (l = "Balancer" /\ offer.lender # "Morpho")
                  \/ (l = "SparkDss" /\ offer.lender = "Aave")
        PROVE  (depth[l] * Margin(l)) \div 100 < Amount
    <3>1. l \in Lenders /\ l # "Aave"
      BY DEF Free
    <3>2. FeeOf(offer.lender, Amount) \in Nat /\ FeeOf(l, Amount) = 0
      BY <2>1, <3>1, DearestFee
    <3>3. ~(Rank(offer.lender) <= Rank(l))
      BY <2>1, <2>2 DEF Rank, Lenders
    <3>4. ~Before(offer.lender, l)
      BY <3>2, <3>3 DEF Before
    <3>5. ~Eligible(l)
      BY <2>1, <3>1, <3>4 DEF Chosen
    <3>6. depth[l] \in Nat /\ Amount \in Nat
      BY <2>1, LoanType DEF QuoteTypeOK
    <3>7. (depth[l] * Margin(l)) \div 100 \in Nat
      <4>1. Margin(l) \in Nat
        BY DEF Margin
      <4> QED BY <3>6, <4>1, ProductNat, DivisionNat
    <3> QED BY <3>1, <3>5, <3>6, <3>7 DEF Eligible
  <2>3. ASSUME ~disturbed PROVE depth = lent
    <3>1. \A l \in Free : depth[l] = lent[l]
      BY <2>3, FreeLenders DEF LenderInv, SeenTrue
    <3>2. depth \in [Free -> Nat] /\ lent \in [Free -> Depths]
      BY <2>1 DEF QuoteTypeOK
    <3> QED BY <3>1, <3>2
  <2> QED BY <2>2, <2>3
<1> QED BY <1>1, LenderInvariant, PTL

\* Multiples of a hundredth: what the margin leaves of a balance still covers the loan.
LEMMA MarginLeaves ==
  ASSUME NEW seen \in Nat, NEW now \in Nat, NEW kept \in {60, 95, 100}, NEW amount \in Nat,
         (seen * kept) \div 100 >= amount, now * 100 >= seen * kept
  PROVE  now >= amount
<1>1. CASE kept = 60
  BY <1>1
<1>2. CASE kept = 95
  BY <1>2
<1>3. CASE kept = 100
  BY <1>3
<1> QED BY <1>1, <1>2, <1>3

\* A chosen lender that lost no more than its margin since it was asked can still lend.
THEOREM MarginsAbsorb == Spec => []MarginAbsorbs
<1>1. LenderInv => MarginAbsorbs
  <2> DEFINE l == offer.lender
  <2> SUFFICES ASSUME LenderInv, step = "offered", l # "Aave",
                      lent[l] * 100 >= depth[l] * Margin(l)
               PROVE  lent[l] >= Amount
    BY DEF MarginAbsorbs, Margin
  <2>1. QuoteTypeOK /\ Eligible(l) /\ l \in Free
    BY DEF LenderInv, OfferChosen, Chosen, TypeInv, QuoteTypeOK, Free
  <2>2. depth[l] \in Nat /\ lent[l] \in Nat /\ Amount \in Nat /\ Margin(l) \in {60, 95, 100}
    <3>1. depth[l] \in Nat /\ lent[l] \in Depths
      BY <2>1 DEF QuoteTypeOK
    <3>2. lent[l] \in Nat
      BY <3>1, QuoteAssumption, Zenon DEF QuoteAssumption
    <3>3. Margin(l) \in {60, 95, 100}
      BY DEF Margin
    <3> QED BY <2>1, <3>1, <3>2, <3>3, LoanType
  <2>3. (depth[l] * Margin(l)) \div 100 >= Amount
    BY <2>1 DEF Eligible
  <2> QED BY <2>2, <2>3, MarginLeaves
<1> QED BY <1>1, LenderInvariant, PTL

-----------------------------------------------------------------------------
(* The route.                                                              *)

\* A failing selector never finds a hop.
LEMMA NextUnreadable ==
  TypeInv /\ UnreadableNeverOffers /\ [Next]_vars => UnreadableNeverOffers'
<1> SUFFICES ASSUME UnreadableNeverOffers, [Next]_vars, ~Readable'
             PROVE  /\ route' = <<>>
                    /\ step' \notin {"hopB", "depths", "balancer", "morpho", "spark",
                                     "build", "offered"}
  BY DEF Readable, UnreadableNeverOffers
<1>1. selector' = selector
  BY DEF Next, TaskStep, SwapOrMint, LenderMoves, Take, EstimateSlippage, Simulate, DirectHop,
         FirstHop, SecondHop, Probe, QueryDepths, MulticallFails, QueryBalancer, QueryMorpho,
         QuerySpark, Ask, See, Build, NextPosition, vars, chain
<1>2. ~Readable /\ route = <<>> /\ step \notin {"hopB", "depths", "balancer", "morpho",
                                                "spark", "build", "offered"}
  BY <1>1 DEF Readable, UnreadableNeverOffers
<1>3. CASE SwapOrMint \/ LenderMoves \/ UNCHANGED vars
  BY <1>2, <1>3 DEF SwapOrMint, LenderMoves, vars, task
<1>4. CASE Take \/ NextPosition
  BY <1>4 DEF Take, NextPosition
<1>5. CASE \E ok \in BOOLEAN : EstimateSlippage(ok)
  BY <1>2, <1>5 DEF EstimateSlippage, TryNext, Goto
<1>6. CASE \E g \in GasCosts : Simulate(g)
  BY <1>2, <1>6 DEF Simulate, Goto
<1>7. CASE \E ok \in BOOLEAN : DirectHop(ok) \/ FirstHop(ok) \/ SecondHop(ok)
  BY <1>2, <1>7 DEF DirectHop, FirstHop, SecondHop, Probe, TryNext, Goto
<1>8. CASE \/ \E failing \in SUBSET {"Balancer", "Morpho"} : QueryDepths(failing)
           \/ \E ok \in BOOLEAN : QueryBalancer(ok) \/ QueryMorpho(ok) \/ QuerySpark(ok)
           \/ MulticallFails
           \/ \E l \in Lenders : Build(l)
  BY <1>2, <1>8 DEF QueryDepths, QueryBalancer, QueryMorpho, QuerySpark, MulticallFails, Build
<1> QED BY <1>3, <1>4, <1>5, <1>6, <1>7, <1>8 DEF Next, TaskStep

\* With the selector of this commit no position is ever offered, whatever the pools hold.
THEOREM UnreadablePools == Spec => []UnreadableNeverOffers
<1>1. Init => UnreadableNeverOffers
  BY DEF Init, UnreadableNeverOffers
<1> QED BY <1>1, InitTypeInv, NextTypeInv, NextUnreadable, PTL DEF Spec

\* A pool that best_fee_tier accepts.
Live(a, b, fee) == Readable /\ Reserve(a, b, fee) > Dust

\* The tiers that were looked at in vain, and all of them.
DryBelow(a, b, n) == \A i \in DOMAIN Fees : i < n => ~Live(a, b, Fees[i])
Dry(a, b)         == \A i \in DOMAIN Fees : ~Live(a, b, Fees[i])

\* A hop that joins two tokens, and held more than dust if nothing was disturbed.
HopOf(h, a, b) ==
  /\ h \in Hop /\ h.from = a /\ h.to = b /\ a # b
  /\ ~disturbed => Live(a, b, h.fee)

Direct == Len(route) = 1 /\ HopOf(route[1], loan.coll, loan.debt)
Detour ==
  /\ Len(route) = 2
  /\ HopOf(route[1], loan.coll, "WETH") /\ HopOf(route[2], "WETH", loan.debt)
  /\ ~disturbed => Dry(loan.coll, loan.debt)

\* What each step of the search has established.
Searched ==
  /\ step = "direct" /\ ~disturbed => DryBelow(loan.coll, loan.debt, tier)
  /\ step \in {"hopA", "hopB", "failed"} /\ ~disturbed => Dry(loan.coll, loan.debt)
  /\ step = "hopA" /\ ~disturbed => DryBelow(loan.coll, "WETH", tier)
  /\ step = "hopB" => HopOf(route[1], loan.coll, "WETH")
  /\ step = "hopB" /\ ~disturbed => DryBelow("WETH", loan.debt, tier)
  /\ step = "failed" /\ ~disturbed => Dry(loan.coll, "WETH") \/ Dry("WETH", loan.debt)

After == {"depths", "balancer", "morpho", "spark", "build", "offered"}

Found == step \in After => Direct \/ Detour

RouteInv == TypeInv /\ Searched /\ Found

\* A pool joins two different tokens.
LEMMA ReserveOfPair ==
  ASSUME QuoteTypeOK, NEW a, NEW b, NEW fee, Live(a, b, fee)
  PROVE  a # b
<1>1. <<{a, b}, fee>> \in DOMAIN pools
  BY QuoteAssumption DEF Live, Reserve, QuoteAssumption
<1>2. {a, b} \in Pairs
  BY <1>1 DEF QuoteTypeOK, Places
<1>3. Cardinality({a, b}) = 2
  BY <1>2 DEF Pairs
<1>4. ASSUME a = b PROVE FALSE
  <2>1. Cardinality({a}) = 1
    BY FS_Singleton
  <2> QED BY <1>3, <1>4, <2>1
<1> QED BY <1>4

\* What one look at a tier adds to what is known.
LEMMA ProbeFinds ==
  ASSUME QuoteTypeOK, NEW a \in Tokens, NEW b \in Tokens, NEW ok \in BOOLEAN,
         NEW found \in Steps, NEW otherwise \in Steps,
         Probe(a, b, ok, found, otherwise), ~disturbed => DryBelow(a, b, tier)
  PROVE  LET h == [from |-> a, to |-> b, fee |-> Fees[tier]] IN
         \/ step' = found /\ route' = Append(route, h) /\ HopOf(h, a, b)
         \/ step' = step /\ route' = route /\ (~disturbed' => DryBelow(a, b, tier'))
         \/ step' = otherwise /\ route' = route /\ (~disturbed' => Dry(a, b))
<1>1. tier \in 1..4 /\ DOMAIN Fees = 1..4 /\ Len(Fees) = 4
  BY DEF QuoteTypeOK, Fees
<1>2. CASE ok /\ Live(a, b, Fees[tier])
  <2>1. [from |-> a, to |-> b, fee |-> Fees[tier]] \in Hop
    BY DEF Hop, QuoteTypeOK
  <2>2. a # b
    BY <1>2, ReserveOfPair
  <2> QED BY <1>2, <2>1, <2>2 DEF Probe, Goto, Live, HopOf
<1>3. CASE ~(ok /\ Live(a, b, Fees[tier]))
  <2>1. /\ TryNext(Len(Fees), otherwise) /\ route' = route
        /\ disturbed' = (disturbed \/ ~ok)
    BY <1>3 DEF Probe, Live
  <2>2. ASSUME ~disturbed' PROVE DryBelow(a, b, tier + 1)
    <3>1. ~disturbed /\ ok
      BY <2>1, <2>2
    <3> QED BY <1>1, <1>3, <3>1 DEF DryBelow
  <2>3. CASE tier < 4
    BY <1>1, <2>1, <2>2, <2>3 DEF TryNext
  <2>4. CASE ~(tier < 4)
    <3>1. step' = otherwise
      BY <1>1, <2>1, <2>4 DEF TryNext, Goto
    <3>2. tier = 4
      BY <1>1, <2>4
    <3>3. ~disturbed' => Dry(a, b)
      BY <1>1, <2>2, <3>2 DEF DryBelow, Dry
    <3> QED BY <2>1, <3>1, <3>3
  <2> QED BY <2>3, <2>4
<1> QED BY <1>2, <1>3

\* While the pools, the loan and the route stay, what was established stays; a disturbance
\* only withdraws it.
LEMMA LiveFrame ==
  ASSUME pools' = pools, selector' = selector, NEW a, NEW b, NEW fee
  PROVE  Live(a, b, fee)' <=> Live(a, b, fee)
  BY DEF Live, Readable, Reserve

LEMMA HopFrame ==
  ASSUME pools' = pools, selector' = selector, disturbed => disturbed', NEW h, NEW a, NEW b, HopOf(h, a, b)
  PROVE  HopOf(h, a, b)'
  BY LiveFrame DEF HopOf

LEMMA DryFrame ==
  ASSUME pools' = pools, selector' = selector, NEW a, NEW b, NEW n
  PROVE  (Dry(a, b)' <=> Dry(a, b)) /\ (DryBelow(a, b, n)' <=> DryBelow(a, b, n))
  BY LiveFrame DEF Dry, DryBelow

LEMMA FoundFrame ==
  ASSUME /\ \/ pools' = pools /\ selector' = selector /\ (disturbed => disturbed')
            \/ disturbed' = TRUE,
         loan' = loan, route' = route, Direct \/ Detour
  PROVE  (Direct \/ Detour)'
<1>1. CASE disturbed' = TRUE
  BY <1>1 DEF Direct, Detour, HopOf
<1>2. CASE pools' = pools /\ selector' = selector /\ (disturbed => disturbed')
  BY <1>2, HopFrame, DryFrame DEF Direct, Detour
<1> QED BY <1>1, <1>2

LEMMA SearchedFrame ==
  ASSUME /\ \/ pools' = pools /\ selector' = selector /\ (disturbed => disturbed')
            \/ disturbed' = TRUE,
         loan' = loan, route' = route, step' = step, tier' = tier, Searched
  PROVE  Searched'
<1>1. CASE disturbed' = TRUE
  BY <1>1 DEF Searched, HopOf
<1>2. CASE pools' = pools /\ selector' = selector /\ (disturbed => disturbed')
  BY <1>2, HopFrame, DryFrame DEF Searched
<1> QED BY <1>1, <1>2

\* The hop that was just found is still one after the step that found it.
LEMMA ProbeHop ==
  ASSUME NEW a, NEW b, NEW ok, NEW found, NEW otherwise, Probe(a, b, ok, found, otherwise),
         NEW x, NEW y, NEW h, HopOf(h, x, y)
  PROVE  /\ h \in Hop /\ h.from = x /\ h.to = y /\ x # y
         /\ ~disturbed' => Live(x, y, h.fee)'
  BY LiveFrame DEF HopOf, Probe, chain

\* The second hop is appended to the first.
LEMMA AppendHop ==
  ASSUME NEW r \in Seq(Hop), NEW h \in Hop, Len(r) = 1
  PROVE  /\ Len(Append(r, h)) = 2
         /\ Append(r, h)[1] = r[1] /\ Append(r, h)[2] = h
<1> DEFINE q == Append(r, h)
<1>1. /\ Len(q) = Len(r) + 1
      /\ \A i \in 1..Len(r) : q[i] = r[i]
      /\ q[Len(r) + 1] = h
  <2>1. \A s \in Seq(Hop), e \in Hop :
          /\ Len(Append(s, e)) = Len(s) + 1
          /\ \A i \in 1..Len(s) : Append(s, e)[i] = s[i]
          /\ Append(s, e)[Len(s) + 1] = e
    BY AppendProperties
  <2> QED BY <2>1
<1> HIDE DEF q
<1>2. Len(q) = 2 /\ q[1] = r[1] /\ q[2] = h
  BY <1>1
<1> QED BY <1>2 DEF q

LEMMA NextRouteInv == RouteInv /\ [Next]_vars => RouteInv'
<1> SUFFICES ASSUME RouteInv, [Next]_vars PROVE Searched' /\ Found'
  BY NextTypeInv DEF RouteInv
<1> USE DEF RouteInv, TypeInv
<1> DEFINE calm == pools' = pools /\ selector' = selector /\ (disturbed => disturbed')
<1> DEFINE searching == {"direct", "hopA", "hopB", "failed"}
<1>1. ASSUME step' \notin searching, step' \notin After PROVE Searched' /\ Found'
  BY <1>1 DEF Searched, Found
<1>2. CASE SwapOrMint \/ LenderMoves \/ UNCHANGED vars
  <2>1. /\ calm \/ disturbed' = TRUE
        /\ loan' = loan /\ route' = route /\ step' = step /\ tier' = tier
    BY <1>2 DEF SwapOrMint, LenderMoves, vars, task, chain
  <2> QED BY <2>1, FoundFrame, SearchedFrame DEF Found
<1>3. CASE Take \/ NextPosition \/ \E ok \in BOOLEAN : EstimateSlippage(ok)
  BY <1>1, <1>3 DEF Take, NextPosition, EstimateSlippage, Goto, TryNext, After
<1>4. CASE \E g \in GasCosts : Simulate(g)
  <2>1. step' \in {"direct", "discarded"} /\ tier' = 1
    BY <1>4 DEF Simulate, Goto
  <2>2. tier' = 1 => \A i \in DOMAIN Fees : ~(i < tier')
    BY DEF Fees
  <2> QED BY <2>1, <2>2 DEF Searched, Found, DryBelow, After
<1>5. ASSUME NEW ok \in BOOLEAN, DirectHop(ok) PROVE Searched' /\ Found'
  <2> DEFINE h == [from |-> loan.coll, to |-> loan.debt, fee |-> Fees[tier]]
  <2>1. /\ Probe(loan.coll, loan.debt, ok, "depths", "hopA") /\ step = "direct"
        /\ route = <<>> /\ calm /\ loan' = loan
    <3>1. route \in Seq(Hop) /\ Len(route) = 0
      BY <1>5 DEF DirectHop, ShortRoute, QuoteTypeOK
    <3>2. route = <<>>
      BY <3>1, EmptySeq
    <3> QED BY <1>5, <3>2 DEF DirectHop, Probe, chain
  <2>2. \/ step' = "depths" /\ route' = Append(route, h)
           /\ HopOf(h, loan.coll, loan.debt)
        \/ /\ step' = "direct" /\ route' = route
           /\ ~disturbed' => DryBelow(loan.coll, loan.debt, tier')
        \/ /\ step' = "hopA" /\ route' = route
           /\ ~disturbed' => Dry(loan.coll, loan.debt)
    BY <2>1, ProbeFinds, LoanType DEF Searched, Steps
  <2>3. CASE step' = "depths"
    <3>1. route' = <<h>> /\ HopOf(h, loan.coll, loan.debt)
      BY <2>1, <2>2, <2>3
    <3>2. HopOf(route[1], loan.coll, loan.debt)'
      BY <2>1, <3>1, ProbeHop DEF HopOf
    <3>3. Len(route') = 1
      BY <3>1
    <3> QED BY <2>3, <3>2, <3>3 DEF Searched, Found, Direct
  <2>4. CASE step' = "direct"
    BY <2>1, <2>2, <2>4, DryFrame DEF Searched, Found, After
  <2>5. CASE step' = "hopA"
    <3>1. tier' = 1
      BY <2>1, <2>5 DEF Probe, Goto, TryNext
    <3>2. DryBelow(loan.coll, "WETH", 1)'
      BY DEF DryBelow, Fees
    <3> QED BY <2>1, <2>2, <2>5, <3>1, <3>2, DryFrame DEF Searched, Found, After
  <2> QED BY <2>2, <2>3, <2>4, <2>5
<1>6. ASSUME NEW ok \in BOOLEAN, FirstHop(ok) PROVE Searched' /\ Found'
  <2> DEFINE h == [from |-> loan.coll, to |-> "WETH", fee |-> Fees[tier]]
  <2>1. /\ Probe(loan.coll, "WETH", ok, "hopB", "failed") /\ step = "hopA"
        /\ route = <<>> /\ calm /\ loan' = loan
    <3>1. route \in Seq(Hop) /\ Len(route) = 0
      BY <1>6 DEF FirstHop, ShortRoute, QuoteTypeOK
    <3>2. route = <<>>
      BY <3>1, EmptySeq
    <3> QED BY <1>6, <3>2 DEF FirstHop, Probe, chain
  <2>2. \/ step' = "hopB" /\ route' = Append(route, h) /\ HopOf(h, loan.coll, "WETH")
        \/ /\ step' = "hopA" /\ route' = route
           /\ ~disturbed' => DryBelow(loan.coll, "WETH", tier')
        \/ /\ step' = "failed" /\ route' = route
           /\ ~disturbed' => Dry(loan.coll, "WETH")
    <3>1. "WETH" \in Tokens /\ {"hopB", "failed"} \subseteq Steps
      BY DEF Tokens, Steps
    <3>2. ~disturbed => DryBelow(loan.coll, "WETH", tier)
      BY <2>1 DEF Searched
    <3> QED BY <2>1, <3>1, <3>2, ProbeFinds, LoanType
  <2>3. ~disturbed' => Dry(loan.coll, loan.debt)'
    BY <2>1, DryFrame DEF Searched
  <2>4. CASE step' = "hopB"
    <3>1. route' = <<h>> /\ HopOf(h, loan.coll, "WETH")
      BY <2>1, <2>2, <2>4
    <3>2. HopOf(route[1], loan.coll, "WETH")'
      BY <2>1, <3>1, ProbeHop DEF HopOf
    <3>3. tier' = 1
      BY <2>1, <2>4 DEF Probe, Goto, TryNext
    <3>4. DryBelow("WETH", loan.debt, 1)'
      BY DEF DryBelow, Fees
    <3> QED BY <2>3, <2>4, <3>2, <3>3, <3>4 DEF Searched, Found, After
  <2>5. CASE step' = "hopA"
    BY <2>1, <2>2, <2>3, <2>5, DryFrame DEF Searched, Found, After
  <2>6. CASE step' = "failed"
    BY <2>1, <2>2, <2>3, <2>6, DryFrame DEF Searched, Found, After
  <2> QED BY <2>2, <2>4, <2>5, <2>6
<1>7. ASSUME NEW ok \in BOOLEAN, SecondHop(ok) PROVE Searched' /\ Found'
  <2> DEFINE h == [from |-> "WETH", to |-> loan.debt, fee |-> Fees[tier]]
  <2>1. /\ Probe("WETH", loan.debt, ok, "depths", "failed") /\ step = "hopB"
        /\ Len(route) = 1 /\ route \in Seq(Hop) /\ calm /\ loan' = loan
    BY <1>7 DEF SecondHop, Probe, ShortRoute, chain, QuoteTypeOK
  <2>2. \/ step' = "depths" /\ route' = Append(route, h) /\ HopOf(h, "WETH", loan.debt)
        \/ /\ step' = "hopB" /\ route' = route
           /\ ~disturbed' => DryBelow("WETH", loan.debt, tier')
        \/ /\ step' = "failed" /\ route' = route
           /\ ~disturbed' => Dry("WETH", loan.debt)
    <3>1. "WETH" \in Tokens /\ {"depths", "failed", "hopB"} \subseteq Steps
      BY DEF Tokens, Steps
    <3>2. ~disturbed => DryBelow("WETH", loan.debt, tier)
      BY <2>1 DEF Searched
    <3> QED BY <2>1, <3>1, <3>2, ProbeFinds, LoanType
  <2>3. ~disturbed' => Dry(loan.coll, loan.debt)'
    BY <2>1, DryFrame DEF Searched
  <2>4. HopOf(route[1], loan.coll, "WETH")
    BY <2>1 DEF Searched
  <2>5. CASE step' = "depths"
    <3>1. Len(route') = 2 /\ route'[1] = route[1] /\ route'[2] = h
      <4>1. h \in Hop /\ route' = Append(route, h)
        BY <2>2, <2>5 DEF HopOf
      <4> HIDE DEF h
      <4> QED BY <2>1, <4>1, AppendHop
    <3>2. HopOf(route[1], loan.coll, "WETH")'
      BY <2>1, <2>4, <3>1, ProbeHop DEF HopOf
    <3>3. HopOf(route[2], "WETH", loan.debt)'
      <4>1. HopOf(h, "WETH", loan.debt)
        BY <2>2, <2>5
      <4> QED BY <2>1, <3>1, <4>1, ProbeHop DEF HopOf
    <3> QED BY <2>3, <2>5, <3>1, <3>2, <3>3 DEF Searched, Found, Detour
  <2>6. CASE step' = "hopB"
    <3>1. HopOf(route[1], loan.coll, "WETH")'
      BY <2>1, <2>2, <2>4, <2>6, ProbeHop DEF HopOf
    <3> QED BY <2>1, <2>2, <2>3, <2>6, <3>1, DryFrame DEF Searched, Found, After
  <2>7. CASE step' = "failed"
    BY <2>1, <2>2, <2>3, <2>7, DryFrame DEF Searched, Found, After
  <2> QED BY <2>2, <2>5, <2>6, <2>7
<1>8. CASE \/ \E failing \in SUBSET {"Balancer", "Morpho"} : QueryDepths(failing)
           \/ \E ok \in BOOLEAN : QueryBalancer(ok) \/ QueryMorpho(ok) \/ QuerySpark(ok)
           \/ MulticallFails
           \/ \E l \in Lenders : Build(l)
  <2>1. /\ step \in After /\ step' \in After /\ step' \notin searching
    BY <1>8 DEF QueryDepths, QueryBalancer, QueryMorpho, QuerySpark, MulticallFails, Build,
                After
  <2>2. calm /\ loan' = loan /\ route' = route
    <3>1. CASE \E failing \in SUBSET {"Balancer", "Morpho"} : QueryDepths(failing)
      BY <3>1 DEF QueryDepths, See, chain
    <3>2. CASE \E ok \in BOOLEAN : QueryBalancer(ok) \/ QueryMorpho(ok) \/ QuerySpark(ok)
      BY <3>2 DEF QueryBalancer, QueryMorpho, QuerySpark, Ask, See, chain
    <3>3. CASE MulticallFails \/ \E l \in Lenders : Build(l)
      BY <3>3 DEF MulticallFails, Build, chain
    <3> QED BY <1>8, <3>1, <3>2, <3>3
  <2>3. (Direct \/ Detour)'
    BY <2>1, <2>2, FoundFrame DEF Found
  <2> QED BY <2>1, <2>3 DEF Searched, Found
<1> QED BY <1>2, <1>3, <1>4, <1>5, <1>6, <1>7, <1>8 DEF Next, TaskStep

LEMMA RouteInvariant == Spec => []RouteInv
<1>1. Init => RouteInv
  <2>1. Init => step = "idle"
    BY DEF Init
  <2> QED BY <2>1, InitTypeInv DEF RouteInv, Searched, Found, After
<1> QED BY <1>1, NextRouteInv, PTL DEF Spec

\* Whatever moves or fails, the route joins collateral and debt over pools of two different
\* tokens; undisturbed, every hop is live and a detour is made only where nothing is direct.
THEOREM RouteIsSound == Spec => []RouteSound
<1>1. RouteInv => RouteSound
  <2> SUFFICES ASSUME RouteInv, step = "offered", Direct \/ Detour PROVE RouteSound
    BY DEF RouteInv, Found, After, RouteSound
  <2>1. CASE Direct
    BY <2>1 DEF Direct, HopOf, Live, RouteSound
  <2>2. CASE Detour
    <3>1. /\ \A i \in 1..2 : route[i].from # route[i].to
          /\ route[1].from = loan.coll /\ route[1].to = "WETH" /\ route[2].from = "WETH"
          /\ route[2].to = loan.debt
      BY <2>2 DEF Detour, HopOf
    <3>2. ASSUME ~disturbed
          PROVE  /\ \A i \in 1..2 : Reserve(route[i].from, route[i].to, route[i].fee) > Dust
                 /\ \A i \in DOMAIN Fees : Reserve(loan.coll, loan.debt, Fees[i]) <= Dust
      <4>1. /\ Live(route[1].from, route[1].to, route[1].fee)
            /\ Live(route[2].from, route[2].to, route[2].fee)
            /\ Dry(loan.coll, loan.debt)
        BY <2>2, <3>2 DEF Detour, HopOf
      <4>2. \A i \in DOMAIN Fees : Reserve(loan.coll, loan.debt, Fees[i]) \in Nat
        BY ReserveType DEF RouteInv, TypeInv
      <4> QED BY <4>1, <4>2, QuoteAssumption DEF Live, Dry, QuoteAssumption
    <3>3. Len(route) = 2
      BY <2>2 DEF Detour
    <3> QED BY <3>1, <3>2, <3>3 DEF RouteSound
  <2> QED BY <2>1, <2>2
<1> QED BY <1>1, RouteInvariant, PTL

\* The search gives up only if there is no route.
THEOREM RouteIsComplete == Spec => []RouteComplete
<1>1. RouteInv => RouteComplete
  BY DEF RouteInv, Searched, RouteComplete, Dry, Live
<1> QED BY <1>1, RouteInvariant, PTL

-----------------------------------------------------------------------------
(* What was judged, and what for.                                          *)

LoanTaken == step # "idle" => loan.debt \in Debts /\ loan.usd \in DebtUsd
GrossIs   == step \in Accepted => gross = Gross(loan.usd, haircut)
OfferIs   == step = "offered" => offer.min = MinProfit(Required)

JudgedInv == FeeInv /\ LoanTaken /\ GrossIs /\ OfferIs

\* Behind gate 1 a task only finds out more.
LEMMA LateSteps ==
  ASSUME \/ \E ok \in BOOLEAN : DirectHop(ok) \/ FirstHop(ok) \/ SecondHop(ok)
         \/ \E failing \in SUBSET {"Balancer", "Morpho"} : QueryDepths(failing)
         \/ \E ok \in BOOLEAN : QueryBalancer(ok) \/ QueryMorpho(ok) \/ QuerySpark(ok)
         \/ MulticallFails
         \/ \E l \in Lenders : Build(l)
  PROVE  /\ UNCHANGED <<chain, loan, gas, haircut, gross>> /\ (disturbed => disturbed')
         /\ step \in Accepted /\ step' \notin {"idle", "slippage", "gate"}
         /\ step' = "offered" => offer'.min = MinProfit(Required)
<1>1. CASE \E ok \in BOOLEAN : DirectHop(ok) \/ FirstHop(ok) \/ SecondHop(ok)
  BY <1>1 DEF DirectHop, FirstHop, SecondHop, Probe, Accepted, Goto, TryNext
<1>2. CASE \E failing \in SUBSET {"Balancer", "Morpho"} : QueryDepths(failing)
  BY <1>2 DEF QueryDepths, See, Accepted
<1>3. CASE \E ok \in BOOLEAN : QueryBalancer(ok) \/ QueryMorpho(ok) \/ QuerySpark(ok)
  BY <1>3 DEF QueryBalancer, QueryMorpho, QuerySpark, Ask, See, Accepted
<1>4. CASE MulticallFails
  BY <1>4 DEF MulticallFails, Accepted
<1>5. CASE \E l \in Lenders : Build(l)
  BY <1>5 DEF Build, Accepted
<1> QED BY <1>1, <1>2, <1>3, <1>4, <1>5

LEMMA NextJudgedInv == JudgedInv /\ [Next]_vars => JudgedInv'
<1> SUFFICES ASSUME JudgedInv, [Next]_vars PROVE LoanTaken' /\ GrossIs' /\ OfferIs'
  BY NextJudged DEF JudgedInv
<1> USE DEF JudgedInv
<1>1. CASE SwapOrMint \/ LenderMoves \/ UNCHANGED vars
  <2>1. UNCHANGED task
    BY <1>1 DEF SwapOrMint, LenderMoves, vars
  <2> QED BY <2>1 DEF task, LoanTaken, GrossIs, OfferIs, Required
<1>2. CASE Take
  BY <1>2 DEF Take, LoanTaken, GrossIs, OfferIs, Accepted
<1>3. CASE \E ok \in BOOLEAN : EstimateSlippage(ok)
  BY <1>3 DEF EstimateSlippage, Goto, TryNext, LoanTaken, GrossIs, OfferIs, Accepted
<1>4. CASE \E g \in GasCosts : Simulate(g)
  <2>1. /\ gross' = Gross(loan.usd, haircut) /\ loan' = loan /\ haircut' = haircut
        /\ step = "gate" /\ step' \in {"direct", "discarded"}
    BY <1>4 DEF Simulate, Goto
  <2> QED BY <2>1 DEF LoanTaken, GrossIs, OfferIs
<1>5. CASE NextPosition
  BY <1>5 DEF NextPosition, LoanTaken, GrossIs, OfferIs, Accepted
<1>6. CASE \/ \E ok \in BOOLEAN : DirectHop(ok) \/ FirstHop(ok) \/ SecondHop(ok)
           \/ \E failing \in SUBSET {"Balancer", "Morpho"} : QueryDepths(failing)
           \/ \E ok \in BOOLEAN : QueryBalancer(ok) \/ QueryMorpho(ok) \/ QuerySpark(ok)
           \/ MulticallFails
           \/ \E l \in Lenders : Build(l)
  <2>1. /\ loan' = loan /\ gas' = gas /\ haircut' = haircut /\ gross' = gross
        /\ step \in Accepted /\ step' \notin {"idle", "slippage", "gate"}
        /\ step' = "offered" => offer'.min = MinProfit(Required)
    BY <1>6, LateSteps
  <2>2. step # "idle"
    BY <2>1 DEF Accepted
  <2> QED BY <2>1, <2>2 DEF LoanTaken, GrossIs, OfferIs, Required
<1> QED BY <1>1, <1>2, <1>3, <1>4, <1>5, <1>6 DEF Next, TaskStep

LEMMA InitJudgedInv == Init => JudgedInv
<1>1. Init => step = "idle"
  BY DEF Init
<1> QED BY <1>1, InitTypeInv DEF JudgedInv, FeeInv, Judged, LoanTaken, GrossIs, OfferIs, Accepted

LEMMA JudgedInvariant == Spec => []JudgedInv
  BY InitJudgedInv, NextJudgedInv, PTL DEF Spec

\* A quotient is below a bound its dividend reaches, and not above one of a larger dividend.
LEMMA Quotient ==
  ASSUME NEW a \in Nat, NEW b \in Nat \ {0}
  PROVE  a \div b \in Nat /\ b * (a \div b) <= a /\ a < b * ((a \div b) + 1)
<1>1. a \div b \in Nat /\ a = b * (a \div b) + (a % b) /\ a % b \in 0..(b - 1)
  OBVIOUS
<1>2. b * ((a \div b) + 1) = b * (a \div b) + b
  BY <1>1
<1>3. b * (a \div b) \in Nat
  BY <1>1
<1> QED BY <1>1, <1>2, <1>3

LEMMA ProductMonotone ==
  ASSUME NEW a \in Nat, NEW b \in Nat, NEW c \in Nat, NEW d \in Nat, a <= c, b <= d
  PROVE  a * b <= c * d
<1>1. a * b <= c * b
  <2>1. (c - a) * b >= 0 /\ (c - a) * b = c * b - a * b
    OBVIOUS
  <2> QED BY <2>1, ProductNat
<1>2. c * b <= c * d
  <2>1. c * (d - b) >= 0 /\ c * (d - b) = c * d - c * b
    OBVIOUS
  <2> QED BY <2>1, ProductNat
<1> QED BY <1>1, <1>2, ProductNat

LEMMA QuotientMonotone ==
  ASSUME NEW a \in Nat, NEW c \in Nat, NEW b \in Nat \ {0}, a <= c
  PROVE  a \div b <= c \div b
<1> DEFINE p == a \div b
           q == c \div b
<1>1. p \in Nat /\ b * p <= a
  BY Quotient
<1>2. q \in Nat /\ c < b * (q + 1)
  BY Quotient
<1> HIDE DEF p, q
<1>3. SUFFICES ASSUME q + 1 <= p PROVE FALSE
  BY <1>1, <1>2 DEF p, q
<1>4. b * (q + 1) <= b * p
  BY <1>1, <1>2, <1>3, ProductMonotone
<1> QED BY <1>1, <1>2, <1>4, ProductNat

\* The least haircut leaves the most.
LEMMA GrossAtMost ==
  ASSUME NEW usd \in Nat, NEW cut \in 5..500
  PROVE  Gross(usd, cut) \in Nat /\ Gross(usd, 5) \in Nat /\ Gross(usd, cut) <= Gross(usd, 5)
<1>1. usd * (500 - cut) <= usd * 495 /\ usd * (500 - cut) \in Nat /\ usd * 495 \in Nat
  BY ProductMonotone, ProductNat
<1>2. /\ usd * (500 - cut) * 9 \in Nat /\ usd * (500 - 5) * 9 \in Nat
      /\ usd * (500 - cut) * 9 <= usd * (500 - 5) * 9
  BY <1>1
<1>3. (usd * (500 - cut) * 9) \div 100000 <= (usd * (500 - 5) * 9) \div 100000
  BY <1>2, QuotientMonotone
<1> QED BY <1>2, <1>3, DivisionNat DEF Gross

\* The minimum in wei, taken for units of the debt asset: for an asset of 18 decimals it is
\* within the profit, for one of 6 decimals it is above anything a loan can earn.
THEOREM MinimumIsEther == Spec => []MinimumInEther
<1>1. JudgedInv => MinimumInEther
  <2> SUFFICES ASSUME JudgedInv, step = "offered"
               PROVE  (offer.min * Price(loan.debt) <= Net * Unit(loan.debt)
                         <=> loan.debt # "USDC")
    BY DEF MinimumInEther
  <2> USE DEF JudgedInv, FeeInv, TypeInv
  <2> DEFINE r == Required
             m == MinProfit(r)
             w == r * EthUnit
  <2>1. /\ loan.debt \in Debts /\ loan.usd \in DebtUsd /\ gross = Gross(loan.usd, haircut)
        /\ offer.min = m /\ Net >= r
    BY DEF LoanTaken, GrossIs, OfferIs, Judged, Cleared, Accepted, Net, NetOf
  <2>2. /\ loan.usd \in Nat /\ haircut \in 5..500 /\ gas \in Nat /\ sim_gas \in Nat
        /\ gross \in Int
    BY LoanType DEF QuoteTypeOK
  <2>3. EthPrice \in Nat \ {0} /\ UsdcUnit \in Nat \ {0} /\ EthUnit \in Nat \ {0} /\ FlatFloor \in Nat
    BY QuoteAssumption DEF QuoteAssumption
  <2>4. r \in Nat /\ r >= FlatFloor
    <3>1. r \in Nat
      BY <2>2, RequiredType
    <3>2. (gas * 115) \div 100 + Opportunity \in Int
      BY <2>2, QuoteAssumption DEF QuoteAssumption
    <3>3. r >= FlatFloor
      BY <2>3, <3>2 DEF Required
    <3> QED BY <3>1, <3>3
  <2>5. DeductedFee \in Nat
    BY DearestFee DEF Lenders
  <2>6. Net \in Nat /\ Net <= gross
    <3>1. Net = gross - sim_gas - DeductedFee
      BY DEF Net, NetOf
    <3> HIDE DEF r
    <3> QED BY <2>1, <2>2, <2>4, <2>5, <3>1
  <2> HIDE DEF r
  <2>7. w \in Nat /\ m \in Nat /\ EthPrice * m <= w
    <3>1. w \in Nat
      BY <2>3, <2>4, ProductNat
    <3> HIDE DEF w
    <3>2. w \div EthPrice \in Nat /\ EthPrice * (w \div EthPrice) <= w
      BY <2>3, <3>1, Quotient
    <3> QED BY <3>1, <3>2 DEF MinProfit, w
  <2>8. w <= Net * EthUnit
    BY <2>1, <2>3, <2>4, <2>6, ProductMonotone
  <2>9. CASE loan.debt = "USDC"
    <3>1. Gross(loan.usd, 5) * UsdcUnit < (FlatFloor * EthUnit) \div EthPrice
      BY <2>1, MinimumAssumption DEF MinimumAssumption
    <3>2. (FlatFloor * EthUnit) \div EthPrice <= w \div EthPrice
      <4>1. FlatFloor * EthUnit \in Nat /\ FlatFloor * EthUnit <= w
        BY <2>3, <2>4, ProductNat, ProductMonotone
      <4> QED BY <2>3, <2>7, <4>1, QuotientMonotone
    <3>3. (FlatFloor * EthUnit) \div EthPrice \in Nat
      BY <2>3, ProductNat, DivisionNat
    <3> DEFINE g == Gross(loan.usd, 5)
    <3>4. g \in Nat /\ Net <= g
      <4>1. Gross(loan.usd, haircut) <= Gross(loan.usd, 5) /\ Gross(loan.usd, 5) \in Nat
        BY <2>2, GrossAtMost
      <4> QED BY <2>1, <2>2, <2>6, <4>1
    <3> HIDE DEF g, w
    <3>5. Net * UsdcUnit <= g * UsdcUnit /\ Net * UsdcUnit \in Nat /\ g * UsdcUnit \in Nat
      BY <2>3, <2>6, <3>4, ProductMonotone, ProductNat
    <3>6. m = w \div EthPrice
      BY DEF MinProfit, w
    <3>7. Net * UsdcUnit < m
      <4>1. g * UsdcUnit < (FlatFloor * EthUnit) \div EthPrice
        BY <3>1 DEF g
      <4> DEFINE f == (FlatFloor * EthUnit) \div EthPrice
      <4>2. f \in Nat /\ g * UsdcUnit < f /\ f <= m
        BY <3>2, <3>3, <3>6, <4>1
      <4> HIDE DEF f, m
      <4> QED BY <2>7, <3>5, <4>2
    <3>8. Price(loan.debt) = 1 /\ Unit(loan.debt) = UsdcUnit
      BY <2>9 DEF Price, Unit
    <3> HIDE DEF m
    <3>9. ~(m * 1 <= Net * UsdcUnit)
      BY <2>7, <3>5, <3>7
    <3> QED BY <2>1, <2>9, <3>8, <3>9
  <2>10. CASE loan.debt # "USDC"
    <3>1. Unit(loan.debt) = EthUnit /\ Price(loan.debt) \in {1, EthPrice}
      BY <2>10 DEF Price, Unit
    <3> HIDE DEF m, w
    <3>2. m * Price(loan.debt) <= w
      <4>1. m * 1 <= EthPrice * m
        <5>1. 1 * m <= EthPrice * m
          BY <2>3, <2>7, ProductMonotone
        <5> QED BY <2>7, <5>1
      <4>2. m * EthPrice = EthPrice * m /\ EthPrice * m \in Nat
        BY <2>3, <2>7, ProductNat
      <4> QED BY <2>7, <3>1, <4>1, <4>2
    <3>3. m * Price(loan.debt) \in Nat /\ Net * EthUnit \in Nat
      BY <2>3, <2>6, <2>7, <3>1, ProductNat
    <3> QED BY <2>1, <2>7, <2>8, <2>10, <3>1, <3>2, <3>3
  <2> QED BY <2>9, <2>10
<1> QED BY <1>1, JudgedInvariant, PTL

-----------------------------------------------------------------------------
(* The haircut belongs to the route.                                       *)

\* A tier whose pool answers the estimate, which takes more than one that is not empty.
Seen(i) == Readable /\ Reserve(loan.coll, loan.debt, Fees[i]) > 0

UnseenBelow(n) == \A j \in 1..SlipTiers : j < n => ~Seen(j)

ByFallback == haircut = Fallback /\ UnseenBelow(SlipTiers + 1)
ByTier(i)  == /\ Seen(i) /\ UnseenBelow(i)
              /\ haircut = Slippage(Amount, Reserve(loan.coll, loan.debt, Fees[i]))

\* What the estimate has established: after gate 1, it was not made with dust.
Estimated ==
  ~disturbed =>
    /\ step = "slippage" => haircut = Fallback /\ tier <= SlipTiers /\ UnseenBelow(tier)
    /\ step = "gate" => ByFallback \/ \E i \in 1..SlipTiers : ByTier(i)
    /\ step \in Accepted =>
         ByFallback \/ \E i \in 1..SlipTiers :
                          ByTier(i) /\ Live(loan.coll, loan.debt, Fees[i])

\* A direct route takes the first tier that is live.
FirstTier ==
  step \in After /\ Len(route) = 1 /\ ~disturbed =>
    \E i \in DOMAIN Fees : /\ route[1].fee = Fees[i]
                            /\ Live(loan.coll, loan.debt, Fees[i])
                            /\ DryBelow(loan.coll, loan.debt, i)

HaircutInv == RouteInv /\ JudgedInv /\ Estimated /\ FirstTier

LEMMA SeenFrame ==
  ASSUME pools' = pools, selector' = selector, loan' = loan
  PROVE  /\ \A i : Seen(i)' <=> Seen(i)
         /\ \A n : UnseenBelow(n)' <=> UnseenBelow(n)
         /\ haircut' = haircut => /\ ByFallback' <=> ByFallback
                                  /\ \A i : ByTier(i)' <=> ByTier(i)
<1>1. \A i : Seen(i)' <=> Seen(i)
  BY DEF Seen, Readable, Reserve
<1>2. \A n : UnseenBelow(n)' <=> UnseenBelow(n)
  BY <1>1 DEF UnseenBelow
<1>3. ASSUME NEW i PROVE Reserve(loan.coll, loan.debt, Fees[i])' = Reserve(loan.coll, loan.debt, Fees[i])
  BY DEF Reserve
<1>4. Amount' = Amount
  BY DEF Amount
<1> QED BY <1>1, <1>2, <1>3, <1>4 DEF ByFallback, ByTier

\* A pool of dust costs the whole bonus.
LEMMA DustCostsAll ==
  ASSUME NEW amount \in Nat \ {0}, NEW reserve \in Nat, reserve <= 19 * amount, NEW usd \in Nat
  PROVE  Gross(usd, Slippage(amount, reserve)) = 0
<1> DEFINE d == amount + reserve
           n == amount * 10000
           q == n \div d
<1>1. d \in Nat \ {0} /\ n \in Nat /\ d <= 20 * amount /\ n = 20 * amount * 500
  OBVIOUS
<1> HIDE DEF d, n
<1>2. q \in Nat /\ n < d * (q + 1)
  BY <1>1, Quotient
<1>3. q >= 500
  <2> HIDE DEF q
  <2>1. SUFFICES ASSUME q + 1 <= 500 PROVE FALSE
    BY <1>2
  <2>2. d * (q + 1) <= (20 * amount) * 500
    BY <1>1, <1>2, <2>1, ProductMonotone
  <2>3. d * (q + 1) \in Nat
    BY <1>1, <1>2, ProductNat
  <2> QED BY <1>1, <1>2, <2>2, <2>3
<1>4. Slippage(amount, reserve) = 500
  <2>1. Slippage(amount, reserve) = IF q < 5 THEN 5 ELSE IF q > 500 THEN 500 ELSE q
    BY DEF Slippage, d, n
  <2> HIDE DEF q
  <2> QED BY <1>2, <1>3, <2>1
<1>5. (usd * (500 - 500) * 9) \div 100000 = 0
  OBVIOUS
<1> QED BY <1>4, <1>5 DEF Gross

LEMMA NextEstimated == HaircutInv /\ [Next]_vars => Estimated'
<1> SUFFICES ASSUME HaircutInv, [Next]_vars, ~disturbed' PROVE Estimated'
  BY DEF Estimated
<1> USE DEF HaircutInv, RouteInv, TypeInv
<1> DEFINE kept == pools' = pools /\ selector' = selector /\ loan' = loan
<1>1. CASE SwapOrMint \/ LenderMoves
  BY <1>1 DEF SwapOrMint, LenderMoves
<1>2. ASSUME kept, haircut' = haircut, ~disturbed, step' = step, tier' = tier
      PROVE  Estimated'
  BY <1>2, SeenFrame, LiveFrame DEF Estimated
<1>3. CASE UNCHANGED vars
  BY <1>2, <1>3 DEF vars, chain, task
<1>4. CASE Take
  <2>1. haircut' = Fallback /\ tier' = 1 /\ step' = "slippage"
    BY <1>4 DEF Take
  <2>2. UnseenBelow(1)'
    BY DEF UnseenBelow
  <2> QED BY <2>1, <2>2 DEF Estimated, Accepted, SlipTiers
<1>5. ASSUME NEW ok \in BOOLEAN, EstimateSlippage(ok) PROVE Estimated'
  <2>1. /\ step = "slippage" /\ kept /\ ok /\ ~disturbed
        /\ haircut = Fallback /\ tier <= SlipTiers /\ UnseenBelow(tier)
    BY <1>5 DEF EstimateSlippage, chain, Estimated
  <2>2. PICK t \in 1..SlipTiers : t = tier
    BY <2>1 DEF QuoteTypeOK, Fees, SlipTiers
  <2>3. SlipTiers = 3
    BY DEF SlipTiers
  <2>4. CASE Seen(t)
    <3>1. /\ step' = "gate"
          /\ haircut' = Slippage(Amount, Reserve(loan.coll, loan.debt, Fees[t]))
      BY <1>5, <2>1, <2>2, <2>4 DEF EstimateSlippage, Goto, Seen
    <3>2. Seen(t)' /\ UnseenBelow(t)'
      BY <2>1, <2>2, <2>4, SeenFrame
    <3>3. ByTier(t)'
      BY <2>1, <3>1, <3>2 DEF ByTier, Amount, Reserve
    <3> QED BY <3>1, <3>3 DEF Estimated, Accepted
  <2>5. CASE ~Seen(t)
    <3>1. TryNext(SlipTiers, "gate") /\ haircut' = haircut
      BY <1>5, <2>1, <2>2, <2>5 DEF EstimateSlippage, Seen
    <3>2. UnseenBelow(t + 1)
      BY <2>1, <2>2, <2>5 DEF UnseenBelow
    <3>3. UnseenBelow(t + 1)'
      BY <2>1, <3>2, SeenFrame
    <3>4. CASE t < SlipTiers
      <4>1. step' = "slippage" /\ tier' = t + 1
        BY <2>1, <2>2, <3>1, <3>4 DEF TryNext
      <4>2. tier' <= SlipTiers
        BY <2>3, <3>4, <4>1
      <4> QED BY <2>1, <3>1, <3>3, <4>1, <4>2 DEF Estimated, Accepted, UnseenBelow
    <3>5. CASE ~(t < SlipTiers)
      <4>1. step' = "gate" /\ t = SlipTiers
        BY <2>2, <2>3, <3>1, <3>5 DEF TryNext, Goto
      <4>2. ByFallback'
        BY <2>1, <3>1, <3>3, <4>1 DEF ByFallback
      <4> QED BY <4>1, <4>2 DEF Estimated, Accepted
    <3> QED BY <3>4, <3>5
  <2> QED BY <2>4, <2>5
<1>6. ASSUME NEW g \in GasCosts, Simulate(g) PROVE Estimated'
  <2>1. /\ step = "gate" /\ kept /\ haircut' = haircut /\ ~disturbed
        /\ step' \in {"direct", "discarded"}
        /\ step' = "direct" => Gross(loan.usd, haircut) > 0
    BY <1>6 DEF Simulate, Goto, chain
  <2>2. ByFallback \/ \E i \in 1..SlipTiers : ByTier(i)
    BY <2>1 DEF Estimated
  <2>3. CASE step' = "discarded"
    BY <2>3 DEF Estimated, Accepted
  <2>4. CASE step' = "direct" /\ ByFallback
    BY <2>1, <2>4, SeenFrame DEF Estimated
  <2>5. ASSUME step' = "direct", NEW i \in 1..SlipTiers, ByTier(i) PROVE Estimated'
    <3> DEFINE reserve == Reserve(loan.coll, loan.debt, Fees[i])
    <3>1. /\ loan.debt \in Debts /\ loan.usd \in DebtUsd /\ loan.usd \in Nat
          /\ Amount \in Nat /\ reserve \in Nat
      BY <2>1, LoanType, ReserveType DEF JudgedInv, LoanTaken
    <3>2. Amount # 0 /\ Dust <= 19 * Amount
      BY <3>1, QuoteAssumption, DustAssumption DEF QuoteAssumption, DustAssumption, Amount
    <3>3. haircut = Slippage(Amount, reserve)
      BY <2>5 DEF ByTier
    <3> HIDE DEF reserve
    <3>4. reserve > Dust
      <4>1. SUFFICES ASSUME reserve <= Dust PROVE FALSE
        BY <3>1, QuoteAssumption DEF QuoteAssumption
      <4>2. reserve <= 19 * Amount
        BY <3>1, <3>2, <4>1, QuoteAssumption DEF QuoteAssumption
      <4>3. Gross(loan.usd, haircut) = 0
        BY <3>1, <3>2, <3>3, <4>2, DustCostsAll
      <4> QED BY <2>1, <2>5, <4>3
    <3>5. Live(loan.coll, loan.debt, Fees[i])
      BY <2>5, <3>4 DEF ByTier, Seen, Live, reserve
    <3>6. ByTier(i)'
      BY <2>1, <2>5, SeenFrame
    <3>7. Live(loan.coll, loan.debt, Fees[i])'
      BY <2>1, <3>5, LiveFrame
    <3> QED BY <2>5, <3>6, <3>7 DEF Estimated
  <2> QED BY <2>1, <2>2, <2>3, <2>4, <2>5
<1>7. CASE \/ \E ok \in BOOLEAN : DirectHop(ok) \/ FirstHop(ok) \/ SecondHop(ok)
           \/ \E failing \in SUBSET {"Balancer", "Morpho"} : QueryDepths(failing)
           \/ \E ok \in BOOLEAN : QueryBalancer(ok) \/ QueryMorpho(ok) \/ QuerySpark(ok)
           \/ MulticallFails
           \/ \E l \in Lenders : Build(l)
  <2>1. /\ kept /\ haircut' = haircut /\ ~disturbed
        /\ step \in Accepted /\ step' \notin {"slippage", "gate"}
    BY <1>7, LateSteps DEF chain
  <2>2. ByFallback \/ \E i \in 1..SlipTiers : ByTier(i) /\ Live(loan.coll, loan.debt, Fees[i])
    BY <2>1 DEF Estimated
  <2>3. (ByFallback \/ \E i \in 1..SlipTiers : ByTier(i) /\ Live(loan.coll, loan.debt, Fees[i]))'
    BY <2>1, <2>2, SeenFrame, LiveFrame
  <2> QED BY <2>1, <2>3 DEF Estimated
<1>8. CASE NextPosition
  BY <1>8 DEF NextPosition, Estimated, Accepted
<1> QED BY <1>1, <1>3, <1>4, <1>5, <1>6, <1>7, <1>8 DEF Next, TaskStep

LEMMA NextFirstTier == HaircutInv /\ [Next]_vars => FirstTier'
<1> SUFFICES ASSUME HaircutInv, [Next]_vars, ~disturbed', step' \in After, Len(route') = 1
             PROVE  FirstTier'
  BY DEF FirstTier
<1> USE DEF HaircutInv, RouteInv, TypeInv
<1>1. ASSUME pools' = pools, selector' = selector, loan' = loan, ~disturbed, route' = route,
             step \in After
      PROVE  FirstTier'
  BY <1>1, LiveFrame, DryFrame DEF FirstTier
<1>2. CASE SwapOrMint \/ LenderMoves
  BY <1>2 DEF SwapOrMint, LenderMoves
<1>3. CASE UNCHANGED vars
  BY <1>1, <1>3 DEF vars, chain, task
<1>4. CASE Take \/ NextPosition \/ (\E ok \in BOOLEAN : EstimateSlippage(ok))
             \/ (\E g \in GasCosts : Simulate(g))
  BY <1>4 DEF Take, NextPosition, EstimateSlippage, Simulate, Goto, TryNext, After
<1>5. ASSUME NEW ok \in BOOLEAN, DirectHop(ok) PROVE FirstTier'
  <2>1. /\ step = "direct" /\ Probe(loan.coll, loan.debt, ok, "depths", "hopA") /\ Len(route) = 0
        /\ ~disturbed /\ pools' = pools /\ selector' = selector /\ loan' = loan
    BY <1>5 DEF DirectHop, Probe, chain, ShortRoute
  <2>2. ok /\ Live(loan.coll, loan.debt, Fees[tier])
    BY <2>1 DEF Probe, TryNext, Goto, Live, After
  <2>3. route' = Append(route, [from |-> loan.coll, to |-> loan.debt, fee |-> Fees[tier]])
    BY <2>1, <2>2 DEF Probe, Live
  <2>4. route = <<>>
    BY <2>1, EmptySeq DEF QuoteTypeOK
  <2>5. PICK i \in DOMAIN Fees : i = tier
    BY DEF QuoteTypeOK
  <2>6. route'[1].fee = Fees[i]
    BY <2>3, <2>4, <2>5
  <2>7. DryBelow(loan.coll, loan.debt, i) /\ Live(loan.coll, loan.debt, Fees[i])
    BY <2>1, <2>2, <2>5 DEF Searched
  <2>8. DryBelow(loan.coll, loan.debt, i)' /\ Live(loan.coll, loan.debt, Fees[i])'
    BY <2>1, <2>7, LiveFrame DEF DryBelow
  <2> QED BY <2>6, <2>8 DEF FirstTier
<1>6. CASE \E ok \in BOOLEAN : FirstHop(ok)
  BY <1>6 DEF FirstHop, Probe, Goto, TryNext, After
<1>7. ASSUME NEW ok \in BOOLEAN, SecondHop(ok) PROVE FirstTier'
  <2>1. Len(route) = 1 /\ step = "hopB"
    BY <1>7 DEF SecondHop, ShortRoute
  <2>2. Len(route') = 2
    BY <1>7, <2>1, ProbeRoute DEF SecondHop, After
  <2> QED BY <2>2
<1>8. CASE \/ \E failing \in SUBSET {"Balancer", "Morpho"} : QueryDepths(failing)
           \/ \E ok \in BOOLEAN : QueryBalancer(ok) \/ QueryMorpho(ok) \/ QuerySpark(ok)
           \/ MulticallFails
           \/ \E l \in Lenders : Build(l)
  <2>1. step \in After /\ route' = route
    <3>1. CASE \E failing \in SUBSET {"Balancer", "Morpho"} : QueryDepths(failing)
      BY <3>1 DEF QueryDepths, See, After
    <3>2. CASE \E ok \in BOOLEAN : QueryBalancer(ok) \/ QueryMorpho(ok) \/ QuerySpark(ok)
      BY <3>2 DEF QueryBalancer, QueryMorpho, QuerySpark, Ask, See, After
    <3>3. CASE MulticallFails \/ \E l \in Lenders : Build(l)
      BY <3>3 DEF MulticallFails, Build, After
    <3> QED BY <1>8, <3>1, <3>2, <3>3
  <2>2. pools' = pools /\ selector' = selector /\ loan' = loan /\ ~disturbed
    BY <1>8, LateSteps DEF chain
  <2> QED BY <1>1, <2>1, <2>2
<1> QED BY <1>2, <1>3, <1>4, <1>5, <1>6, <1>7, <1>8 DEF Next, TaskStep

\* Two passes with different thresholds and tiers agree: undisturbed, an offer was judged with
\* the slippage of the pool it swaps through.
THEOREM HaircutIsOfRoute == Spec => []HaircutOfRoute
<1>1. Init => HaircutInv
  <2>1. Init => step = "idle"
    BY DEF Init
  <2>2. Init => RouteInv
    BY <2>1, InitTypeInv DEF RouteInv, Searched, Found, After
  <2> QED BY <2>1, <2>2, InitJudgedInv DEF HaircutInv, Estimated, FirstTier, Accepted, After
<1>2. HaircutInv /\ [Next]_vars => HaircutInv'
  BY NextEstimated, NextFirstTier, NextRouteInv, NextJudgedInv DEF HaircutInv
<1>3. HaircutInv => HaircutOfRoute
  <2> SUFFICES ASSUME HaircutInv, step = "offered", ~disturbed
               PROVE  haircut = IF Len(route) = 1 /\ route[1].fee # 10000
                                THEN Slippage(Amount, Reserve(loan.coll, loan.debt, route[1].fee))
                                ELSE Fallback
    BY DEF HaircutOfRoute
  <2> USE DEF HaircutInv
  <2>1. ByFallback \/ \E i \in 1..SlipTiers : ByTier(i) /\ Live(loan.coll, loan.debt, Fees[i])
    BY DEF Estimated, Accepted
  <2>2. Len(route) # 1 => Dry(loan.coll, loan.debt)
    BY DEF RouteInv, Found, After, Direct, Detour
  <2>3. /\ DOMAIN Fees = 1..4 /\ SlipTiers = 3 /\ Fees[4] = 10000
        /\ \A i \in 1..3 : Fees[i] # 10000
    BY DEF Fees, SlipTiers
  <2>4. \A i \in DOMAIN Fees : Live(loan.coll, loan.debt, Fees[i]) => Seen(i)
    BY ReserveType, QuoteAssumption DEF Live, Seen, RouteInv, TypeInv, QuoteAssumption
  <2>5. CASE ByFallback
    <3>1. ASSUME Len(route) = 1 PROVE route[1].fee = 10000
      <4>1. PICK i \in DOMAIN Fees : route[1].fee = Fees[i] /\ Live(loan.coll, loan.debt, Fees[i])
        BY <3>1 DEF FirstTier, After
      <4>2. Seen(i)
        BY <2>4, <4>1
      <4>3. i = 4
        BY <2>3, <2>5, <4>2 DEF ByFallback, UnseenBelow
      <4> QED BY <2>3, <4>1, <4>3
    <3> QED BY <2>5, <3>1 DEF ByFallback
  <2>6. ASSUME NEW i \in 1..SlipTiers, ByTier(i), Live(loan.coll, loan.debt, Fees[i])
        PROVE  /\ Len(route) = 1 /\ route[1].fee # 10000
               /\ haircut = Slippage(Amount, Reserve(loan.coll, loan.debt, route[1].fee))
    <3>1. i \in DOMAIN Fees /\ Len(route) = 1
      BY <2>2, <2>3, <2>6 DEF Dry
    <3>2. PICK j \in DOMAIN Fees : /\ route[1].fee = Fees[j] /\ Live(loan.coll, loan.debt, Fees[j])
                                   /\ DryBelow(loan.coll, loan.debt, j)
      BY <3>1 DEF FirstTier, After
    <3>3. ~(i < j)
      BY <2>6, <3>1, <3>2 DEF DryBelow
    <3>4. ~(j < i)
      <4>1. Seen(j)
        BY <2>4, <3>2
      <4>2. j < i => j \in 1..SlipTiers
        BY <2>3
      <4> QED BY <2>6, <4>1, <4>2 DEF ByTier, UnseenBelow
    <3>5. i = j
      BY <2>3, <3>3, <3>4
    <3> QED BY <2>3, <2>6, <3>1, <3>2, <3>5 DEF ByTier
  <2> QED BY <2>1, <2>5, <2>6
<1> QED BY <1>1, <1>2, <1>3, PTL DEF Spec

=============================================================================
