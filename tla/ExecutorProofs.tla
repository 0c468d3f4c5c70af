----------------------------- MODULE ExecutorProofs -----------------------------
(***************************************************************************)
(* Theorems about the liquidation contract, for any tokens, amounts, fees, *)
(* protocols, routers, keys and delay, any number of transactions, and     *)
(* callbacks nested to any depth.                                          *)
(***************************************************************************)
EXTENDS LiquidationCall, SequenceTheorems, TLAPS

USE DEF lists, timelock, baseVars, context, vars

-----------------------------------------------------------------------------
(* ExecutorBase.                                                           *)

BaseInv == BaseTypes /\ EtaInv

LEMMA BaseInvInit == ASSUME NEW L \in SUBSET Protocols, BaseInit(L) PROVE BaseInv
  <1>1. paused \in BOOLEAN /\ executor \in Keys /\ pendingExecutor = NoKey
    BY BaseAssumption DEF BaseAssumption, BaseInit
  <1>2. /\ allowedProtocols \subseteq Protocols /\ allowedRouters \subseteq Routers
        /\ allowedFlashVaults \subseteq Vaults
    BY DEF BaseInit
  <1>3. executorChangeETA \in Nat /\ now \in Nat /\ pendingSince \in 0..now
    BY DEF BaseInit
  <1> QED BY <1>1, <1>2, <1>3 DEF BaseInv, BaseTypes, EtaInv

LEMMA BaseInvStep ==
  ASSUME BaseInv, BaseNext \/ UNCHANGED baseVars
  PROVE  BaseInv'
  <1> USE BaseAssumption DEF BaseAssumption, BaseInv, BaseTypes, EtaInv
  <1>1. CASE UNCHANGED baseVars
    BY <1>1
  <1>2. CASE SetPaused
    BY <1>2 DEF SetPaused
  <1>3. ASSUME NEW key \in Keys, ProposeExecutor(key) PROVE BaseInv'
    BY <1>3 DEF ProposeExecutor, NewEta
  <1>4. CASE AcceptExecutor
    BY <1>4 DEF AcceptExecutor
  <1>5. ASSUME NEW p \in Protocols, SetProtocolWhitelisted(p) PROVE BaseInv'
    BY <1>5 DEF SetProtocolWhitelisted, Toggle
  <1>6. ASSUME NEW r \in Routers, SetRouterWhitelisted(r) PROVE BaseInv'
    BY <1>6 DEF SetRouterWhitelisted, Toggle
  <1>7. ASSUME NEW v \in Vaults, SetFlashVaultWhitelisted(v) PROVE BaseInv'
    BY <1>7 DEF SetFlashVaultWhitelisted, Toggle
  <1>8. CASE Tick
    BY <1>8 DEF Tick
  <1> QED BY <1>1, <1>2, <1>3, <1>4, <1>5, <1>6, <1>7, <1>8 DEF BaseNext

\* AcceptExecutor is the only step that changes the key, and it waits for the ETA.
LEMMA KeyStep ==
  ASSUME BaseInv, BaseNext, executor' # executor
  PROVE  executor' = pendingExecutor /\ now >= pendingSince + Delay
  <1>1. AcceptExecutor
    BY DEF BaseNext, SetPaused, ProposeExecutor, SetProtocolWhitelisted,
           SetRouterWhitelisted, SetFlashVaultWhitelisted, Tick
  <1> QED BY <1>1, BaseAssumption
          DEF AcceptExecutor, BaseInv, BaseTypes, EtaInv, BaseAssumption

\* ExecutorBase by itself: the key changes only to one that has been pending for the whole
\* delay (ExecutorBase.sol:103-117).
THEOREM TimelockAlone == BaseSpec => TimelockRespected
  <1>1. BaseInit(Protocols) => BaseInv
    BY BaseInvInit
  <1>2. BaseInv /\ [BaseNext]_baseVars => BaseInv'
    BY BaseInvStep
  <1>3. BaseInv /\ [BaseNext]_baseVars =>
          [executor' # executor => /\ executor' = pendingExecutor
                                   /\ now >= pendingSince + Delay]_baseVars
    BY KeyStep
  <1> QED BY <1>1, <1>2, <1>3, PTL DEF BaseSpec, TimelockRespected

-----------------------------------------------------------------------------
(* The timelock in the contract.                                           *)

\* every step leaves ExecutorBase alone, except the transactions that configure it
LEMMA BaseStep ==
  ASSUME [Next]_vars
  PROVE  BaseNext \/ UNCHANGED baseVars
  BY DEF Next, EnterSome, ExecuteLiquidation, Execute, Enter, Lend, CallBack, SkipEmpty,
         LiquidateAave, LiquidateMorpho, SkipSwap, CallRouter, Return, CheckSolvency,
         Repay, Outside, CalledTokenApproves, EndFlash, Settle, Revert, Sweep, Configure

LEMMA BaseInvariant == Spec => []BaseInv
  <1>1. Init => BaseInv
    <2>1. {"aave", "morpho"} \in SUBSET Protocols
      BY ExecutorAssumption DEF ExecutorAssumption
    <2> QED BY <2>1, BaseInvInit DEF Init
  <1>2. BaseInv /\ [Next]_vars => BaseInv'
    BY BaseStep, BaseInvStep
  <1> QED BY <1>1, <1>2, PTL DEF Spec

\* The timelock holds in the deployed contract, with the entry points and sweeps around it.
THEOREM TimelockHolds == Spec => TimelockRespected
  <1>1. BaseInv /\ [Next]_vars =>
          [executor' # executor => /\ executor' = pendingExecutor
                                   /\ now >= pendingSince + Delay]_baseVars
    BY BaseStep, KeyStep
  <1> QED BY <1>1, BaseInvariant, PTL DEF Spec, TimelockRespected

-----------------------------------------------------------------------------
(* What the constants and the records are.                                 *)

LEMMA Numbers ==
  /\ Amounts \subseteq Nat /\ Limits \subseteq Nat /\ Moves \subseteq Nat
  /\ Fees \subseteq Nat /\ Liquidity \in Nat
  BY ExecutorAssumption DEF ExecutorAssumption

LEMMA CallFields ==
  ASSUME NEW c \in Call
  PROVE  /\ c.provider \in Providers /\ c.job \in Job \union {NoData}
         /\ c.debt \in Tokens /\ c.profitToken \in Tokens
         /\ c.amount \in Nat /\ c.minProfit \in Nat
  <1>1. c.amount \in Amounts /\ c.minProfit \in Limits \union {0}
    BY DEF Call
  <1>2. Amounts \subseteq Nat /\ Limits \union {0} \subseteq Nat
    BY Numbers
  <1>3. c.amount \in Nat /\ c.minProfit \in Nat
    BY <1>1, <1>2, Zenon
  <1> QED BY <1>3 DEF Call

LEMMA JobFields ==
  ASSUME NEW j \in Job
  PROVE  j.protocol \in Protocols /\ j.collateral \in Tokens
         /\ j.router \in Routers \union {NoRouter}
  BY DEF Job

LEMMA FrameFields ==
  ASSUME NEW f \in Frame
  PROVE  /\ f.callback \in Providers /\ f.from \in Lenders \union {"others"}
         /\ f.token \in Tokens /\ f.amount \in Nat /\ f.fee \in Nat
         /\ f.job \in Job \union {NoData} /\ f.at \in Places
         /\ f.before \in PerLender(Int)
  BY DEF Frame

LEMMA NoFlashType == NoFlash \in Context
  BY DEF NoFlash, Context, Providers, Lenders, Pulling

LEMMA NoFeesType == NoFees \in PerLender(Nat)
  BY DEF NoFees, PerLender

-----------------------------------------------------------------------------
(* Transfers and allowances.                                               *)

LEMMA HolderNames ==
  /\ Lenders \subseteq Holders /\ "contract" \in Holders
  /\ "contract" \notin Lenders \union {"owner", "cold", "other"}
  /\ {"owner", "cold", "other"} \subseteq Holders
  /\ {"owner", "cold", "other"} \intersect Lenders = {}
  BY DEF Holders, Lenders, Pulling

LEMMA TransferEffect ==
  ASSUME bal \in Balances, NEW from \in Holders, NEW to \in Holders \ {from},
         NEW token \in Tokens, NEW amount \in Nat, amount <= bal[from][token],
         Transfer(from, to, token, amount)
  PROVE  /\ bal' \in Balances
         /\ \A h \in Holders \ {from, to} : bal'[h] = bal[h]
         /\ \A t \in Tokens \ {token} :
              bal'[from][t] = bal[from][t] /\ bal'[to][t] = bal[to][t]
         /\ bal'[from][token] = bal[from][token] - amount
         /\ bal'[to][token] = bal[to][token] + amount
  <1> DEFINE mid == [bal EXCEPT ![from][token] = @ - amount]
  <1>1. /\ bal[from][token] - amount \in Nat /\ bal[to][token] + amount \in Nat
        /\ bal \in [Holders -> [Tokens -> Nat]]
    BY DEF Balances
  <1>2. mid \in [Holders -> [Tokens -> Nat]]
    BY <1>1
  <1>3. /\ \A h \in Holders \ {from} : mid[h] = bal[h]
        /\ \A t \in Tokens \ {token} : mid[from][t] = bal[from][t]
        /\ mid[from][token] = bal[from][token] - amount
    BY <1>1
  <1>4. bal' = [mid EXCEPT ![to][token] = @ + amount]
    BY DEF Transfer
  <1> HIDE DEF mid
  <1>5. bal' \in Balances
    BY <1>1, <1>2, <1>3, <1>4 DEF Balances
  <1>6. /\ \A h \in Holders \ {to} : bal'[h] = mid[h]
        /\ \A t \in Tokens \ {token} : bal'[to][t] = mid[to][t]
        /\ bal'[to][token] = mid[to][token] + amount
    BY <1>2, <1>4
  <1> QED BY <1>3, <1>5, <1>6

\* a lending pool takes the debt and pays out the collateral
LEMMA ExchangeEffect ==
  ASSUME bal \in Balances, NEW sold \in Tokens, NEW bought \in Tokens,
         NEW out \in Nat, NEW in \in Nat, out <= bal["contract"][sold],
         bal' = [bal EXCEPT !["contract"][sold] = @ - out, !["contract"][bought] = @ + in]
  PROVE  /\ bal' \in Balances
         /\ \A h \in Holders \ {"contract"} : bal'[h] = bal[h]
  BY HolderNames DEF Balances

\* allowances are only ever added
LEMMA ApproveEffect ==
  ASSUME approvals \subseteq Approvals, NEW token \in Tokens,
         NEW spender \in Protocols \union Lenders \union Routers \union {"others"},
         NEW amount, Approve(token, spender, amount)
  PROVE  approvals' \subseteq Approvals /\ approvals \subseteq approvals'
  BY DEF Approve, Approvals

-----------------------------------------------------------------------------
(* The stack of callbacks.                                                 *)

\* of a callback that is at the router its job is known, and only Uniswap's is called by others
CallersInv ==
  \A i \in 1..Len(frames) :
    /\ frames[i].from = IF frames[i].callback = "uniswap" THEN "others" ELSE frames[i].callback
    /\ frames[i].at \in {"swap", "out"} => frames[i].job \in Job

ShapeInv == TypeOK /\ ContextClean /\ CallersInv

\* while a callback runs there is a top of the stack, and it sees the loan of the call
LEMMA InCallback ==
  ASSUME ShapeInv, step = "callback"
  PROVE  /\ frames \in Seq(Frame) /\ Len(frames) \in Nat /\ Len(frames) >= 1
         /\ Top \in Frame /\ Top = frames[Len(frames)]
         /\ call \in Call /\ flash.in /\ flash.debt \in Tokens
         /\ Owed \in Nat
         /\ Top.from = IF Top.callback = "uniswap" THEN "others" ELSE Top.callback
         /\ Top.at \in {"swap", "out"} => Top.job \in Job
  <1>1. frames \in Seq(Frame) /\ frames # <<>> /\ call \in Call /\ flash.in
    BY DEF ShapeInv, TypeOK, ContextClean
  <1>2. Len(frames) \in Nat \ {0}
    BY <1>1, EmptySeq
  <1>3. Len(frames) \in 1..Len(frames)
    BY <1>2
  <1>4. Top \in Frame /\ Top = frames[Len(frames)]
    BY <1>1, <1>3, ElementOfSeq DEF Top
  <1>5. flash.debt = call.debt
    BY <1>1 DEF ShapeInv, ContextClean
  <1>6. Owed \in Nat
    BY <1>4, FrameFields DEF Owed
  <1> QED BY <1>1, <1>2, <1>3, <1>4, <1>5, <1>6, CallFields DEF ShapeInv, CallersInv

\* between its two ends a callback only moves on
LEMMA Moved ==
  ASSUME frames \in Seq(Frame), Len(frames) \in Nat, Len(frames) >= 1, Top \in Frame,
         Top = frames[Len(frames)], NEW place \in Places, Move(place)
  PROVE  /\ frames' \in Seq(Frame) /\ Len(frames') = Len(frames)
         /\ \A i \in 1..(Len(frames) - 1) : frames'[i] = frames[i]
         /\ frames'[Len(frames)] = [Top EXCEPT !.at = place]
  <1> DEFINE moved == [Top EXCEPT !.at = place]
  <1>1. moved \in Frame
    BY DEF Frame
  <1>2. frames' = [frames EXCEPT ![Len(frames)] = moved]
    BY DEF Move
  <1> HIDE DEF moved
  <1>3. Len(frames) \in 1..Len(frames)
    OBVIOUS
  <1>4. /\ frames' \in Seq(Frame) /\ Len(frames') = Len(frames)
        /\ \A j \in 1..Len(frames) :
             frames'[j] = IF j = Len(frames) THEN moved ELSE frames[j]
    BY <1>1, <1>2, <1>3, ExceptSeq
  <1> QED BY <1>3, <1>4 DEF moved

\* a callback begins on top of the others
LEMMA Pushed ==
  ASSUME frames \in Seq(Frame), NEW f \in Frame, frames' = Append(frames, f)
  PROVE  /\ frames' \in Seq(Frame) /\ Len(frames) \in Nat
         /\ Len(frames') = Len(frames) + 1
         /\ \A i \in 1..Len(frames) : frames'[i] = frames[i]
         /\ frames'[Len(frames) + 1] = f
  BY AppendProperties, LenProperties

\* and ends before them
LEMMA Popped ==
  ASSUME frames \in Seq(Frame), Len(frames) \in Nat, Len(frames) >= 1,
         frames' = SubSeq(frames, 1, Len(frames) - 1)
  PROVE  /\ frames' \in Seq(Frame) /\ Len(frames') = Len(frames) - 1
         /\ \A i \in 1..(Len(frames) - 1) : frames'[i] = frames[i]
  <1>1. \A i \in 1..(Len(frames) - 1) : frames[i] \in Frame
    <2>1. ASSUME NEW i \in 1..(Len(frames) - 1) PROVE frames[i] \in Frame
      <3>1. i \in 1..Len(frames)
        OBVIOUS
      <3> QED BY <3>1, ElementOfSeq
    <2> QED BY <2>1
  <1>2. 1 \in Int /\ Len(frames) - 1 \in Int
    OBVIOUS
  <1>3. /\ SubSeq(frames, 1, Len(frames) - 1) \in Seq(Frame)
        /\ Len(SubSeq(frames, 1, Len(frames) - 1))
             = IF 1 <= Len(frames) - 1 THEN (Len(frames) - 1) - 1 + 1 ELSE 0
        /\ \A i \in 1..((Len(frames) - 1) - 1 + 1) :
             SubSeq(frames, 1, Len(frames) - 1)[i] = frames[1 + i - 1]
    BY ONLY <1>1, <1>2, SubSeqProperties, SMTT(30)
  <1>4. (Len(frames) - 1) - 1 + 1 = Len(frames) - 1
    OBVIOUS
  <1> QED BY <1>3, <1>4

-----------------------------------------------------------------------------
(* The kinds of steps.                                                     *)

\* a callback begins
Opens(callback, from, token, amount, fee, job) ==
  /\ step \in {"lend", "callback"} /\ step' = "callback"
  /\ step = "callback" => Top.at = "out"
  /\ from = IF callback = "uniswap" THEN "others" ELSE callback
  /\ Open(callback, from, token, amount, fee, job)
  /\ UNCHANGED <<baseVars, context, flash, approvals, earned>>

SomeOpens ==
  \E callback \in Providers, from \in Lenders \union {"others"}, token \in Tokens,
     amount \in Nat, fee \in Nat, job \in Job \union {NoData} :
       Opens(callback, from, token, amount, fee, job)

\* the contract's tokens come and go, nobody else's do, and allowances are only added
ContractOnly ==
  /\ bal' \in Balances
  /\ \A h \in Holders \ {"contract"} : bal'[h] = bal[h]
  /\ approvals \subseteq approvals' /\ approvals' \subseteq Approvals

\* a callback moves on
Goes(place) ==
  /\ step = "callback" /\ Move(place)
  /\ place \in {"swap", "out"} => Top.job \in Job
  /\ ContractOnly
  /\ UNCHANGED <<baseVars, context, flash, earned>>

\* others do something while the router runs
Meanwhile ==
  /\ step = "callback"
  /\ ContractOnly
  /\ UNCHANGED <<baseVars, context, step, frames, flash, earned>>

LEMMA LendOpens ==
  ASSUME ShapeInv, NEW fee \in Fees \union {0}, Lend(fee)
  PROVE  SomeOpens
  <1>1. step = "lend" /\ flash.in /\ call \in Call
    BY DEF Lend, Goto, ShapeInv, TypeOK, ContextClean
  <1>2. flash.debt = call.debt /\ flash.amount = call.amount
    BY <1>1 DEF ShapeInv, ContextClean
  <1>3. /\ flash.debt \in Tokens /\ flash.amount \in Nat
        /\ call.job \in Job \union {NoData} /\ fee \in Nat
    BY <1>1, <1>2, CallFields, Numbers
  <1>4. flash.provider \in Providers /\ flash.provider \in Lenders /\ flash.provider # "uniswap"
    BY DEF Lend, Providers, Lenders, Pulling
  <1>5. Opens(flash.provider, flash.provider, flash.debt, flash.amount, fee, call.job)
    BY <1>1, <1>4 DEF Lend, Opens, Goto
  <1> QED BY <1>3, <1>4, <1>5 DEF SomeOpens

LEMMA CallBackOpens ==
  ASSUME ShapeInv, NEW callback \in Providers,
         NEW from \in (Lenders \intersect {callback}) \union {"others"}, CallBack(callback, from)
  PROVE  SomeOpens
  <1>1. PICK token \in Tokens, amount \in Amounts \union {0}, fee \in Fees \union {0},
             job \in Job \union {NoData} : Open(callback, from, token, amount, fee, job)
    BY DEF CallBack
  <1>2. amount \in Nat /\ fee \in Nat /\ from \in Lenders \union {"others"}
    BY Numbers
  <1>3. from = IF callback = "uniswap" THEN "others" ELSE callback
    BY DEF CallBack, Accepted, Lenders, Pulling
  <1>4. Opens(callback, from, token, amount, fee, job)
    BY <1>1, <1>3 DEF CallBack, At, Opens
  <1> QED BY <1>2, <1>4 DEF SomeOpens

LEMMA Unmoved ==
  ASSUME TypeOK, UNCHANGED <<bal, approvals>>
  PROVE  ContractOnly
  BY DEF TypeOK, ContractOnly

LEMMA AaveGoes ==
  ASSUME ShapeInv, NEW covered \in Amounts \union {0}, NEW seized \in Moves,
         LiquidateAave(covered, seized)
  PROVE  Goes("swap")
  <1>1. step = "callback" /\ Top.job.protocol = "aave"
    BY DEF LiquidateAave, At
  <1>2. Top.job \in Job /\ Top.job.collateral \in Tokens /\ flash.debt \in Tokens
    BY <1>1, InCallback, FrameFields, JobFields DEF NoData
  <1>3. covered \in Nat /\ seized \in Nat /\ covered <= bal["contract"][flash.debt]
    BY Numbers DEF LiquidateAave, Held
  <1>4. bal' \in Balances /\ \A h \in Holders \ {"contract"} : bal'[h] = bal[h]
    BY <1>2, <1>3, ExchangeEffect DEF LiquidateAave, ShapeInv, TypeOK
  <1>5. approvals' \subseteq Approvals /\ approvals \subseteq approvals'
    BY <1>2, ApproveEffect DEF LiquidateAave, ShapeInv, TypeOK, Lenders, Pulling
  <1> QED BY <1>1, <1>2, <1>4, <1>5 DEF LiquidateAave, At, Goes, ContractOnly

LEMMA MorphoGoes ==
  ASSUME ShapeInv, LiquidateMorpho
  PROVE  Goes("swap")
  <1>1. step = "callback" /\ Top.job.protocol = "morpho"
    BY DEF LiquidateMorpho, At
  <1>2. Top.job \in Job /\ flash.debt \in Tokens
    BY <1>1, InCallback, FrameFields DEF NoData
  <1>3. approvals' \subseteq Approvals /\ approvals \subseteq approvals'
    BY <1>2, ApproveEffect DEF LiquidateMorpho, ShapeInv, TypeOK, Lenders, Pulling
  <1> QED BY <1>1, <1>2, <1>3 DEF LiquidateMorpho, At, Goes, ContractOnly, ShapeInv, TypeOK

LEMMA RouterGoes ==
  ASSUME ShapeInv, CallRouter
  PROVE  Goes("out") \/ Goes("check")
  <1>1. step = "callback" /\ Top.at = "swap" /\ Top.job.router # NoRouter
    BY DEF CallRouter, At
  <1>2. Top.job \in Job /\ Top.job.collateral \in Tokens /\ Top.job.router \in Routers
    BY <1>1, InCallback, JobFields
  <1>3. approvals' \subseteq Approvals /\ approvals \subseteq approvals'
    BY <1>2, ApproveEffect DEF CallRouter, ShapeInv, TypeOK
  <1>4. ContractOnly
    BY <1>3 DEF CallRouter, ContractOnly, ShapeInv, TypeOK
  <1> QED BY <1>1, <1>2, <1>4 DEF CallRouter, Goes

LEMMA OutsideMeanwhile ==
  ASSUME ShapeInv, NEW t \in Tokens, NEW left \in Moves, Outside(t, left), step # "idle"
  PROVE  Meanwhile
  <1>1. step = "callback"
    BY DEF Outside, At
  <1>2. left \in Nat /\ bal' = [bal EXCEPT !["contract"][t] = left]
    BY Numbers DEF Outside
  <1>3. bal' \in Balances /\ \A h \in Holders \ {"contract"} : bal'[h] = bal[h]
    BY <1>2, HolderNames DEF ShapeInv, TypeOK, Balances
  <1> QED BY <1>1, <1>3 DEF Outside, Meanwhile, ContractOnly, ShapeInv, TypeOK

LEMMA TokenMeanwhile ==
  ASSUME ShapeInv, CalledTokenApproves
  PROVE  Meanwhile
  <1>1. approvals' \subseteq Approvals /\ approvals \subseteq approvals'
    BY ApproveEffect DEF CalledTokenApproves, ShapeInv, TypeOK
  <1> QED BY <1>1 DEF CalledTokenApproves, At, Meanwhile, ContractOnly, ShapeInv, TypeOK

LEMMA StepKinds ==
  ASSUME ShapeInv, [Next]_vars
  PROVE  \/ UNCHANGED vars
         \/ \E c \in Call : Enter(c)
         \/ SomeOpens
         \/ \E place \in Places : Goes(place)
         \/ Meanwhile
         \/ Repay \/ EndFlash \/ Settle \/ Revert
         \/ \E t \in Tokens, left \in Moves : Outside(t, left) /\ step = "idle"
         \/ \E t \in Tokens, to \in {"owner", "cold", "other"} : Sweep(t, to)
         \/ Configure
  <1>0. {"swap", "out", "check", "repay"} \subseteq Places
    BY DEF Places
  <1>1. EnterSome => \E c \in Call : Enter(c)
    BY DEF EnterSome, ExecuteLiquidation, Execute
  <1>2. (SkipEmpty \/ CheckSolvency) => Goes("repay")
    BY Unmoved DEF SkipEmpty, CheckSolvency, At, Goes, ShapeInv
  <1>3. (SkipSwap \/ Return) => Goes("check")
    BY Unmoved DEF SkipSwap, Return, At, Goes, ShapeInv
  <1>4. (SkipEmpty \/ CheckSolvency \/ SkipSwap \/ Return \/ LiquidateMorpho \/ CallRouter)
          => \E place \in Places : Goes(place)
    BY <1>0, <1>2, <1>3, MorphoGoes, RouterGoes
  <1>5. \A covered \in Amounts \union {0}, seized \in Moves :
          LiquidateAave(covered, seized) => \E place \in Places : Goes(place)
    BY <1>0, AaveGoes
  <1>6. \A t \in Tokens, left \in Moves : Outside(t, left) => step = "idle" \/ Meanwhile
    BY OutsideMeanwhile
  <1>7. \A fee \in Fees \union {0} : Lend(fee) => SomeOpens
    BY LendOpens
  <1>8. \A callback \in Providers :
          \A from \in (Lenders \intersect {callback}) \union {"others"} :
            CallBack(callback, from) => SomeOpens
    BY CallBackOpens
  <1> QED BY <1>1, <1>4, <1>5, <1>6, <1>7, <1>8, TokenMeanwhile DEF Next

-----------------------------------------------------------------------------
(* What a callback does to the lenders.                                    *)

\* what a lender has, less what it has earned, and what a callback still owes it of that
Net(l, t)     == bal[l][t] - earned[l][t]
Lent(f, l, t) == IF f.from = l /\ f.token = t THEN f.amount ELSE 0

LEMMA Counts ==
  ASSUME TypeOK
  PROVE  /\ \A h \in Holders, t \in Tokens : bal[h][t] \in Nat /\ committed.bal[h][t] \in Nat
         /\ \A l \in Lenders, t \in Tokens :
              bal[l][t] \in Nat /\ earned[l][t] \in Nat /\ Net(l, t) \in Int
  <1>1. \A h \in Holders, t \in Tokens : bal[h][t] \in Nat /\ committed.bal[h][t] \in Nat
    BY DEF TypeOK, Balances, Committed
  <1>2. \A l \in Lenders, t \in Tokens : earned[l][t] \in Nat
    BY DEF TypeOK, PerLender
  <1> QED BY <1>1, <1>2, HolderNames DEF Net

LEMMA OpenEffect ==
  ASSUME ShapeInv, NEW callback \in Providers, NEW from \in Lenders \union {"others"},
         NEW token \in Tokens, NEW amount \in Nat, NEW fee \in Nat,
         NEW job \in Job \union {NoData}, Opens(callback, from, token, amount, fee, job)
  PROVE  /\ bal' \in Balances
         /\ \A h \in {"owner", "cold", "other"} : bal'[h] = bal[h]
         /\ frames' \in Seq(Frame) /\ Len(frames) \in Nat /\ Len(frames') = Len(frames) + 1
         /\ \A i \in 1..Len(frames) : frames'[i] = frames[i]
         /\ frames'[Len(frames) + 1].callback = callback
         /\ frames'[Len(frames) + 1].from = from
         /\ frames'[Len(frames) + 1].at = "received"
         /\ \A l \in Lenders, t \in Tokens :
              /\ frames'[Len(frames) + 1].before[l][t] = Net(l, t)
              /\ Net(l, t)' = Net(l, t) - Lent(frames'[Len(frames) + 1], l, t)
  <1> DEFINE f == [callback |-> callback, from |-> from, token |-> token, amount |-> amount,
                   fee |-> fee, job |-> job, at |-> "received", before |-> NetOfFees]
  <1>1. NetOfFees \in PerLender(Int) /\ \A l \in Lenders, t \in Tokens : NetOfFees[l][t] = Net(l, t)
    BY Counts DEF ShapeInv, NetOfFees, PerLender, Net
  <1>2. f \in Frame
    BY <1>1 DEF Frame, Places
  <1>3. frames' = Append(frames, f)
    BY DEF Opens, Open
  <1>4. /\ f.callback = callback /\ f.from = from /\ f.token = token /\ f.amount = amount
        /\ f.at = "received" /\ f.before = NetOfFees
    OBVIOUS
  <1> HIDE DEF f
  <1>5. /\ frames' \in Seq(Frame) /\ Len(frames) \in Nat /\ Len(frames') = Len(frames) + 1
        /\ \A i \in 1..Len(frames) : frames'[i] = frames[i]
        /\ frames'[Len(frames) + 1] = f
    BY <1>2, <1>3, Pushed DEF ShapeInv, TypeOK
  <1>6. /\ bal' \in Balances
        /\ \A h \in {"owner", "cold", "other"} : bal'[h] = bal[h]
        /\ \A l \in Lenders, t \in Tokens :
             bal'[l][t] = bal[l][t] - IF from = l /\ token = t THEN amount ELSE 0
    <2>1. CASE from \in Lenders
      <3>1. /\ amount <= bal[from][token] /\ Transfer(from, "contract", token, amount)
            /\ from \in Holders /\ "contract" \in Holders \ {from}
        BY <2>1, HolderNames, Counts DEF Opens, Open, ShapeInv
      <3>2. /\ bal' \in Balances
            /\ \A h \in Holders \ {from, "contract"} : bal'[h] = bal[h]
            /\ \A t \in Tokens \ {token} : bal'[from][t] = bal[from][t]
            /\ bal'[from][token] = bal[from][token] - amount
        BY <3>1, TransferEffect DEF ShapeInv, TypeOK
      <3>3. \A l \in Lenders, t \in Tokens : bal[l][t] - 0 = bal[l][t]
        BY Counts DEF ShapeInv
      <3> QED BY <2>1, <3>2, <3>3, HolderNames
    <2>2. CASE from \notin Lenders
      <3>1. bal' = bal
        BY <2>2 DEF Opens, Open
      <3>2. \A l \in Lenders, t \in Tokens : bal[l][t] - 0 = bal[l][t]
        BY Counts DEF ShapeInv
      <3> QED BY <2>2, <3>1, <3>2 DEF ShapeInv, TypeOK
    <2> QED BY <2>1, <2>2
  <1>7. \A l \in Lenders, t \in Tokens : Net(l, t)' = Net(l, t) - Lent(f, l, t)
    <2> SUFFICES ASSUME NEW l \in Lenders, NEW t \in Tokens
                 PROVE  Net(l, t)' = Net(l, t) - Lent(f, l, t)
      OBVIOUS
    <2>1. bal[l][t] \in Nat /\ earned[l][t] \in Nat /\ earned' = earned
      BY Counts DEF ShapeInv, Opens
    <2> QED BY <1>4, <1>6, <2>1 DEF Net, Lent
  <1> QED BY <1>1, <1>4, <1>5, <1>6, <1>7

LEMMA RepayEffect ==
  ASSUME ShapeInv, Repay
  PROVE  /\ bal' \in Balances
         /\ \A h \in {"owner", "cold", "other"} : bal'[h] = bal[h]
         /\ approvals \subseteq approvals' /\ approvals' \subseteq Approvals
         /\ earned' \in PerLender(Nat)
         /\ \A l \in Lenders, t \in Tokens : Net(l, t)' = Net(l, t) + Lent(Top, l, t)
  <1>1. /\ step = "callback" /\ Top \in Frame /\ flash.debt \in Tokens /\ Owed \in Nat
        /\ Top.token \in Tokens /\ Top.amount \in Nat /\ Top.fee \in Nat
        /\ Top.from \in Lenders \union {"others"}
        /\ Top.from = IF Top.callback = "uniswap" THEN "others" ELSE Top.callback
    BY InCallback, FrameFields DEF Repay, At
  <1>2. approvals \subseteq approvals' /\ approvals' \subseteq Approvals
    <2>1. CASE Top.callback = "morpho"
      BY <1>1, <2>1, ApproveEffect DEF Repay, ApproveRepayment, ShapeInv, TypeOK, Lenders, Pulling
    <2>2. CASE Top.callback \in {"spark", "aave"}
      <3>1. Approve(Top.token, Top.callback, Owed)
        BY <2>2 DEF Repay, ApproveRepayment
      <3> QED BY <1>1, <2>2, <3>1, ApproveEffect DEF ShapeInv, TypeOK, Lenders, Pulling
    <2>3. CASE Top.callback \notin {"morpho", "spark", "aave"}
      BY <2>3 DEF Repay, ApproveRepayment, ShapeInv, TypeOK
    <2> QED BY <2>1, <2>2, <2>3
  <1>3. CASE Top.from \in Lenders
    <2>1. Top.callback = Top.from /\ (Top.callback = "balancer" \/ Top.from \in Pulling)
      BY <1>1, <1>3 DEF Lenders, Pulling
    <2>2. /\ Owed <= bal["contract"][Top.token] /\ Transfer("contract", Top.from, Top.token, Owed)
          /\ "contract" \in Holders /\ Top.from \in Holders \ {"contract"}
      BY <1>1, <1>3, <2>1, HolderNames, Counts DEF Repay, Held, ShapeInv
    <2>3. /\ bal' \in Balances
          /\ \A h \in Holders \ {"contract", Top.from} : bal'[h] = bal[h]
          /\ \A t \in Tokens \ {Top.token} : bal'[Top.from][t] = bal[Top.from][t]
          /\ bal'[Top.from][Top.token] = bal[Top.from][Top.token] + Owed
      BY <1>1, <2>2, TransferEffect DEF ShapeInv, TypeOK
    <2>4. earned' = [earned EXCEPT ![Top.from][Top.token] = @ + Top.fee]
      BY <1>3 DEF Repay
    <2>5. /\ earned' \in PerLender(Nat)
          /\ \A l \in Lenders, t \in Tokens :
               earned'[l][t] = earned[l][t] + IF Top.from = l /\ Top.token = t THEN Top.fee ELSE 0
      <3>1. earned \in [Lenders -> [Tokens -> Nat]]
        BY DEF ShapeInv, TypeOK, PerLender
      <3> QED BY <1>1, <1>3, <2>4, <3>1 DEF PerLender
    <2>6. ASSUME NEW l \in Lenders, NEW t \in Tokens
          PROVE  Net(l, t)' = Net(l, t) + Lent(Top, l, t)
      <3>1. bal[l][t] \in Nat /\ earned[l][t] \in Nat /\ l \in Holders /\ l # "contract"
        BY Counts, HolderNames DEF ShapeInv
      <3>2. bal'[l][t] = bal[l][t] + IF Top.from = l /\ Top.token = t THEN Owed ELSE 0
        BY <2>3, <3>1
      <3> QED BY <1>1, <2>5, <3>1, <3>2 DEF Net, Lent, Owed
    <2> QED BY <1>2, <1>3, <2>3, <2>5, <2>6, HolderNames
  <1>4. CASE Top.from \notin Lenders
    <2>1. Top.callback # "balancer" /\ Top.from \notin Pulling
      BY <1>1, <1>4 DEF Lenders
    <2>2. bal' = bal /\ earned' = earned
      BY <1>4, <2>1 DEF Repay
    <2>3. \A l \in Lenders, t \in Tokens : Net(l, t) + 0 = Net(l, t)
      BY Counts DEF ShapeInv
    <2> QED BY <1>2, <1>4, <2>2, <2>3 DEF Net, Lent, ShapeInv, TypeOK
  <1> QED BY <1>3, <1>4

-----------------------------------------------------------------------------
(* What a transaction leaves behind.                                       *)

LEMMA SettleEffect ==
  ASSUME ShapeInv, Settle
  PROVE  /\ call \in Call /\ call.profitToken \in Tokens /\ Held(call.profitToken) \in Nat
         /\ bal' \in Balances
         /\ \A h \in Holders \ {"contract", "owner"} : bal'[h] = bal[h]
         /\ \A t \in Tokens \ {call.profitToken} : bal'["owner"][t] = bal["owner"][t]
         /\ bal'["owner"][call.profitToken]
              = bal["owner"][call.profitToken] + Held(call.profitToken)
         /\ bal'["contract"][call.profitToken] = 0
         /\ committed'.bal = bal' /\ committed'.approvals = approvals
         /\ committed' \in Committed
         /\ step' = "idle" /\ frames = <<>> /\ frames' = <<>>
  <1>1. call \in Call /\ call.profitToken \in Tokens /\ frames = <<>> /\ step' = "idle"
    BY CallFields DEF Settle, Goto, ShapeInv, TypeOK, ContextClean
  <1>2. Held(call.profitToken) \in Nat
    BY <1>1, Counts, HolderNames DEF Held, ShapeInv
  <1>3. "contract" \in Holders /\ ProfitReceiver \in Holders \ {"contract"} /\ ProfitReceiver = "owner"
    BY DEF Holders, ProfitReceiver
  <1>4. Transfer("contract", ProfitReceiver, call.profitToken, Held(call.profitToken))
    BY DEF Settle
  <1>5. /\ bal' \in Balances
        /\ \A h \in Holders \ {"contract", "owner"} : bal'[h] = bal[h]
        /\ \A t \in Tokens \ {call.profitToken} : bal'["owner"][t] = bal["owner"][t]
        /\ bal'["owner"][call.profitToken]
             = bal["owner"][call.profitToken] + Held(call.profitToken)
        /\ bal'["contract"][call.profitToken] = Held(call.profitToken) - Held(call.profitToken)
    BY <1>1, <1>2, <1>3, <1>4, TransferEffect DEF Held, ShapeInv, TypeOK
  <1>6. committed' = [bal |-> bal', approvals |-> approvals]
    BY DEF Settle
  <1>7. committed' \in Committed
    BY <1>5, <1>6 DEF Committed, ShapeInv, TypeOK
  <1> QED BY <1>1, <1>2, <1>5, <1>6, <1>7 DEF Settle

\* between transactions only what is committed changes, and with it what there is
LEMMA CommittedBalances ==
  ASSUME TypeOK, bal' \in Balances, committed' = [committed EXCEPT !.bal = bal']
  PROVE  /\ committed' \in Committed
         /\ committed'.bal = bal' /\ committed'.approvals = committed.approvals
  BY DEF TypeOK, Committed

LEMMA SweepEffect ==
  ASSUME TypeOK, NEW t \in Tokens, NEW to \in {"owner", "cold", "other"}, Sweep(t, to)
  PROVE  /\ bal' \in Balances
         /\ \A l \in Lenders : bal'[l] = bal[l]
         /\ committed' \in Committed
         /\ committed'.bal = bal' /\ committed'.approvals = committed.approvals
  <1>1. /\ "contract" \in Holders /\ to \in Holders \ {"contract"} /\ to \notin Lenders
        /\ bal["contract"][t] \in Nat
    BY HolderNames, Counts
  <1>2. bal' \in Balances /\ \A h \in Holders \ {"contract", to} : bal'[h] = bal[h]
    BY <1>1, TransferEffect DEF Sweep, Held, TypeOK
  <1>3. committed' = [committed EXCEPT !.bal = bal']
    BY DEF Sweep
  <1> QED BY <1>1, <1>2, <1>3, CommittedBalances, HolderNames

LEMMA OutsideEffect ==
  ASSUME TypeOK, NEW t \in Tokens, NEW left \in Moves, Outside(t, left), step = "idle"
  PROVE  /\ bal' \in Balances
         /\ \A h \in Holders \ {"contract"} : bal'[h] = bal[h]
         /\ \A u \in Tokens \ {t} : bal'["contract"][u] = bal["contract"][u]
         /\ bal'["contract"][t] = left /\ left \in Nat
         /\ committed' \in Committed
         /\ committed'.bal = bal' /\ committed'.approvals = committed.approvals
  <1>1. left \in Nat /\ bal' = [bal EXCEPT !["contract"][t] = left]
    BY Numbers DEF Outside
  <1>2. /\ bal' \in Balances
        /\ \A h \in Holders \ {"contract"} : bal'[h] = bal[h]
        /\ \A u \in Tokens \ {t} : bal'["contract"][u] = bal["contract"][u]
        /\ bal'["contract"][t] = left
    BY <1>1, HolderNames DEF TypeOK, Balances
  <1>3. committed' = [committed EXCEPT !.bal = bal']
    BY DEF Outside
  <1> QED BY <1>1, <1>2, <1>3, CommittedBalances

-----------------------------------------------------------------------------
(* Types, and the shape of the stack.                                      *)

LEMMA ShapeInit == Init => ShapeInv
  <1> SUFFICES ASSUME Init PROVE ShapeInv
    OBVIOUS
  <1>1. BaseTypes
    <2>1. {"aave", "morpho"} \in SUBSET Protocols
      BY ExecutorAssumption DEF ExecutorAssumption
    <2> QED BY <2>1, BaseInvInit DEF Init, BaseInv
  <1>2. bal \in Balances
    BY Numbers DEF Init, Balances
  <1>3. committed \in Committed /\ approvals \subseteq Approvals
    BY <1>2 DEF Init, Committed
  <1>4. frames \in Seq(Frame) /\ Len(frames) = 0
    BY EmptySeq DEF Init
  <1>5. ContextClean /\ CallersInv
    BY <1>4 DEF Init, ContextClean, NoFlash, CallersInv
  <1> QED BY <1>1, <1>2, <1>3, <1>4, <1>5, NoFlashType, NoFeesType
          DEF Init, ShapeInv, TypeOK

LEMMA TypeStep ==
  ASSUME ShapeInv, BaseTypes', [Next]_vars
  PROVE  TypeOK'
  <1> USE DEF Goto
  <1>1. CASE UNCHANGED vars
    BY <1>1 DEF ShapeInv, TypeOK
  <1>2. ASSUME NEW c \in Call, Enter(c) PROVE TypeOK'
    <2>1. flash' \in Context
      BY <1>2, CallFields DEF Enter, Context
    <2> QED BY <1>2, <2>1 DEF Enter, ShapeInv, TypeOK
  <1>3. CASE SomeOpens
    <2>1. PICK callback \in Providers, from \in Lenders \union {"others"}, token \in Tokens,
               amount \in Nat, fee \in Nat, job \in Job \union {NoData} :
                 Opens(callback, from, token, amount, fee, job)
      BY <1>3 DEF SomeOpens
    <2>2. bal' \in Balances /\ frames' \in Seq(Frame)
      BY <2>1, OpenEffect
    <2> QED BY <2>1, <2>2 DEF Opens, ShapeInv, TypeOK
  <1>4. ASSUME NEW place \in Places, Goes(place) PROVE TypeOK'
    <2>1. frames' \in Seq(Frame)
      BY <1>4, InCallback, Moved DEF Goes
    <2> QED BY <1>4, <2>1 DEF Goes, Move, ContractOnly, ShapeInv, TypeOK
  <1>5. CASE Meanwhile
    BY <1>5 DEF Meanwhile, ContractOnly, ShapeInv, TypeOK
  <1>6. CASE Repay
    <2>1. frames' \in Seq(Frame) /\ step = "callback"
      BY <1>6, InCallback, Popped DEF Repay, At
    <2>2. step' \in {"end", "callback"} /\ UNCHANGED <<baseVars, context, flash>>
      BY <1>6 DEF Repay
    <2> QED BY <1>6, <2>1, <2>2, RepayEffect DEF ShapeInv, TypeOK
  <1>7. CASE EndFlash
    BY <1>7, NoFlashType DEF EndFlash, ClearedContext, ShapeInv, TypeOK
  <1>8. CASE Settle
    <2>1. bal' \in Balances /\ committed' \in Committed
      BY <1>8, SettleEffect
    <2> QED BY <1>8, <2>1, NoFeesType DEF Settle, ShapeInv, TypeOK
  <1>9. CASE Revert
    <2>1. bal' \in Balances /\ approvals' \subseteq Approvals
      BY <1>9 DEF Revert, ShapeInv, TypeOK, Committed
    <2> QED BY <1>9, <2>1, NoFlashType, NoFeesType, EmptySeq DEF Revert, ShapeInv, TypeOK
  <1>10. ASSUME NEW t \in Tokens, NEW left \in Moves, Outside(t, left), step = "idle"
         PROVE  TypeOK'
    BY <1>10, OutsideEffect DEF Outside, ShapeInv, TypeOK
  <1>11. ASSUME NEW t \in Tokens, NEW to \in {"owner", "cold", "other"}, Sweep(t, to)
         PROVE  TypeOK'
    BY <1>11, SweepEffect DEF Sweep, ShapeInv, TypeOK
  <1>12. CASE Configure
    BY <1>12 DEF Configure, ShapeInv, TypeOK
  <1> QED BY <1>1, <1>2, <1>3, <1>4, <1>5, <1>6, <1>7, <1>8, <1>9, <1>10, <1>11, <1>12,
             StepKinds

LEMMA StackIsEmpty == ASSUME frames = <<>> PROVE Len(frames) = 0
  BY EmptySeq

LEMMA ContextStep ==
  ASSUME ShapeInv, [Next]_vars
  PROVE  ContextClean' /\ CallersInv'
  <1> USE DEF Goto
  <1>1. CASE UNCHANGED vars
    BY <1>1 DEF ShapeInv, ContextClean, CallersInv, Top
  <1>2. ASSUME NEW c \in Call, Enter(c) PROVE ContextClean' /\ CallersInv'
    BY <1>2 DEF Enter, ShapeInv, ContextClean, CallersInv
  <1>3. CASE SomeOpens
    <2>1. PICK callback \in Providers, from \in Lenders \union {"others"}, token \in Tokens,
               amount \in Nat, fee \in Nat, job \in Job \union {NoData} :
                 Opens(callback, from, token, amount, fee, job)
      BY <1>3 DEF SomeOpens
    <2>2. /\ frames' \in Seq(Frame) /\ Len(frames) \in Nat /\ Len(frames') = Len(frames) + 1
          /\ \A i \in 1..Len(frames) : frames'[i] = frames[i]
          /\ frames'[Len(frames) + 1].callback = callback
          /\ frames'[Len(frames) + 1].from = from
          /\ frames'[Len(frames) + 1].at = "received"
      BY <2>1, OpenEffect
    <2>3. /\ step \in {"lend", "callback"} /\ step' = "callback"
          /\ step = "callback" => Top.at = "out"
          /\ from = IF callback = "uniswap" THEN "others" ELSE callback
          /\ UNCHANGED <<context, flash>>
      BY <2>1 DEF Opens
    <2>4. \A i \in 1..Len(frames) : frames[i].at = "out"
      <3>1. CASE step = "lend"
        BY <3>1, StackIsEmpty DEF ShapeInv, ContextClean
      <3>2. CASE step = "callback"
        <4>1. \A i \in 1..(Len(frames) - 1) : frames[i].at = "out"
          BY DEF ShapeInv, ContextClean
        <4>2. frames[Len(frames)].at = "out"
          BY <2>3, <3>2 DEF Top
        <4> QED BY <2>2, <4>1, <4>2
      <3> QED BY <2>3, <3>1, <3>2
    <2>5. frames' # <<>>
      BY <2>2, EmptySeq
    <2>6. ContextClean'
      BY <2>2, <2>3, <2>4, <2>5 DEF ShapeInv, ContextClean
    <2>7. CallersInv'
      BY <2>2, <2>3 DEF ShapeInv, CallersInv
    <2> QED BY <2>6, <2>7
  <1>4. ASSUME NEW place \in Places, Goes(place) PROVE ContextClean' /\ CallersInv'
    <2>1. /\ step = "callback" /\ step' = step /\ UNCHANGED <<context, flash>>
          /\ place \in {"swap", "out"} => Top.job \in Job
      BY <1>4 DEF Goes, Move
    <2>2. /\ frames' \in Seq(Frame) /\ Len(frames') = Len(frames)
          /\ Len(frames) \in Nat /\ Len(frames) >= 1
          /\ \A i \in 1..(Len(frames) - 1) : frames'[i] = frames[i]
          /\ frames'[Len(frames)] = [Top EXCEPT !.at = place]
          /\ Top \in Frame
      BY <1>4, InCallback, Moved DEF Goes
    <2>3. /\ frames'[Len(frames)].callback = Top.callback
          /\ frames'[Len(frames)].from = Top.from
          /\ frames'[Len(frames)].job = Top.job
          /\ frames'[Len(frames)].at = place
      BY <2>2 DEF Frame
    <2>4. frames' # <<>>
      BY <2>2, EmptySeq
    <2>5. ContextClean'
      BY <2>1, <2>2, <2>4 DEF ShapeInv, ContextClean
    <2>6. CallersInv'
      <3> SUFFICES ASSUME NEW i \in 1..Len(frames')
                   PROVE  /\ frames'[i].from = IF frames'[i].callback = "uniswap" THEN "others"
                                                ELSE frames'[i].callback
                          /\ frames'[i].at \in {"swap", "out"} => frames'[i].job \in Job
        BY DEF CallersInv
      <3>1. CASE i = Len(frames)
        BY <2>1, <2>3, <3>1, InCallback
      <3>2. CASE i # Len(frames)
        BY <2>2, <3>2 DEF ShapeInv, CallersInv
      <3> QED BY <3>1, <3>2
    <2> QED BY <2>5, <2>6
  <1>5. CASE Meanwhile
    BY <1>5 DEF Meanwhile, ShapeInv, ContextClean, CallersInv
  <1>6. CASE Repay
    <2>1. /\ step = "callback" /\ UNCHANGED <<context, flash>>
          /\ step' = IF Len(frames) = 1 THEN "end" ELSE "callback"
      BY <1>6 DEF Repay, At
    <2>2. /\ frames' \in Seq(Frame) /\ Len(frames') = Len(frames) - 1
          /\ Len(frames) \in Nat /\ Len(frames) >= 1
          /\ \A i \in 1..(Len(frames) - 1) : frames'[i] = frames[i]
      BY <1>6, <2>1, InCallback, Popped DEF Repay
    <2>3. frames' # <<>> <=> Len(frames) # 1
      BY <2>2, EmptySeq
    <2>4. ContextClean'
      BY <2>1, <2>2, <2>3 DEF ShapeInv, ContextClean
    <2>5. CallersInv'
      BY <2>2 DEF ShapeInv, CallersInv
    <2> QED BY <2>4, <2>5
  <1>7. CASE EndFlash
    BY <1>7 DEF EndFlash, ClearedContext, NoFlash, ShapeInv, ContextClean, CallersInv
  <1>8. CASE Settle
    BY <1>8 DEF Settle, ShapeInv, ContextClean, CallersInv
  <1>9. CASE Revert
    <2>1. Len(frames') = 0
      BY <1>9, EmptySeq DEF Revert
    <2> QED BY <1>9, <2>1 DEF Revert, NoFlash, ContextClean, CallersInv
  <1>10. ASSUME NEW t \in Tokens, NEW left \in Moves, Outside(t, left), step = "idle"
         PROVE  ContextClean' /\ CallersInv'
    BY <1>10 DEF Outside, ShapeInv, ContextClean, CallersInv
  <1>11. ASSUME NEW t \in Tokens, NEW to \in {"owner", "cold", "other"}, Sweep(t, to)
         PROVE  ContextClean' /\ CallersInv'
    BY <1>11 DEF Sweep, ShapeInv, ContextClean, CallersInv
  <1>12. CASE Configure
    BY <1>12 DEF Configure, ShapeInv, ContextClean, CallersInv
  <1> QED BY <1>1, <1>2, <1>3, <1>4, <1>5, <1>6, <1>7, <1>8, <1>9, <1>10, <1>11, <1>12,
             StepKinds

LEMMA ShapeInvariant == Spec => []ShapeInv
  <1>1. ShapeInv /\ BaseInv' /\ [Next]_vars => ShapeInv'
    BY TypeStep, ContextStep DEF ShapeInv, BaseInv
  <1> QED BY ShapeInit, <1>1, BaseInvariant, PTL DEF Spec

\* No transaction drives a balance below zero, and every variable keeps its type.
THEOREM TypeCorrect == Spec => []TypeOK
  BY ShapeInvariant, PTL DEF ShapeInv

\* No path through the entry points leaves the lock, the flag, the loan context or an
\* unfinished callback behind, however the callbacks are nested and whoever makes them
\* (FlashExecutor.sol:113-123, 144-154 and 222-277, ExecutorBase.sol:32-43).
THEOREM ContextAlwaysClean == Spec => []ContextClean
  BY ShapeInvariant, PTL DEF ShapeInv

-----------------------------------------------------------------------------
(* What is committed, and what a transaction has done to it so far.        *)

LedgerInv ==
  /\ step \in {"idle", "lend"} => bal = committed.bal /\ earned = NoFees
  /\ step = "idle" => approvals = committed.approvals
  /\ committed.approvals \subseteq approvals
  /\ \A h \in {"owner", "cold", "other"} : bal[h] = committed.bal[h]

\* Of what it has of its own a lender is short by the loans that have not been repaid: each
\* callback knows what was there before it, and the one below it what that one had lent.
LoansInv ==
  \A l \in Lenders, t \in Tokens :
    /\ frames = <<>> => Net(l, t) = committed.bal[l][t]
    /\ frames # <<>> =>
         /\ frames[1].before[l][t] = committed.bal[l][t]
         /\ Net(l, t) = Top.before[l][t] - Lent(Top, l, t)
    /\ \A i \in 1..(Len(frames) - 1) :
         frames[i + 1].before[l][t] = frames[i].before[l][t] - Lent(frames[i], l, t)

LEMMA LedgerInit == Init => LedgerInv
  BY DEF Init, LedgerInv

LEMMA LedgerStep ==
  ASSUME ShapeInv, LedgerInv, [Next]_vars
  PROVE  LedgerInv'
  <1> USE DEF Goto
  <1>1. CASE UNCHANGED vars
    BY <1>1 DEF LedgerInv
  <1>2. ASSUME NEW c \in Call, Enter(c) PROVE LedgerInv'
    BY <1>2 DEF Enter, LedgerInv
  <1>3. CASE SomeOpens
    <2>1. PICK callback \in Providers, from \in Lenders \union {"others"}, token \in Tokens,
               amount \in Nat, fee \in Nat, job \in Job \union {NoData} :
                 Opens(callback, from, token, amount, fee, job)
      BY <1>3 DEF SomeOpens
    <2>2. \A h \in {"owner", "cold", "other"} : bal'[h] = bal[h]
      BY <2>1, OpenEffect
    <2> QED BY <2>1, <2>2 DEF Opens, LedgerInv
  <1>4. ASSUME NEW place \in Places, Goes(place) PROVE LedgerInv'
    BY <1>4, HolderNames DEF Goes, Move, ContractOnly, LedgerInv
  <1>5. CASE Meanwhile
    BY <1>5, HolderNames DEF Meanwhile, ContractOnly, LedgerInv
  <1>6. CASE Repay
    <2>1. step' \notin {"idle", "lend"} /\ committed' = committed
      BY <1>6 DEF Repay
    <2> QED BY <1>6, <2>1, RepayEffect DEF LedgerInv
  <1>7. CASE EndFlash
    BY <1>7 DEF EndFlash, LedgerInv
  <1>8. CASE Settle
    <2>1. earned' = NoFees /\ approvals' = approvals
      BY <1>8 DEF Settle
    <2> QED BY <1>8, <2>1, SettleEffect DEF LedgerInv
  <1>9. CASE Revert
    BY <1>9 DEF Revert, LedgerInv
  <1>10. ASSUME NEW t \in Tokens, NEW left \in Moves, Outside(t, left), step = "idle"
         PROVE  LedgerInv'
    <2>1. UNCHANGED <<step, approvals, earned>>
      BY <1>10 DEF Outside
    <2> QED BY <1>10, <2>1, OutsideEffect DEF ShapeInv, LedgerInv
  <1>11. ASSUME NEW t \in Tokens, NEW to \in {"owner", "cold", "other"}, Sweep(t, to)
         PROVE  LedgerInv'
    <2>1. step = "idle" /\ UNCHANGED <<step, approvals, earned>>
      BY <1>11 DEF Sweep
    <2> QED BY <1>11, <2>1, SweepEffect DEF ShapeInv, LedgerInv
  <1>12. CASE Configure
    BY <1>12 DEF Configure, LedgerInv
  <1> QED BY <1>1, <1>2, <1>3, <1>4, <1>5, <1>6, <1>7, <1>8, <1>9, <1>10, <1>11, <1>12,
             StepKinds

LEMMA LedgerInvariant == Spec => [](ShapeInv /\ LedgerInv)
  <1>1. ShapeInv /\ LedgerInv /\ [Next]_vars => LedgerInv'
    BY LedgerStep
  <1> QED BY LedgerInit, <1>1, ShapeInvariant, PTL DEF Spec

\* before the first callback the lenders are where they were
BeforeTheLoan == step \in {"idle", "lend"}

LEMMA NoLoans == ShapeInv /\ LedgerInv /\ BeforeTheLoan => LoansInv
  <1> SUFFICES ASSUME ShapeInv, LedgerInv, BeforeTheLoan PROVE LoansInv
    OBVIOUS
  <1> USE DEF BeforeTheLoan
  <1>1. frames = <<>> /\ Len(frames) = 0
    BY StackIsEmpty DEF ShapeInv, ContextClean
  <1>2. \A l \in Lenders, t \in Tokens : Net(l, t) = committed.bal[l][t]
    <2> SUFFICES ASSUME NEW l \in Lenders, NEW t \in Tokens
                 PROVE  bal[l][t] - earned[l][t] = committed.bal[l][t]
      BY DEF Net
    <2>1. earned[l][t] = 0 /\ bal[l][t] = committed.bal[l][t] /\ bal[l][t] \in Nat
      BY Counts DEF ShapeInv, LedgerInv, NoFees
    <2> QED BY <2>1
  <1> QED BY <1>1, <1>2 DEF LoansInv

\* nothing has happened to the lenders and to what the callbacks remember
LEMMA LoansStay ==
  ASSUME LoansInv, Len(frames') = Len(frames), Len(frames) \in Nat,
         frames' = <<>> <=> frames = <<>>, frames # <<>> => Len(frames) >= 1,
         \A i \in 1..Len(frames) :
           /\ frames'[i].before = frames[i].before /\ frames'[i].from = frames[i].from
           /\ frames'[i].token = frames[i].token /\ frames'[i].amount = frames[i].amount,
         \A l \in Lenders : bal'[l] = bal[l], UNCHANGED <<earned, committed>>
  PROVE  LoansInv'
  <1>1. \A l \in Lenders, t \in Tokens : Net(l, t)' = Net(l, t)
    BY DEF Net
  <1>2. \A l \in Lenders, t \in Tokens, i \in 1..Len(frames) :
          Lent(frames'[i], l, t) = Lent(frames[i], l, t)
    BY DEF Lent
  <1>3. frames # <<>> => 1 \in 1..Len(frames) /\ Len(frames) \in 1..Len(frames)
    OBVIOUS
  <1>4. \A i \in 1..(Len(frames) - 1) : i \in 1..Len(frames) /\ i + 1 \in 1..Len(frames)
    OBVIOUS
  <1>5. frames # <<>> => \A l \in Lenders, t \in Tokens :
          /\ Top'.before[l][t] = Top.before[l][t]
          /\ Lent(Top', l, t) = Lent(Top, l, t)
    BY <1>2, <1>3 DEF Top
  <1> SUFFICES ASSUME NEW l \in Lenders, NEW t \in Tokens
               PROVE  /\ frames' = <<>> => Net(l, t)' = committed'.bal[l][t]
                      /\ frames' # <<>> =>
                           /\ frames'[1].before[l][t] = committed'.bal[l][t]
                           /\ Net(l, t)' = Top'.before[l][t] - Lent(Top', l, t)
                      /\ \A i \in 1..(Len(frames') - 1) :
                           frames'[i + 1].before[l][t]
                             = frames'[i].before[l][t] - Lent(frames'[i], l, t)
    BY DEF LoansInv
  <1>6. frames' = <<>> => Net(l, t)' = committed'.bal[l][t]
    BY <1>1 DEF LoansInv
  <1>7. ASSUME frames' # <<>>
        PROVE  /\ frames'[1].before[l][t] = committed'.bal[l][t]
               /\ Net(l, t)' = Top'.before[l][t] - Lent(Top', l, t)
    BY <1>1, <1>3, <1>5, <1>7 DEF LoansInv
  <1>8. ASSUME NEW i \in 1..(Len(frames') - 1)
        PROVE  frames'[i + 1].before[l][t] = frames'[i].before[l][t] - Lent(frames'[i], l, t)
    BY <1>2, <1>4 DEF LoansInv
  <1> QED BY <1>6, <1>7, <1>8

LEMMA LoansStep ==
  ASSUME ShapeInv, LoansInv, ~BeforeTheLoan', [Next]_vars
  PROVE  LoansInv'
  <1>0. Len(frames) \in Nat /\ (frames # <<>> => Len(frames) >= 1)
    BY EmptySeq, LenProperties DEF ShapeInv, TypeOK
  <1>1. ASSUME UNCHANGED <<frames, earned, committed>>, \A l \in Lenders : bal'[l] = bal[l]
        PROVE  LoansInv'
    BY <1>0, <1>1, LoansStay
  <1>2. CASE SomeOpens
    <2>1. PICK callback \in Providers, from \in Lenders \union {"others"}, token \in Tokens,
               amount \in Nat, fee \in Nat, job \in Job \union {NoData} :
                 Opens(callback, from, token, amount, fee, job)
      BY <1>2 DEF SomeOpens
    <2> DEFINE n == Len(frames)
    <2>2. /\ n \in Nat /\ Len(frames') = n + 1 /\ Len(frames') - 1 = n /\ frames' # <<>>
          /\ \A i \in 1..n : frames'[i] = frames[i]
          /\ Top' = frames'[n + 1]
      <3>1. /\ frames' \in Seq(Frame) /\ n \in Nat /\ Len(frames') = n + 1
            /\ \A i \in 1..n : frames'[i] = frames[i]
        BY <2>1, OpenEffect
      <3>2. Len(frames') - 1 = n /\ Len(frames') # 0
        BY <3>1
      <3>3. frames' # <<>>
        BY <3>2, EmptySeq
      <3>4. Top' = frames'[n + 1]
        BY <3>1 DEF Top
      <3> QED BY <3>1, <3>2, <3>3, <3>4
    <2>3. committed' = committed
      BY <2>1 DEF Opens
    <2> SUFFICES ASSUME NEW l \in Lenders, NEW t \in Tokens
                 PROVE  /\ frames'[1].before[l][t] = committed.bal[l][t]
                        /\ Net(l, t)' = Top'.before[l][t] - Lent(Top', l, t)
                        /\ \A i \in 1..n :
                             frames'[i + 1].before[l][t]
                               = frames'[i].before[l][t] - Lent(frames'[i], l, t)
      BY <2>2, <2>3 DEF LoansInv
    <2>4. /\ frames'[n + 1].before[l][t] = Net(l, t)
          /\ Net(l, t)' = Net(l, t) - Lent(frames'[n + 1], l, t)
      BY <2>1, OpenEffect
    <2>5. CASE frames = <<>>
      <3>1. n = 0 /\ Net(l, t) = committed.bal[l][t]
        BY <2>5, StackIsEmpty DEF LoansInv
      <3> QED BY <2>2, <2>4, <3>1
    <2>6. CASE frames # <<>>
      <3>1. n >= 1 /\ Top = frames[n]
        BY <1>0, <2>6 DEF Top
      <3>2. /\ frames[1].before[l][t] = committed.bal[l][t]
            /\ Net(l, t) = frames[n].before[l][t] - Lent(frames[n], l, t)
            /\ \A i \in 1..(n - 1) :
                 frames[i + 1].before[l][t] = frames[i].before[l][t] - Lent(frames[i], l, t)
        BY <2>6, <3>1 DEF LoansInv
      <3>3. frames'[1].before[l][t] = committed.bal[l][t]
        BY <2>2, <3>1, <3>2
      <3>4. ASSUME NEW i \in 1..n
            PROVE  frames'[i + 1].before[l][t] = frames'[i].before[l][t] - Lent(frames'[i], l, t)
        <4>1. CASE i = n
          BY <2>2, <2>4, <3>1, <3>2, <4>1
        <4>2. CASE i # n
          <5>0. n \in Int
            BY <2>2
          <5>1. i \in 1..(n - 1) /\ i + 1 \in 1..n
            BY <4>2, <5>0
          <5> QED BY <2>2, <3>2, <5>1
        <4> QED BY <4>1, <4>2
      <3> QED BY <2>2, <2>4, <3>3, <3>4
    <2> QED BY <2>5, <2>6
  <1>3. ASSUME NEW place \in Places, Goes(place) PROVE LoansInv'
    <2>1. /\ frames \in Seq(Frame) /\ Len(frames') = Len(frames)
          /\ frames' \in Seq(Frame) /\ Len(frames) >= 1 /\ Top \in Frame
          /\ Top = frames[Len(frames)]
          /\ \A i \in 1..(Len(frames) - 1) : frames'[i] = frames[i]
          /\ frames'[Len(frames)] = [Top EXCEPT !.at = place]
      BY <1>3, InCallback, Moved DEF Goes
    <2>2. ASSUME NEW i \in 1..Len(frames)
          PROVE  /\ frames'[i].before = frames[i].before /\ frames'[i].from = frames[i].from
                 /\ frames'[i].token = frames[i].token /\ frames'[i].amount = frames[i].amount
      <3>1. CASE i = Len(frames)
        BY <2>1, <3>1 DEF Frame
      <3>2. CASE i # Len(frames)
        BY <1>0, <2>1, <3>2
      <3> QED BY <3>1, <3>2
    <2>3. frames' = <<>> <=> frames = <<>>
      BY <2>1, EmptySeq
    <2>4. (\A l \in Lenders : bal'[l] = bal[l]) /\ UNCHANGED <<earned, committed>>
      BY <1>3, HolderNames DEF Goes, ContractOnly
    <2> QED BY <1>0, <2>1, <2>2, <2>3, <2>4, LoansStay
  <1>4. CASE Meanwhile
    BY <1>1, <1>4, HolderNames DEF Meanwhile, ContractOnly
  <1>5. CASE Repay
    <2> DEFINE n == Len(frames)
    <2>1. /\ frames \in Seq(Frame) /\ n \in Nat /\ n >= 1 /\ Top = frames[n] /\ frames # <<>>
          /\ frames' \in Seq(Frame) /\ Len(frames') = n - 1
          /\ \A i \in 1..(n - 1) : frames'[i] = frames[i]
          /\ Top \in Frame
      BY <1>5, InCallback, Popped, EmptySeq DEF Repay, At
    <2>2. committed' = committed /\ Top' = frames'[n - 1]
      BY <1>5, <2>1 DEF Repay, Top
    <2>3. frames' = <<>> <=> n = 1
      BY <2>1, EmptySeq
    <2>4. ASSUME NEW l \in Lenders, NEW t \in Tokens
          PROVE  /\ frames[1].before[l][t] = committed.bal[l][t]
                 /\ Net(l, t)' = frames[n].before[l][t]
                 /\ \A i \in 1..(n - 1) :
                      frames[i + 1].before[l][t] = frames[i].before[l][t] - Lent(frames[i], l, t)
      <3>1. /\ frames[1].before[l][t] = committed.bal[l][t]
            /\ Net(l, t) = frames[n].before[l][t] - Lent(Top, l, t)
            /\ \A i \in 1..(n - 1) :
                 frames[i + 1].before[l][t] = frames[i].before[l][t] - Lent(frames[i], l, t)
        BY <2>1 DEF LoansInv
      <3>2. Net(l, t)' = Net(l, t) + Lent(Top, l, t)
        BY <1>5, RepayEffect
      <3>3. frames[n].before[l][t] \in Int /\ Lent(Top, l, t) \in Nat
        BY <2>1, FrameFields DEF PerLender, Lent
      <3>4. Net(l, t)' = frames[n].before[l][t]
        <4>1. Net(l, t)' = (frames[n].before[l][t] - Lent(Top, l, t)) + Lent(Top, l, t)
          BY <3>1, <3>2
        <4> QED BY <3>3, <4>1
      <3> QED BY <3>1, <3>4
    <2>5. CASE n = 1
      <3>1. \A l \in Lenders, t \in Tokens : Net(l, t)' = committed'.bal[l][t]
        BY <2>2, <2>4, <2>5
      <3>2. frames' = <<>> /\ Len(frames') - 1 < 1
        BY <2>1, <2>3, <2>5
      <3> QED BY <2>1, <2>5, <3>1, <3>2 DEF LoansInv
    <2>6. CASE n # 1
      <3>1. /\ frames' # <<>> /\ n - 1 \in 1..(n - 1) /\ 1 \in 1..(n - 1)
            /\ (n - 1) + 1 = n /\ Len(frames') - 1 = n - 2
        BY <2>1, <2>3, <2>6
      <3> SUFFICES ASSUME NEW l \in Lenders, NEW t \in Tokens
                   PROVE  /\ frames'[1].before[l][t] = committed'.bal[l][t]
                          /\ Net(l, t)' = Top'.before[l][t] - Lent(Top', l, t)
                          /\ \A i \in 1..(n - 2) :
                               frames'[i + 1].before[l][t]
                                 = frames'[i].before[l][t] - Lent(frames'[i], l, t)
        BY <3>1 DEF LoansInv
      <3>2. frames'[1] = frames[1] /\ Top' = frames[n - 1]
        BY <2>1, <2>2, <3>1
      <3>3. ASSUME NEW i \in 1..(n - 2)
            PROVE  frames'[i + 1].before[l][t] = frames'[i].before[l][t] - Lent(frames'[i], l, t)
        <4>1. i \in 1..(n - 1) /\ i + 1 \in 1..(n - 1)
          BY <2>1
        <4> QED BY <2>1, <2>4, <4>1
      <3>4. frames[n].before[l][t] = frames[n - 1].before[l][t] - Lent(frames[n - 1], l, t)
        BY <2>4, <3>1
      <3> QED BY <2>2, <2>4, <3>2, <3>3, <3>4
    <2> QED BY <2>5, <2>6
  <1>6. CASE EndFlash
    BY <1>1, <1>6 DEF EndFlash
  <1>7. ASSUME UNCHANGED step, UNCHANGED vars \/ step = "idle" PROVE LoansInv'
    BY <1>1, <1>7 DEF BeforeTheLoan
  <1>8. ~(\E c \in Call : Enter(c)) /\ ~Settle /\ ~Revert
    BY DEF BeforeTheLoan, Enter, Settle, Revert, Goto
  <1>9. \A t, left : Outside(t, left) => UNCHANGED step
    BY DEF Outside
  <1>10. \A t, to : Sweep(t, to) => step = "idle" /\ UNCHANGED step
    BY DEF Sweep
  <1>11. Configure => step = "idle" /\ UNCHANGED step
    BY DEF Configure
  <1> QED BY <1>2, <1>3, <1>4, <1>5, <1>6, <1>7, <1>8, <1>9, <1>10, <1>11, StepKinds

LEMMA LoansInvariant == Spec => [](ShapeInv /\ LedgerInv /\ LoansInv)
  <1>1. Init => BeforeTheLoan
    BY DEF Init, BeforeTheLoan
  <1>2. ShapeInv /\ LoansInv /\ ~BeforeTheLoan' /\ [Next]_vars => LoansInv'
    BY LoansStep
  <1> QED BY <1>1, <1>2, NoLoans, LedgerInvariant, PTL DEF Spec

\* Every lender has its loan back and its premium when the callbacks are over, however
\* many of them ran inside each other (FlashExecutor.sol:222-277).
THEOREM LendersAreRepaid == Spec => []LendersGetTheirFees
  <1>1. ShapeInv /\ LoansInv => LendersGetTheirFees
    <2> SUFFICES ASSUME ShapeInv, LoansInv, step \in {"end", "settle"},
                        NEW l \in Lenders, NEW t \in Tokens
                 PROVE  bal[l][t] = committed.bal[l][t] + earned[l][t]
      BY DEF LendersGetTheirFees
    <2>1. frames = <<>>
      BY DEF ShapeInv, ContextClean
    <2>2. bal[l][t] - earned[l][t] = committed.bal[l][t]
      BY <2>1 DEF LoansInv, Net
    <2>3. bal[l][t] \in Nat /\ earned[l][t] \in Nat
      BY Counts DEF ShapeInv
    <2> QED BY <2>2, <2>3
  <1> QED BY <1>1, LoansInvariant, PTL

-----------------------------------------------------------------------------
(* The contract implements AtomicLiquidation.                              *)

exposed == {a[1] : a \in committed.approvals}

\* What is committed changes when a call returns, when the owner or the executor sweeps, and
\* when somebody sends or spends tokens between two transactions.
LEMMA CommitSteps ==
  ASSUME [Next]_vars, committed' # committed
  PROVE  \/ Settle
         \/ \E t \in Tokens, left \in Moves : Outside(t, left) /\ step = "idle"
         \/ \E t \in Tokens, to \in {"owner", "cold", "other"} : Sweep(t, to)
  BY DEF Next, EnterSome, ExecuteLiquidation, Execute, Enter, Lend, CallBack, SkipEmpty,
         LiquidateAave, LiquidateMorpho, SkipSwap, CallRouter, Return, CheckSolvency,
         Repay, Outside, CalledTokenApproves, EndFlash, Revert, Configure

LEMMA PromisedHolders == Promise!Holders = Holders
  BY DEF Promise!Holders, Holders

LEMMA SettleLiquidates ==
  ASSUME ShapeInv, LedgerInv, LoansInv, Settle
  PROVE  Promise!Liquidate
  <1> DEFINE p == call.profitToken
  <1>1. p \in Tokens /\ committed'.bal = bal' /\ bal' \in Balances /\ frames = <<>>
    BY SettleEffect
  <1>2. \A h \in {"cold", "other"} : committed'.bal[h] = committed.bal[h]
    BY <1>1, SettleEffect, HolderNames DEF LedgerInv
  <1>3. ASSUME NEW l \in Lenders, NEW t \in Tokens
        PROVE  committed'.bal[l][t] >= committed.bal[l][t]
    <2>1. bal[l][t] - earned[l][t] = committed.bal[l][t]
      BY <1>1 DEF LoansInv, Net
    <2>2. bal[l][t] \in Nat /\ earned[l][t] \in Nat /\ committed.bal[l][t] \in Nat
      BY Counts, HolderNames DEF ShapeInv
    <2>3. bal'[l] = bal[l]
      BY SettleEffect, HolderNames
    <2>4. bal[l][t] >= committed.bal[l][t]
      BY <2>1, <2>2
    <2> QED BY <1>1, <2>3, <2>4
  <1>4. /\ committed'.bal["contract"][p] = 0
        /\ committed'.bal["owner"][p] >= committed.bal["owner"][p]
        /\ \A u \in Tokens \ {p} : committed'.bal["owner"][u] = committed.bal["owner"][u]
    <2>1. bal["owner"] = committed.bal["owner"] /\ bal["owner"][p] \in Nat
      BY <1>1, Counts, HolderNames DEF ShapeInv, LedgerInv
    <2> QED BY <1>1, <2>1, SettleEffect
  <1>5. exposed \subseteq exposed' /\ exposed' \subseteq Tokens
    <2>1. committed'.approvals = approvals /\ committed.approvals \subseteq approvals
          /\ approvals \subseteq Approvals
      BY SettleEffect DEF ShapeInv, TypeOK, LedgerInv
    <2>2. \A a \in approvals : a[1] \in Tokens
      BY <2>1 DEF Approvals
    <2> QED BY <2>1, <2>2 DEF exposed
  <1>6. committed'.bal \in [Holders -> [Tokens -> Nat]]
    BY <1>1 DEF Balances
  <1> QED BY <1>1, <1>2, <1>3, <1>4, <1>5, <1>6, PromisedHolders
          DEF Promise!Liquidate, exposed

LEMMA SweepWithdraws ==
  ASSUME ShapeInv, LedgerInv,
         NEW t \in Tokens, NEW to \in {"owner", "cold", "other"}, Sweep(t, to)
  PROVE  Promise!Withdraw(to)
  <1>1. bal = committed.bal /\ bal \in Balances
    BY DEF Sweep, LedgerInv, ShapeInv, TypeOK
  <1>2. bal["contract"][t] - bal["contract"][t] = 0
    BY <1>1, HolderNames DEF Balances
  <1>3. bal' = [bal EXCEPT !["contract"][t] = 0, ![to][t] = @ + bal["contract"][t]]
    BY <1>1, <1>2, HolderNames DEF Sweep, Transfer, Held, Balances
  <1>4. committed'.bal = bal' /\ committed'.approvals = committed.approvals
    BY SweepEffect DEF ShapeInv
  <1> QED BY <1>1, <1>3, <1>4 DEF Promise!Withdraw

LEMMA OutsideIsElsewhere ==
  ASSUME ShapeInv, LedgerInv, NEW t \in Tokens, NEW left \in Moves, Outside(t, left),
         step = "idle"
  PROVE  Promise!Elsewhere
  <1>1. /\ bal = committed.bal /\ approvals = committed.approvals
        /\ \A u \in Tokens : bal["contract"][u] \in Nat
    BY Counts, HolderNames DEF LedgerInv, ShapeInv
  <1>2. /\ bal' \in [Holders -> [Tokens -> Nat]]
        /\ \A h \in Holders \ {"contract"} : bal'[h] = bal[h]
        /\ \A u \in Tokens \ {t} : bal'["contract"][u] = bal["contract"][u]
        /\ bal'["contract"][t] = left /\ left \in Nat
        /\ committed'.bal = bal' /\ committed'.approvals = committed.approvals
    BY OutsideEffect DEF ShapeInv, Balances
  <1>3. left < bal["contract"][t] => t \in exposed
    BY <1>1 DEF Outside, Spendable, Held, exposed
  <1>4. \A u \in Tokens \ exposed : bal'["contract"][u] >= bal["contract"][u]
    BY <1>1, <1>2, <1>3
  <1> QED BY <1>1, <1>2, <1>4, PromisedHolders DEF Promise!Elsewhere, exposed

\* The contract implements AtomicLiquidation: a transaction is one abstract step or none,
\* whatever the router does and whoever calls back while it does it
\* (FlashExecutor.sol:85-160 and 222-362, ExecutorBase.sol:135-166).
THEOREM Implements == Spec => ImplementsAtomic
  <1>1. Init => Promise!Init
    <2> SUFFICES ASSUME Init PROVE Promise!Init
      OBVIOUS
    <2>1. committed.bal \in [Holders -> [Tokens -> Nat]]
      BY ShapeInit DEF ShapeInv, TypeOK, Committed, Balances
    <2>2. committed.approvals = {}
      BY DEF Init
    <2> QED BY <2>1, <2>2, PromisedHolders DEF Promise!Init
  <1>2. ShapeInv /\ LedgerInv /\ LoansInv /\ [Next]_vars
          => [Promise!Next]_<<committed.bal, exposed>>
    <2> SUFFICES ASSUME ShapeInv, LedgerInv, LoansInv, [Next]_vars, committed' # committed
                 PROVE  Promise!Next
      BY DEF exposed
    <2>1. CASE Settle
      BY <2>1, SettleLiquidates DEF Promise!Next
    <2>2. ASSUME NEW t \in Tokens, NEW left \in Moves, Outside(t, left), step = "idle"
          PROVE  Promise!Next
      BY <2>2, OutsideIsElsewhere DEF Promise!Next
    <2>3. ASSUME NEW t \in Tokens, NEW to \in {"owner", "cold", "other"}, Sweep(t, to)
          PROVE  Promise!Next
      BY <2>3, SweepWithdraws DEF Promise!Next
    <2> QED BY <2>1, <2>2, <2>3, CommitSteps
  <1> QED BY <1>1, <1>2, LoansInvariant, PTL
          DEF Spec, ImplementsAtomic, Promise!Spec, exposed

\* What the abstract specification implies of itself.
LEMMA PromiseTypes == Promise!Spec => [](committed.bal \in Balances)
  <1>1. Promise!Init => committed.bal \in Balances
    BY PromisedHolders DEF Promise!Init, Balances
  <1>2. committed.bal \in Balances /\ [Promise!Next]_<<committed.bal, exposed>>
          => (committed.bal \in Balances)'
    <2> SUFFICES ASSUME committed.bal \in Balances,
                        Promise!Next \/ UNCHANGED <<committed.bal, exposed>>
                 PROVE  committed'.bal \in Balances
      OBVIOUS
    <2>1. CASE Promise!Liquidate \/ Promise!Elsewhere
      BY <2>1, PromisedHolders DEF Promise!Liquidate, Promise!Elsewhere, Balances
    <2>2. ASSUME NEW to \in {"owner", "cold", "other"}, Promise!Withdraw(to)
          PROVE  committed'.bal \in Balances
      <3>1. PICK t \in Tokens :
              committed'.bal = [committed.bal EXCEPT !["contract"][t] = 0,
                                  ![to][t] = @ + committed.bal["contract"][t]]
        BY <2>2 DEF Promise!Withdraw
      <3>2. /\ committed.bal \in [Holders -> [Tokens -> Nat]] /\ to \in Holders
            /\ committed.bal["contract"][t] \in Nat /\ committed.bal[to][t] \in Nat
        BY HolderNames DEF Balances
      <3>3. [committed.bal EXCEPT !["contract"][t] = 0] \in [Holders -> [Tokens -> Nat]]
        BY <3>2
      <3> QED BY <3>1, <3>2, <3>3 DEF Balances
    <2> QED BY <2>1, <2>2 DEF Promise!Next
  <1> QED BY <1>1, <1>2, PTL DEF Promise!Spec, exposed

LEMMA PromiseNobodyLoses == Promise!Spec => Promise!NobodyLoses
  <1>1. committed.bal \in Balances /\ [Promise!Next]_<<committed.bal, exposed>>
          => [\A h \in Promise!Holders \ {"contract"}, t \in Tokens :
                (committed.bal)'[h][t] >= committed.bal[h][t]]_<<committed.bal, exposed>>
    <2> SUFFICES ASSUME committed.bal \in Balances, Promise!Next,
                        NEW h \in Promise!Holders \ {"contract"}, NEW t \in Tokens
                 PROVE  committed'.bal[h][t] >= committed.bal[h][t]
      OBVIOUS
    <2>0. h \in Holders \ {"contract"} /\ \A x \in Holders : committed.bal[x][t] \in Nat
      BY PromisedHolders DEF Balances
    <2>1. CASE Promise!Liquidate
      BY <2>0, <2>1 DEF Promise!Liquidate, Holders
    <2>2. ASSUME NEW to \in {"owner", "cold", "other"}, Promise!Withdraw(to)
          PROVE  committed'.bal[h][t] >= committed.bal[h][t]
      BY <2>0, <2>2, HolderNames DEF Promise!Withdraw, Balances
    <2>3. CASE Promise!Elsewhere
      BY <2>0, <2>3, PromisedHolders DEF Promise!Elsewhere
    <2> QED BY <2>1, <2>2, <2>3 DEF Promise!Next
  <1> QED BY <1>1, PromiseTypes, PTL DEF Promise!Spec, Promise!NobodyLoses, exposed

\* No lender and no receiver of what the contract pays out ever ends a transaction poorer in
\* any token, whatever pools, routers and callbacks do with the loan: only what is in the
\* contract can be lost (FlashExecutor.sol:85-160, 222-362).  It follows from the abstract
\* specification.
THEOREM NobodyLosesTokens == Spec => Promise!NobodyLoses
  BY Implements, PromiseNobodyLoses, PTL DEF ImplementsAtomic

\* The owner gets the whole balance, at least the caller's minimum, of every call that
\* returns, and the cold wallet gets nothing (FlashExecutor.sol:156-158,
\* ExecutorBase.sol:147-152).
THEOREM ProfitIsTheOwners == Spec => ProfitToOwner
  <1>1. ShapeInv /\ LedgerInv /\ [Next]_vars =>
          [step = "settle" /\ committed' # committed =>
             /\ bal'["owner"][call.profitToken]
                  >= committed.bal["owner"][call.profitToken] + call.minProfit
             /\ bal'["contract"][call.profitToken] = 0
             /\ bal'["cold"] = committed.bal["cold"]]_vars
    <2> SUFFICES ASSUME ShapeInv, LedgerInv, [Next]_vars, step = "settle",
                        committed' # committed
                 PROVE  /\ bal'["owner"][call.profitToken]
                             >= committed.bal["owner"][call.profitToken] + call.minProfit
                        /\ bal'["contract"][call.profitToken] = 0
                        /\ bal'["cold"] = committed.bal["cold"]
      OBVIOUS
    <2>1. Settle
      BY CommitSteps DEF Sweep
    <2>2. bal["owner"] = committed.bal["owner"] /\ bal["cold"] = committed.bal["cold"]
      BY DEF LedgerInv
    <2>3. /\ bal["owner"][call.profitToken] \in Nat /\ call.minProfit \in Nat
          /\ Held(call.profitToken) \in Nat
      BY <2>1, SettleEffect, CallFields, Counts, HolderNames DEF ShapeInv
    <2>4. Held(call.profitToken) >= call.minProfit
      BY <2>1 DEF Settle, Enough
    <2>5. bal'["cold"] = bal["cold"]
      BY <2>1, SettleEffect, HolderNames
    <2> QED BY <2>1, <2>2, <2>3, <2>4, <2>5, SettleEffect
  <1> QED BY <1>1, LedgerInvariant, PTL DEF Spec, ProfitToOwner

-----------------------------------------------------------------------------
(* The bot's calls.                                                        *)

LEMMA BotCallTypes ==
  ASSUME NEW pos \in Position, NEW lender \in Lenders, NEW min \in Limits \union {0},
         NEW collateral \in Tokens, NEW router \in Routers \union {NoRouter}
  PROVE  BotCall(pos, lender, min, collateral, router) \in Call
  <1>1. DecodedProtocol(StratData(pos)) \in Protocols
    BY CallAssumption, ExecutorAssumption
       DEF CallAssumption, ExecutorAssumption, DecodedProtocol
  <1>2. pos.debt \in Tokens /\ pos.amount \in Amounts
    BY DEF Position
  <1>3. [protocol |-> DecodedProtocol(StratData(pos)), collateral |-> collateral,
         router |-> router] \in Job
    BY <1>1 DEF Job
  <1> QED BY <1>2, <1>3 DEF BotCall, Call, Providers

LEMMA BotSubmitsIsACall == BotSubmits => EnterSome
  <1> SUFFICES ASSUME BotSubmits PROVE EnterSome
    OBVIOUS
  <1>1. PICK pos \in Position, lender \in Lenders, min \in Limits \union {0},
             collateral \in Tokens, router \in Routers \union {NoRouter} :
               Execute(BotCall(pos, lender, min, collateral, router))
    BY DEF BotSubmits
  <1>2. BotCall(pos, lender, min, collateral, router) \in Call
    BY BotCallTypes
  <1> QED BY <1>1, <1>2 DEF BotSubmits, EnterSome

\* What the bot sends is a call like any other: every theorem about the contract holds of
\* the contract with the bot in front of it.
THEOREM BotCallsAreCalls == CallSpec => Spec
  <1>1. CallInit => Init
    BY DEF CallInit
  <1>2. [CallNext]_callVars => [Next]_vars
    BY BotSubmitsIsACall DEF CallNext, ContractStep, Next, callVars
  <1> QED BY <1>1, <1>2, PTL DEF CallSpec, Spec

\* With the bot in front of it the contract keeps every promise it makes without
\* (flash_loan.rs:184-214).
THEOREM ContractKeepsItsWord ==
  CallSpec => /\ [](TypeOK /\ ContextClean /\ LendersGetTheirFees)
              /\ TimelockRespected /\ ProfitToOwner
              /\ ImplementsAtomic /\ Promise!NobodyLoses
  BY BotCallsAreCalls, TypeCorrect, ContextAlwaysClean, LendersAreRepaid, TimelockHolds,
     ProfitIsTheOwners, Implements, NobodyLosesTokens, PTL

\* what a bot's call looks like until it reverts
RefusedInv ==
  target # NoPosition =>
    /\ call.job # NoData /\ call.job.protocol = Unlisted
    /\ \/ step = "lend" /\ frames = <<>>
       \/ /\ step = "callback" /\ Len(frames) = 1
          /\ Top.at = "received" /\ Top.job = call.job

LEMMA BotSubmitsRefused ==
  ASSUME ShapeInv, BotSubmits
  PROVE  RefusedInv'
  <1>1. PICK pos \in Position, lender \in Lenders, min \in Limits \union {0},
             collateral \in Tokens, router \in Routers \union {NoRouter} :
               Execute(BotCall(pos, lender, min, collateral, router))
    BY DEF BotSubmits
  <1>2. StratData(pos)[1] = "0x20"
    BY DEF StratData
  <1>3. DecodedProtocol(StratData(pos)) = Unlisted
    BY <1>2 DEF DecodedProtocol
  <1> DEFINE job == [protocol |-> Unlisted, collateral |-> collateral, router |-> router]
  <1>4. /\ step' = "lend" /\ frames' = frames
        /\ call' = BotCall(pos, lender, min, collateral, router)
    BY <1>1 DEF Execute, Enter, Goto
  <1>5. call'.job = job
    BY <1>3, <1>4 DEF BotCall
  <1>6. job \in Job
    BY CallAssumption DEF Job, CallAssumption
  <1>7. job.protocol = Unlisted /\ job # NoData
    <2>1. job.collateral = collateral /\ DOMAIN job = {"protocol", "collateral", "router"}
      OBVIOUS
    <2>2. DOMAIN NoData = {"protocol"}
      BY DEF NoData
    <2>3. "collateral" \in DOMAIN job /\ "collateral" \notin DOMAIN NoData
      BY <2>1, <2>2
    <2> QED BY <2>3
  <1>8. frames = <<>>
    BY DEF BotSubmits, ShapeInv, ContextClean
  <1> QED BY <1>4, <1>5, <1>7, <1>8 DEF RefusedInv

\* The words of build_liquidation are not the words that _onFlashReceived decodes: for
\* every market, lender, amount and minimum the call reverts at the dispatcher
\* (flash_loan.rs:205-214, FlashExecutor.sol:335-345).
THEOREM NoBotCallSucceeds == CallSpec => []BotCallsRevert
  <1>1. CallInit => RefusedInv
    BY DEF CallInit, RefusedInv
  <1>2. ShapeInv /\ RefusedInv /\ [CallNext]_callVars => RefusedInv'
    <2> SUFFICES ASSUME ShapeInv, RefusedInv, [CallNext]_callVars PROVE RefusedInv'
      OBVIOUS
    <2>1. CASE UNCHANGED callVars
      BY <2>1 DEF RefusedInv, callVars, Top
    <2>2. CASE BotSubmits
      BY <2>2, BotSubmitsRefused
    <2>3. CASE ContractStep /\ (target = NoPosition \/ step' = "idle")
      BY <2>3 DEF ContractStep, RefusedInv
    <2>4. CASE ContractStep /\ target # NoPosition /\ step' # "idle"
      <3>1. /\ call.job # NoData /\ call.job.protocol \notin {"aave", "morpho"}
            /\ step \in {"lend", "callback"}
            /\ step = "callback" => Top.at = "received" /\ Top.job = call.job
            /\ step = "lend" => frames = <<>>
        BY <2>4, CallAssumption DEF RefusedInv, CallAssumption
      <3>2. ~EnterSome /\ ~EndFlash /\ ~Settle /\ ~Revert /\ ~Configure
            /\ \A t, to : ~Sweep(t, to)
        BY <2>4, <3>1 DEF EnterSome, EndFlash, Settle, Revert, Configure, Sweep, Goto
      <3>3. ~SkipEmpty /\ ~LiquidateMorpho /\ ~SkipSwap /\ ~CallRouter /\ ~Return
            /\ ~CheckSolvency /\ ~Repay /\ ~CalledTokenApproves
            /\ (\A covered, seized : ~LiquidateAave(covered, seized))
            /\ (\A callback, from : ~CallBack(callback, from))
            /\ (\A t, left : ~Outside(t, left))
        BY <3>1 DEF SkipEmpty, LiquidateMorpho, SkipSwap, CallRouter, Return, CheckSolvency,
                    Repay, CalledTokenApproves, LiquidateAave, CallBack, Outside, At
      <3>4. PICK fee \in Fees \union {0} : Lend(fee)
        BY <2>4, <3>2, <3>3 DEF ContractStep, Next
      <3>5. step = "lend" /\ step' = "callback" /\ call' = call /\ frames = <<>>
        BY <3>1, <3>4 DEF Lend, Goto
      <3>6. PICK f : frames' = Append(<<>>, f) /\ f.at = "received" /\ f.job = call.job
        BY <3>4, <3>5 DEF Lend, Open
      <3>7. frames' = <<f>>
        BY <3>6
      <3>8. Len(frames') = 1 /\ Top' = f
        BY <3>7 DEF Top
      <3> QED BY <2>4, <3>5, <3>6, <3>8 DEF ContractStep, RefusedInv
    <2> QED BY <2>1, <2>2, <2>3, <2>4 DEF CallNext
  <1>3. RefusedInv => BotCallsRevert
    BY DEF RefusedInv, BotCallsRevert
  <1> QED BY <1>1, <1>2, <1>3, BotCallsAreCalls, ShapeInvariant, PTL DEF CallSpec
=============================================================================
