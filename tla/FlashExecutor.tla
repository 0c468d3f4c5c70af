----------------------------- MODULE FlashExecutor -----------------------------
(***************************************************************************)
(* contracts/src/FlashExecutor.sol: one transaction of the liquidation     *)
(* contract, step by step: borrow, liquidate, swap, check, repay, settle.  *)
(*                                                                         *)
(* A transaction runs alone.  Any step may revert, because a check of the  *)
(* contract fails or because a callee does, and the EVM then restores the  *)
(* state the transaction found.  Lenders and lending pools do what their   *)
(* interfaces say, in amounts the contract cannot foresee.  The router is  *)
(* called with arbitrary data: while it runs anybody may send tokens,      *)
(* spend what the contract has allowed him, and call back, and inside such *)
(* a callback the whole pipeline runs again.                               *)
(***************************************************************************)
EXTENDS ExecutorBase, Integers, Sequences

CONSTANTS
  Tokens,
  Amounts,      \* debtToCover, and what others make the contract borrow
  Limits,       \* minProfit
  Moves,        \* what a lending pool pays out, and what others leave in the contract
  Fees,         \* flash premiums, where the lender charges one
  Liquidity,    \* what each lender starts with of each token
  WithCode,     \* routers that are contracts
  NoRouter,     \* address(0), or no calldata for the router
  NoToken,      \* address(0)
  MaxCalls,     \* bound: transactions that pass their checks
  MaxDepth      \* bound: callbacks inside callbacks

ASSUME ExecutorAssumption ==
  /\ {"aave", "morpho"} \subseteq Protocols
  /\ UNION {Amounts, Limits, Moves, Fees} \subseteq Nat
  /\ Liquidity \in Nat
  /\ WithCode \subseteq Routers
  /\ NoRouter \notin Routers
  /\ NoToken \notin Tokens
  /\ MaxCalls \in Nat /\ MaxDepth \in Nat

VARIABLES
  step,       \* where the transaction is: "idle" between transactions
  frames,     \* the callbacks that are running, each inside the router's call of the one
              \* before it
  status,     \* _status
  flash,      \* _inFlashLoan and the _current... context
  call,       \* the arguments of the call
  bal,        \* tokens of the contract, of its lenders, and of those it pays
  approvals,  \* <<token, spender>>: the contract only ever approves the maximum
  committed,  \* what a revert restores
  earned,     \* history: the premiums this transaction has paid, per lender
  calls       \* transactions so far

context == <<status, call, committed, calls>>
vars == <<paused, executor, pendingExecutor, executorChangeETA, allowedProtocols,
          allowedRouters, allowedFlashVaults, now, pendingSince, step, frames,
          status, flash, call, bal, approvals, committed, earned, calls>>

-----------------------------------------------------------------------------
(* The chain the contract runs on.                                         *)

Pulling   == {"morpho", "spark", "aave"}
Lenders   == Pulling \union {"balancer"}
Providers == Lenders \union {"uniswap"}
Holders   == {"contract", "owner", "cold", "other"} \union Lenders

\* what is decoded from data: nothing if there is none.  The minimum that is compared with
\* the router's own report is left out: it can only make the call revert.
NoData == [protocol |-> "none"]
Job    == [protocol : Protocols, collateral : Tokens, router : Routers \union {NoRouter}]

\* executeLiquidation is the call without a minimum, with data, that settles the debt token
Call == [provider : Providers, job : Job \union {NoData}, debt : Tokens, amount : Amounts,
         minProfit : Limits \union {0}, profitToken : Tokens]

NoCall  == [provider |-> "none"]
NoFlash == [in |-> FALSE, provider |-> "none", debt |-> NoToken, amount |-> 0]
NoFees  == [l \in Lenders |-> [t \in Tokens |-> 0]]

Held(token) == bal["contract"][token]

Transfer(from, to, token, amount) ==
  bal' = [bal EXCEPT ![from][token] = @ - amount, ![to][token] = @ + amount]

\* _ensureApprove: nothing is asked for, or the maximum is granted and never taken back
Approve(token, spender, amount) ==
  approvals' = IF amount = 0 THEN approvals ELSE approvals \union {<<token, spender>>}

Goto(from, to) == step = from /\ step' = to

Top       == frames[Len(frames)]
At(place) == step = "callback" /\ Top.at = place
Move(to)  == frames' = [frames EXCEPT ![Len(frames)].at = to] /\ UNCHANGED step

Init ==
  /\ BaseInit({"aave", "morpho"})
  /\ step = "idle"
  /\ frames = <<>>
  /\ status = "NOT_ENTERED"
  /\ flash = NoFlash
  /\ call = NoCall
  /\ bal = [h \in Holders |-> [t \in Tokens |-> IF h \in Lenders THEN Liquidity ELSE 0]]
  /\ approvals = {}
  /\ committed = [bal |-> bal, approvals |-> approvals]
  /\ earned = NoFees
  /\ calls = 0

-----------------------------------------------------------------------------
(* Mistakes the properties must notice.                                    *)

StillInFlash  == [NoFlash EXCEPT !.in = TRUE]
ProfitToCold  == "cold"
FeeSubtracted == Top.amount - Top.fee
AnyCaller(callback, from, initiator) ==
  /\ flash.in
  /\ callback \in {"spark", "aave"} => initiator = "contract"

-----------------------------------------------------------------------------
(* The entry points.  The caller is the owner or the executor, the         *)
(* contract is not paused, and no other call is in progress.               *)

Enter(c) ==
  /\ ~paused
  /\ status = "NOT_ENTERED"
  /\ Goto("idle", "lend")
  /\ status' = "ENTERED"
  /\ call' = c
  /\ flash' = [in |-> TRUE, provider |-> c.provider, debt |-> c.debt, amount |-> c.amount]
  /\ calls' = calls + 1
  /\ UNCHANGED <<baseVars, frames, bal, approvals, committed, earned>>

\* a router that is not listed is refused only if it has no code
ExecuteLiquidation(c) ==
  /\ c.job # NoData /\ c.minProfit = 0 /\ c.profitToken = c.debt
  /\ c.job.protocol \in allowedProtocols
  /\ c.job.router \in allowedRouters \union WithCode \union {NoRouter}
  /\ Enter(c)

\* neither list is consulted; uniswap stands for UNISWAP_V3_POOL = address(0)
Execute(c) == Enter(c)

EnterSome ==
  /\ step = "idle"
  /\ calls < MaxCalls
  /\ \E c \in Call : ExecuteLiquidation(c) \/ Execute(c)

-----------------------------------------------------------------------------
(* The flash loan and its callbacks.                                       *)

\* onlyFlashLoan, and who may call: the lender, for a loan the contract asked for where the
\* callback tells.  uniswapV3FlashCallback is for anybody.
Accepted(callback, from, initiator) ==
  /\ flash.in
  /\ callback # "uniswap" => from = callback
  /\ callback \in {"spark", "aave"} => initiator = "contract"

\* what each lender holds, less what it has earned
NetOfFees == [l \in Lenders |-> [t \in Tokens |-> bal[l][t] - earned[l][t]]]

\* a callback begins; if it is the lender that calls, it has transferred the loan
Open(callback, from, token, amount, fee, job) ==
  /\ fee # 0 => callback # "morpho"
  /\ frames' = Append(frames, [callback |-> callback, from |-> from, token |-> token,
                               amount |-> amount, fee |-> fee, job |-> job,
                               at |-> "received", before |-> NetOfFees])
  /\ IF from \in Lenders
       THEN bal[from][token] >= amount /\ Transfer(from, "contract", token, amount)
       ELSE UNCHANGED bal

\* _initiateFlashLoan; every other provider reverts
Lend(fee) ==
  /\ Goto("lend", "callback")
  /\ flash.provider \in Lenders
  /\ Accepted(flash.provider, flash.provider, "contract")
  /\ Open(flash.provider, flash.provider, flash.debt, flash.amount, fee, call.job)
  /\ UNCHANGED <<baseVars, context, flash, approvals, earned>>

\* the contract is the initiator of what its own call asks for, and who calls back without
\* a loan may claim that it is
Initiator(from) ==
  IF from \in Lenders /\ Top.job.router # from THEN "others" ELSE "contract"

\* While the router runs somebody asks a lender to lend to the contract, or calls one of the
\* callbacks himself.  Morpho calls back whoever asked.  The callback of Uniswap has no token
\* and no amount.
CallBack(callback, from) ==
  /\ At("out") /\ Len(frames) < MaxDepth
  /\ Accepted(callback, from, Initiator(from))
  /\ from = "morpho" => Initiator(from) = "contract"
  /\ \E token \in Tokens, amount \in Amounts \union {0}, fee \in Fees \union {0},
        job \in Job \union {NoData} :
       /\ IF callback = "uniswap" THEN amount = 0 /\ token = flash.debt ELSE amount # 0
       /\ Open(callback, from, token, amount, fee, job)
  /\ UNCHANGED <<baseVars, context, step, flash, approvals, earned>>

\* _onFlashReceived returns at once when there is no data
SkipEmpty ==
  /\ At("received") /\ Top.job = NoData
  /\ Move("repay")
  /\ UNCHANGED <<baseVars, context, flash, bal, approvals, earned>>

\* liquidationCall: the pool takes what it can cover and pays out collateral
LiquidateAave(covered, seized) ==
  /\ At("received") /\ Top.job.protocol = "aave"
  /\ Move("swap")
  /\ covered <= Top.amount /\ covered <= Held(flash.debt)
  /\ Approve(flash.debt, "aave", Top.amount)
  /\ bal' = [bal EXCEPT !["contract"][flash.debt] = @ - covered,
                        !["contract"][Top.job.collateral] = @ + seized]
  /\ UNCHANGED <<baseVars, context, flash, earned>>

\* the branch approves and calls nobody; every other protocol reverts
LiquidateMorpho ==
  /\ At("received") /\ Top.job.protocol = "morpho"
  /\ Move("swap")
  /\ Approve(flash.debt, "morpho", Top.amount)
  /\ UNCHANGED <<baseVars, context, flash, bal, earned>>

SkipSwap ==
  /\ At("swap") /\ Top.job.router = NoRouter
  /\ Move("check")
  /\ UNCHANGED <<baseVars, context, flash, bal, approvals, earned>>

\* dexRouter.call(dexCalldata): a call to an address without code succeeds at once
CallRouter ==
  /\ At("swap") /\ Top.job.router # NoRouter
  /\ Approve(Top.job.collateral, Top.job.router, Held(Top.job.collateral))
  /\ Move(IF Top.job.router \in WithCode THEN "out" ELSE "check")
  /\ UNCHANGED <<baseVars, context, flash, bal, earned>>

Return ==
  /\ At("out")
  /\ Move("check")
  /\ UNCHANGED <<baseVars, context, flash, bal, approvals, earned>>

\* the debt of the call, whatever this callback was lent
CheckSolvency ==
  /\ At("check")
  /\ Held(flash.debt) >= Top.amount + Top.fee
  /\ Move("repay")
  /\ UNCHANGED <<baseVars, context, flash, bal, approvals, earned>>

Owed == Top.amount + Top.fee

\* Morpho is approved the debt of the call and not the token it lent
ApproveRepayment ==
  CASE Top.callback = "morpho"           -> Approve(flash.debt, "morpho", Top.amount)
    [] Top.callback \in {"spark", "aave"} -> Approve(Top.token, Top.callback, Owed)
    [] OTHER                             -> UNCHANGED approvals

\* the callback approves and the lender pulls, or (Balancer) the callback pushes
Repay ==
  /\ At("repay")
  /\ ApproveRepayment
  /\ Top.from \in Pulling => Owed = 0 \/ <<Top.token, Top.from>> \in approvals'
  /\ IF Top.callback = "balancer" \/ Top.from \in Pulling
       THEN Held(Top.token) >= Owed /\ Transfer("contract", Top.callback, Top.token, Owed)
       ELSE UNCHANGED bal
  /\ earned' = IF Top.from \in Lenders
                 THEN [earned EXCEPT ![Top.from][Top.token] = @ + Top.fee] ELSE earned
  /\ frames' = SubSeq(frames, 1, Len(frames) - 1)
  /\ step' = IF Len(frames) = 1 THEN "end" ELSE "callback"
  /\ UNCHANGED <<baseVars, context, flash>>

-----------------------------------------------------------------------------
(* What others do with the contract's tokens.                              *)

Spendable(token) == \E a \in approvals : a[1] = token

\* Tokens arrive, or an allowance is used, as often as somebody likes; they come from and go to
\* holders that are not followed here.  A call to a token moves or approves that token as its
\* data says.
Outside(token, left) ==
  /\ step = "idle" \/ At("out")
  /\ left < Held(token) =>
       Spendable(token) \/ (step = "callback" /\ Top.job.router = token)
  /\ bal' = [bal EXCEPT !["contract"][token] = left]
  /\ committed' = IF step = "idle" THEN [committed EXCEPT !.bal = bal'] ELSE committed
  /\ UNCHANGED <<baseVars, step, frames, status, flash, call, approvals, earned, calls>>

CalledTokenApproves ==
  /\ At("out") /\ Top.job.router \in Tokens
  /\ Approve(Top.job.router, "others", 1)
  /\ UNCHANGED <<baseVars, context, step, frames, flash, bal, earned>>

-----------------------------------------------------------------------------
(* Back in the entry point.                                                *)

ClearedContext == NoFlash

EndFlash ==
  /\ Goto("end", "settle")
  /\ flash' = ClearedContext
  /\ UNCHANGED <<baseVars, context, frames, bal, approvals, earned>>

\* the whole balance counts, also what the contract held before
Enough == Held(call.profitToken) >= call.minProfit

ProfitReceiver == "owner"

\* _sweepProfitToOwner, and the transaction is final
Settle ==
  /\ Goto("settle", "idle")
  /\ Enough
  /\ Transfer("contract", ProfitReceiver, call.profitToken, Held(call.profitToken))
  /\ status' = "NOT_ENTERED"
  /\ call' = NoCall
  /\ committed' = [bal |-> bal', approvals |-> approvals]
  /\ earned' = NoFees
  /\ UNCHANGED <<baseVars, frames, flash, approvals, calls>>

\* flags, balances and approvals are what they were
Revert ==
  /\ step # "idle"
  /\ step' = "idle"
  /\ frames' = <<>>
  /\ status' = "NOT_ENTERED"
  /\ flash' = NoFlash
  /\ call' = NoCall
  /\ bal' = committed.bal
  /\ approvals' = committed.approvals
  /\ earned' = NoFees
  /\ UNCHANGED <<baseVars, committed, calls>>

-----------------------------------------------------------------------------
(* Transactions of ExecutorBase.                                           *)

\* sweep (owner, to anyone) and emergencySweep (executor, to the cold wallet)
Sweep(token, to) ==
  /\ step = "idle"
  /\ Held(token) > 0
  /\ Transfer("contract", to, token, Held(token))
  /\ committed' = [committed EXCEPT !.bal = bal']
  /\ UNCHANGED <<baseVars, step, frames, status, flash, call, approvals, earned, calls>>

Configure ==
  /\ step = "idle"
  /\ BaseNext
  /\ UNCHANGED <<step, frames, status, flash, call, bal, approvals, committed, earned, calls>>

Next ==
  \/ EnterSome
  \/ \E fee \in Fees \union {0} : Lend(fee)
  \/ \E callback \in Providers :
       \E from \in (Lenders \intersect {callback}) \union {"others"} : CallBack(callback, from)
  \/ SkipEmpty
  \/ \E covered \in Amounts \union {0}, seized \in Moves : LiquidateAave(covered, seized)
  \/ LiquidateMorpho
  \/ SkipSwap \/ CallRouter \/ Return
  \/ CheckSolvency \/ Repay
  \/ \E t \in Tokens, left \in Moves : Outside(t, left)
  \/ CalledTokenApproves
  \/ EndFlash \/ Settle \/ Revert
  \/ \E t \in Tokens, to \in {"owner", "cold", "other"} : Sweep(t, to)
  \/ Configure

Spec == Init /\ [][Next]_vars

-----------------------------------------------------------------------------
(* Properties.                                                             *)

Balances  == [Holders -> [Tokens -> Nat]]
Approvals == Tokens \X (Protocols \union Lenders \union Routers \union {"others"})
Committed == [bal : Balances, approvals : SUBSET Approvals]
Context   == [in : BOOLEAN, provider : Providers \union {"none"},
              debt : Tokens \union {NoToken}, amount : Nat]
Places    == {"received", "swap", "out", "check", "repay"}
PerLender(S) == [Lenders -> [Tokens -> S]]
Frame     == [callback : Providers, from : Lenders \union {"others"}, token : Tokens,
              amount : Nat, fee : Nat, job : Job \union {NoData}, at : Places,
              before : PerLender(Int)]

TypeOK ==
  /\ BaseTypes
  /\ step \in {"idle", "lend", "callback", "end", "settle"}
  /\ frames \in Seq(Frame)
  /\ status \in {"NOT_ENTERED", "ENTERED"}
  /\ flash \in Context
  /\ IF step = "idle" THEN call = NoCall ELSE call \in Call
  /\ bal \in Balances
  /\ approvals \subseteq Approvals
  /\ committed \in Committed
  /\ earned \in PerLender(Nat)
  /\ calls \in Nat

\* The reentrancy lock is held exactly while a transaction runs, callbacks run exactly while
\* its loan does, and whoever calls back, and whatever runs inside, they see that call's
\* debt: no path through the two entry points leaves a flag, a debt or an unfinished
\* callback behind for the next call.
ContextClean ==
  /\ status = "ENTERED" <=> step # "idle"
  /\ flash.in <=> step \notin {"idle", "settle"}
  /\ frames # <<>> <=> step = "callback"
  /\ \A i \in 1..(Len(frames) - 1) : frames[i].at = "out"
  /\ IF flash.in
       THEN <<flash.provider, flash.debt, flash.amount>> = <<call.provider, call.debt, call.amount>>
       ELSE flash = NoFlash

\* When the callbacks are over every lender has what it had before and its premiums, no less
\* and no more, in every token: however the loans were nested, whoever asked for them and
\* whoever called back (FlashExecutor.sol:222-277).
LendersGetTheirFees ==
  step \in {"end", "settle"} =>
    \A l \in Lenders, t \in Tokens : bal[l][t] = committed.bal[l][t] + earned[l][t]

\* Of every call that returns, the owner gets all that the contract then has of the token
\* the caller named, at least the minimum, and the cold wallet gets nothing.
ProfitToOwner ==
  [][step = "settle" /\ committed' # committed =>
       /\ bal'["owner"][call.profitToken]
            >= committed.bal["owner"][call.profitToken] + call.minProfit
       /\ bal'["contract"][call.profitToken] = 0
       /\ bal'["cold"] = committed.bal["cold"]]_vars

\* The contract keeps what AtomicLiquidation promises: a reverted call leaves no trace, a
\* call that returns leaves every lender and receiver whole and what it approved exposed for
\* ever, and everything in between is invisible from outside.
Promise == INSTANCE AtomicLiquidation
             WITH wealth  <- committed.bal,
                  exposed <- {a[1] : a \in committed.approvals}

ImplementsAtomic == Promise!Spec
=============================================================================
