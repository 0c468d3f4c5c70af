--------------------------- MODULE MCLiquidationCall ---------------------------
(* LiquidationCall for TLC.                                                *)
EXTENDS LiquidationCall

CONSTANTS MaxBalance    \* bound: what anybody has of a token

TimelockUntouched ==
  executor = FirstKey /\ pendingExecutor = NoKey /\ now = 0 /\ allowedFlashVaults = Vaults

ListsUntouched == ~paused /\ allowedProtocols = {"aave", "morpho"} /\ allowedRouters = {}

NothingElseTouched ==
  /\ calls = 0 /\ ListsUntouched
  /\ \A h \in Holders \ Lenders, t \in Tokens : bal[h][t] = 0

\* The timelock reads nothing that calls, sweeps and the lists write, and they read
\* nothing of it: it is played through on an untouched contract, and all the rest in the
\* first block with the constructor's executor.
TimelockOrCalls == TimelockUntouched \/ NothingElseTouched

\* Before the call tokens may have arrived, of the kind that is also called as a router.  The
\* lists are played through up to the call that reads them, in an empty contract.
BeforeTheCall ==
  calls = 0 =>
    /\ \A h \in {"owner", "cold", "other"}, t \in Tokens : bal[h][t] = 0
    /\ \A t \in Tokens \ Routers : Held(t) = 0
    /\ ListsUntouched \/ \A t \in Tokens : Held(t) = 0

\* A call without a minimum is paid out in its debt, as executeLiquidation is.  Where tokens
\* were in the contract before, one lender is enough.  One premium for each lender, and an
\* end to what is sent and seized.
InTheCall ==
  /\ step # "idle" => call.minProfit # 0 \/ call.profitToken = call.debt
  /\ step # "idle" /\ call.provider # "aave" =>
       \A t \in Tokens : committed.bal["contract"][t] = 0
  /\ step \in {"callback", "end", "settle"} =>
       /\ ListsUntouched
       /\ \A t \in Tokens : Held(t) <= MaxBalance
       /\ \A l \in Lenders, t \in Tokens : \E fee \in Fees : earned[l][t] <= fee

\* A callback inside a callback sees neither what the call asks for at its end nor what was
\* there before; what the pool has paid looks to it like what others have sent; and of the
\* routers it may call in turn, a token is the one that can do most.
InsideACallback ==
  Len(frames) = 2 =>
    /\ call.provider = "balancer"
    /\ call.minProfit = 0
    /\ frames[1].job.protocol = "morpho" /\ frames[1].job.collateral # call.debt
    /\ \/ frames[2].job = NoData
       \/ frames[2].job.router \in Tokens \union {NoRouter} /\ frames[2].job.collateral # call.debt

\* What a call leaves behind is swept once.
AfterTheCall ==
  step = "idle" /\ calls = MaxCalls =>
    /\ ListsUntouched
    /\ \A h, g \in {"cold", "other"}, t, u \in Tokens :
         bal[h][t] = 0 \/ bal[g][u] = 0 \/ <<h, t>> = <<g, u>>
    /\ \A h \in {"owner", "cold", "other"}, t \in Tokens : bal[h][t] <= MaxBalance
=============================================================================
