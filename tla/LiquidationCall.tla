---------------------------- MODULE LiquidationCall ----------------------------
(***************************************************************************)
(* The bot's calldata arriving at its contract: build_liquidation and      *)
(* encode_execute_params (bot/src/shared/flash_loan.rs) on one side,       *)
(* execute and the abi.decode of _onFlashReceived                          *)
(* (contracts/src/FlashExecutor.sol) on the other.                         *)
(*                                                                         *)
(* stratData is a sequence of 32-byte words.  Each side knows a word by    *)
(* its place; the model keeps what was written there.                      *)
(***************************************************************************)
EXTENDS FlashExecutor

CONSTANTS
  Unlisted    \* an address that is no lending pool of the contract

ASSUME CallAssumption ==
  Unlisted \in Protocols \ {"aave", "morpho"}

VARIABLES
  target      \* history: the position the running call was built for

callVars == <<vars, target>>

Markets  == {"Morpho", "Aave", "Spark", "Fluid", "CompoundV3", "EulerV2"}
Position == [market : Markets, debt : Tokens, amount : Amounts]

NoPosition == [market |-> "none"]

CallInit == Init /\ target = NoPosition

-----------------------------------------------------------------------------
(* A mistake the properties must notice: the words the contract expects.   *)

ContractWords(pos) ==
  <<IF pos.market = "Aave" THEN "aave" ELSE "morpho", "collateral", "borrower",
    "minimum", "router", "offset of the path">>

-----------------------------------------------------------------------------
(* The bot.                                                                *)

\* One dynamic tuple.  encode puts the offset of the tuple in front of it, the protocol
\* is a number of the bot's own, and the byte strings are offsets.
StratData(pos) ==
  <<"0x20", "protocol id", "borrower", "collateral", "debt", "amount",
    "offset of the market params", "router", "offset of the path">>

-----------------------------------------------------------------------------
(* The contract.                                                           *)

\* the first word is taken for the address of the lending pool
DecodedProtocol(data) == IF data[1] \in {"aave", "morpho"} THEN data[1] ELSE Unlisted

\* The profit is asked for in the debt asset, the only token of the loan.  The words
\* behind the protocol are somebody else's as well: they may come out as any collateral and
\* router, or not decode at all, which is a revert.
BotCall(pos, lender, min, collateral, router) ==
  [provider |-> lender,
   job |-> [protocol |-> DecodedProtocol(StratData(pos)), collateral |-> collateral,
            router |-> router],
   debt |-> pos.debt, amount |-> pos.amount, minProfit |-> min, profitToken |-> pos.debt]

\* the executor's transaction is mined
BotSubmits ==
  /\ step = "idle"
  /\ calls < MaxCalls
  /\ \E pos \in Position, lender \in Lenders, min \in Limits \union {0} :
       /\ target' = pos
       /\ \E collateral \in Tokens, router \in Routers \union {NoRouter} :
            Execute(BotCall(pos, lender, min, collateral, router))

\* everything else that can happen to the contract, and how a call goes on
ContractStep ==
  /\ Next
  /\ target' = IF step' = "idle" THEN NoPosition ELSE target

CallNext == BotSubmits \/ ContractStep

CallSpec == CallInit /\ [][CallNext]_callVars

-----------------------------------------------------------------------------
(* Properties.                                                             *)

\* No call that the bot builds gets past the dispatcher, whatever the market, the lender
\* and the minimum: it borrows, is refused and reverts (flash_loan.rs:205 against
\* FlashExecutor.sol:335-345).
BotCallsRevert ==
  target # NoPosition =>
    step = "lend" \/ (step = "callback" /\ Len(frames) = 1 /\ Top.at = "received")
=============================================================================
