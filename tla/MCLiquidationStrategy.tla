------------------------- MODULE MCLiquidationStrategy -------------------------
(***************************************************************************)
(* The tasks of LiquidationStrategy are alike, and no step and no property *)
(* of the run reads the history variables of MarketData.                   *)
(***************************************************************************)
EXTENDS LiquidationStrategy, TLC

Symmetry == Permutations(Tasks)

WithoutHistory ==
  <<prices, pending, history, swaps, base_fee, tip, block, stage, eth_usd, transmits,
    indexVars, at, locals>>

=============================================================================
