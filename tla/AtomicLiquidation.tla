--------------------------- MODULE AtomicLiquidation ---------------------------
(***************************************************************************)
(* What FlashExecutor promises the people whose tokens it borrows and      *)
(* keeps: a call happens entirely or not at all, no lender ends with less  *)
(* than it lent, and what stays in the contract leaves it by a call, by a  *)
(* sweep, or through an allowance that an earlier call has left behind.    *)
(***************************************************************************)
EXTENDS Naturals

CONSTANTS
  Tokens,
  Lenders

VARIABLES
  wealth,    \* what each holder has of each token
  exposed    \* the tokens of the contract that somebody is allowed to spend

Holders == {"contract", "owner", "cold", "other"} \union Lenders

Init ==
  /\ wealth \in [Holders -> [Tokens -> Nat]]
  /\ exposed = {}

\* a call of executeLiquidation or execute that did not revert
Liquidate ==
  /\ wealth' \in [Holders -> [Tokens -> Nat]]
  /\ \A h \in {"cold", "other"} : wealth'[h] = wealth[h]
  /\ \A l \in Lenders, t \in Tokens : wealth'[l][t] >= wealth[l][t]
  /\ \E t \in Tokens :
       /\ wealth'["contract"][t] = 0
       /\ wealth'["owner"][t] >= wealth["owner"][t]
       /\ \A u \in Tokens \ {t} : wealth'["owner"][u] = wealth["owner"][u]
  /\ exposed \subseteq exposed' /\ exposed' \subseteq Tokens

\* all the contract holds of one token moves to one receiver
Withdraw(to) ==
  /\ \E t \in Tokens :
       wealth' = [wealth EXCEPT !["contract"][t] = 0, ![to][t] = @ + wealth["contract"][t]]
  /\ UNCHANGED exposed

\* somebody sends the contract tokens, or spends those it has exposed
Elsewhere ==
  /\ wealth' \in [Holders -> [Tokens -> Nat]]
  /\ \A h \in Holders \ {"contract"} : wealth'[h] = wealth[h]
  /\ \A t \in Tokens \ exposed : wealth'["contract"][t] >= wealth["contract"][t]
  /\ UNCHANGED exposed

Next ==
  \/ Liquidate
  \/ \E to \in {"owner", "cold", "other"} : Withdraw(to)
  \/ Elsewhere

Spec == Init /\ [][Next]_<<wealth, exposed>>

-----------------------------------------------------------------------------
\* Neither a lender nor the owner, the cold wallet or the receiver of a sweep ever ends a
\* transaction poorer, in any token: the only one that can lose is the contract itself,
\* with what was left in it.
NobodyLoses ==
  [][\A h \in Holders \ {"contract"}, t \in Tokens : wealth'[h][t] >= wealth[h][t]]_<<wealth, exposed>>
=============================================================================
