----------------------------- MODULE ChainBreaker -----------------------------
(***************************************************************************)
(* bot/src/chains/mod.rs: the adaptive circuit breaker, and the strategy   *)
(* tasks of bot/src/main.rs that consult it and report to it.              *)
(*                                                                         *)
(* A task is one spawn of the block loop.  Its loads, stores and adds on   *)
(* the shared counters are separate atomic operations, so two overlapping  *)
(* tasks interleave between any two of them.                               *)
(***************************************************************************)
EXTENDS Naturals, FiniteSets

CONSTANTS
  Tasks,      \* bound: strategy tasks in flight at the same time
  Threshold,  \* circuit_breaker_threshold
  Costs,      \* what a failed run may be charged, in whole dollars
  MaxCost     \* bound: the dearest of them

ASSUME BreakerAssumption ==
  /\ IsFiniteSet(Tasks)
  /\ Threshold \in Nat \ {0}
  /\ MaxCost \in Nat
  /\ Costs \subseteq 0..MaxCost

VARIABLES
  reverts,        \* AtomicU32: the weighted penalty
  consec,         \* AtomicU32: successes in a row
  loss,           \* accumulated_loss_usd
  at,             \* where each task is
  cost,           \* what a failing task is going to report
  count_tripped   \* local of is_tripped

breaker == <<reverts, consec, loss>>
locals  == <<cost, count_tripped>>
breakerVars == <<reverts, consec, loss, at, cost, count_tripped>>

MaxLoss    == 10 * Threshold
MaxPenalty == 5
ResetAfter == 3

TaskSteps == {"idle", "count", "cost", "alert", "run", "penalty", "streak", "loss",
              "success", "clear", "clearloss"}

BreakerInit ==
  /\ reverts = 0
  /\ consec = 0
  /\ loss = 0
  /\ at = [t \in Tasks |-> "idle"]
  /\ cost = [t \in Tasks |-> 0]
  /\ count_tripped = [t \in Tasks |-> FALSE]

Move(t, from, to) == at[t] = from /\ at' = [at EXCEPT ![t] = to]

-----------------------------------------------------------------------------
(* Mistakes the properties must notice.                                    *)

UncappedWeight(c)   == 1 + c \div 5
CountOnly(t)        == count_tripped[t]
SuccessAfterAlert   == "success"

-----------------------------------------------------------------------------
(* is_tripped: two loads, in this order, and both are always made.         *)

CheckCount(t) ==
  /\ Move(t, "count", "cost")
  /\ count_tripped' = [count_tripped EXCEPT ![t] = (reverts >= Threshold)]
  /\ UNCHANGED <<breaker, cost>>

Refused(t) == count_tripped[t] \/ loss >= MaxLoss

CheckCost(t) ==
  /\ Move(t, "cost", IF Refused(t) THEN "alert" ELSE "run")
  /\ count_tripped' = [count_tripped EXCEPT ![t] = FALSE]
  /\ UNCHANGED <<breaker, cost>>

\* a refused task sends the Telegram alert and returns without reporting
AfterAlert == "idle"

Alerted(t) ==
  /\ Move(t, "alert", AfterAlert)
  /\ UNCHANGED <<breaker, locals>>

-----------------------------------------------------------------------------
(* liquidation::run, as the breaker sees it.                               *)

\* Ok: the positions below the gate were worked off, or there were none
RunOk(t) ==
  /\ Move(t, "run", "success")
  /\ UNCHANGED <<breaker, locals>>

\* Err: a simulation, a route, a signature or the RPC failed; the charge is the gas of
\* a full revert at the current price
RunErr(t, c) ==
  /\ Move(t, "run", "penalty")
  /\ cost' = [cost EXCEPT ![t] = c]
  /\ UNCHANGED <<breaker, count_tripped>>

\* an answer shorter than the word that is sliced from it panics: the task is gone without
\* a report, and the loop drops the JoinError
RunPanics(t) ==
  /\ Move(t, "run", "idle")
  /\ UNCHANGED <<breaker, locals>>

-----------------------------------------------------------------------------
(* record_revert_with_cost.                                                *)

\* (1.0 + cost / 5.0).min(5.0) as u32, .max(1)
PenaltyWeight(c) == IF 1 + c \div 5 > MaxPenalty THEN MaxPenalty ELSE 1 + c \div 5

AddPenalty(t) ==
  /\ Move(t, "penalty", "streak")
  /\ reverts' = reverts + PenaltyWeight(cost[t])
  /\ UNCHANGED <<consec, loss, locals>>

BreakStreak(t) ==
  /\ Move(t, "streak", "loss")
  /\ consec' = 0
  /\ UNCHANGED <<reverts, loss, locals>>

AddLoss(t) ==
  /\ Move(t, "loss", "idle")
  /\ loss' = loss + cost[t]
  /\ cost' = [cost EXCEPT ![t] = 0]
  /\ UNCHANGED <<reverts, consec, count_tripped>>

-----------------------------------------------------------------------------
(* record_success.                                                         *)

\* fetch_add; the counter is only ever compared with ResetAfter, so it stops there
CountSuccess(t) ==
  /\ Move(t, "success", IF consec + 1 >= ResetAfter THEN "clear" ELSE "idle")
  /\ consec' = IF consec < ResetAfter THEN consec + 1 ELSE consec
  /\ UNCHANGED <<reverts, loss, locals>>

ClearReverts(t) ==
  /\ Move(t, "clear", "clearloss")
  /\ reverts' = 0
  /\ UNCHANGED <<consec, loss, locals>>

\* consec keeps its value: from now on one more success clears again
ClearLoss(t) ==
  /\ Move(t, "clearloss", "idle")
  /\ loss' = 0
  /\ UNCHANGED <<reverts, consec, locals>>

TaskStep(t) ==
  \/ CheckCount(t) \/ CheckCost(t) \/ Alerted(t)
  \/ RunOk(t) \/ (\E c \in Costs : RunErr(t, c)) \/ RunPanics(t)
  \/ AddPenalty(t) \/ BreakStreak(t) \/ AddLoss(t)
  \/ CountSuccess(t) \/ ClearReverts(t) \/ ClearLoss(t)

-----------------------------------------------------------------------------
(* Properties.                                                             *)

BreakerTypes ==
  /\ reverts \in Nat
  /\ consec \in 0..ResetAfter
  /\ loss \in Nat
  /\ at \in [Tasks -> TaskSteps]
  /\ cost \in [Tasks -> Nat]
  /\ count_tripped \in [Tasks -> BOOLEAN]

Tripped == reverts >= Threshold \/ loss >= MaxLoss

\* between the load of reverts and the fetch_add of the penalty
OwesPenalty == {t \in Tasks : (at[t] = "cost" /\ ~count_tripped[t])
                                \/ at[t] \in {"run", "penalty"}}

\* between the load of the loss and its increase
OwesLoss == {t \in Tasks : at[t] \in {"run", "penalty", "streak", "loss"}}

\* The penalty overshoots the threshold by at most one capped weight for each task that
\* was let through before the breaker tripped: is_tripped and the fetch_add are not one
\* operation, and the cap of record_revert_with_cost is what bounds the overshoot.
PenaltyOvershoot ==
  reverts + MaxPenalty * Cardinality(OwesPenalty)
    <= Threshold - 1 + MaxPenalty * Cardinality(Tasks)

\* The dollars charged before the breaker refuses everyone exceed max_loss_usd by less
\* than one charge for each overlapping task.
LossOvershoot ==
  loss + MaxCost * Cardinality(OwesLoss) < MaxLoss + MaxCost * Cardinality(Tasks)

\* Tripped, and no task is past is_tripped or will get past it.
Halted ==
  /\ Tripped
  /\ \A t \in Tasks :
       \/ at[t] \in {"idle", "count", "alert"}
       \/ at[t] = "cost" /\ Refused(t)

\* A breaker that tripped with nobody in flight is never reset and lets nothing through
\* again, whatever the chain does: only the restart the alert asks for helps.
HaltIsPermanent == [][Halted => Halted']_breakerVars
=============================================================================
