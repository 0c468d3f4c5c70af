------------------------------ MODULE EngineProofs ------------------------------
(***************************************************************************)
(* Theorems about the block loop and its breaker, for any number of tasks, *)
(* any threshold and any charges.                                          *)
(***************************************************************************)
EXTENDS BlockLoop, FiniteSetTheorems, TLAPS

USE DEF breaker, locals, breakerVars, loopVars, vars

\* one step of the system, without the fairness
LEMMA StepsOfNext ==
  ASSUME Next
  PROVE  \/ UNCHANGED breakerVars
         \/ \E t \in Tasks : SpawnTask(t)
         \/ \E t \in Tasks : RunTask(t)
  BY DEF Next, Configured, Booted, BootFails, ConfigRefused, Interrupt, Shutdown, BlockArrives, StreamEnds, Joined, TimedOut, LeaveWait

LEMMA WeightType ==
  ASSUME NEW c \in Nat
  PROVE  PenaltyWeight(c) \in Nat /\ PenaltyWeight(c) <= MaxPenalty
  <1>1. c \div 5 \in Nat
    OBVIOUS
  <1> QED BY <1>1 DEF PenaltyWeight, MaxPenalty

-----------------------------------------------------------------------------
(* Types.                                                                  *)

LEMMA BreakerTypesInit == ASSUME BreakerInit PROVE BreakerTypes
  BY BreakerAssumption DEF BreakerInit, BreakerTypes, TaskSteps, ResetAfter

LEMMA BreakerTypesStep ==
  ASSUME BreakerTypes, NEW t \in Tasks, TaskStep(t)
  PROVE  BreakerTypes'
  <1> USE DEF BreakerTypes, Move, TaskSteps, ResetAfter
  <1>1. CASE CheckCount(t)
    BY <1>1 DEF CheckCount
  <1>2. CASE CheckCost(t)
    BY <1>2 DEF CheckCost
  <1>3. CASE Alerted(t)
    BY <1>3 DEF Alerted, AfterAlert
  <1>4. CASE RunOk(t) \/ RunPanics(t)
    BY <1>4 DEF RunOk, RunPanics
  <1>5. CASE \E c \in Costs : RunErr(t, c)
    BY <1>5, BreakerAssumption DEF RunErr
  <1>6. CASE AddPenalty(t)
    <2>1. PenaltyWeight(cost[t]) \in Nat
      BY WeightType
    <2> QED BY <1>6, <2>1 DEF AddPenalty
  <1>7. CASE BreakStreak(t)
    BY <1>7 DEF BreakStreak
  <1>8. CASE AddLoss(t)
    BY <1>8 DEF AddLoss
  <1>9. CASE CountSuccess(t)
    BY <1>9 DEF CountSuccess
  <1>10. CASE ClearReverts(t)
    BY <1>10 DEF ClearReverts
  <1>11. CASE ClearLoss(t)
    BY <1>11 DEF ClearLoss
  <1> QED BY <1>1, <1>2, <1>3, <1>4, <1>5, <1>6, <1>7, <1>8, <1>9, <1>10, <1>11 DEF TaskStep

\* The breaker's counters, the tasks and the loop stay in their types, and the loop holds
\* the handle of the one task it waits for (main.rs:361-373).
THEOREM TypeCorrect == Spec => []TypeOK
  <1>1. Init => TypeOK
    BY BreakerTypesInit DEF Init, TypeOK, LoopSteps, Signals
  <1>2. TypeOK /\ [Next]_vars => TypeOK'
    <2> SUFFICES ASSUME TypeOK, [Next]_vars PROVE TypeOK'
      OBVIOUS
    <2> USE DEF TypeOK, LoopSteps, Signals
    <2>1. CASE UNCHANGED vars
      BY <2>1 DEF BreakerTypes
    <2>0. CASE Configured \/ Booted \/ BootFails \/ ConfigRefused
      BY <2>0 DEF Configured, Booted, BootFails, ConfigRefused, BreakerTypes
    <2>2. CASE Interrupt
      BY <2>2 DEF Interrupt, BreakerTypes
    <2>3. CASE Shutdown
      BY <2>3 DEF Shutdown, BreakerTypes
    <2>4. CASE BlockArrives
      BY <2>4 DEF BlockArrives, BreakerTypes
    <2>5. CASE StreamEnds
      BY <2>5 DEF StreamEnds, BreakerTypes
    <2>6. CASE \E t \in Tasks : SpawnTask(t)
      BY <2>6 DEF SpawnTask, Move, TaskSteps, BreakerTypes
    <2>7. CASE \E t \in Tasks : RunTask(t)
      BY <2>7, BreakerTypesStep DEF RunTask
    <2>8. CASE Joined \/ TimedOut
      BY <2>8 DEF Joined, TimedOut, LeaveWait, AwaitedAfter, BreakerTypes
    <2> QED BY <2>0, <2>1, <2>2, <2>3, <2>4, <2>5, <2>6, <2>7, <2>8 DEF Next
  <1> QED BY <1>1, <1>2, PTL DEF Spec

-----------------------------------------------------------------------------
(* A halt is permanent.                                                    *)

LEMMA HaltStep ==
  ASSUME BreakerTypes, Halted, NEW t \in Tasks, TaskStep(t) \/ SpawnTask(t)
  PROVE  Halted'
  <1> USE DEF BreakerTypes, Halted, Tripped, Refused, Move
  <1>1. at[t] \in {"idle", "count", "alert"} \/ (at[t] = "cost" /\ Refused(t))
    OBVIOUS
  <1>2. CASE SpawnTask(t)
    BY <1>2 DEF SpawnTask
  <1>3. CASE CheckCount(t)
    BY <1>3 DEF CheckCount
  <1>4. CASE CheckCost(t)
    BY <1>1, <1>4 DEF CheckCost
  <1>5. CASE Alerted(t)
    BY <1>5 DEF Alerted, AfterAlert
  <1>6. ASSUME TaskStep(t), at[t] \in {"idle", "count", "alert", "cost"}
        PROVE  CheckCount(t) \/ CheckCost(t) \/ Alerted(t)
    BY <1>6 DEF TaskStep, RunOk, RunPanics, RunErr, AddPenalty, BreakStreak, AddLoss, CountSuccess,
                ClearReverts, ClearLoss
  <1> QED BY <1>1, <1>2, <1>3, <1>4, <1>5, <1>6

\* Once tripped with nobody past is_tripped, the breaker stays tripped and every later
\* task is turned away: record_success is out of reach (main.rs:362-370).
THEOREM HaltStaysHalted == Spec => HaltIsPermanent
  <1>1. TypeOK /\ [Next]_vars => [Halted => Halted']_breakerVars
    <2> SUFFICES ASSUME TypeOK, Next, Halted, breakerVars' # breakerVars PROVE Halted'
      BY DEF TypeOK
    <2>1. PICK t \in Tasks : SpawnTask(t) \/ RunTask(t)
      BY StepsOfNext
    <2>2. TaskStep(t) \/ SpawnTask(t)
      BY <2>1 DEF RunTask
    <2> QED BY <2>2, HaltStep DEF TypeOK
  <1> QED BY <1>1, TypeCorrect, PTL DEF Spec, HaltIsPermanent

\* Nobody is past is_tripped and has still to report.
NobodyWorks ==
  \A t \in Tasks : at[t] \notin {"run", "penalty", "streak", "loss", "success", "clear",
                                 "clearloss"}

\* After the halt nothing runs any more: no block, no SIGINT and no task that was turned away
\* ever brings a liquidation back (chains/mod.rs:123-127, main.rs:361-372).
THEOREM HaltedForGood == Spec => [](Halted => []NobodyWorks)
  <1>1. Halted => NobodyWorks
    BY DEF Halted, NobodyWorks
  <1>2. Halted /\ UNCHANGED breakerVars => Halted'
    BY DEF breakerVars, Halted, Tripped, Refused
  <1> QED BY <1>1, <1>2, HaltStaysHalted, PTL DEF HaltIsPermanent

-----------------------------------------------------------------------------
(* The overshoot of the breaker.                                           *)

LEMMA SubsetOfTasks ==
  ASSUME NEW S \in SUBSET Tasks
  PROVE  /\ IsFiniteSet(S) /\ Cardinality(S) \in Nat /\ Cardinality(Tasks) \in Nat
         /\ Cardinality(S) <= Cardinality(Tasks)
  BY BreakerAssumption, FS_Subset, FS_CardinalityType DEF BreakerAssumption

LEMMA SmallerSet ==
  ASSUME NEW S \in SUBSET Tasks, NEW R \in SUBSET S
  PROVE  Cardinality(R) <= Cardinality(S)
  BY SubsetOfTasks, FS_Subset

LEMMA Joining ==
  ASSUME NEW S \in SUBSET Tasks, NEW t \in Tasks \ S
  PROVE  /\ Cardinality(S \union {t}) = Cardinality(S) + 1
         /\ Cardinality(S) + 1 <= Cardinality(Tasks)
  <1>1. Cardinality(S \union {t}) = Cardinality(S) + 1
    BY SubsetOfTasks, FS_AddElement
  <1>2. S \union {t} \in SUBSET Tasks
    OBVIOUS
  <1> QED BY <1>1, <1>2, SubsetOfTasks

LEMMA Leaving ==
  ASSUME NEW S \in SUBSET Tasks, NEW t \in S
  PROVE  Cardinality(S \ {t}) = Cardinality(S) - 1
  BY SubsetOfTasks, FS_RemoveElement

\* Who owes a penalty changes with the count check and with the payment only.
LEMMA PenaltyDebtors ==
  ASSUME BreakerTypes, NEW t \in Tasks, TaskStep(t) \/ SpawnTask(t)
  PROVE  \/ OwesPenalty' \in SUBSET OwesPenalty /\ reverts' <= reverts
         \/ /\ t \notin OwesPenalty /\ OwesPenalty' = OwesPenalty \union {t}
            /\ reverts' = reverts /\ reverts < Threshold
         \/ /\ t \in OwesPenalty /\ OwesPenalty' = OwesPenalty \ {t}
            /\ reverts' <= reverts + MaxPenalty
  <1> USE DEF BreakerTypes, OwesPenalty, Move
  <1>1. CASE SpawnTask(t)
    BY <1>1 DEF SpawnTask
  <1>2. CASE CheckCount(t)
    <2>1. reverts' = reverts /\ t \notin OwesPenalty
      BY <1>2 DEF CheckCount
    <2>2. CASE reverts >= Threshold
      <3>1. OwesPenalty' \in SUBSET OwesPenalty
        BY <1>2, <2>2 DEF CheckCount
      <3> QED BY <2>1, <3>1
    <2>3. CASE ~(reverts >= Threshold)
      <3>1. at'[t] = "cost" /\ ~count_tripped'[t]
        BY <1>2, <2>3 DEF CheckCount
      <3>2. \A u \in Tasks \ {t} : at'[u] = at[u] /\ count_tripped'[u] = count_tripped[u]
        BY <1>2 DEF CheckCount
      <3>3. OwesPenalty' = OwesPenalty \union {t}
        BY <3>1, <3>2
      <3>4. reverts < Threshold
        BY <2>3, BreakerAssumption DEF BreakerAssumption
      <3> QED BY <2>1, <3>3, <3>4
    <2> QED BY <2>2, <2>3
  <1>3. CASE CheckCost(t)
    BY <1>3 DEF CheckCost, Refused
  <1>4. CASE Alerted(t)
    BY <1>4 DEF Alerted, AfterAlert
  <1>5. CASE RunOk(t) \/ RunPanics(t)
    BY <1>5 DEF RunOk, RunPanics
  <1>6. CASE \E c \in Costs : RunErr(t, c)
    BY <1>6 DEF RunErr
  <1>7. CASE AddPenalty(t)
    <2>1. PenaltyWeight(cost[t]) \in Nat /\ PenaltyWeight(cost[t]) <= MaxPenalty
      BY WeightType
    <2>2. reverts' <= reverts + MaxPenalty
      BY <1>7, <2>1 DEF AddPenalty, MaxPenalty
    <2>3. t \in OwesPenalty /\ OwesPenalty' = OwesPenalty \ {t}
      BY <1>7 DEF AddPenalty
    <2> QED BY <2>2, <2>3
  <1>8. CASE BreakStreak(t)
    BY <1>8 DEF BreakStreak
  <1>9. CASE AddLoss(t)
    BY <1>9 DEF AddLoss
  <1>10. CASE CountSuccess(t)
    BY <1>10 DEF CountSuccess
  <1>11. CASE ClearReverts(t)
    BY <1>11 DEF ClearReverts
  <1>12. CASE ClearLoss(t)
    BY <1>12 DEF ClearLoss
  <1> QED BY <1>1, <1>2, <1>3, <1>4, <1>5, <1>6, <1>7, <1>8, <1>9, <1>10, <1>11, <1>12
          DEF TaskStep

LEMMA PenaltyStep ==
  ASSUME BreakerTypes, BreakerTypes', PenaltyOvershoot,
         NEW t \in Tasks, TaskStep(t) \/ SpawnTask(t)
  PROVE  PenaltyOvershoot'
  <1> USE BreakerAssumption DEF BreakerTypes, MaxPenalty
  <1>1. OwesPenalty \in SUBSET Tasks /\ OwesPenalty' \in SUBSET Tasks
    BY DEF OwesPenalty
  <1>2. /\ Cardinality(OwesPenalty) \in Nat /\ Cardinality(OwesPenalty') \in Nat
        /\ Cardinality(Tasks) \in Nat
    BY <1>1, SubsetOfTasks
  <1>3. CASE OwesPenalty' \in SUBSET OwesPenalty /\ reverts' <= reverts
    <2>1. Cardinality(OwesPenalty') <= Cardinality(OwesPenalty)
      BY <1>1, <1>3, SmallerSet
    <2> QED BY <1>2, <1>3, <2>1 DEF PenaltyOvershoot
  <1>4. CASE /\ t \notin OwesPenalty /\ OwesPenalty' = OwesPenalty \union {t}
             /\ reverts' = reverts /\ reverts < Threshold
    <2>1. Cardinality(OwesPenalty') <= Cardinality(Tasks)
      BY <1>1, SubsetOfTasks
    <2> QED BY <1>2, <1>4, <2>1 DEF PenaltyOvershoot
  <1>5. CASE /\ t \in OwesPenalty /\ OwesPenalty' = OwesPenalty \ {t}
             /\ reverts' <= reverts + MaxPenalty
    <2>1. Cardinality(OwesPenalty') = Cardinality(OwesPenalty) - 1
      BY <1>1, <1>5, Leaving
    <2> QED BY <1>2, <1>5, <2>1 DEF PenaltyOvershoot
  <1> QED BY <1>3, <1>4, <1>5, PenaltyDebtors

\* However the tasks interleave, the penalty never exceeds the threshold by more than one
\* capped weight for each task (chains/mod.rs:123-142).
THEOREM PenaltyBounded == Spec => []PenaltyOvershoot
  <1>1. Init => PenaltyOvershoot
    <2> SUFFICES ASSUME Init PROVE PenaltyOvershoot
      OBVIOUS
    <2>1. OwesPenalty = {}
      BY DEF Init, BreakerInit, OwesPenalty
    <2>2. Cardinality(OwesPenalty) = 0 /\ Cardinality(Tasks) \in Nat
      BY <2>1, FS_EmptySet, SubsetOfTasks
    <2> QED BY <2>2, BreakerAssumption
            DEF Init, BreakerInit, PenaltyOvershoot, MaxPenalty, BreakerAssumption
  <1>2. TypeOK /\ TypeOK' /\ PenaltyOvershoot /\ [Next]_vars => PenaltyOvershoot'
    <2> SUFFICES ASSUME TypeOK, TypeOK', PenaltyOvershoot, [Next]_vars
                 PROVE  PenaltyOvershoot'
      OBVIOUS
    <2>1. CASE UNCHANGED breakerVars
      BY <2>1 DEF PenaltyOvershoot, OwesPenalty
    <2>2. CASE Next /\ ~UNCHANGED breakerVars
      <3>1. PICK t \in Tasks : SpawnTask(t) \/ RunTask(t)
        BY <2>2, StepsOfNext
      <3>2. TaskStep(t) \/ SpawnTask(t)
        BY <3>1 DEF RunTask
      <3> QED BY <3>2, PenaltyStep DEF TypeOK
    <2> QED BY <2>1, <2>2
  <1> QED BY <1>1, <1>2, TypeCorrect, PTL DEF Spec

-----------------------------------------------------------------------------
(* The same bound in dollars: a charge is recorded with its task.          *)

\* what a failing task is going to report is one of the charges
ChargeInv == \A t \in Tasks : cost[t] <= MaxCost

LEMMA ChargeStep ==
  ASSUME BreakerTypes, ChargeInv, NEW t \in Tasks, TaskStep(t) \/ SpawnTask(t)
  PROVE  ChargeInv'
  <1> USE BreakerAssumption DEF BreakerTypes, ChargeInv, BreakerAssumption
  <1>1. CASE UNCHANGED cost
    BY <1>1
  <1>2. CASE \E c \in Costs : RunErr(t, c)
    BY <1>2 DEF RunErr
  <1>3. CASE AddLoss(t)
    BY <1>3 DEF AddLoss
  <1> QED BY <1>1, <1>2, <1>3 DEF TaskStep, SpawnTask, CheckCount, CheckCost, Alerted,
             RunOk, RunPanics, AddPenalty, BreakStreak, CountSuccess, ClearReverts, ClearLoss

\* Who owes a charge changes with the loss check and with the payment only.
LEMMA LossDebtors ==
  ASSUME BreakerTypes, ChargeInv, NEW t \in Tasks, TaskStep(t) \/ SpawnTask(t)
  PROVE  \/ OwesLoss' \in SUBSET OwesLoss /\ loss' <= loss
         \/ /\ t \notin OwesLoss /\ OwesLoss' = OwesLoss \union {t}
            /\ loss' = loss /\ loss < MaxLoss
         \/ /\ t \in OwesLoss /\ OwesLoss' = OwesLoss \ {t}
            /\ loss' <= loss + MaxCost
  <1> USE DEF BreakerTypes, OwesLoss, Move
  <1>1. CASE SpawnTask(t)
    BY <1>1 DEF SpawnTask
  <1>2. CASE CheckCount(t)
    BY <1>2 DEF CheckCount
  <1>3. CASE CheckCost(t)
    <2>1. loss' = loss /\ t \notin OwesLoss
      BY <1>3 DEF CheckCost
    <2>2. CASE Refused(t)
      <3>1. OwesLoss' \in SUBSET OwesLoss
        BY <1>3, <2>2 DEF CheckCost
      <3> QED BY <2>1, <3>1
    <2>3. CASE ~Refused(t)
      <3>1. OwesLoss' = OwesLoss \union {t}
        BY <1>3, <2>3 DEF CheckCost
      <3>2. loss < MaxLoss
        BY <2>3, BreakerAssumption DEF Refused, MaxLoss, BreakerAssumption
      <3> QED BY <2>1, <3>1, <3>2
    <2> QED BY <2>2, <2>3
  <1>4. CASE Alerted(t)
    BY <1>4 DEF Alerted, AfterAlert
  <1>5. CASE RunOk(t) \/ RunPanics(t)
    BY <1>5 DEF RunOk, RunPanics
  <1>6. CASE \E c \in Costs : RunErr(t, c)
    BY <1>6 DEF RunErr
  <1>7. CASE AddPenalty(t)
    BY <1>7 DEF AddPenalty
  <1>8. CASE BreakStreak(t)
    BY <1>8 DEF BreakStreak
  <1>9. CASE AddLoss(t)
    <2>1. loss' <= loss + MaxCost
      BY <1>9, BreakerAssumption DEF AddLoss, ChargeInv, BreakerAssumption
    <2>2. t \in OwesLoss /\ OwesLoss' = OwesLoss \ {t}
      BY <1>9 DEF AddLoss
    <2> QED BY <2>1, <2>2
  <1>10. CASE CountSuccess(t)
    BY <1>10 DEF CountSuccess
  <1>11. CASE ClearReverts(t)
    BY <1>11 DEF ClearReverts
  <1>12. CASE ClearLoss(t)
    BY <1>12 DEF ClearLoss
  <1> QED BY <1>1, <1>2, <1>3, <1>4, <1>5, <1>6, <1>7, <1>8, <1>9, <1>10, <1>11, <1>12
          DEF TaskStep

LEMMA Charges ==
  ASSUME NEW c \in Nat, NEW m \in Nat, NEW n \in Nat
  PROVE  /\ c * m \in Nat
         /\ m <= n => c * m <= c * n
         /\ c * (m + 1) = c * m + c
  OBVIOUS

LEMMA LossStep ==
  ASSUME BreakerTypes, BreakerTypes', ChargeInv, LossOvershoot,
         NEW t \in Tasks, TaskStep(t) \/ SpawnTask(t)
  PROVE  LossOvershoot'
  <1> DEFINE before == Cardinality(OwesLoss)
             after  == Cardinality(OwesLoss')
             all    == Cardinality(Tasks)
  <1>1. OwesLoss \in SUBSET Tasks /\ OwesLoss' \in SUBSET Tasks
    BY DEF OwesLoss
  <1>2. before \in Nat /\ after \in Nat /\ all \in Nat /\ after <= all
    BY <1>1, SubsetOfTasks
  <1>3. MaxCost \in Nat /\ MaxLoss \in Nat /\ loss \in Nat /\ loss' \in Nat
    BY BreakerAssumption DEF MaxLoss, BreakerTypes, BreakerAssumption
  <1>4. loss + MaxCost * before < MaxLoss + MaxCost * all
    BY DEF LossOvershoot
  <1>5. MaxCost * before \in Nat /\ MaxCost * after \in Nat /\ MaxCost * all \in Nat
    BY <1>2, <1>3, Charges
  <1> HIDE DEF before, after, all
  <1>6. loss' + MaxCost * after < MaxLoss + MaxCost * all
    <2>1. CASE OwesLoss' \in SUBSET OwesLoss /\ loss' <= loss
      <3>1. after <= before
        BY <1>1, <2>1, SmallerSet DEF before, after
      <3>2. MaxCost * after <= MaxCost * before
        BY <1>2, <1>3, <3>1, Charges
      <3> QED BY <1>3, <1>4, <1>5, <2>1, <3>2
    <2>2. CASE /\ t \notin OwesLoss /\ OwesLoss' = OwesLoss \union {t}
               /\ loss' = loss /\ loss < MaxLoss
      <3>1. MaxCost * after <= MaxCost * all
        BY <1>2, <1>3, Charges
      <3> QED BY <1>3, <1>5, <2>2, <3>1
    <2>3. CASE /\ t \in OwesLoss /\ OwesLoss' = OwesLoss \ {t}
               /\ loss' <= loss + MaxCost
      <3>1. before = after + 1
        BY <1>1, <1>2, <2>3, Leaving DEF before, after
      <3>2. MaxCost * before = MaxCost * after + MaxCost
        BY <1>2, <1>3, <3>1, Charges
      <3> QED BY <1>3, <1>4, <1>5, <2>3, <3>2
    <2> QED BY <2>1, <2>2, <2>3, LossDebtors
  <1> QED BY <1>6 DEF LossOvershoot, after, all, MaxLoss

\* The money lost before every task is turned away exceeds max_loss_usd by less than one
\* charge for each task (chains/mod.rs:123-142).
THEOREM LossBounded == Spec => []LossOvershoot
  <1> DEFINE Inv == ChargeInv /\ LossOvershoot
  <1>1. Init => Inv
    <2> SUFFICES ASSUME Init PROVE Inv
      OBVIOUS
    <2>1. OwesLoss = {} /\ loss = 0 /\ ChargeInv
      BY BreakerAssumption DEF Init, BreakerInit, OwesLoss, ChargeInv, BreakerAssumption
    <2>2. Cardinality(OwesLoss) = 0 /\ Cardinality(Tasks) \in Nat
      BY <2>1, FS_EmptySet, SubsetOfTasks
    <2>3. MaxCost * 0 = 0 /\ MaxCost * Cardinality(Tasks) \in Nat
      BY <2>2, Charges, BreakerAssumption DEF BreakerAssumption
    <2>4. 0 < MaxLoss /\ MaxLoss \in Nat
      BY BreakerAssumption DEF MaxLoss, BreakerAssumption
    <2> QED BY <2>1, <2>2, <2>3, <2>4 DEF LossOvershoot
  <1>2. TypeOK /\ TypeOK' /\ Inv /\ [Next]_vars => Inv'
    <2> SUFFICES ASSUME TypeOK, TypeOK', Inv, [Next]_vars PROVE Inv'
      OBVIOUS
    <2>1. CASE UNCHANGED breakerVars
      BY <2>1 DEF LossOvershoot, OwesLoss, ChargeInv, MaxLoss
    <2>2. CASE Next /\ ~UNCHANGED breakerVars
      <3>1. PICK t \in Tasks : SpawnTask(t) \/ RunTask(t)
        BY <2>2, StepsOfNext
      <3>2. TaskStep(t) \/ SpawnTask(t)
        BY <3>1 DEF RunTask
      <3> QED BY <3>2, ChargeStep, LossStep DEF TypeOK
    <2> QED BY <2>1, <2>2
  <1> QED BY <1>1, <1>2, TypeCorrect, PTL DEF Spec
=============================================================================
