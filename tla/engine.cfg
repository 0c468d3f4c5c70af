\* One awaited and one detached task.  The threshold of 6 is above one capped penalty
\* (5), so the two limits trip separately: one charge of 70 passes the loss limit (60)
\* alone, three charges of 9 (weight 2) reach the count.
SPECIFICATION Spec
CONSTANTS
  Tasks = {t1, t2}
  Threshold = 6
  Costs = {9, 70}
  MaxCost = 70
INVARIANTS
  TypeOK
  PenaltyOvershoot
  LossOvershoot
PROPERTIES
  HaltIsPermanent
  LoopNotWedged
\* the block stream may end
CHECK_DEADLOCK FALSE
