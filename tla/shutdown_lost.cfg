\* One task is enough: the signal arrives while the loop waits for it.
SPECIFICATION Spec
CONSTANTS
  Tasks = {t1}
  Threshold = 6
  Costs = {9}
  MaxCost = 9
PROPERTIES
  ShutdownHonoured
CHECK_DEADLOCK FALSE
