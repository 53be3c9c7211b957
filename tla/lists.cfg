SPECIFICATION ListsSpec
CONSTANTS
  t1 = t1
  t2 = t2
  t3 = t3
  Task = {t1, t2, t3}
  Targets <- TwoColumns
  Levels <- TwoLevels
SYMMETRY Renaming
INVARIANTS ListedOnce OperationsAgree ReloadAgrees
CHECK_DEADLOCK FALSE
