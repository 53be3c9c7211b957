SPECIFICATION FairSpec
CONSTANTS
  t1 = t1
  t2 = t2
  tui = tui
  chat = chat
  NoTask = NoTask
  Task = {t1, t2}
  Caller = {tui}
  Limit <- DefaultLimit
  Budget <- WaiterBudget
  InitDisks <- InARow
  ReworkTo <- NearEnd
  Priorities = {}
PROPERTIES WaiterResumes
CHECK_DEADLOCK FALSE
