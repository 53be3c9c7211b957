SPECIFICATION RacingSpec
CONSTANTS
  t1 = t1
  t2 = t2
  tui = tui
  chat = chat
  NoTask = NoTask
  Task = {t1, t2}
  Caller = {tui, chat}
  Limit <- DefaultLimit
  Budget <- RacingBudget
  InitDisks <- BothNearEnd
  ReworkTo <- NearEnd
  Priorities = {200}
INVARIANTS ColumnsSorted BufferWithinLimit
CHECK_DEADLOCK FALSE
