SPECIFICATION DeliverySpec
CONSTANTS
  t1 = t1
  t2 = t2
  tui = tui
  chat = chat
  NoTask = NoTask
  Task = {t1}
  Caller = {tui}
  Limit <- DefaultLimit
  Budget <- DeliveryBudget
  InitDisks <- InCoding
  ReworkTo <- NearEnd
  Priorities = {}
INVARIANTS DiskNotAhead ApprovalReachable
PROPERTIES Delivered
CHECK_DEADLOCK FALSE
