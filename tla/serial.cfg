SPECIFICATION NoticedSpec
CONSTANTS
  t1 = t1
  t2 = t2
  tui = tui
  chat = chat
  NoTask = NoTask
  Task = {t1, t2}
  Caller = {tui, chat}
  Limit <- DefaultLimit
  Budget <- SerialBudget
  InitDisks <- BothNearEnd
  ReworkTo <- NearEnd
  Priorities = {}
INVARIANTS TypeOK ExclusiveTask ApprovalReachable BlockedAnswerable
PROPERTIES HumanGate FollowsPipeline
CHECK_DEADLOCK FALSE
