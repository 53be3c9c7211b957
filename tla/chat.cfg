SPECIFICATION ChatSpec
CONSTANTS
  m1 = m1
  m2 = m2
  m3 = m3
  Main = Main
  NoSummary = NoSummary
  Msg = {m1, m2}
INVARIANTS TypeOK StackCovered HistoryMirrorsFile SummaryOfMain
PROPERTIES QueuedStarts
CHECK_DEADLOCK FALSE
