SPECIFICATION Spec
CONSTANTS
  m1 = m1
  m2 = m2
  m3 = m3
  Main = Main
  NoSummary = NoSummary
  Msg = {m1, m2, m3}
PROPERTIES AbortedIsMerged
CHECK_DEADLOCK FALSE
