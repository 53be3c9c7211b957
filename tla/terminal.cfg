SPECIFICATION ScenarioSpec
CONSTANTS
    t1 = t1
    t2 = t2
    Task = {t1, t2}
    NoTask = NoTask
    Boards <- BothOrOne
    NoEpics = TRUE
    Switches = {"board"}
    Backlog = 1
    MaxChanges = 2
    MaxForks = 1
    MaxConnects = 2
    MaxKeys = 1
INVARIANTS TerminalTypeOK BoardShown ReviewSelected
CHECK_DEADLOCK FALSE
