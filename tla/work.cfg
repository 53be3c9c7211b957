SPECIFICATION ScenarioSpec
CONSTANTS
    t1 = t1
    t2 = t2
    Task = {t1, t2}
    Session = {t1, t2}
    Main = Main
    Topic = Topic
    Gitzi = Gitzi
    Nothing = Nothing
    Strategies <- AllStrategies
    MaxCommits = 3
    MaxRounds = 3
    MaxExchanges = 1
    MaxCalls = 2
    MaxRuns = 2
    MaxAnswers = 3
    MaxRestarts = 1
    MaxUser = 1
INVARIANTS WorkTypeOK WindowPaired Landed OnlyDoneWork
PROPERTIES HistoryKept RunsEnd
CHECK_DEADLOCK FALSE
