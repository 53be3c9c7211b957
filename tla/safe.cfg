SPECIFICATION FfSpec
CONSTANTS
    t1 = t1
    t2 = t2
    Task = {t1}
    Session = {t1}
    Main = Main
    Topic = Topic
    Gitzi = Gitzi
    Nothing = Nothing
    Strategies <- OnlyFf
    MaxCommits = 2
    MaxRounds = 3
    MaxExchanges = 1
    MaxCalls = 2
    MaxRuns = 1
    MaxAnswers = 1
    MaxRestarts = 0
    MaxUser = 1
INVARIANTS FfSafe
CHECK_DEADLOCK FALSE
