SPECIFICATION ScenarioSpec
CONSTANTS
    lmstudio = lmstudio
    bedrock = bedrock
    Provider = {lmstudio, bedrock}
    Local = {lmstudio}
    Stock = lmstudio
    None = None
    NoFile = NoFile
    Broken = Broken
    l1 = l1
    l2 = l2
    c1 = c1
    Chat = {c1}
    Switcher = {s1, s2}
    MaxCalls = 1
    Limits = {l1, l2}
    BuiltIn = l1
    LastTask = 2
    Front = {f1}
    Finds <- MachineFinds
    InitFiles <- FreshOrGenerated
    MaxStarts = 2
    MaxEdits = 1
    MaxSwitches = 3
INVARIANTS ConfigTypeOK ReadyNotMissed SavedAtRest AgentsFollow SplashEnds AgentsHeld
PROPERTIES LimitsFollowFile WaitsEnd
CHECK_DEADLOCK FALSE
