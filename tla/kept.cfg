SPECIFICATION FreshSpec
CONSTANTS
    lmstudio = lmstudio
    bedrock = bedrock
    Provider = {lmstudio, bedrock}
    Local = {lmstudio}
    Stock = lmstudio
    None = None
    NoFile = NoFile
    Broken = Broken
    l1 = l1
    l2 = l2
    c1 = c1
    Chat = {c1}
    Switcher = {s1, s2}
    MaxCalls = 2
    Limits = {l1, l2}
    BuiltIn = l1
    LastTask = 0
    Front = {f1}
    Finds <- FindsLocal
    InitFiles <- FreshOrGenerated
    MaxStarts = 2
    MaxEdits = 1
    MaxSwitches = 0

PROPERTIES FallbackSurvives
CHECK_DEADLOCK FALSE
