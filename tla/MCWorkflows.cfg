\* Two concurrent loops of one agent in one session with two turns, one reset,
\* the weakest breaker and one strike or one report to quarantine.
SPECIFICATION FairSpec
CONSTANTS
    w1 = w1
    w2 = w2
    a1 = a1
    s1 = s1
    search = search
    shell = shell
    NoTool = NoTool
    Workflows <- MCWorkflowsSet
    agentOf <- MCAgentOf
    sessionOf <- MCSessionOf
    Agents = {a1}
    Sessions = {s1}
    Tools <- MCTools
    AllowedTools <- OnlySearch
    DefaultTools <- OnlySearch
    Reported = {"SIGNATURE_FAILURE"}
    QuarantineThreshold = 50
    RecoveryRate = 50
    FailureThreshold = 1
    RecoveryTime = 0
    MaxPending = 1
    MaxStrikes = 0
    MaxSuccesses = 1
    MaxTurns = 2
    MaxResets = 1
    EnableLayer2 = TRUE
    EnableLayer3 = TRUE
INVARIANTS ToolCallsAreCapped RestrictedLoopsStartOneTool IndInv
PROPERTIES LoopsEnd
