SPECIFICATION ScheduledSpec
CONSTANTS
    Step <- NoStep
    Gate = {}
    Edge = {}
    Outcome <- Outcomes
    LoopMax <- NoLoop
    LoopUntil <- NoUntil
    AgentSays = {"ok"}
    MaxRetries = 1
    ByHand = {}
    SessionsFail = FALSE
    MaxOps = 1
    MaxRuns = 3
    Schedule = {s1}
    MaxExecutions <- Caps
    DbFails = TRUE
    MaxActs = 2
INVARIANTS
    HistoryMatches
    
CHECK_DEADLOCK FALSE
