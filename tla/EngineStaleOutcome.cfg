SPECIFICATION Spec
CONSTANTS
    Step <- OneStep
    Gate = {}
    Edge = {}
    Outcome <- Outcomes
    LoopMax <- OneLoop
    LoopUntil <- OneUntil
    AgentSays = {"ok"}
    MaxRetries = 2
    ByHand = {}
    SessionsFail = FALSE
    MaxOps = 3
    MaxRuns = 2
PROPERTIES
    OwnOutcomeOnly
CHECK_DEADLOCK FALSE
