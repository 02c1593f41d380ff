SPECIFICATION FairTriggerSpec
CONSTANTS
    Step <- OneStep
    Gate = {}
    Edge = {}
    Outcome <- Outcomes
    LoopMax <- NoLoop
    LoopUntil <- NoUntil
    AgentSays = {"ok"}
    MaxRetries = 1
    ByHand = {}
    SessionsFail = TRUE
    MaxOps = 1
    MaxRuns = 2
    Message = {m1, m2}
    NoMessage = none
    CallsFail = TRUE
INVARIANTS
    ToldTheEnd
PROPERTIES
    EveryoneIsTold
CHECK_DEADLOCK FALSE
