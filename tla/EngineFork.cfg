SPECIFICATION FairStepsSpec
CONSTANTS
    Step <- ForkStep
    Gate <- ForkGate
    Edge <- ForkEdge
    Outcome <- Outcomes
    LoopMax <- ForkLoop
    LoopUntil <- ForkUntil
    AgentSays = {"ok", "redo"}
    MaxRetries = 2
    ByHand = {"hen"}
    SessionsFail = TRUE
    MaxOps = 3
    MaxRuns = 2
INVARIANTS
    TypeOK
    RunHasWork
    IdleIsQuiet
    UpstreamSettled
    BranchTaken
PROPERTIES
    DecisionIsFinal
    TaskFollowsRun
    ImplementsRun
    RunSettles
CHECK_DEADLOCK FALSE
