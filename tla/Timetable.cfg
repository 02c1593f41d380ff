SPECIFICATION FairSpec
CONSTANTS
    Schedule = {s1}
    MaxExecutions <- Caps
    DbFails = TRUE
    MaxActs = 1
    Pulse = {p1}
    MaxRetries = 1
    CallsFail = TRUE
    MaxJobRuns = 2
INVARIANTS
    OneClaim
    CountIsExact
    RunningIsExecuted
    CapHolds
    OneShotOnce
    RunningJobsRun
PROPERTIES
    PulseServed
    ScheduleServed
CHECK_DEADLOCK FALSE
