SPECIFICATION Spec
CONSTANTS
    Run = {r1}
    Client = {c}
    NoRun = none
    CallId <- Calling
    Origin = {r1}
    MaxRounds = 2
    MaxRetries = 0
    MaxCalls = 1
    MaxDeltas = 1
    MaxFaults = 0
PROPERTIES
    StopCancels
CHECK_DEADLOCK FALSE
