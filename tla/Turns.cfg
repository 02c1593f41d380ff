SPECIFICATION Spec
CONSTANTS
    Run = {r1, r2}
    Client = {c}
    NoRun = none
    CallId <- Calling
    Origin = {r1, r2}
    MaxRounds = 2
    MaxRetries = 1
    MaxCalls = 2
    MaxDeltas = 1
    MaxFaults = 1
SYMMETRY Messages
VIEW Seen
INVARIANTS
    OneEnding
    WatchedIsWhole
    EndIsTold
    LogIsReady
CHECK_DEADLOCK FALSE
