SPECIFICATION ScanSpec
CONSTANTS
    CallId = {a, b}
    Origin <- Places
    MaxMessages = 6
INVARIANTS
    ProviderReady
    HealthyIsKept
    NothingSaidIsLost
CHECK_DEADLOCK FALSE
