SPECIFICATION Spec
CONSTANTS
    a = a
    b = b
    x = x
    first = first
    Writer = {a, b, x}
    First = first
    MayDo <- Calls
    Size = 2
    MaxRuns = 1
    MaxFaults = 1
SYMMETRY Alike
INVARIANTS
    LastStands
PROPERTIES
    ReplacedOrUnchanged
CHECK_DEADLOCK FALSE
