SPECIFICATION Spec
CONSTANTS
    c1 = c1
    c2 = c2
    c3 = c3
    paired = paired
    u1 = u1
    u2 = u2
    None = None
    Connection = {c1, c2, c3}
    Node = {paired, u1, u2}
    Paired <- OnePaired
    MaxConnections = 2
    MaxInvocations = 2
    MaxQuiet = 1
SYMMETRY Alike
INVARIANTS
    IndexesAgree
    PendingHasParties
PROPERTIES
    EndsForAReason
CHECK_DEADLOCK FALSE
