CONSTANTS
    a = a
    b = b
    c = c
    x = x
    y = y
    Step = {a, b, c}
    Gate = {}
    Outcome <- Tags
    Editor = {x, y}
    Links <- AllLinks
    Born = {a, b}
    Kinds = {"link", "relink", "unlink", "rewrite", "create", "delete"}
    AgentSays = {"approved", "rejected"}
    MaxActs = 3
SYMMETRY Alike
SPECIFICATION Spec
INVARIANTS TypeOK CycleNeedsRace ResultsMatch
CHECK_DEADLOCK FALSE
