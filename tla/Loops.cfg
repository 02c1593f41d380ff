CONSTANTS
    a = a
    b = b
    c = c
    Step = {a, b, c}
    Gate = {b}
    Outcome <- Tags
    Cases <- AllCases
SPECIFICATION LoopSpec
INVARIANTS LoopsAgree CyclesFound
CHECK_DEADLOCK FALSE
