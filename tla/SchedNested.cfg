SPECIFICATION FairSpec
CONSTANTS
    Workers = {w1}
    Sides = {m, b}
    Clients = {c1}
    Jobs = {j1, j2, j3}
    Funs = {f, g}
    f = f
    g = g
    c1 = c1
    NoJob = NoJob
    MaxFailures = 1
    Recycle = FALSE
    Program <- LoopAndTask
    Body <- LoopInside
INVARIANTS TypeOK  NoJobLost CompletionPosted
PROPERTIES  CallsReturn
