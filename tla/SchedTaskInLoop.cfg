SPECIFICATION FairSpec
CONSTANTS
    Workers = {w1}
    Sides = {m, b}
    Clients = {c1}
    Jobs = {j1, j2}
    Funs = {f, g}
    f = f
    g = g
    c1 = c1
    NoJob = NoJob
    MaxFailures = 0
    Recycle = FALSE
    Program <- NestedLoop
    Body <- TaskInside
PROPERTIES CallsReturn
