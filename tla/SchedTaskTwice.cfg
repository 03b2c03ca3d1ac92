SPECIFICATION Spec
CONSTANTS
    Workers = {w1}
    Sides = {m, b}
    Clients = {c1}
    Jobs = {j1}
    Funs = {f}
    f = f
    g = g
    c1 = c1
    NoJob = NoJob
    MaxFailures = 0
    Recycle = FALSE
    Program <- OneTask
    Body <- Leaf
INVARIANTS TaskRunOnce
