SPECIFICATION Spec
CONSTANTS
    Workers = {w1, w2}
    Sides = {m, b}
    Clients = {c1}
    Jobs = {j1}
    Funs = {f}
    f = f
    g = g
    c1 = c1
    NoJob = NoJob
    MaxFailures = 1
    Recycle = FALSE
    Program <- OneLoop
    Body <- Leaf
SYMMETRY Symmetry
INVARIANTS BatchesAccounted SomebodyComes
 
