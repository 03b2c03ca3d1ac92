SPECIFICATION Spec
CONSTANTS
    Threads = {t1, t2}
    Blocks = {b1, b2, b3}
    Lists = {ready, done}
    Els = {e1, e2}
    Null = Null
    Stray = Stray
    NoOp = NoOp
    StartSize = 2
    MaxSize = 4
SYMMETRY Symmetry
INVARIANTS TypeOK BothWays NodesAccounted RecordsTrue NothingReported
PROPERTIES ImplementsSequences
