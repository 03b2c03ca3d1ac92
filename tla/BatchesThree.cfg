SPECIFICATION Spec
CONSTANTS
    NbWorkers = 3
    Requests <- MCRequests
    MaxCount = 8
    MaxBack = 5
    MaxStart = 2
INVARIANTS TypeOK EveryIndexOnce NoIndexTwice FailsCleanly RangePartitioned
