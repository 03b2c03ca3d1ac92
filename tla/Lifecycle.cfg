SPECIFICATION FairSpec
CONSTANTS
    NbWorkers = 2
    MaxTokens = 1
INVARIANTS TypeOK UpdateSeesWorkers ThreadsHaveMemory NothingLeft ExitReachesSleepers
PROPERTIES ShutdownReturns
