SPECIFICATION FairSpec
CONSTANTS
    NbWorkers = 1
    MaxTokens = 1
PROPERTIES UninitReturns
