SPECIFICATION MCSpec
CONSTANTS
    Readers = {t1, t2, t3}
    Writers = {t3, t4}
    Endless = {t1}
    MaxIn = 2
    SemMax = 2
    Rounds = 2
INVARIANTS TypeOK MutualExclusion CountersTellTheTruth NoLostWakeup
PROPERTIES ImplementsRWLock WriterNotStarved EveryoneServed
