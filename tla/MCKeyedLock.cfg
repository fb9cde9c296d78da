SPECIFICATION FairSpec
CONSTANTS
    Tasks = {t1, t2, t3}
    Keys = {k1, k2}
    LockObjs = {l1, l2, l3}
    NoLock = NoLock
    NoKey = NoKey
INVARIANTS
    MutualExclusion
    DictionaryExact
PROPERTIES
    WaiterServed
    ImplementsMutex
