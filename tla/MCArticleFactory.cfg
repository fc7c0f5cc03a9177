SPECIFICATION FairSpec
CONSTANTS
    Articles = {a1}
    MaxRank = 2
    Requests = {r1, r2}
    Texts = {t1, t2}
    MaxTime = 1
    MaxRequests = 2
    MaxFaults = 1
    None = None
INVARIANTS
    TypeOK
    OneAnalysis
    ReadyWasHanded
PROPERTIES
    HandedOnce
    HandsOverCurrentText
    DueGetsHanded
