SPECIFICATION FairSpec
CONSTANTS
    Tasks = {t1, t2, t3}
    Clients = {k1, k2, k3}
    None = None
INVARIANTS
    TypeOK
    NoOrphanedClient
    OneAtATime
    InStep
PROPERTIES
    NoSpuriousError
    ClosedMeansClosed
    EveryCallReturns
