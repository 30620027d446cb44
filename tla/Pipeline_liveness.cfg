\* Close under a backend that may stay down, and progress when it recovers.
SPECIFICATION FairSpec
CONSTANTS
    U1 = U1
    T1 = T1
    T2 = T2
    T3 = T3
    H1 = H1
    X = X
    Y = Y
    NoMessage = none
    Transport <- MCTransport
    Weight <- MCWeight
    EntrySize <- MCEntrySize
    Tenants <- MCTenants
    Tenant <- MCOneTenant
    Messages = {T1, T3, H1}
    Poison = {T3}
    Workers = {w1}
    Writers = {v1}
    QueueMaxMessages = 1
    QueueMaxBytes = 2
    BatchMaxRows = 3
    BatchMaxBytes = 10
    BatchQueue = 1
PROPERTIES
    CloseTerminates
    EveryMessageAccounted
