\* Two workers; the budget and both channels run full, and producers wait in line.
SPECIFICATION Spec
CONSTANTS
    U1 = U1
    T1 = T1
    T2 = T2
    T3 = T3
    H1 = H1
    X = X
    Y = Y
    NoMessage = none
    Transport <- MCTransport
    Weight <- MCWeight
    EntrySize <- MCEntrySize
    Tenants <- MCTenants
    Tenant <- MCTenant
    Messages = {U1, T1, T3}
    Poison = {T3}
    Workers = {w1, w2}
    Writers = {v1}
    QueueMaxMessages = 1
    QueueMaxBytes = 2
    BatchMaxRows = 2
    BatchMaxBytes = 2
    BatchQueue = 1
INVARIANTS
    TypeOK
    Accounting
    BudgetConserved
    MemoryBounded
    NoSendOnClosed
    TenantsSeparate
