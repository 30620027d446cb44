\* Two writers, a full queue, a remote that fails and rejects, and Stop.
SPECIFICATION FairSpec
CONSTANTS
    G1 = G1
    G2 = G2
    G3 = G3
    X = X
    Y = Y
    None = none
    Content <- MCContent
    Rows <- MCRows
    Selected <- MCSelected
    Poison <- MCPoison
    Size <- MCSize
    Tenants <- MCTenants
    Tenant <- MCTenant
    Groups = {G1, G2, G3}
    Callers = {w1, w2}
    QueueMaxMessages = 2
    QueueMaxBytes = 0
    QueueSlots = 2
    BatchMaxRows = 2
    BatchMaxBytes = 0
INVARIANTS
    CopiesAccounted
    BufferAccounted
    OneTenantPerWrite
    NoSendOnClosed
PROPERTIES
    StopTerminates
    EveryCopySettled
CHECK_DEADLOCK FALSE
