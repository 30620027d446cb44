\* Sources change, clash and fail to start; one asks for an address that is taken.
SPECIFICATION Spec
CONSTANTS
    A = A
    B = B
    C = C
    H = H
    P1 = P1
    P2 = P2
    None = none
    AnyPort = anyport
    Revisions = {1, 2}
    Names = {A, B, C, H}
    NameOrder <- MCOrder4
    Addresses = {P1, P2}
    File <- MCFile
    Rows <- MCBlocked
    Held <- MCHeldP2
    Contested <- MCContestedP1
    Fragile = {C, H}
    MaxEdits = 2
INVARIANTS
    ListenersMatchDefinitions
    ReportsAreTrue
PROPERTIES
    SourcesUndisturbed
CHECK_DEADLOCK FALSE
