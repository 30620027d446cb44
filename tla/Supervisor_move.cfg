\* A source moves to a free address.
SPECIFICATION Spec
CONSTANTS
    A = A
    B = B
    C = C
    H = H
    P1 = P1
    P2 = P2
    None = none
    AnyPort = anyport
    Revisions = {1, 2}
    Names = {A, B}
    NameOrder <- MCOrder2
    Addresses = {P1, P2}
    File <- MCFile
    Rows <- MCMoving
    Held <- MCNothing
    Contested <- MCNothing
    Fragile = {}
    MaxEdits = 2
PROPERTIES
    MovingSourceServed
CHECK_DEADLOCK FALSE
