\* Nothing fails: every change is applied in the end.
SPECIFICATION FairSpec
CONSTANTS
    A = A
    B = B
    C = C
    H = H
    P1 = P1
    P2 = P2
    None = none
    AnyPort = anyport
    Revisions = {1, 2}
    Names = {A, B, C, H}
    NameOrder <- MCOrder4
    Addresses = {P1}
    File <- MCFile
    Rows <- MCApplied
    Held <- MCNothing
    Contested <- MCNothing
    Fragile = {}
    MaxEdits = 2
PROPERTIES
    ChangesApplied
CHECK_DEADLOCK FALSE
