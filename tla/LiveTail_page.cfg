\* Two queries, rings of one and two slots, a server that fails and returns.
SPECIFICATION FairSpec
CONSTANTS
    NoRow = norow
    MaxRow = 2
    MaxRowOptions = {1, 2}
    DefaultSize = 2
    AttemptCap = 1
INVARIANTS
    PageIsTrue
PROPERTIES
    KeepsTheNewest
    StreamRecovers
CHECK_DEADLOCK FALSE
