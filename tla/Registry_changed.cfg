\* Targets also change their settings, while two goroutines reconcile and a writer forwards.
SPECIFICATION FairSpec
CONSTANTS
    D = D
    E = E
    K = K
    None = none
    Settings = {1, 2}
    File <- MCFile
    Names = {D, E}
    Rows <- MCChanged
    Watchers = {g1, g2}
    Writers = {w1}
    Forwarders = {1, 2, 3, 4, 5, 6}
    Outages = FALSE
    BuildMayFail = TRUE
    MaxEdits = 1
INVARIANTS
    ServesDesired
PROPERTIES
    UnchangedKeepsBacklog
    ChangesApplied
CHECK_DEADLOCK FALSE
