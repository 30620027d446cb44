\* One tab, two accounts, three moves of the person, two faults (a session that the
\* server ends, an answer that is lost) and one read of the session nobody asked for.
SPECIFICATION SessionSpec
CONSTANTS People={"a","b"} FirstUser="a" MaxMoves=3 MaxFaults=2 MaxStale=1
INVARIANTS
    NothingLeftBehind
PROPERTIES
    ReturnsToPage
    NobodyIsStuck
CHECK_DEADLOCK FALSE
