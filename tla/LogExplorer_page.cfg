\* One page over four kinds of logs: typed, built and proposed queries, pages that
\* end among logs of one time, one of which arrives late, and a saved search that others change.
SPECIFICATION ExplorerSpec
CONSTANTS
    Samples <- MCSamples
    Matching <- MCMatching
    Unsafe <- MCUnsafe
    Numbers <- MCNumbers
    BadRegexes <- MCBadRegexes
    CIDRs <- MCCIDRs
    StartURLs <- MCStartURLs
    Typed <- MCTyped
    FormInputs <- MCFormInputs
    Natives <- MCNatives
    Proposals <- MCProposals
    Logs <- MCLogs
    Ranks <- MCRanks
    StartLogs <- MCStartLogs
    Ranges <- MCRanges
    Links <- MCLinks
    Now = 4
    SEARCH_PAGE_SIZE = 2
    MAX_LOADED_ROWS = 4
    MaxTieGroup = 2
    MaxEvents = 1
    Elsewhere <- MCElsewhere
    MaxSaves = 2
    MaxElsewhere = 1
    MaxMoves <- MCMaxMoves
INVARIANTS
    QueryKeepsItsMeaning
    AnswerIsOfTheQuery
    PagesJoin
PROPERTIES
    SelectionStands
    PanelsSettle
CHECK_DEADLOCK FALSE
