\* One page at a time: one source with one edit of each side and two calls, one
\* target with one change of its dialog and two calls, one dialog over two accounts,
\* three calls on the keys, two saved periods with an outage and a restart, and one
\* edit and two saves of the catalog of services.
SPECIFICATION ConsoleSpec
CONSTANTS
    Mine = {"m1"}
    Others = {"o1"}
    SettleTimers = 1
    MaxCalls = 2
    MaxVisits = 1
    StartTargets <- MCStartTargets
    FieldInputs <- MCFieldInputs
    OtherConfigs <- MCOtherConfigs
    KnownSources = {"x"}
    Timers = 1
    MaxDialogs = 1
    MaxTyped = 1
    MaxRequests = 2
    MaxOthers = 1
    Names = {"n0"}
    Roles = {"viewer", "analyst"}
    MaxUserCalls = 2
    MaxUserDialogs = 1
    MaxFills = 1
    MaxAdmins = 1
    Scopes = {"ingest"}
    MaxKeyCalls = 3
    MaxKeyDialogs = 3
    MaxTicks = 2
    Texts <- MCTexts
    Presets <- MCPresets
    InForce = 43200
    OtherPeriods = {2880}
    MaxWrites = 1
    MaxSubmits = 2
    MaxOutages = 1
    MaxElsewhere = 1
    LOWER <- MCLower
    TRIMMED <- MCTrimmed
    UNDOTTED <- MCUndotted
    Slugs = {"a", "b", "c"}
    DomainNames = {"x.com", "y.com"}
    WideLabels = {"wide"}
    MAX_SERVICES = 2
    StartCatalogs <- MCStartCatalogs
    ShippedCountries <- MCShipped
    ServiceEdits <- MCServiceEdits
    OtherCatalogs <- MCOtherCatalogs
    MaxRowEdits = 1
    MaxFilled = 1
    MaxCatalogPuts = 2
    MaxCatalogReads = 1
    MaxPanels = 2
INVARIANTS
    UntouchedIsUnchanged
    PagesTellTheTruth
PROPERTIES
    NoBlindOverwrite
    TypingSurvives
    PagesConverge
CHECK_DEADLOCK FALSE
