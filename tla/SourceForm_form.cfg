\* One editor: two edits and two saves from six sources.
SPECIFICATION SourceSpec
CONSTANTS
    Templates <- MCTemplates
    Presets <- MCPresets
    Stored <- MCStored
    Inputs <- MCInputs
    RuleInputs <- MCRuleInputs
    MaxRules = 3
    MaxEdits = 2
    MaxSaves = 2
INVARIANTS
    UntouchedSaveIsIdentity
    FormHangsTogether
PROPERTIES
    TypedRulesSurvive
CHECK_DEADLOCK FALSE
