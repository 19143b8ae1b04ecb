SPECIFICATION FairSpec
CONSTANTS
    Fires = {f1, f2}
    Configs <- MCConfigs
    Requests <- MCRequests
    Responses <- MCResponses
    Salts = {"a", "b"}
    None = None
    MaxCrashes = 1
INVARIANT TypeOK
INVARIANT AutomatesOnlyOnVerdict
INVARIANT CredentialTroubleAsks
INVARIANT KeyGoesToItsOwner
INVARIANT ReportMatchesHistory
PROPERTY AnswersAreLogged
PROPERTY ImplementsSlots
PROPERTY EveryHookEnds
CHECK_DEADLOCK FALSE
