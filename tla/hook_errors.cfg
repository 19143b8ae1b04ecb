SPECIFICATION Spec
CONSTANTS
    Fires = {f1}
    Configs <- MCLogged
    Requests <- MCPlain
    Responses <- MCResponses
    Salts = {"a", "b"}
    None = None
    MaxCrashes = 0
INVARIANT FailuresAreCounted
CHECK_DEADLOCK FALSE
