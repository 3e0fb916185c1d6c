SPECIFICATION Spec
CONSTANTS
    NumJobs = 1
    Aliases = {main}
    MainAlias = main
    AliasOf <- OneAlias
    StartedAliases = {}
    Misrouted = {}
    RetryLimit = 1
    FollowUpLimit = 1
    ListLimit = 20
    StaleListLimit = 50
    Operations = {"follow_up", "retry", "block"}
    RecordStatuses = {}
    MaxOps = 3
    MaxCrashes = 0
    Lapses = TRUE
    MaxOutages = 0
    Keep = Keep
INVARIANT
    GrantsBounded
