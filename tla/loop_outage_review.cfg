SPECIFICATION Spec
CONSTANTS
    NumJobs = 1
    Aliases = {main}
    MainAlias = main
    AliasOf <- OneAlias
    StartedAliases = {}
    Misrouted = {}
    RetryLimit = 1
    FollowUpLimit = 1
    ListLimit = 20
    StaleListLimit = 50
    Operations = {}
    RecordStatuses = {}
    MaxOps = 0
    MaxCrashes = 0
    Lapses = FALSE
    MaxOutages = 1
    Keep = Keep
INVARIANT
    ReviewIsIdle
