SPECIFICATION FairSpec
CONSTANTS
    NumJobs = 1
    Aliases = {main}
    MainAlias = main
    AliasOf <- OneAlias
    StartedAliases = {}
    Misrouted = {}
    RetryLimit = 1
    FollowUpLimit = 1
    ListLimit = 20
    StaleListLimit = 50
    Operations = {"tool_stop"}
    RecordStatuses = {}
    MaxOps = 1
    MaxCrashes = 0
    Lapses = FALSE
    MaxOutages = 0
    Keep = Keep
PROPERTY
    StopIsHonoured
