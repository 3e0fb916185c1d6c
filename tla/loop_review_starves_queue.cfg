SPECIFICATION FairSpec
CONSTANTS
    NumJobs = 2
    Aliases = {main}
    MainAlias = main
    AliasOf <- OneAlias
    StartedAliases = {}
    Misrouted = {}
    RetryLimit = 1
    FollowUpLimit = 1
    ListLimit = 1
    StaleListLimit = 50
    Operations = {}
    RecordStatuses = {}
    MaxOps = 0
    MaxCrashes = 0
    Lapses = FALSE
    MaxOutages = 0
    Keep = Keep
PROPERTY
    QueuedIsPickedUp
