SPECIFICATION Spec
CONSTANTS
    NumJobs = 2
    Aliases = {main}
    MainAlias = main
    AliasOf <- OneAlias
    StartedAliases = {}
    Misrouted = {}
    RetryLimit = 1
    FollowUpLimit = 1
    ListLimit = 20
    StaleListLimit = 50
    Operations = {"retry", "replace", "record", "cli_stop"}
    RecordStatuses = {Keep, "queued"}
    MaxOps = 1
    MaxCrashes = 1
    Lapses = FALSE
    MaxOutages = 1
    Keep = Keep
INVARIANT
    DispatchInv
