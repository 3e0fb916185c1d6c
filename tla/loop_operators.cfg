SPECIFICATION Spec
CONSTANTS
    NumJobs = 1
    Aliases = {main}
    MainAlias = main
    AliasOf <- OneAlias
    StartedAliases = {main}
    Misrouted = {}
    RetryLimit = 1
    FollowUpLimit = 1
    ListLimit = 20
    StaleListLimit = 50
    Operations = {"done", "clear", "block", "stop", "tool_stop", "follow_up", "retry", "requeue", "stop_all", "runtime_stop", "reset", "replace"}
    RecordStatuses = {}
    MaxOps = 2
    MaxCrashes = 1
    Lapses = TRUE
    MaxOutages = 0
    Keep = Keep
INVARIANTS
    TypeOK
    DispatchedOncePerQueueing
    ReviewIsIdle
PROPERTY
    DoneIsReviewed
