SPECIFICATION ServicesSpec
CONSTANTS
    NumUpdates = 5
    UpdateKind <- SomeUpdates
    BatchLimit = 3
    RecentLimit = 2
    MaxTgCrashes = 2
    MaxSaveFailures = 1
    MaxTgSendFailures = 1

    NumIMessages = 3
    IMessageKind <- SomeIMessages
    Window = 2
    SeenLimit = 3
    GatewayLimit = 2
    Provisional = TRUE
    MaxImCrashes = 1
    MaxPersistFailures = 1
    MaxSeedFailures = 1
    MaxImFailures = 1
    MaxRaises = 1

    mailA = mailA
    mailB = mailB
    mailC = mailC
    SignalMessages = {mailA, mailB, mailC}
    SignalKind <- SomeSignals
    SignalLimit = 2
    MaxCopies = 2
    MaxSignalCrashes = 1
    MaxSignalFailures = 1

    NumMails = 3
    MailKind <- SomeMails
    MaxUnread = 1
    MaxGmCrashes = 1
    MaxGmFailures = 1

    Appenders = {w1, w2}
    MessageLimit = 2
    MaxMessages = 4
    MaxClock = 1
    MaxAppendDeaths = 1

    Principals = {p, q}
    MemoryIds = {1, 2}
    Putters = {w1, w2}
    PrincipalLimit = 1
    GlobalLimit = 1
    MaxTime = 1
    MaxPuts = 2

    NumJobs = 2
    mars = mars
    hera = hera
    Machines = {mars, hera}
    Classes = {"monitoring", "web_research"}
    ClassOf <- OneClass
    AnyMachine = AnyMachine
    MaxLosses = 2

    NumSchedules = 4
    d1 = d1
    d2 = d2
    Dispatchers = {d1, d2}
    Unknown = {4}
    Limit = 2
    Bounded = TRUE
    MaxFailures = 1

    Turns = {1, 2}
    RequestsOf <- TwoTurns
    MaxRounds = 2
    HardLimit = 1
    MaxStoreFailures = 1

    Granted = {"web.search", "system.health", "calendar.write", "messaging.send"}
    MaxIterations = 3
    MaxCalls = 1

    Checks = {route, loopd}
    MaxShDeaths = 2
    MaxRefusals = 1
INVARIANTS
    ServicesTypeOK
    UpdateOnce
    UpdateLossBounded
    MessageOnce
    SignalOncePerLife
    DeliveriesConserved
    MailOnce
    NewestKept
    ConversationBounded
    QuotasHold
    PromiseInv
    OldestFirst
    DispatchedWasExecuted
    RunsBounded
    CloudIsPermitted
    TranscriptKeepsAnswers
    MutationsGuarded
    RetriedOnce
    OutagesAreTold
PROPERTIES
    RepliesInOrder
    MessagesTaken
    WindowIsServed
    ServiceIsDrained
    MailIsRead
    EvictedForFresher
    KeepsPromise
    ServedJobsLeave
    DueIsDispatched
    TurnReturns
    AgentReturns
\* Every service comes to rest once its bounds are used up.
CHECK_DEADLOCK FALSE
