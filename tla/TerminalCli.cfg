SPECIFICATION CliSpec
CONSTANTS
    PayloadLimit = 1
    ActionLimit = 2
    Chunks <- Pieces
    MaxChunks = 3
    Requests <- Recorded
    TerminalSizes = {"80x24", "100x30"}
    ExitCodes = {0, 256}
    OutputBudget = 4
    MaxEvents = 6
    MaxSnapshotEvents = 2
    Faults <- AllFaults
    ExitDocuments <- HostExits
    Manifests <- HostManifests
    Metrics <- HostMetrics
    Disks <- HostDisks
    Files <- HostFiles
    Paths <- HostPaths
    Target <- HostTarget
    MaxCount = 7
    MaxPanes = 3
    MaxArtifacts = 3
    MinSeconds = 2
    MinSamples = 2
    MaxSamples = 4
    MaxLatency = 2
    MaxMemory = 120
    MaxElapsed = 1
    MaxRewrites = 1
    PlatformPrograms <- SomePrograms
    PublishOrder <- SomeCrates
    DependsOn <- CrateDepends
    SecurityTools <- SomeTools
    ReleasePlans <- HandWrittenPlans
    MaxGenerations = 2
    Packs <- FixturePacks
    FixtureSizes = {"80x24", "100x30"}
    MaxFixtures = 2
    MaxInputs = 3
    MaxInputBytes = 5
    MaxSplitBytes = 4
    Corpora <- HandWrittenCorpora
    SummaryName = 9
    DefaultFixtures <- SomeDefaults
    MaxReplayEvents = 3
    MaxEventBytes = 8
    MaxReplayBytes = 45
    MaxGeneratedLines = 10
    LineDigits = 1
    LongSessionLines = 9
    MaxRows = 4
    DefaultScrollback = 4
    MaxReplayTime = 2
    MaxReplayCommands = 2
    Operations <- SomeOperations
    Times <- SomeTimes
    Scenarios <- TwoScenarios
    TimeoutEvery = 4
    ProfileRows = 3
    ProfileBudget = 4
    ThresholdFiles <- HandWrittenThresholds
    MaxCommands = 3
    Recordings <- DogfoodRecordings
    MetricsReports <- DogfoodMetrics
    DogfoodSizes = {"80x24", "100x24", "100x30"}
    Height <- HeightOf
    MaxDogfoodEvents = 3
    MaxDogfoodBytes = 7
    MinSessionLines = 3
    BatchBudget = 2
    MemoryBudget = 2
INVARIANTS CliTypeOK SplitInvariant BufferAccounts SavedReplays QueriesAnswered
           BridgeAgrees RecordsStream SplitsProved BudgetIsSpent DiscardsAreReal SummaryIsWhole
           PassIsMeasured DogfoodIsWhole PassIsObserved BoundToDigests
           TestsSeeEvidence NoFailureHidden
PROPERTIES RowsMeasuredThere OutcomesAreRecorded
