SPECIFICATION IngestSpec
CONSTANTS
    Invocations = {i1, i2}
    Cycles = {0}
    AllowedCycles = {0}
    Frames = {0, 3}
    before = before
    after = after
    Configs = {before, after}
    FirstConfig = before
    WorkloadFrames <- WorkloadFramesOf
    HasWork <- HasWorkIn
    Nothing = Nothing
    MrmsFrames = {1, 2}
    MrmsMessage <- MrmsMessages
    HasMrmsWork <- HasMrmsWorkIn
    BatchSize = 2
    MaxReceives = 2
    MaxAttempts = 2
    MaxNotifications = 2
    MaxFaults = 1
    MaxJobFailures = 1
    MaxExpiries = 1
    MaxRuns = 2
    MaxDeploys = 1
INVARIANTS
    TypeOK
    OneRunPerCycle
    PinnedSelection
    NoSilentLoss
    DeletedMessagesAreInHand
PROPERTIES
    FramesSettle
CHECK_DEADLOCK FALSE
