SPECIFICATION PeripherySpec
CONSTANTS
    Cycles = {1, 2}
    Frames = {1, 2}
    before = before
    after = after
    Workloads = {before, after}
    FramesOf <- FramesOfWorkload
    FirstWorkload = before
    Period = 2
    StatusCount = 3
    HistoryCount = 2
    Fallback = 3
    Cushion = 1
    MinLag = 2
    MaxLag = 3
    MaxReasonable = 4
    Recent = 1
    SampleLimit = 1
    FirstHours = {2, 5}
    MaxHour = 7
    MaxUpsets = 1
    None = None
    Datasets = {gfs, icon}
    MaxRun = 2
    MaxExpiries = 1
    Params = {p, q}
    PreviousParams = {p}
    Hours = {1, 2}
    MaxJobs = 3
    LastTime = 1
    Views = {temp, wind}
    MaxHost = 2
    MaxLoads = 2
    MaxEvents = 3
    Torn = Torn
    Scopes = {A, B}
    Files = {f, g}
    Readers = {r1, r2}
    MemoryLimit = 1
    StoredLimit = 1
    MaxReads = 3
    MaxFaults = 1
CONSTRAINT StoresAreWhole
INVARIANTS
    TypeOK
    NoSilentOutage
    AlarmHasACause
    SyncedIndexIsServed
    CachedFilesAreWhole
    ShownIsAsked
    InFlightIsBacked
    PersistedIsOfTheScope
PROPERTIES
    StageNeverFallsBack
CHECK_DEADLOCK FALSE
