SPECIFICATION FairSpec
CONSTANTS
    Publishers = {p1}
    NumDatasets = 1
    NumCycles = 1
    NumRuns = 2
    Nothing = Nothing
    Unread = Unread
    MaxFaults = 0
PROPERTIES
    ScheduleSelectsOneRun
