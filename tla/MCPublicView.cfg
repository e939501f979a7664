SPECIFICATION MCSpec
CONSTANTS
    Publishers = {p1, p2}
    NumDatasets = 2
    NumCycles = 2
    NumRuns = 1
    Nothing = Nothing
    Unread = Unread
    MaxFaults = 1
    Operators = {p2}
INVARIANTS
    TypeOK
    ViewsArePublished
PROPERTIES
    LatestRegressesByLostUpdate
    SettledViewsStay
    ViewsCatchUp
