SPECIFICATION MCSpec
CONSTANTS
    p1 = p1
    p2 = p2
    c1 = c1
    c2 = c2
    Submitters = {s1, s2}
    Pipelines = {p1, p2}
    Catalogs = {c1, c2}
    Images = {i1}
    Fitting <- Additive
    NoDoc = NoDoc
    MaxDeploys = 2
    MaxCrashes = 1
INVARIANTS
    TypeOK
    LoadedWasRead
    RunDocumentIsLast
    OneConfigNeverFails
PROPERTIES
    SettlesOnce
    OneConfigLoads
