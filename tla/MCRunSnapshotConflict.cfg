SPECIFICATION IngestSpec
CONSTANTS
    p1 = p1
    p2 = p2
    c1 = c1
    c2 = c2
    Submitters = {s1}
    Pipelines = {p1, p2}
    Catalogs = {c1}
    Images = {i1}
    Fitting <- Every
    NoDoc = NoDoc
    MaxDeploys = 1
    MaxCrashes = 1
PROPERTIES
    RetriesEventuallyLoad
