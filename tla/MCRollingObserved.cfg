SPECIFICATION FairSpec
CONSTANTS
    Publishers = {p1, p2}
    NumFrames = 3
    NumArtifacts = 1
    before = before
    after = after
    Configs = {before, after}
    FirstConfig = before
    ArtifactsOf <- ArtifactsOfConfig
    MetadataOf <- MetadataOfConfig
    DisplayWindow = 1
    ScanWindow = 1
    Nothing = Nothing
    MaxDeploys = 1
    MaxRewrites = 1
    MaxCrashes = 1
INVARIANTS
    TypeOK
    PromisesAreKept
PROPERTIES
    RegressesByLostUpdate
    LatestCatchesUp
