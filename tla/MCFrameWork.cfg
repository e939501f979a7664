SPECIFICATION MCSpec
CONSTANTS
    Submitters = {s1, s2}
    NumFrames = 1
    NumArtifacts = 2
    Jobs = {j1, j2}
    Images = {i1, i2}
    NoImage = NoImage
    ClaimTicks = 1
    MaxAge = 2
    BatchAttempts = 2
    MaxDeploys = 1
    MaxUpsets = 1
    Various = {s2}
    MaxCrashes = 1
    MaxFailures = 1
INVARIANTS
    TypeOK
    LeaseExclusion
    MarkersDescribePayloads
PROPERTIES
    FramesComplete
