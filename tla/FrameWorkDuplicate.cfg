SPECIFICATION Spec
CONSTANTS
    Submitters = {s1}
    NumFrames = 1
    NumArtifacts = 1
    Jobs = {j1, j2}
    Images = {i1, i2}
    NoImage = NoImage
    ClaimTicks = 2
    MaxAge = 1
    BatchAttempts = 1
    MaxDeploys = 1
    MaxCrashes = 0
    MaxFailures = 0
PROPERTIES
    CompleteFrameImmutable
