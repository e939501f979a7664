SPECIFICATION FairSpec
CONSTANTS
    Publishers = {p1}
    NumMarkers = 1
    Payloads = {v1}
    Grids = {g1}
    NoMarker = NoMarker
    NoManifest = NoManifest
    NoRevision = NoRevision
    MaxWrites = 1
    MaxSeconds = 1
    MaxCrashes = 1
PROPERTIES
    CompleteRunIsPublished
