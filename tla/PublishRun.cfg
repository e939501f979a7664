SPECIFICATION FairSpec
CONSTANTS
    Publishers = {p1, p2}
    NumMarkers = 2
    Payloads = {v1}
    Grids = {g1, g2}
    NoMarker = NoMarker
    NoManifest = NoManifest
    NoRevision = NoRevision
    MaxWrites = 3
    MaxSeconds = 1
    MaxCrashes = 1
INVARIANTS
    TypeOK
    PublicationIsLast
    ManifestsServable
    OneManifestNeverConflicts
PROPERTIES
    SettlesOnce
    OneManifestPublishes
