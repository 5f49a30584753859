SPECIFICATION Spec
CONSTANTS
    Names <- MCNames
    DigitStems <- MCDigitStems
    MaxUploads = 2
    MaxPreviews = 1
    MaxFaults = 1
    Slugs = {"reserved", "digit"}
    MaxRushes = 1
INVARIANTS
    TypeOK
    SchemasMatchCatalog
    ListedAreIngested
    ProfileMatchesData
    ArtifactsAreWritten
    EvidenceBehindPR
    FailureHasCause
CHECK_DEADLOCK FALSE
