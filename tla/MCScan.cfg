SPECIFICATION Spec
CONSTANTS
    Keys <- MCKeys
    Versions <- MCVersions
    NoObject = NoObject
    Publications <- MCPublications
    Manifest <- MCManifest
    PageSize = 1
    NoSize = NoSize
    MaxChanges = 2
    MaxScans = 1
    Statuses = {200, 204, 403, 404, 429, 500}
INVARIANTS
    TypeOK
    UsageAddsUp
PROPERTIES
    ExactWhenCalm
    FindingsWitnessed
    UnlockedIsAccounted
    OutcomeAgreesWithStatus
