SPECIFICATION Spec
CONSTANTS
    Procs = {p1, p2}
    Builds <- MCBuilds
    Embedded <- MCEmbedded
    Checksums = {"s1", "s2", "t2", "s3"}
    NoBuild = NoBuild
SYMMETRY MCSymmetry
INVARIANTS
    TypeOK
    SchemaIsRecorded
    RunsOnOwnSchema
PROPERTIES
    ExtendsOwnHistory
