SPECIFICATION Spec
CONSTANTS
    Segments = {"a", "b", "x", "i", "j", ""}
    EmptySegment = ""
    DotSegments = {}
    Hidden = {}
    Reserved = {}
    Blank = {""}
    Unclean = {}
    Commands = {c1, c2}
    OperationIDs = {o1, o2}
    NoOperation = NoOperation
    Versions = {v1, v2}
    NoObject = NoObject
    Answers = {"page"}
    WrongStatus = "wrong"
    NoPlan = NoPlan
    MaxDrift = 1
    MaxSlashes = 2
    Keys <- MCKeys
    Origins <- MCOrigins
    Declarations <- MCDeclarations
SYMMETRY MCSymmetry
INVARIANTS
    TypeOK
    OwnedOnce
    AcceptedAsApproved
PROPERTIES
    KeepsContract
    AcceptedWasThere
    FrozenBucketCovered
