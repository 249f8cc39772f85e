SPECIFICATION Spec
CONSTANTS
    Segments = {"a", "b", "x", "i", "j", ""}
    EmptySegment = ""
    DotSegments = {}
    Hidden = {}
    Reserved = {}
    Blank = {""}
    Unclean = {}
    Commands = {c1}
    OperationIDs = {o1}
    NoOperation = NoOperation
    Versions = {v1, v2}
    NoObject = NoObject
    Answers = {"page"}
    WrongStatus = "wrong"
    NoPlan = NoPlan
    MaxDrift = 1
    MaxSlashes = 2
    Keys <- MCKeys
    Origins <- MCDoubled
    Declarations <- MCDeclarations
INVARIANT
    PlanAndCommitAgree
