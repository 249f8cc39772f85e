SPECIFICATION Spec
CONSTANTS
    Segments = {"a", "b", "", ".", ".x", "_page-hub", "_PAGE-HUB",
                "_page-hub%2Fa", "c#"}
    EmptySegment = ""
    DotSegments = {"."}
    Hidden = {".", ".x"}
    Reserved = {"_page-hub", "_PAGE-HUB"}
    Blank = {""}
    Unclean = {"c#"}
    ManagerRoot = "_page-hub"
    Decoded <- MCDecoded
    PathSegments = {"a", "_page-hub%2Fa", "", "_PAGE-HUB"}
    MaxDepth = 3
    MaxSlashes = 2
    Unconfigured = Unconfigured
INVARIANTS
    RoutesOwnedOnce
    OutsideManager
    PreviewsItsOwn
    AnswersOnlyTheOperator
CHECK_DEADLOCK FALSE
