SPECIFICATION Spec
CONSTANTS
    Segments = {"%5Fpage-hub", "_page%2Dhub", "", "_page-hub", "_PAGE-HUB"}
    EmptySegment = ""
    DotSegments = {}
    Hidden = {}
    Reserved = {"_page-hub", "_PAGE-HUB"}
    Blank = {""}
    Unclean = {}
    ManagerRoot = "_page-hub"
    Decoded <- MCDecoded
    PathSegments = {"%5Fpage-hub", "_page%2Dhub", "_page-hub"}
    MaxDepth = 2
    MaxSlashes = 2
    Unconfigured = Unconfigured
INVARIANT
    RoutesOwnedOnce
CHECK_DEADLOCK FALSE
