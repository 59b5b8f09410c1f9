\* The same routers; a middleware inside a mounted router awaits next again.
CONSTANTS
    root = root
    api = api
    v1 = v1
    None = None
    Routers = {root, api, v1}
    Root = root
    Methods = {"GET", "POST"}
    Upper <- UpperCase
    MethodOrder <- Order
    Segments = {"", "a", "b"}
    Blank = ""
    Size <- SizeOf
    Dropped <- DroppedFrom
    Params = {"{id}"}
    NameOf <- NameOfSegment
    Paths <- NestedPaths
    Tables <- Nested
    Rewrites = {}
    OwnParams = OwnParams
    MaxCalls = 2
SPECIFICATION Spec
INVARIANT NestedUnderPrefix
CHECK_DEADLOCK FALSE
