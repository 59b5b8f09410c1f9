\* Three levels of routers, and one router with overlapping static and dynamic
\* routes; middlewares may await next twice, throw, catch and once change
\* the path or the parameters.
CONSTANTS
    root = root
    api = api
    v1 = v1
    None = None
    Routers = {root, api, v1}
    Root = root
    Methods = {"get", "POST", "BREW"}
    Upper <- UpperCase
    MethodOrder <- Order
    Segments = {"", "a", "b", "aa"}
    Blank = ""
    Size <- SizeOf
    Dropped <- DroppedFrom
    Params = {"{id}", "{n}"}
    NameOf <- NameOfSegment
    Paths <- AllPaths
    Tables <- AllTables
    Rewrites <- NewPaths
    OwnParams = OwnParams
    MaxCalls = 2
SPECIFICATION Spec
INVARIANTS
    TypeOK
    Restored
    ParamsInScope
    ScopeFollows
PROPERTY AnsweredAsResolved
CHECK_DEADLOCK FALSE
