\* Every application of three handlers, composed two levels deep, with a fallback
\* each; one request, whose middlewares may await next twice.
CONSTANTS
    root = root
    sub = sub
    leaf = leaf
    Handlers = {root, sub, leaf}
    Root = root
    MayContain <- Three
    Middlewares = {a, b}
    Null = Null
    Requests = {r1}
    MaxChain <- TwoAndOnes
    MaxCalls = 2
SPECIFICATION FairSpec
INVARIANTS
    NextIsTheRest
PROPERTIES
    ImplementsOnion
    Ends
CHECK_DEADLOCK FALSE
