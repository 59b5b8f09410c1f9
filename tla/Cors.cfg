\* Two origins, a method allow_method can name and one it cannot, one header.
CONSTANTS
    Origins = {o1, o2}
    Methods = {m1, m2}
    Enumerated = {m1}
    Headers = {h1}
    OtherVary = {"accept-encoding"}
SPECIFICATION Spec
SYMMETRY OriginSymmetry
INVARIANTS
    NoCredentialedWildcard
    BrowserAgrees
    CachesMayReuse
PROPERTY RefusalIsContained
