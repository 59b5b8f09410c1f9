\* Two builders, two methods and two patterns, up to four calls.  Every path of
\* up to five characters, prefix of up to three and inner prefix of up to two;
\* every target of up to six characters; every two lines of a header, in two
\* spellings, of up to four characters.
CONSTANTS
    Get = Get
    Post = Post
    x = x
    y = y
    d1 = d1
    d2 = d2
    None = None
    Methods = {Get, Post}
    StaticPaths = {}
    Patterns = {d1, d2}
    Builders = {x, y}
    MaxCalls = 4
    Letters = {"a", "b"}
    MaxPath = 5
    MaxPrefix = 3
    MaxChild = 2
    TargetChars = {"a", "/", "?", "&", "="}
    MaxTarget = 6
    FieldChars = {"a", ",", " "}
    MaxField = 4
    MaxLines = 2
    Spellings = {"X-Forwarded-For", "x-forwarded-for"}
SPECIFICATION MCSpec
SYMMETRY Symmetry
INVARIANTS
    NoBareEndpoint
    ChainsAsWritten
    PatternsInOrder
    MatchIsBySegments
    RelativeIsTheRest
    CutByCharacters
    TargetAsWritten
    HeadersAsSent
CHECK_DEADLOCK FALSE
