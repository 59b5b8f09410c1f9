\* Two connections, two pipelined requests each, one failed accept; the handler
\* decides whether a connection is kept.  No symmetry: it is not sound for liveness.
CONSTANTS
    Conns = {c1, c2}
    Requests <- TwoRequests
    MaxRequests = 2
    MaxAcceptErrors = 1
SPECIFICATION FairSpec
INVARIANTS
    TypeOK
    SerialPerConnection
    SilentAfterClose
    AnswersMatch
PROPERTIES
    ImplementsExchange
    NoSessionLeak
CHECK_DEADLOCK FALSE
