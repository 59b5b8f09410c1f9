\* One connection, two requests on it.
CONSTANTS
    Conns = {c1}
    Requests <- ThreeRequests
    MaxRequests = 2
    MaxAcceptErrors = 1
    Applications <- FewApplications
    Details <- FewDetails
    Responses <- FewResponses
    None = None
SPECIFICATION FairSpec
INVARIANTS
    InSync
    LoggedOnce
    GrantedUnlessThrown
PROPERTIES
    ClientsExchange
    EveryRequestAnswered
CHECK_DEADLOCK FALSE
