\* One connection with one request, and the logger around the endpoint.
CONSTANTS
    Conns = {c1}
    Requests <- OneRequest
    MaxRequests = 1
    MaxAcceptErrors = 0
    Applications <- LoggerOnly
    Details <- GetOnly
    Responses <- FewResponses
    None = None
SPECIFICATION Spec
INVARIANT EveryRequestLogged
CHECK_DEADLOCK FALSE
