------------------------------ MODULE MCService ------------------------------
(* Instances of Service for TLC. *)
EXTENDS Service

Request(version, parses) == [version |-> version, connection |-> "none", parses |-> parses]

\* Keeps the connection, closes it, cannot be parsed.
ThreeRequests == {Request(11, TRUE), Request(10, TRUE), Request(11, FALSE)}

Detail4(m, cross, preflight) == [method |-> m, cross |-> cross, preflight |-> preflight]

FewDetails == {Detail4("GET", FALSE, FALSE), Detail4("HEAD", TRUE, FALSE), Detail4("OPTIONS", TRUE, TRUE)}

\* The logger around cors as in the tests, and the other way round, each with a
\* layer that catches exceptions outside, between or inside.
FewApplications ==
    {<< >>, <<"logger", "cors">>, <<"cors", "recover", "logger">>, <<"logger", "recover", "cors">>,
     <<"recover", "cors", "logger">>, <<"logger", "cors", "recover">>}

\* The logger alone, and requests of one page.
LoggerOnly == {<<"logger">>}
GetOnly == {Detail4("GET", FALSE, FALSE)}
OneRequest == {Request(11, TRUE)}

\* set_body twice, nothing set, assigned without a header, assigned after set_body
\* (a longer and a shorter body), an answer without a body, one with a body against
\* its status, one that is no answer, one that closes.
FewResponses ==
    {SetBody(Text(200, 1), 2), Response(404), AssignBody(Response(200), 1),
     AssignBody(Text(200, 1), 2), AssignBody(Text(200, 1), 0), Text(204, 0),
     Text(304, 1), Response(103),
     [Text(200, 1) EXCEPT !.connection = "close"]}
==============================================================================
