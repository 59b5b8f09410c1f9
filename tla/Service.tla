------------------------------- MODULE Service -------------------------------
(***************************************************************************)
(* The whole service, as nexus::serve puts it together (src/serve.cpp):    *)
(* the executor reads requests off a connection and calls the application, *)
(* a list of layers around an endpoint; a response goes back up through    *)
(* the layers, is framed by to_beast_response and read by the client.      *)
(*                                                                         *)
(* The executor is BeastExecutor: each action here that moves a session is *)
(* an action there and what the application or the wire does at that time. *)
(* The layers are the logger, the CORS middleware and one of the user's    *)
(* that catches exceptions; what Onion says of layers is used, as Dispatch *)
(* implements it.  On the wire there are message heads and body units, and *)
(* a client who finds the end of a message by its head alone.              *)
(***************************************************************************)
EXTENDS Naturals, Sequences, FiniteSets

CONSTANTS
    Conns, Requests, MaxRequests, MaxAcceptErrors,  \* those of BeastExecutor
    Applications,   \* the lists of layers an application may have
    Details,        \* what the application sees of a request
    Responses,      \* what an endpoint may return
    None            \* no Content-Length header

\* Requests as the layers tell them apart: a cross-origin one has an Origin that
\* the CORS policy permits, and a preflight is one too.
AnyDetail == [method : {"GET", "HEAD", "OPTIONS"}, cross : BOOLEAN, preflight : BOOLEAN]

Layers == {"logger", "cors", "recover"}

ASSUME DetailsAssumption ==
    /\ Details \subseteq AnyDetail
    /\ \A d \in Details : d.preflight => d.method = "OPTIONS" /\ d.cross
ASSUME ApplicationsAssumption ==
    \A a \in Applications : a \in Seq(Layers) /\ \A i, j \in DOMAIN a : a[i] = a[j] => i = j

VARIABLES                                           \* those of BeastExecutor
    phase, handlerSet, acceptErrors, client, pc, requests, consumed, response, answers

VARIABLES
    layers,         \* the layers of the application, outermost first
    details,        \* details[c]: what else is in the requests of c
    flow,           \* flow[c]: where the request in the application is, its response
    log,            \* log[c]: the lines the logger has printed for requests of c
    threw,          \* history: threw[c][n]: the endpoint threw at the n-th request
    written,        \* written[c]: the messages written on c
    wire,           \* wire[c]: what the client has not taken yet
    taken           \* taken[c]: the answers the client has taken, in order

Executor == INSTANCE BeastExecutor

executor == <<phase, handlerSet, acceptErrors, client, pc, requests, consumed, response, answers>>
app == <<layers, flow, log, threw>>
net == <<details, written, wire, taken>>
vars == <<executor, app, net>>

ASSUME ExecutorAssumption ==
    Requests \subseteq Executor!AnyRequest /\ MaxRequests \in Nat /\ MaxAcceptErrors \in Nat

AnyResponse ==
    [status : Nat, body : Nat, length : Nat \cup {None}, connection : Executor!Tokens,
     granted : BOOLEAN, stale : BOOLEAN]

\* Only cors sets CORS headers; a length that no body has made stale is that of
\* the body (see SetBody and AssignBody).
ASSUME ResponsesAssumption ==
    /\ None \notin Nat
    /\ \A res \in Responses :
          /\ res \in AnyResponse
          /\ ~res.granted
          /\ ~res.stale => res.length \in {None, res.body}

-----------------------------------------------------------------------------
(* Responses (types/response.hpp).  A body is its length. *)

\* response(code)
Response(code) ==
    [status |-> code, body |-> 0, length |-> None, connection |-> "none",
     granted |-> FALSE, stale |-> FALSE]

\* set_body updates the Content-Length header.
SetBody(res, n) == [res EXCEPT !.body = n, !.length = n, !.stale = FALSE]

\* res.body = ..., a public member: a header set before stays as it is.
AssignBody(res, n) == [res EXCEPT !.body = n, !.stale = res.length # None]

\* text, html, json, and with an empty body redirect
Text(code, n) == SetBody(Response(code), n)

\* The answers of handle_request's catch clauses, and of a layer that catches.
Failure == Text(500, 1)

\* Mutant: the length is taken before the body is assigned.
FrameEarly(r, res) ==
    [status |-> res.status, body |-> res.body,
     length |-> IF res.length = None THEN 0 ELSE res.length,
     keepAlive |-> Executor!ToBeastResponse(r, 200, res.connection).keepAlive,
     granted |-> res.granted, stale |-> res.stale]

\* to_beast_response: the headers of the response win, also over the length.
Frame(r, res) ==
    [status |-> res.status, body |-> res.body,
     length |-> IF res.length = None THEN res.body ELSE res.length,
     keepAlive |-> Executor!ToBeastResponse(r, 200, res.connection).keepAlive,
     granted |-> res.granted, stale |-> res.stale]

\* The n-th message on the wire: its head and the units of its body.
Bytes(n, frame) == [i \in 1 .. frame.body + 1 |-> [of |-> n, head |-> i = 1]]

-----------------------------------------------------------------------------

Idle == [at |-> 0, way |-> "idle", res |-> Response(404)]

Init ==
    /\ Executor!Init
    /\ layers \in Applications
    /\ flow = [c \in Conns |-> Idle]
    /\ details = [c \in Conns |-> << >>]
    /\ log = [c \in Conns |-> << >>]
    /\ threw = [c \in Conns |-> << >>]
    /\ written = [c \in Conns |-> << >>]
    /\ wire = [c \in Conns |-> << >>]
    /\ taken = [c \in Conns |-> << >>]

Same(exec) == exec /\ UNCHANGED <<app, net>>

StartUp ==
    \/ \E b \in BOOLEAN : Same(Executor!Serve(b)) \/ Same(Executor!RunOrThrow(b))
    \/ Same(Executor!AcceptFails)

Accept(c) == Same(Executor!Accept(c))

-----------------------------------------------------------------------------
(* The application. *)

\* The request the session of c is about.
Detail(c) == details[c][consumed[c]]

InApplication(c, way) == pc[c] = "handling" /\ flow[c].way = way

\* Only the application moves.
Inside(c, f) == flow' = [flow EXCEPT ![c] = f] /\ UNCHANGED <<executor, layers, net>>

\* A request has been read: handle_request calls the handler.
Read(c) ==
    /\ Executor!Read(c)
    /\ flow' = [flow EXCEPT ![c] = [Idle EXCEPT !.way = "down"]]
    /\ UNCHANGED <<layers, log, threw, net>>

Below(c) == layers[flow[c].at + 1]
Current(c) == layers[flow[c].at]

\* A layer awaits next.  What the logger puts into the context nobody reads here.
PassOn(c) ==
    /\ InApplication(c, "down")
    /\ flow[c].at < Len(layers)
    /\ Below(c) = "cors" => ~Detail(c).preflight
    /\ Inside(c, [flow[c] EXCEPT !.at = @ + 1])
    /\ UNCHANGED <<log, threw>>

\* cors::handle answers a preflight and does not call next.
Preflight(c) ==
    /\ InApplication(c, "down")
    /\ flow[c].at < Len(layers)
    /\ Below(c) = "cors" /\ Detail(c).preflight
    /\ Inside(c, [flow[c] EXCEPT !.way = "up", !.res = [Response(200) EXCEPT !.granted = TRUE]])
    /\ threw' = [threw EXCEPT ![c] = Append(@, FALSE)]
    /\ UNCHANGED log

\* What the router finds behind the layers, its own 404 and 405 included.
Endpoint(c) ==
    /\ InApplication(c, "down")
    /\ flow[c].at = Len(layers)
    /\ \/ \E res \in Responses : Inside(c, [flow[c] EXCEPT !.way = "up", !.res = res])
          /\ threw' = [threw EXCEPT ![c] = Append(@, FALSE)]
       \/ /\ Inside(c, [flow[c] EXCEPT !.way = "fail"])
          /\ threw' = [threw EXCEPT ![c] = Append(@, TRUE)]
    /\ UNCHANGED log

\* Mutant: the line is printed before next is awaited, with the initial status.
PrintEarly(c, status) == [log EXCEPT ![c] = Append(@, [of |-> consumed[c], status |-> 404])]

\* The line of the logger.
PrintLine(c, status) == [log EXCEPT ![c] = Append(@, [of |-> consumed[c], status |-> status])]

\* next returns a response to the innermost layer, and the layer returns it: the
\* logger prints its line, cors adds its headers.
Return(c) ==
    /\ InApplication(c, "up")
    /\ flow[c].at > 0
    /\ Inside(c, [flow[c] EXCEPT
                     !.at = @ - 1,
                     !.res.granted = @ \/ (Current(c) = "cors" /\ Detail(c).cross)])
    /\ log' = IF Current(c) = "logger" THEN PrintLine(c, flow[c].res.status) ELSE log
    /\ UNCHANGED threw

\* Mutant: what a layer catches it answers with the headers cors has set.
UnwindGranting(c) ==
    /\ InApplication(c, "fail")
    /\ flow[c].at > 0
    /\ Inside(c, IF Current(c) = "recover"
                 THEN [flow[c] EXCEPT !.at = @ - 1, !.way = "up",
                                      !.res = [Failure EXCEPT !.granted = Detail(c).cross]]
                 ELSE [flow[c] EXCEPT !.at = @ - 1])
    /\ UNCHANGED <<log, threw>>

\* next throws: only the layer that catches does anything.
Unwind(c) ==
    /\ InApplication(c, "fail")
    /\ flow[c].at > 0
    /\ Inside(c, IF Current(c) = "recover"
                 THEN [flow[c] EXCEPT !.at = @ - 1, !.way = "up", !.res = Failure]
                 ELSE [flow[c] EXCEPT !.at = @ - 1])
    /\ UNCHANGED <<log, threw>>

\* The handler returns to handle_request.
Respond(c) ==
    /\ InApplication(c, "up")
    /\ flow[c].at = 0
    /\ Executor!HandlerReturns(c)
    /\ response'[c].keepAlive = Frame(Executor!Current(c), flow[c].res).keepAlive
    /\ UNCHANGED <<app, net>>

\* It throws.
Fail(c) ==
    /\ InApplication(c, "fail")
    /\ flow[c].at = 0
    /\ Executor!HandlerThrows(c)
    /\ flow' = [flow EXCEPT ![c].res = Failure]
    /\ UNCHANGED <<layers, log, threw, net>>

\* async_write puts the message on the wire.
Write(c) ==
    /\ Executor!Write(c)
    /\ LET frame == Frame(Executor!Current(c), flow[c].res)
       IN  /\ written' = [written EXCEPT ![c] = Append(@, frame)]
           /\ wire' = [wire EXCEPT ![c] = @ \o Bytes(Len(written[c]) + 1, frame)]
    /\ flow' = [flow EXCEPT ![c] = Idle]
    /\ UNCHANGED <<layers, log, threw, details, taken>>

SessionStep(c) ==
    \/ Read(c) \/ Same(Executor!ReadFails(c))
    \/ PassOn(c) \/ Preflight(c) \/ Endpoint(c) \/ Return(c) \/ Unwind(c)
    \/ Respond(c) \/ Fail(c)
    \/ Write(c) \/ Same(Executor!WriteFails(c)) \/ Same(Executor!Shutdown(c))

-----------------------------------------------------------------------------
(* The clients. *)

Send(c) ==
    /\ Executor!Send(c)
    /\ \E d \in Details : details' = [details EXCEPT ![c] = Append(@, d)]
    /\ UNCHANGED <<app, written, wire, taken>>

\* The body a client expects behind a head: none if it asked for the head only or
\* the status has none.
Informational(status) == status \in 100 .. 199

Bodiless(d, status) ==
    d.method = "HEAD" \/ status \in {204, 304} \/ Informational(status)

Expected(d, frame) == IF Bodiless(d, frame.status) THEN 0 ELSE frame.length

Listening(c) == client[c] # "reset" /\ wire[c] # << >>

\* The next answer is complete.
Take(c) ==
    /\ Listening(c) /\ Head(wire[c]).head
    /\ Len(taken[c]) < Len(requests[c])
    /\ LET n    == Head(wire[c]).of
           size == Expected(details[c][Len(taken[c]) + 1], written[c][n])
       IN  /\ Len(wire[c]) > size
           /\ taken' = [taken EXCEPT ![c] = Append(@,
                  [of |-> n,
                   whole |-> /\ size = written[c][n].body
                             /\ \A i \in 2 .. size + 1 : wire[c][i] = [of |-> n, head |-> FALSE]])]
           /\ wire' = [wire EXCEPT ![c] = SubSeq(@, size + 2, Len(@))]
    /\ UNCHANGED <<executor, app, details, written>>

\* Where a head should be there is the rest of a body: the client gives up.
Garbled(c) == Listening(c) /\ ~Head(wire[c]).head

GiveUp(c) ==
    /\ Garbled(c)
    /\ Executor!Leave(c)
    /\ client'[c] = "reset"
    /\ UNCHANGED <<app, net>>

ClientStep(c) ==
    \/ Same(Executor!Connect(c)) \/ Send(c) \/ Same(Executor!Leave(c))
    \/ Take(c) \/ GiveUp(c)

Next == StartUp \/ \E c \in Conns : Accept(c) \/ SessionStep(c) \/ ClientStep(c)

Spec == Init /\ [][Next]_vars

\* As in the executor; and a client reads what has arrived.
FairSpec ==
    /\ Spec
    /\ \A c \in Conns : WF_vars(SessionStep(c)) /\ WF_vars(Accept(c)) /\ WF_vars(Take(c))

-----------------------------------------------------------------------------
(* Properties. *)

Written(c) == 1 .. Len(written[c])

\* The n-th message is not what its head says, by what its maker did: it gave the
\* body another length after set_body, or a body to an answer that has none, or
\* answered with a status that is no answer, behind which a client waits on.
Misframed(c, n) ==
    \/ written[c][n].stale
    \/ written[c][n].body > 0 /\ Bodiless(details[c][n], written[c][n].status)
    \/ Informational(written[c][n].status)

\* A client takes the k-th answer for its k-th request, whole, and never finds
\* the rest of a body where a head should be, as long as no handler has misframed
\* one: whatever is pipelined, thrown, caught or answered by the library itself.
InSync ==
    \A c \in Conns :
        /\ \A k \in DOMAIN taken[c] :
              (\A n \in 1 .. k : ~Misframed(c, n)) =>
                  taken[c][k].of = k /\ taken[c][k].whole
        /\ (\A n \in Written(c) : ~Misframed(c, n)) => ~Garbled(c)

Has(a) == \E i \in DOMAIN layers : layers[i] = a

\* Layer a is around layer b.
Around(a, b) == \E i, j \in DOMAIN layers : i < j /\ layers[i] = a /\ layers[j] = b

\* A layer of the kind b never gets the n-th request back from next.
Missed(c, n, b) == threw[c][n] /\ ~Around(b, "recover")

\* No request is logged twice, and each that comes back to the logger is logged,
\* with the status its client gets.  Not among them are those whose chain threw
\* through the logger and the preflights that a CORS layer around it answers.
LoggedOnce ==
    \A c \in Conns : \A n \in Written(c) :
        LET lines == {i \in DOMAIN log[c] : log[c][i].of = n}
        IN  /\ Cardinality(lines) <= 1
            /\ \A i \in lines : log[c][i].status = written[c][n].status
            /\ (/\ Has("logger") /\ ~Missed(c, n, "logger")
                /\ details[c][n].preflight => ~Around("cors", "logger")) => lines # {}

\* An application whose outermost layer is the logger logs every request it answers
\* ("Log every request", README.md:86).  It does not hold: see the run.
EveryRequestLogged ==
    \A c \in Conns : \A n \in Written(c) :
        (layers # << >> /\ layers[1] = "logger") => \E i \in DOMAIN log[c] : log[c][i].of = n

\* With CORS, every answer to a permitted cross-origin request lets the page read
\* it, unless the chain threw through the CORS layer: the 500 of the session and
\* that of a layer outside are hidden from the page.  No other answer grants
\* anything.
GrantedUnlessThrown ==
    \A c \in Conns : \A n \in Written(c) :
        written[c][n].granted <=>
            Has("cors") /\ details[c][n].cross /\ ~Missed(c, n, "cors")

\* What the client may rely on: the answers before the first misframed one.
Trusted(c) ==
    LET n == Cardinality({k \in DOMAIN taken[c] :
                            \A j \in Written(c) : j <= k => ~Misframed(c, j)})
    IN  [k \in 1 .. n |-> [status    |-> written[c][taken[c][k].of].status,
                           keepAlive |-> written[c][taken[c][k].of].keepAlive]]

Served(r) ==
    {[status |-> res.status, keepAlive |-> Frame(r, res).keepAlive] :
        res \in Responses \cup {Failure, Response(200)}}

\* Seen from the client, through layers, framing and wire, a connection is the
\* exchange that an HTTP server owes it.
Client == INSTANCE HttpExchange WITH
    answers <- [c \in Conns |-> Trusted(c)], Possible <- Served
ClientsExchange == Client!Spec

\* A client that stays gets the answer to every request it has sent and that can
\* be parsed, unless an answer before has closed the connection or was misframed.
EveryRequestAnswered ==
    \A c \in Conns : \A k \in 1 .. MaxRequests :
        (Len(requests[c]) >= k /\ \A n \in 1 .. k : requests[c][n].parses) ~>
            \/ Len(taken[c]) >= k
            \/ client[c] = "reset"
            \/ \E n \in Written(c) : Misframed(c, n) \/ (n < k /\ ~written[c][n].keepAlive)
=============================================================================
