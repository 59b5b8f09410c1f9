---------------------------- MODULE BeastExecutor ---------------------------
(***************************************************************************)
(* beast_executor (src/serve.cpp): the acceptor's start-up and accept loop *)
(* and one detached coroutine per connection that reads a request, awaits  *)
(* the handler, writes the response and goes on while the connection is    *)
(* kept alive.  The coroutines interleave at their co_awaits; the sockets  *)
(* and the clients behind them are the environment.                        *)
(*                                                                         *)
(* A request is what the session looks at: its HTTP version, its           *)
(* Connection header and whether Beast can parse it.  An answer is its     *)
(* status (500 for a failed handler, 200 for whatever the handler chose)   *)
(* and whether it keeps the connection alive.                              *)
(***************************************************************************)
EXTENDS Naturals, Sequences

CONSTANTS
    Conns,              \* TCP connections clients may open
    Requests,           \* the requests clients may send (subset of AnyRequest)
    MaxRequests,        \* bound: requests sent on one connection
    MaxAcceptErrors     \* bound: failed async_accept calls

\* The values of a Connection header the code tells apart.
Tokens == {"none", "close", "keep-alive", "other"}

AnyRequest == [version : {10, 11}, connection : Tokens, parses : BOOLEAN]

ASSUME RequestsAssumption == Requests \subseteq AnyRequest
ASSUME BoundsAssumption   == MaxRequests \in Nat /\ MaxAcceptErrors \in Nat

VARIABLES
    phase,          \* where serve() stands
    handlerSet,     \* handler_ holds a callable
    acceptErrors,   \* failed accepts so far
    client,         \* client[c]: "open", half-closed "shut" or "reset"
    pc,             \* pc[c]: where the session coroutine of c stands
    requests,       \* requests[c]: all that the client of c has sent
    consumed,       \* consumed[c]: how many of them the session has read
    response,       \* response[c]: res, the message being written
    answers         \* answers[c]: the messages written, in order

vars == <<phase, handlerSet, acceptErrors, client, pc,
          requests, consumed, response, answers>>

serverVars  == <<phase, handlerSet, acceptErrors>>
sessionVars == <<pc, consumed, response, answers>>

-----------------------------------------------------------------------------
(* Messages. *)

\* message::keep_alive() of Boost.Beast.
KeepAlive(version, connection) ==
    IF version = 11 THEN connection # "close" ELSE connection = "keep-alive"

\* to_beast_response: the request's own choice, unless the handler's response
\* has a Connection header, which overwrites it.
ToBeastResponse(r, status, connection) ==
    [status    |-> status,
     keepAlive |-> KeepAlive(r.version,
                             IF connection = "none" THEN r.connection ELSE connection)]

\* Mutant: the failure answer never gets its status.
FailureWithoutStatus(r) == ToBeastResponse(r, 0, "none")

\* handle_request after a handler that throws: 500, no Connection header.
Failure(r) == ToBeastResponse(r, 500, "none")

\* Every answer handle_request can give to r.
Possible(r) ==
    {Failure(r)} \cup {ToBeastResponse(r, 200, t) : t \in Tokens}

Answers == [status : {200, 500}, keepAlive : BOOLEAN]
NoAnswer == [status |-> 200, keepAlive |-> FALSE]

-----------------------------------------------------------------------------
(* beast_executor::serve *)

Steps == <<"open", "set_option", "bind", "listen">>

Phases == {"idle", "open", "set_option", "bind", "listen", "accept", "failed"}

Init ==
    /\ phase = "idle"
    /\ handlerSet = FALSE
    /\ acceptErrors = 0
    /\ client = [c \in Conns |-> "open"]
    /\ pc = [c \in Conns |-> "none"]
    /\ requests = [c \in Conns |-> << >>]
    /\ consumed = [c \in Conns |-> 0]
    /\ response = [c \in Conns |-> NoAnswer]
    /\ answers = [c \in Conns |-> << >>]

\* serve(port, handler): an empty handler throws before anything is stored;
\* a call that failed may be made again.
Serve(empty) ==
    /\ phase \in {"idle", "failed"}
    /\ IF empty
       THEN phase' = "failed" /\ UNCHANGED handlerSet
       ELSE phase' = "open" /\ handlerSet' = TRUE
    /\ UNCHANGED <<acceptErrors, client, requests, sessionVars>>

\* run_or_throw: each socket call succeeds, or serve() ends with its error.
RunOrThrow(ok) ==
    /\ \E i \in 1..4 :
          /\ phase = Steps[i]
          /\ phase' = IF ~ok THEN "failed"
                      ELSE IF i = 4 THEN "accept" ELSE Steps[i + 1]
    /\ UNCHANGED <<handlerSet, acceptErrors, client, requests, sessionVars>>

\* A successful async_accept: co_spawn the session, and accept again.
Accept(c) ==
    /\ phase = "accept"
    /\ pc[c] = "backlog"
    /\ pc' = [pc EXCEPT ![c] = "reading"]
    /\ UNCHANGED <<serverVars, client, requests, consumed, response, answers>>

\* if (accept_ec) continue
AcceptFails ==
    /\ phase = "accept"
    /\ acceptErrors < MaxAcceptErrors
    /\ acceptErrors' = acceptErrors + 1
    /\ UNCHANGED <<phase, handlerSet, client, requests, sessionVars>>

-----------------------------------------------------------------------------
(* beast_executor::session *)

Goto(c, from, to) == pc[c] = from /\ pc' = [pc EXCEPT ![c] = to]

Pending(c) == consumed[c] < Len(requests[c])
Current(c) == requests[c][consumed[c]]
Upcoming(c) == requests[c][consumed[c] + 1]

\* async_read delivers the next request, pipelined ones included: bytes that
\* are already in the buffer are read even if the client has gone.
Read(c) ==
    /\ Goto(c, "reading", "handling")
    /\ Pending(c)
    /\ Upcoming(c).parses
    /\ consumed' = [consumed EXCEPT ![c] = @ + 1]
    /\ UNCHANGED <<serverVars, client, requests, response, answers>>

\* Mutant: only a reset or a malformed message ends the loop.
ReadIgnoresEnd(c) ==
    /\ Goto(c, "reading", "closing")
    /\ \/ Pending(c) /\ ~Upcoming(c).parses
       \/ client[c] = "reset"
    /\ UNCHANGED <<serverVars, client, requests, consumed, response, answers>>

\* async_read ends in an error: end of stream, a reset or a malformed message.
ReadFails(c) ==
    /\ Goto(c, "reading", "closing")
    /\ \/ Pending(c) /\ ~Upcoming(c).parses
       \/ ~Pending(c) /\ client[c] # "open"
       \/ client[c] = "reset"
    /\ UNCHANGED <<serverVars, client, requests, consumed, response, answers>>

\* co_await (*handler_)(in) returns; the response may carry a Connection header.
HandlerReturns(c) ==
    /\ Goto(c, "handling", "writing")
    /\ \E t \in Tokens :
          response' = [response EXCEPT ![c] = ToBeastResponse(Current(c), 200, t)]
    /\ UNCHANGED <<serverVars, client, requests, consumed, answers>>

\* Mutant: res keeps the response before, and only its status is set.
HandlerThrowsStale(c) ==
    /\ Goto(c, "handling", "writing")
    /\ response' = [response EXCEPT ![c].status = 500]
    /\ UNCHANGED <<serverVars, client, requests, consumed, answers>>

\* It throws: both catch clauses answer 500.
HandlerThrows(c) ==
    /\ Goto(c, "handling", "writing")
    /\ response' = [response EXCEPT ![c] = Failure(Current(c))]
    /\ UNCHANGED <<serverVars, client, requests, consumed, answers>>

\* Mutant: the loop goes on whatever the response says.
WriteAndGoOn(c) ==
    /\ Goto(c, "writing", "reading")
    /\ answers' = [answers EXCEPT ![c] = Append(@, response[c])]
    /\ UNCHANGED <<serverVars, client, requests, consumed, response>>

\* Mutant: a connection has one request.
WriteAndClose(c) ==
    /\ Goto(c, "writing", "closing")
    /\ answers' = [answers EXCEPT ![c] = Append(@, response[c])]
    /\ UNCHANGED <<serverVars, client, requests, consumed, response>>

\* async_write completes; break unless the response keeps the connection.
Write(c) ==
    /\ Goto(c, "writing", IF response[c].keepAlive THEN "reading" ELSE "closing")
    /\ answers' = [answers EXCEPT ![c] = Append(@, response[c])]
    /\ UNCHANGED <<serverVars, client, requests, consumed, response>>

\* Mutant: continue instead of break.
WriteFailsAndGoesOn(c) ==
    /\ Goto(c, "writing", "reading")
    /\ client[c] = "reset"
    /\ UNCHANGED <<serverVars, client, requests, consumed, response, answers>>

\* if (write_ec) break
WriteFails(c) ==
    /\ Goto(c, "writing", "closing")
    /\ client[c] = "reset"
    /\ UNCHANGED <<serverVars, client, requests, consumed, response, answers>>

\* shutdown_send, whose error is ignored; the socket closes with the coroutine.
Shutdown(c) ==
    /\ Goto(c, "closing", "done")
    /\ UNCHANGED <<serverVars, client, requests, consumed, response, answers>>

-----------------------------------------------------------------------------
(* The clients. *)

Connect(c) ==
    /\ phase = "accept"
    /\ Goto(c, "none", "backlog")
    /\ UNCHANGED <<serverVars, client, requests, consumed, response, answers>>

\* A client sends without waiting for the answers to what it sent before.
Send(c) ==
    /\ pc[c] # "none"
    /\ client[c] = "open"
    /\ Len(requests[c]) < MaxRequests
    /\ \E r \in Requests : requests' = [requests EXCEPT ![c] = Append(@, r)]
    /\ UNCHANGED <<serverVars, client, sessionVars>>

\* A half-close, or a reset that loses what is on the wire.
Leave(c) ==
    /\ pc[c] # "none"
    /\ \/ client[c] = "open" /\ client' = [client EXCEPT ![c] = "shut"]
       \/ client[c] # "reset" /\ client' = [client EXCEPT ![c] = "reset"]
    /\ UNCHANGED <<serverVars, requests, sessionVars>>

-----------------------------------------------------------------------------

ServerStep ==
    \/ \E b \in BOOLEAN : Serve(b) \/ RunOrThrow(b)
    \/ AcceptFails
    \/ \E c \in Conns : Accept(c)

SessionStep(c) ==
    \/ Read(c) \/ ReadFails(c)
    \/ HandlerReturns(c) \/ HandlerThrows(c)
    \/ Write(c) \/ WriteFails(c)
    \/ Shutdown(c)

ClientStep(c) == Connect(c) \/ Send(c) \/ Leave(c)

Next == ServerStep \/ \E c \in Conns : SessionStep(c) \/ ClientStep(c)

Spec == Init /\ [][Next]_vars

\* asio resumes a coroutine whose operation has completed, the kernel hands out
\* every pending connection, handlers end and clients read what is written.
Fairness ==
    \A c \in Conns : WF_vars(SessionStep(c)) /\ WF_vars(Accept(c))

FairSpec == Spec /\ Fairness

-----------------------------------------------------------------------------
(* Properties. *)

\* Every variable has its type.
TypeOK ==
    /\ phase \in Phases
    /\ handlerSet \in BOOLEAN
    /\ acceptErrors \in Nat
    /\ client \in [Conns -> {"open", "shut", "reset"}]
    /\ pc \in [Conns -> {"none", "backlog", "reading", "handling",
                         "writing", "closing", "done"}]
    /\ requests \in [Conns -> Seq(Requests)]
    /\ consumed \in [Conns -> Nat]
    /\ response \in [Conns -> Answers]
    /\ answers \in [Conns -> Seq(Answers)]

\* The handler is called for one request of a connection at a time and no
\* request is skipped: what was read and not answered is the one request in the
\* handler or being written, or one the session was torn down with.
OneInFlight(c) ==
    /\ consumed[c] <= Len(requests[c])
    /\ pc[c] \in {"none", "backlog"} => consumed[c] = 0
    /\ pc[c] \in {"none", "backlog", "reading"} => Len(answers[c]) = consumed[c]
    /\ pc[c] \in {"handling", "writing"} => consumed[c] = Len(answers[c]) + 1
    /\ pc[c] \in {"closing", "done"} => consumed[c] \in {Len(answers[c]), Len(answers[c]) + 1}

SerialPerConnection == \A c \in Conns : OneInFlight(c)

\* Once an answer has said the connection closes, the session reads and
\* answers nothing more: requests pipelined behind it never reach the handler.
Silent(c) ==
    \A k \in 1..Len(answers[c]) :
        ~answers[c][k].keepAlive =>
            /\ k = Len(answers[c])
            /\ consumed[c] = k
            /\ pc[c] \in {"closing", "done"}

SilentAfterClose == \A c \in Conns : Silent(c)

\* The k-th answer of a connection is one the k-th request may get: the failure
\* answer keeps the connection exactly as the request asked.
Match(c) ==
    \A k \in 1..Len(answers[c]) :
        k <= Len(requests[c]) /\ answers[c][k] \in Possible(requests[c][k])

AnswersMatch == \A c \in Conns : Match(c)

\* handle_request never meets an unset handler_: sessions exist only after a
\* serve() that was given one.
NeverUnconfigured ==
    \A c \in Conns : pc[c] # "none" => handlerSet /\ phase = "accept"

\* A session ends once its client is gone, whatever was in progress; a failed
\* accept does not keep the acceptor from taking the connection up.
NoSessionLeak ==
    \A c \in Conns : (pc[c] # "none" /\ client[c] # "open") ~> (pc[c] = "done")

\* The code implements the exchange specification.
Exchange == INSTANCE HttpExchange
ImplementsExchange == Exchange!Spec
=============================================================================
