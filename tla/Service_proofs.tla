---------------------------- MODULE Service_proofs ----------------------------
(***************************************************************************)
(* Theorems about Service, for any applications, requests, responses and   *)
(* connections: it runs the executor, so that what is proved of            *)
(* BeastExecutor holds of it; and what its layers do for a request agrees  *)
(* with what the client gets, and finds on the wire.                       *)
(***************************************************************************)
EXTENDS Service, FiniteSetTheorems, TLAPS

\* A step of a session is one of the executor's session, or only the application's.
LEMMA SessionStepsMap ==
    ASSUME NEW c \in Conns, SessionStep(c)
    PROVE  Executor!SessionStep(c) \/ UNCHANGED executor
<1>1. CASE Read(c)
  BY <1>1 DEF Read, Executor!SessionStep
<1>2. CASE Same(Executor!ReadFails(c))
  BY <1>2 DEF Same, Executor!SessionStep
<1>3. CASE PassOn(c) \/ Preflight(c) \/ Return(c) \/ Unwind(c)
  BY <1>3 DEF PassOn, Preflight, Return, Unwind, Inside
<1>4. CASE Endpoint(c)
  BY <1>4 DEF Endpoint, Inside
<1>5. CASE Respond(c) \/ Fail(c) \/ Write(c)
  BY <1>5 DEF Respond, Fail, Write, Executor!SessionStep
<1>6. CASE Same(Executor!WriteFails(c)) \/ Same(Executor!Shutdown(c))
  BY <1>6 DEF Same, Executor!SessionStep
<1>7. QED
  BY <1>1, <1>2, <1>3, <1>4, <1>5, <1>6 DEF SessionStep

\* A step of a client is one of the executor's clients, or reads an answer.
LEMMA ClientStepsMap ==
    ASSUME NEW c \in Conns, ClientStep(c)
    PROVE  Executor!ClientStep(c) \/ UNCHANGED executor
<1>1. CASE Same(Executor!Connect(c)) \/ Same(Executor!Leave(c))
  BY <1>1 DEF Same, Executor!ClientStep
<1>2. CASE Send(c) \/ GiveUp(c)
  BY <1>2 DEF Send, GiveUp, Executor!ClientStep
<1>3. CASE Take(c)
  BY <1>3 DEF Take
<1>4. QED
  BY <1>1, <1>2, <1>3 DEF ClientStep

\* Every step of the service is a step of the executor or leaves it alone.
LEMMA StepsMap == ASSUME [Next]_vars PROVE [Executor!Next]_executor
<1>1. CASE StartUp
  <2>1. CASE Same(Executor!AcceptFails)
    BY <2>1 DEF Same, Executor!Next, Executor!ServerStep
  <2>2. ASSUME NEW b \in BOOLEAN, Same(Executor!Serve(b)) \/ Same(Executor!RunOrThrow(b))
        PROVE  Executor!Next
    BY <2>2 DEF Same, Executor!Next, Executor!ServerStep
  <2>3. QED
    BY <1>1, <2>1, <2>2 DEF StartUp
<1>2. ASSUME NEW c \in Conns, Accept(c) PROVE Executor!Next
  BY <1>2 DEF Accept, Same, Executor!Next, Executor!ServerStep
<1>3. ASSUME NEW c \in Conns, SessionStep(c) PROVE [Executor!Next]_executor
  BY <1>3, SessionStepsMap DEF Executor!Next
<1>4. ASSUME NEW c \in Conns, ClientStep(c) PROVE [Executor!Next]_executor
  BY <1>4, ClientStepsMap DEF Executor!Next
<1>5. CASE UNCHANGED vars
  BY <1>5 DEF vars
<1>6. QED
  BY <1>1, <1>2, <1>3, <1>4, <1>5 DEF Next

\* The service implements the executor, whatever its layers, responses and clients
\* are: it answers the requests of a connection one at a time and in order.
THEOREM RunsTheExecutor == Spec => Executor!Spec
<1>1. Init => Executor!Init
  BY DEF Init
<1>2. [Next]_vars => [Executor!Next]_(Executor!vars)
  BY StepsMap DEF executor, Executor!vars
<1>3. QED
  BY <1>1, <1>2, PTL DEF Spec, Executor!Spec

\* The theorems about BeastExecutor, and that they are about this executor.
Proved == INSTANCE BeastExecutor_proofs

\* The executor of the service is the one that is proved about.
LEMMA SameExecutor == Executor!Spec <=> Proved!Spec
<1> USE DEF Executor!Tokens, Proved!Tokens, Executor!Steps, Proved!Steps,
            Executor!serverVars, Proved!serverVars, Executor!sessionVars, Proved!sessionVars,
            Executor!Goto, Proved!Goto
<1>1. Executor!Init <=> Proved!Init
  BY DEF Executor!Init, Proved!Init, Executor!NoAnswer, Proved!NoAnswer
<1>2. Executor!ServerStep <=> Proved!ServerStep
  BY Zenon DEF Executor!ServerStep, Proved!ServerStep, Executor!Serve, Proved!Serve,
               Executor!RunOrThrow, Proved!RunOrThrow, Executor!AcceptFails,
               Proved!AcceptFails, Executor!Accept, Proved!Accept
<1>3. \A c \in Conns : Executor!ClientStep(c) <=> Proved!ClientStep(c)
  BY Zenon DEF Executor!ClientStep, Proved!ClientStep, Executor!Connect, Proved!Connect,
               Executor!Send, Proved!Send, Executor!Leave, Proved!Leave
<1>4. \A c \in Conns : Executor!SessionStep(c) <=> Proved!SessionStep(c)
  <2> USE DEF Executor!Pending, Proved!Pending, Executor!Upcoming, Proved!Upcoming,
              Executor!Current, Proved!Current, Executor!ToBeastResponse,
              Proved!ToBeastResponse, Executor!KeepAlive, Proved!KeepAlive,
              Executor!Failure, Proved!Failure
  <2> QED
    BY Zenon DEF Executor!SessionStep, Proved!SessionStep, Executor!Read, Proved!Read,
                 Executor!ReadFails, Proved!ReadFails,
                 Executor!HandlerReturns, Proved!HandlerReturns,
                 Executor!HandlerThrows, Proved!HandlerThrows,
                 Executor!Write, Proved!Write, Executor!WriteFails, Proved!WriteFails,
                 Executor!Shutdown, Proved!Shutdown
<1>5. Executor!Next <=> Proved!Next
  BY <1>2, <1>3, <1>4 DEF Executor!Next, Proved!Next
<1>6. [Executor!Next]_(Executor!vars) <=> [Proved!Next]_(Proved!vars)
  BY <1>5 DEF Executor!vars, Proved!vars
<1> QED
  BY <1>1, <1>6, PTL DEF Executor!Spec, Proved!Spec

\* What is proved of the executor and used below.
ExecutorInv ==
    /\ Executor!TypeOK
    /\ Executor!SerialPerConnection
    /\ Executor!SilentAfterClose
    /\ Executor!AnswersMatch
    /\ Executor!NeverUnconfigured

\* Whatever the layers and the clients do, the session handles one request of a
\* connection at a time, in order, is silent after an answer that closes, and
\* answers every request as it may be answered.
THEOREM KeepsTheExecutor == Spec => []ExecutorInv
<1>1. Requests \subseteq Proved!AnyRequest /\ MaxRequests \in Nat /\ MaxAcceptErrors \in Nat
  BY ExecutorAssumption DEF Executor!AnyRequest, Proved!AnyRequest, Executor!Tokens, Proved!Tokens
<1>2. Proved!Spec => []Proved!IInv
  BY <1>1, Proved!Invariance
<1>3. Proved!IInv => ExecutorInv
  <2> SUFFICES ASSUME Proved!IInv PROVE ExecutorInv
    OBVIOUS
  <2>1. Executor!TypeOK
    BY DEF Proved!IInv, Proved!TypeOK, Executor!TypeOK, Proved!Phases, Executor!Phases,
           Proved!Answers, Executor!Answers
  <2>2. Executor!SerialPerConnection
    BY DEF Proved!IInv, Proved!ConnInv, Proved!OneInFlight,
           Executor!SerialPerConnection, Executor!OneInFlight
  <2>3. Executor!SilentAfterClose
    BY DEF Proved!IInv, Proved!ConnInv, Proved!Silent, Executor!SilentAfterClose, Executor!Silent
  <2>4. Executor!AnswersMatch
    BY DEF Proved!IInv, Proved!ConnInv, Proved!Match, Executor!AnswersMatch, Executor!Match,
           Proved!Possible, Executor!Possible, Proved!Failure, Executor!Failure,
           Proved!ToBeastResponse, Executor!ToBeastResponse, Proved!KeepAlive,
           Executor!KeepAlive, Proved!Tokens, Executor!Tokens
  <2>5. Executor!NeverUnconfigured
    BY DEF Proved!IInv, Proved!NeverUnconfigured, Executor!NeverUnconfigured
  <2> QED BY <2>1, <2>2, <2>3, <2>4, <2>5 DEF ExecutorInv
<1> QED
  BY <1>2, <1>3, RunsTheExecutor, SameExecutor, PTL

-----------------------------------------------------------------------------
(* The inductive invariant. *)

\* Layer i gets a response to the n-th request of c back from next: whatever
\* throws is caught inside of it, and no layer up to it answers a preflight.
GotBack(c, n, i) ==
    /\ threw[c][n] => \E j \in DOMAIN layers : j > i /\ layers[j] = "recover"
    /\ details[c][n].preflight => \A j \in 1 .. i : layers[j] # "cors"

Lines(c, n) == {i \in DOMAIN log[c] : log[c][i].of = n}

\* What the layers behind position p have done for a request that is on its way
\* up: the logger has printed one line, and cors has set its headers.
LoggedBehind(c, n, p) ==
    \E i \in DOMAIN layers : i > p /\ layers[i] = "logger" /\ GotBack(c, n, i)

GrantedBehind(c, n, p) ==
    /\ details[c][n].cross
    /\ \E i \in DOMAIN layers :
          i > p /\ layers[i] = "cors" /\ (GotBack(c, n, i) \/ details[c][n].preflight)

\* The response to the n-th request agrees with what the layers behind p have done.
Accounts(c, n, p, res) ==
    /\ IF LoggedBehind(c, n, p)
       THEN \E i \in DOMAIN log[c] : Lines(c, n) = {i} /\ log[c][i].status = res.status
       ELSE Lines(c, n) = {}
    /\ res.granted <=> GrantedBehind(c, n, p)
    /\ details[c][n].preflight /\ Has("cors") => ~threw[c][n]

Down(c, n) ==
    /\ Lines(c, n) = {}
    /\ details[c][n].preflight => \A j \in 1 .. flow[c].at : layers[j] # "cors"

Failing(c, n) ==
    /\ threw[c][n]
    /\ Lines(c, n) = {}
    /\ \A j \in DOMAIN layers : j > flow[c].at => layers[j] # "recover"
    /\ details[c][n].preflight => ~Has("cors")

Up(c, n) ==
    /\ Accounts(c, n, flow[c].at, flow[c].res)
    /\ \A i \in 1 .. flow[c].at : GotBack(c, n, i)

Ways == {"idle", "down", "up", "fail"}

\* Where a request is, and how many have been through the application.
Flow(c) ==
    /\ flow[c].at <= Len(layers)
    /\ ~flow[c].res.stale => flow[c].res.length \in {None, flow[c].res.body}
    /\ pc[c] = "handling" => flow[c].way # "idle"
    /\ Len(threw[c]) = IF InApplication(c, "down") THEN consumed[c] - 1 ELSE consumed[c]
    /\ \A i \in DOMAIN log[c] : log[c][i].of <= consumed[c]
    /\ Len(details[c]) = Len(requests[c])
    /\ Len(written[c]) = Len(answers[c])

\* What the layers have done for the current request, and for those before it.
Bookkeeping(c) ==
    /\ InApplication(c, "down") => Down(c, consumed[c])
    /\ InApplication(c, "fail") => Failing(c, consumed[c])
    /\ InApplication(c, "up")   => Up(c, consumed[c])
    /\ pc[c] = "writing" => Accounts(c, consumed[c], 0, flow[c].res)
    /\ \A n \in Written(c) : Accounts(c, n, 0, written[c][n])

AnyFrame ==
    [status : Nat, body : Nat, length : Nat, keepAlive : BOOLEAN,
     granted : BOOLEAN, stale : BOOLEAN]

Item == [at : Nat, way : Ways, res : AnyResponse]
Line == [of : Nat, status : Nat]
Unit == [of : Nat, head : BOOLEAN]
Taking == [of : Nat, whole : BOOLEAN]

ServiceTypes ==
    /\ layers \in Applications
    /\ details \in [Conns -> Seq(Details)]
    /\ flow \in [Conns -> Item]
    /\ log \in [Conns -> Seq(Line)]
    /\ threw \in [Conns -> Seq(BOOLEAN)]
    /\ written \in [Conns -> Seq(AnyFrame)]
    /\ wire \in [Conns -> Seq(Unit)]
    /\ taken \in [Conns -> Seq(Taking)]

\* The heads on the wire are in order, of messages after those that were taken.
HeadsInOrder(c) ==
    /\ \A i, j \in DOMAIN wire[c] :
          i < j /\ wire[c][i].head /\ wire[c][j].head => wire[c][i].of < wire[c][j].of
    /\ \A i \in DOMAIN wire[c] :
          wire[c][i].head => Len(taken[c]) < wire[c][i].of /\ wire[c][i].of <= Len(written[c])
    /\ Len(taken[c]) <= Len(written[c])

\* A head is followed by its body, and that by the next head.
Message(c, i) ==
    LET n    == wire[c][i].of
        last == i + written[c][n].body
    IN  /\ last <= Len(wire[c])
        /\ \A j \in i + 1 .. last : wire[c][j] = [of |-> n, head |-> FALSE]
        /\ IF n = Len(written[c])
           THEN last = Len(wire[c])
           ELSE last < Len(wire[c]) /\ wire[c][last + 1] = [of |-> n + 1, head |-> TRUE]

\* Until a client has taken a misframed message, it stands at a head.
Aligned(c) ==
    (\A n \in DOMAIN taken[c] : ~Misframed(c, n)) =>
        IF Len(taken[c]) = Len(written[c])
        THEN wire[c] = << >>
        ELSE wire[c] # << >> /\ wire[c][1] = [of |-> Len(taken[c]) + 1, head |-> TRUE]

Framing(c) ==
    /\ \A n \in Written(c) : ~written[c][n].stale => written[c][n].length = written[c][n].body
    /\ HeadsInOrder(c)
    /\ \A i \in DOMAIN wire[c] : wire[c][i].head => Message(c, i)
    /\ Aligned(c)
    /\ \A k \in DOMAIN taken[c] :
          (\A n \in 1 .. k - 1 : ~Misframed(c, n)) =>
              /\ taken[c][k].of = k
              /\ ~Misframed(c, k) => taken[c][k].whole

\* A response has its status and its Connection header from an endpoint or from
\* the library, and the session keeps the connection as the frame says.
Made(res) ==
    \E r \in Responses \cup {Failure, Response(200)} :
        res.status = r.status /\ res.connection = r.connection

Promised(c) ==
    /\ InApplication(c, "up") => Made(flow[c].res)
    /\ pc[c] = "writing" =>
          /\ Made(flow[c].res)
          /\ response[c].keepAlive = Frame(Executor!Current(c), flow[c].res).keepAlive
    /\ \A n \in Written(c) :
          /\ written[c][n].keepAlive = answers[c][n].keepAlive
          /\ [status |-> written[c][n].status, keepAlive |-> written[c][n].keepAlive]
                \in Served(requests[c][n])

ConnInv(c) == Flow(c) /\ Bookkeeping(c) /\ Framing(c) /\ Promised(c)
IInv == ServiceTypes /\ \A c \in Conns : ConnInv(c)

-----------------------------------------------------------------------------
(* Types. *)

\* A frame is written from a response, of its length unless that is stale.
LEMMA FrameTyped ==
    ASSUME NEW r, NEW res \in AnyResponse
    PROVE  /\ Frame(r, res) \in AnyFrame
           /\ ~res.stale /\ res.length \in {None, res.body} =>
                 Frame(r, res).length = Frame(r, res).body
<1>1. \A v, t : Executor!KeepAlive(v, t) \in BOOLEAN
  BY DEF Executor!KeepAlive
<1>2. Executor!ToBeastResponse(r, 200, res.connection).keepAlive \in BOOLEAN
  BY <1>1 DEF Executor!ToBeastResponse
<1> QED
  BY <1>2 DEF Frame, AnyFrame, AnyResponse

\* The responses the service makes itself.
LEMMA OwnResponses ==
    /\ \A code \in Nat : Response(code) \in AnyResponse
    /\ Failure \in AnyResponse
    /\ Failure.status = 500 /\ Failure.body = 1 /\ Failure.length = 1
    /\ Failure.connection = "none" /\ Failure.granted = FALSE /\ Failure.stale = FALSE
<1>1. \A code \in Nat : Response(code) \in AnyResponse
  BY DEF Response, AnyResponse, Executor!Tokens
<1>2. Failure = [Response(500) EXCEPT !.body = 1, !.length = 1, !.stale = FALSE]
  BY DEF Failure, Text, SetBody
<1>3. Response(500).status = 500 /\ Response(500).connection = "none" /\ Response(500).granted = FALSE
  BY DEF Response
<1> DEFINE old == Response(500)
<1>4. old \in AnyResponse
  BY <1>1
<1> HIDE DEF old
<1>5. [old EXCEPT !.body = 1, !.length = 1, !.stale = FALSE] \in AnyResponse
  BY <1>4 DEF AnyResponse
<1>6. Failure \in AnyResponse
  BY <1>2, <1>5 DEF old
<1>7. /\ Failure.status = old.status /\ Failure.body = 1 /\ Failure.length = 1
      /\ Failure.connection = old.connection /\ Failure.granted = old.granted
      /\ Failure.stale = FALSE
  BY <1>2, <1>4 DEF old, AnyResponse
<1> QED
  BY <1>1, <1>3, <1>6, <1>7 DEF old

\* A function on 1 .. n is a sequence.
LEMMA FunctionIsSeq ==
    ASSUME NEW S, NEW n \in Nat, NEW f \in [1 .. n -> S]
    PROVE  f \in Seq(S) /\ Len(f) = n
OBVIOUS

\* A frame is a head and the units of its body.
LEMMA BytesTyped ==
    ASSUME NEW n \in Nat, NEW frame \in AnyFrame
    PROVE  /\ Bytes(n, frame) \in Seq(Unit)
           /\ Len(Bytes(n, frame)) = frame.body + 1
           /\ \A i \in 1 .. frame.body + 1 : Bytes(n, frame)[i] = [of |-> n, head |-> i = 1]
<1>1. frame.body \in Nat
  BY DEF AnyFrame
<1>2. \A i \in 1 .. frame.body + 1 : (i = 1) \in BOOLEAN
  OBVIOUS
<1>3. \A i \in 1 .. frame.body + 1 : [of |-> n, head |-> i = 1] \in Unit
  BY <1>2 DEF Unit
<1>4. Bytes(n, frame) \in [1 .. frame.body + 1 -> Unit]
  BY <1>3 DEF Bytes
<1>5. \A i \in 1 .. frame.body + 1 : Bytes(n, frame)[i] = [of |-> n, head |-> i = 1]
  BY DEF Bytes
<1>6. Bytes(n, frame) \in Seq(Unit) /\ Len(Bytes(n, frame)) = frame.body + 1
  <2> DEFINE size == frame.body + 1
  <2>1. size \in Nat
    BY <1>1
  <2> HIDE DEF size
  <2>2. Bytes(n, frame) \in [1 .. size -> Unit]
    BY <1>4 DEF size
  <2>3. Bytes(n, frame) \in Seq(Unit) /\ Len(Bytes(n, frame)) = size
    BY <2>1, <2>2, FunctionIsSeq
  <2> QED BY <2>3 DEF size
<1> QED
  BY <1>5, <1>6

\* No step changes the layers, and only conversation with c changes what c has.
SameAt(c) ==
    /\ pc'[c] = pc[c] /\ requests'[c] = requests[c] /\ consumed'[c] = consumed[c]
    /\ response'[c] = response[c] /\ answers'[c] = answers[c]
    /\ details'[c] = details[c] /\ flow'[c] = flow[c] /\ log'[c] = log[c]
    /\ threw'[c] = threw[c] /\ written'[c] = written[c]
    /\ wire'[c] = wire[c] /\ taken'[c] = taken[c]

Acts(c) == Accept(c) \/ SessionStep(c) \/ ClientStep(c)

Typed == ServiceTypes /\ Executor!TypeOK

\* What each step does, without the connections it leaves alone.
LEMMA StartUpSame ==
    ASSUME Typed, StartUp \/ UNCHANGED vars
    PROVE  /\ ServiceTypes' /\ layers' = layers
           /\ \A d \in Conns : SameAt(d)
<1>1. UNCHANGED <<requests, pc, consumed, response, answers, app, net>>
  BY DEF StartUp, Same, Executor!Serve, Executor!RunOrThrow, Executor!AcceptFails,
         Executor!sessionVars, vars, executor
<1> QED
  BY <1>1 DEF SameAt, app, net, Typed, ServiceTypes

\* The types of the variables, those of BeastExecutor included.
LEMMA TypedAt ==
    ASSUME Typed, NEW c \in Conns
    PROVE  /\ pc[c] \in {"none", "backlog", "reading", "handling", "writing", "closing", "done"}
           /\ requests[c] \in Seq(Requests) /\ consumed[c] \in Nat
           /\ response[c] \in Executor!Answers /\ answers[c] \in Seq(Executor!Answers)
           /\ details[c] \in Seq(Details) /\ flow[c] \in Item
           /\ flow[c].at \in Nat /\ flow[c].way \in Ways /\ flow[c].res \in AnyResponse
           /\ log[c] \in Seq(Line) /\ threw[c] \in Seq(BOOLEAN)
           /\ written[c] \in Seq(AnyFrame) /\ wire[c] \in Seq(Unit)
           /\ taken[c] \in Seq(Taking)
           /\ layers \in Seq(Layers)
           /\ \A i, j \in DOMAIN layers : layers[i] = layers[j] => i = j
<1>1. layers \in Applications
  BY DEF Typed, ServiceTypes
<1>2. flow[c] \in Item
  BY DEF Typed, ServiceTypes, Item
<1>3. /\ details[c] \in Seq(Details)
      /\ log[c] \in Seq(Line) /\ threw[c] \in Seq(BOOLEAN)
      /\ written[c] \in Seq(AnyFrame) /\ wire[c] \in Seq(Unit)
      /\ taken[c] \in Seq(Taking)
  BY DEF Typed, ServiceTypes
<1>4. /\ pc[c] \in {"none", "backlog", "reading", "handling", "writing", "closing", "done"}
      /\ requests[c] \in Seq(Requests) /\ consumed[c] \in Nat
      /\ response[c] \in Executor!Answers /\ answers[c] \in Seq(Executor!Answers)
  BY DEF Typed, Executor!TypeOK
<1> QED
  BY <1>1, <1>2, <1>3, <1>4, ApplicationsAssumption DEF Item

\* What a read changes.
LEMMA ReadDoes ==
    ASSUME Typed, NEW c \in Conns, Read(c)
    PROVE  /\ pc[c] = "reading" /\ pc' = [pc EXCEPT ![c] = "handling"]
           /\ consumed' = [consumed EXCEPT ![c] = @ + 1]
           /\ consumed[c] < Len(requests[c])
           /\ flow' = [flow EXCEPT ![c] = [at |-> 0, way |-> "down", res |-> Response(404)]]
           /\ UNCHANGED <<requests, response, answers, layers, log, threw,
                          details, written, wire, taken>>
<1>1. [Idle EXCEPT !.way = "down"] = [at |-> 0, way |-> "down", res |-> Response(404)]
  BY DEF Idle
<1> QED
  BY <1>1 DEF Read, Executor!Read, Executor!Goto, Executor!Pending, net

\* The steps that only move the executor.
Moves(c) ==
    \/ Accept(c) \/ Same(Executor!ReadFails(c)) \/ Same(Executor!WriteFails(c))
    \/ Same(Executor!Shutdown(c)) \/ Same(Executor!Connect(c)) \/ Same(Executor!Leave(c))
    \/ GiveUp(c)

\* What the other steps of the executor change.
LEMMA MovesDo ==
    ASSUME Typed, NEW c \in Conns, Moves(c)
    PROVE  /\ UNCHANGED <<requests, consumed, response, answers, layers, flow, log, threw,
                          details, written, wire, taken>>
           /\ \/ pc' = pc
              \/ /\ pc' = [pc EXCEPT ![c] = pc'[c]]
                 /\ pc[c] # "handling" /\ pc'[c] \notin {"handling", "writing"}
<1> USE DEF Same, Executor!Goto, Typed, Executor!TypeOK, app, net
<1>1. CASE Accept(c)
  BY <1>1 DEF Accept, Executor!Accept
<1>2. CASE Same(Executor!ReadFails(c)) \/ Same(Executor!WriteFails(c)) \/ Same(Executor!Shutdown(c))
  BY <1>2 DEF Executor!ReadFails, Executor!WriteFails, Executor!Shutdown
<1>3. CASE Same(Executor!Connect(c))
  BY <1>3 DEF Executor!Connect
<1>4. CASE Same(Executor!Leave(c)) \/ GiveUp(c)
  BY <1>4 DEF Executor!Leave, GiveUp, Executor!sessionVars
<1> QED BY <1>1, <1>2, <1>3, <1>4 DEF Moves

\* What changes when the application has responded.
LEMMA RespondDoes ==
    ASSUME Typed, NEW c \in Conns, Respond(c)
    PROVE  /\ pc[c] = "handling" /\ flow[c].way = "up" /\ flow[c].at = 0
           /\ pc' = [pc EXCEPT ![c] = "writing"]
           /\ response' = [response EXCEPT ![c] = response'[c]]
           /\ response'[c].keepAlive = Frame(Executor!Current(c), flow[c].res).keepAlive
           /\ UNCHANGED <<requests, consumed, answers, layers, flow, log, threw,
                          details, written, wire, taken>>
BY DEF Respond, InApplication, Executor!HandlerReturns, Executor!Goto, Typed, Executor!TypeOK,
       app, net

\* What changes when the application has thrown.
LEMMA FailDoes ==
    ASSUME Typed, NEW c \in Conns, Fail(c)
    PROVE  /\ pc[c] = "handling" /\ flow[c].way = "fail" /\ flow[c].at = 0
           /\ pc' = [pc EXCEPT ![c] = "writing"]
           /\ response' = [response EXCEPT ![c] = Executor!Failure(Executor!Current(c))]
           /\ flow' = [flow EXCEPT ![c].res = Failure]
           /\ UNCHANGED <<requests, consumed, answers, layers, log, threw,
                          details, written, wire, taken>>
BY DEF Fail, InApplication, Executor!HandlerThrows, Executor!Goto, Typed, Executor!TypeOK, net

\* What a write changes.
LEMMA WriteDoes ==
    ASSUME Typed, NEW c \in Conns, Write(c)
    PROVE  LET frame == Frame(Executor!Current(c), flow[c].res)
           IN  /\ pc[c] = "writing"
               /\ pc' = [pc EXCEPT ![c] = pc'[c]]
               /\ pc'[c] \in {"reading", "closing"}
               /\ answers' = [answers EXCEPT ![c] = Append(@, response[c])]
               /\ written' = [written EXCEPT ![c] = Append(@, frame)]
               /\ wire' = [wire EXCEPT ![c] = @ \o Bytes(Len(written[c]) + 1, frame)]
               /\ flow' = [flow EXCEPT ![c] = Idle]
               /\ UNCHANGED <<requests, consumed, response, layers, log, threw, details, taken>>
BY DEF Write, Executor!Write, Executor!Goto, Typed, Executor!TypeOK

\* What the client changes by sending.
LEMMA SendDoes ==
    ASSUME Typed, NEW c \in Conns, Send(c)
    PROVE  /\ \E r \in Requests : requests' = [requests EXCEPT ![c] = Append(@, r)]
           /\ \E d \in Details : details' = [details EXCEPT ![c] = Append(@, d)]
           /\ UNCHANGED <<pc, consumed, response, answers, layers, flow, log, threw,
                          written, wire, taken>>
BY DEF Send, Executor!Send, Executor!sessionVars, app

\* The steps inside the application.
InsideStep(c) == PassOn(c) \/ Preflight(c) \/ Endpoint(c) \/ Return(c) \/ Unwind(c)

\* What a step of the application leaves alone.
LEMMA InsideSame ==
    ASSUME NEW c \in Conns, InsideStep(c)
    PROVE  UNCHANGED <<pc, requests, consumed, response, answers, layers, details, written, wire, taken>>
BY DEF InsideStep, PassOn, Preflight, Endpoint, Return, Unwind, Inside, executor, net

\* What the client leaves alone when it takes a response.
LEMMA TakeSame ==
    ASSUME NEW c \in Conns, Take(c)
    PROVE  UNCHANGED <<pc, requests, consumed, response, answers, layers, flow, log, threw,
                       details, written>>
BY DEF Take, executor, app

\* The steps of one connection.
LEMMA ActsSplit ==
    ASSUME NEW c \in Conns, Acts(c)
    PROVE  \/ Read(c) \/ Moves(c) \/ InsideStep(c) \/ Respond(c) \/ Fail(c) \/ Write(c)
           \/ Send(c) \/ Take(c)
BY DEF Acts, SessionStep, ClientStep, Moves, InsideStep

\* What the steps inside the application do.
LEMMA InsideDo ==
    ASSUME Typed, NEW c \in Conns, InsideStep(c)
    PROVE  /\ \E f \in Item : flow' = [flow EXCEPT ![c] = f]
           /\ \E l \in Seq(Line) : log' = [log EXCEPT ![c] = l]
           /\ \E t \in Seq(BOOLEAN) : threw' = [threw EXCEPT ![c] = t]
<1>1. flow[c] \in Item /\ flow[c].at \in Nat
  BY TypedAt
<1>2. /\ threw[c] \in Seq(BOOLEAN) /\ log[c] \in Seq(Line)
      /\ consumed[c] \in Nat
  BY TypedAt
<1>3. /\ log' = log => \E l \in Seq(Line) : log' = [log EXCEPT ![c] = l]
      /\ threw' = threw => \E t \in Seq(BOOLEAN) : threw' = [threw EXCEPT ![c] = t]
  <2>1. threw = [threw EXCEPT ![c] = threw[c]] /\ log = [log EXCEPT ![c] = log[c]]
    BY DEF Typed, ServiceTypes
  <2> QED BY <1>2, <2>1
<1>9. Append(threw[c], FALSE) \in Seq(BOOLEAN) /\ Append(threw[c], TRUE) \in Seq(BOOLEAN)
  BY <1>2
<1>4. CASE PassOn(c)
  <2>1. [flow[c] EXCEPT !.at = @ + 1] \in Item
    BY <1>1 DEF Item
  <2> QED BY <1>2, <1>3, <1>4, <2>1 DEF PassOn, Inside
<1>5. CASE Preflight(c)
  <2> DEFINE res == [Response(200) EXCEPT !.granted = TRUE]
  <2>1. Response(200) \in AnyResponse
    BY OwnResponses
  <2>2. res \in AnyResponse
    BY <2>1 DEF AnyResponse
  <2> HIDE DEF res
  <2>3. [flow[c] EXCEPT !.way = "up", !.res = res] \in Item
    BY <1>1, <2>2 DEF Ways, Item
  <2>4. Inside(c, [flow[c] EXCEPT !.way = "up", !.res = res])
    BY <1>5 DEF Preflight, res
  <2>5. threw' = [threw EXCEPT ![c] = Append(@, FALSE)] /\ log' = log
    BY <1>5 DEF Preflight
  <2>6. \E t \in Seq(BOOLEAN) : threw' = [threw EXCEPT ![c] = t]
    BY <1>9, <2>5
  <2> QED BY <1>3, <2>3, <2>4, <2>5, <2>6 DEF Inside
<1>6. CASE Endpoint(c)
  <2>1. \E f \in Item : Inside(c, f)
    <3>1. \A res \in Responses : [flow[c] EXCEPT !.way = "up", !.res = res] \in Item
      BY <1>1, ResponsesAssumption DEF Ways, Item
    <3>2. [flow[c] EXCEPT !.way = "fail"] \in Item
      BY <1>1 DEF Ways, Item
    <3> QED BY <1>6, <3>1, <3>2 DEF Endpoint
  <2>2. threw' = [threw EXCEPT ![c] = Append(@, FALSE)] \/ threw' = [threw EXCEPT ![c] = Append(@, TRUE)]
    BY <1>6 DEF Endpoint
  <2>3. \E t \in Seq(BOOLEAN) : threw' = [threw EXCEPT ![c] = t]
    BY <1>9, <2>2
  <2>4. log' = log
    BY <1>6 DEF Endpoint
  <2> QED BY <1>3, <2>1, <2>3, <2>4 DEF Inside
<1>7. CASE Return(c)
  <2> DEFINE granted == flow[c].res.granted \/ (Current(c) = "cors" /\ Detail(c).cross)
             res == [flow[c].res EXCEPT !.granted = granted]
  <2>1. granted \in BOOLEAN /\ flow[c].at - 1 \in Nat /\ flow[c].res \in AnyResponse
    BY <1>1, <1>7 DEF Return, Item, AnyResponse
  <2>2. res \in AnyResponse
    BY <2>1 DEF AnyResponse
  <2>3. Inside(c, [flow[c] EXCEPT !.at = flow[c].at - 1, !.res = res])
    BY <1>7 DEF Return
  <2>4. threw' = threw /\ (log' = log \/ log' = PrintLine(c, flow[c].res.status))
    BY <1>7 DEF Return
  <2>5. [of |-> consumed[c], status |-> flow[c].res.status] \in Line
    BY <1>2, <2>1 DEF AnyResponse, Line
  <2>7. \E l \in Seq(Line) : log' = [log EXCEPT ![c] = l]
    <3>1. Append(log[c], [of |-> consumed[c], status |-> flow[c].res.status]) \in Seq(Line)
      BY <1>2, <2>5
    <3> QED BY <1>3, <2>4, <3>1 DEF PrintLine
  <2> HIDE DEF granted, res
  <2>6. [flow[c] EXCEPT !.at = flow[c].at - 1, !.res = res] \in Item
    BY <1>1, <2>1, <2>2 DEF Item
  <2> QED BY <1>3, <2>3, <2>4, <2>6, <2>7 DEF Inside
<1>8. CASE Unwind(c)
  <2>1. flow[c].at - 1 \in Nat /\ Failure \in AnyResponse
    BY <1>1, <1>8, OwnResponses DEF Unwind
  <2>2. [flow[c] EXCEPT !.at = @ - 1, !.way = "up", !.res = Failure] \in Item
    BY <1>1, <2>1 DEF Ways, Item
  <2>3. [flow[c] EXCEPT !.at = @ - 1] \in Item
    BY <1>1, <2>1 DEF Item
  <2> QED BY <1>2, <1>3, <1>8, <2>2, <2>3 DEF Unwind, Inside
<1> QED BY <1>4, <1>5, <1>6, <1>7, <1>8 DEF InsideStep

\* The next answer a client takes is one that was written.
Takes(c, n, size, whole) ==
    /\ wire[c] # << >> /\ wire[c][1].head /\ n = wire[c][1].of
    /\ Len(taken[c]) + 1 \in DOMAIN details[c]
    /\ size = Expected(details[c][Len(taken[c]) + 1], written[c][n])
    /\ whole <=> /\ size = written[c][n].body
                 /\ \A i \in 2 .. size + 1 : wire[c][i] = [of |-> n, head |-> FALSE]
    /\ Len(wire[c]) > size
    /\ taken' = [taken EXCEPT ![c] = Append(@, [of |-> n, whole |-> whole])]
    /\ wire' = [wire EXCEPT ![c] = SubSeq(@, size + 2, Len(@))]

\* What the client changes by taking a response.
LEMMA TakeDoes ==
    ASSUME Typed, NEW c \in Conns, Take(c), Flow(c), HeadsInOrder(c)
    PROVE  \E n \in Written(c), size \in Nat, whole \in BOOLEAN : Takes(c, n, size, whole)
<1> DEFINE n    == Head(wire[c]).of
           size == Expected(details[c][Len(taken[c]) + 1], written[c][n])
           whole == /\ size = written[c][n].body
                    /\ \A i \in 2 .. size + 1 : wire[c][i] = [of |-> n, head |-> FALSE]
<1>1. /\ wire[c] # << >> /\ Head(wire[c]).head /\ Len(taken[c]) < Len(requests[c])
      /\ Len(wire[c]) > size
      /\ taken' = [taken EXCEPT ![c] = Append(@, [of |-> n, whole |-> whole])]
      /\ wire' = [wire EXCEPT ![c] = SubSeq(@, size + 2, Len(@))]
  BY DEF Take, Listening
<1>2. /\ wire[c] \in Seq(Unit) /\ taken[c] \in Seq(Taking) /\ written[c] \in Seq(AnyFrame)
      /\ details[c] \in Seq(Details)
  BY TypedAt
<1>3. Head(wire[c]) = wire[c][1] /\ 1 \in DOMAIN wire[c] /\ wire[c][1].of \in Nat
  <2>1. Head(wire[c]) = wire[c][1] /\ 1 \in DOMAIN wire[c] /\ wire[c][1] \in Unit
    BY <1>1, <1>2
  <2> QED BY <2>1 DEF Unit
<1>4. n \in Written(c)
  BY <1>1, <1>2, <1>3 DEF HeadsInOrder, Written
<1>5. Len(taken[c]) + 1 \in DOMAIN details[c]
  BY <1>1, <1>2 DEF Flow
<1>6. size \in Nat
  <2>1. written[c][n] \in AnyFrame
    BY <1>2, <1>4 DEF Written
  <2>2. written[c][n].length \in Nat
    BY <2>1 DEF AnyFrame
  <2> QED BY <2>2 DEF Expected
<1>7. whole \in BOOLEAN
  OBVIOUS
<1> QED
  BY <1>1, <1>3, <1>4, <1>5, <1>6, <1>7 DEF Takes

\* Every step keeps the types.
LEMMA ActsTyped ==
    ASSUME Typed, NEW c \in Conns, Acts(c), Flow(c), HeadsInOrder(c)
    PROVE  ServiceTypes' /\ layers' = layers
<1> USE DEF ServiceTypes
<1>0. ServiceTypes
  BY DEF Typed
<1>1. CASE Read(c)
  <2>1. [at |-> 0, way |-> "down", res |-> Response(404)] \in Item
    BY OwnResponses DEF Ways, Item
  <2>2. /\ flow' = [flow EXCEPT ![c] = [at |-> 0, way |-> "down", res |-> Response(404)]]
        /\ UNCHANGED <<layers, log, threw, details, written, wire, taken>>
    BY <1>1, ReadDoes
  <2> QED BY <1>0, <2>1, <2>2
<1>2. CASE Moves(c)
  BY <1>0, <1>2, MovesDo
<1>3. CASE InsideStep(c)
  <2>1. UNCHANGED <<layers, details, written, wire, taken>>
    BY <1>3, InsideSame
  <2>2. PICK f \in Item, l \in Seq(Line), t \in Seq(BOOLEAN) :
           /\ flow' = [flow EXCEPT ![c] = f] /\ log' = [log EXCEPT ![c] = l]
           /\ threw' = [threw EXCEPT ![c] = t]
    BY <1>3, InsideDo
  <2>3. flow' \in [Conns -> Item] /\ log' \in [Conns -> Seq(Line)] /\ threw' \in [Conns -> Seq(BOOLEAN)]
    BY <1>0, <2>2
  <2> QED BY <1>0, <2>1, <2>3
<1>4. CASE Respond(c)
  BY <1>0, <1>4, RespondDoes
<1>5. CASE Fail(c)
  <2>1. [flow[c] EXCEPT !.res = Failure] \in Item
    <3>1. flow[c] \in Item /\ Failure \in AnyResponse
      BY OwnResponses, TypedAt
    <3> QED BY <3>1 DEF Item
  <2>2. flow' = [flow EXCEPT ![c] = [flow[c] EXCEPT !.res = Failure]]
    BY <1>5, FailDoes
  <2>3. UNCHANGED <<layers, log, threw, details, written, wire, taken>>
    BY <1>5, FailDoes
  <2> QED BY <1>0, <2>1, <2>2, <2>3
<1>6. CASE Write(c)
  <2> DEFINE frame == Frame(Executor!Current(c), flow[c].res)
             bytes == Bytes(Len(written[c]) + 1, frame)
  <2>1. frame \in AnyFrame
    BY FrameTyped, TypedAt
  <2>2. bytes \in Seq(Unit)
    BY <2>1, BytesTyped, TypedAt
  <2>3. Idle \in Item
    BY OwnResponses DEF Idle, Ways, Item
  <2>4. /\ written' = [written EXCEPT ![c] = Append(@, frame)]
        /\ wire' = [wire EXCEPT ![c] = @ \o bytes]
        /\ flow' = [flow EXCEPT ![c] = Idle]
        /\ UNCHANGED <<layers, log, threw, details, taken>>
    BY <1>6, WriteDoes
  <2> HIDE DEF frame, bytes
  <2> QED BY <1>0, <2>1, <2>2, <2>3, <2>4
<1>7. CASE Send(c)
  <2>1. PICK d \in Details : details' = [details EXCEPT ![c] = Append(@, d)]
    BY <1>7, SendDoes
  <2>2. UNCHANGED <<layers, flow, log, threw, written, wire, taken>>
    BY <1>7, SendDoes
  <2> QED BY <1>0, <2>1, <2>2
<1>8. CASE Take(c)
  <2>1. PICK n \in Written(c), size \in Nat, whole \in BOOLEAN : Takes(c, n, size, whole)
    BY <1>8, TakeDoes
  <2>2. UNCHANGED <<layers, flow, log, threw, details, written>>
    BY <1>8, TakeSame
  <2>3. [of |-> n, whole |-> whole] \in Taking /\ wire[c] \in Seq(Unit)
    BY TypedAt DEF Written, Taking
  <2>4. SubSeq(wire[c], size + 2, Len(wire[c])) \in Seq(Unit)
    BY <2>3
  <2> DEFINE t == [of |-> n, whole |-> whole]
             w == SubSeq(wire[c], size + 2, Len(wire[c]))
  <2>5. taken' = [taken EXCEPT ![c] = Append(@, t)] /\ wire' = [wire EXCEPT ![c] = w]
    BY <2>1 DEF Takes
  <2>6. t \in Taking /\ w \in Seq(Unit)
    BY <2>3, <2>4
  <2> HIDE DEF t, w
  <2>7. taken' \in [Conns -> Seq(Taking)] /\ wire' \in [Conns -> Seq(Unit)]
    BY <1>0, <2>5, <2>6
  <2> QED BY <1>0, <2>2, <2>7
<1> QED
  BY <1>1, <1>2, <1>3, <1>4, <1>5, <1>6, <1>7, <1>8, ActsSplit

\* A step of one connection leaves the others alone.
LEMMA OthersSame ==
    ASSUME Typed, NEW c \in Conns, Acts(c), Flow(c), HeadsInOrder(c),
           NEW d \in Conns, d # c
    PROVE  SameAt(d)
<1>0. /\ DOMAIN pc = Conns /\ DOMAIN requests = Conns /\ DOMAIN consumed = Conns
      /\ DOMAIN response = Conns /\ DOMAIN answers = Conns /\ DOMAIN details = Conns
      /\ DOMAIN flow = Conns /\ DOMAIN log = Conns /\ DOMAIN threw = Conns
      /\ DOMAIN written = Conns /\ DOMAIN wire = Conns /\ DOMAIN taken = Conns
  BY DEF Typed, ServiceTypes, Executor!TypeOK
<1> USE DEF SameAt
<1>1. CASE Read(c)
  <2>1. /\ pc' = [pc EXCEPT ![c] = "handling"]
        /\ consumed' = [consumed EXCEPT ![c] = @ + 1]
        /\ flow' = [flow EXCEPT ![c] = [at |-> 0, way |-> "down", res |-> Response(404)]]
        /\ UNCHANGED <<requests, response, answers, layers, log, threw,
                       details, written, wire, taken>>
    BY <1>1, ReadDoes
  <2> QED BY <1>0, <2>1
<1>2. CASE Moves(c)
  BY <1>0, <1>2, MovesDo
<1>3. CASE InsideStep(c)
  BY <1>0, <1>3, InsideDo, InsideSame
<1>4. CASE Respond(c)
  BY <1>0, <1>4, RespondDoes
<1>5. CASE Fail(c)
  <2>1. /\ pc' = [pc EXCEPT ![c] = "writing"]
        /\ response' = [response EXCEPT ![c] = Executor!Failure(Executor!Current(c))]
        /\ flow' = [flow EXCEPT ![c].res = Failure]
        /\ UNCHANGED <<requests, consumed, answers, layers, log, threw,
                       details, written, wire, taken>>
    BY <1>5, FailDoes
  <2> QED BY <1>0, <2>1
<1>6. CASE Write(c)
  BY <1>0, <1>6, WriteDoes
<1>7. CASE Send(c)
  BY <1>0, <1>7, SendDoes
<1>8. CASE Take(c)
  <2>1. PICK n \in Written(c), size \in Nat, whole \in BOOLEAN : Takes(c, n, size, whole)
    BY <1>8, TakeDoes
  <2>2. UNCHANGED <<pc, requests, consumed, response, answers, layers, flow, log, threw,
                    details, written>>
    BY <1>8, TakeSame
  <2> QED BY <1>0, <2>1, <2>2 DEF Takes
<1> QED
  BY <1>1, <1>2, <1>3, <1>4, <1>5, <1>6, <1>7, <1>8, ActsSplit

-----------------------------------------------------------------------------
(* The steps inside the application, at the connection they are about. *)

Stays(c) ==
    /\ UNCHANGED layers
    /\ pc'[c] = pc[c] /\ requests'[c] = requests[c] /\ consumed'[c] = consumed[c]
    /\ response'[c] = response[c] /\ answers'[c] = answers[c] /\ details'[c] = details[c]
    /\ written'[c] = written[c] /\ wire'[c] = wire[c] /\ taken'[c] = taken[c]

\* The response is another one only in what it grants.
SameButGranted(new, old) ==
    /\ new.status = old.status /\ new.body = old.body /\ new.length = old.length
    /\ new.connection = old.connection /\ new.stale = old.stale

PassOnAt(c) ==
    /\ InApplication(c, "down") /\ flow[c].at < Len(layers)
    /\ Below(c) = "cors" => ~Detail(c).preflight
    /\ flow'[c].at = flow[c].at + 1 /\ flow'[c].way = "down" /\ flow'[c].res = flow[c].res
    /\ log'[c] = log[c] /\ threw'[c] = threw[c]

PreflightAt(c) ==
    /\ InApplication(c, "down") /\ flow[c].at < Len(layers)
    /\ Below(c) = "cors" /\ Detail(c).preflight
    /\ flow'[c].at = flow[c].at /\ flow'[c].way = "up"
    /\ SameButGranted(flow'[c].res, Response(200)) /\ flow'[c].res.granted
    /\ log'[c] = log[c] /\ threw'[c] = Append(threw[c], FALSE)

EndpointAt(c) ==
    /\ InApplication(c, "down") /\ flow[c].at = Len(layers)
    /\ flow'[c].at = flow[c].at /\ log'[c] = log[c]
    /\ \/ /\ flow'[c].way = "up" /\ flow'[c].res \in Responses
          /\ threw'[c] = Append(threw[c], FALSE)
       \/ /\ flow'[c].way = "fail" /\ flow'[c].res = flow[c].res
          /\ threw'[c] = Append(threw[c], TRUE)

ReturnAt(c) ==
    /\ InApplication(c, "up") /\ flow[c].at > 0
    /\ flow'[c].at = flow[c].at - 1 /\ flow'[c].way = "up"
    /\ SameButGranted(flow'[c].res, flow[c].res)
    /\ flow'[c].res.granted <=> flow[c].res.granted \/ (Current(c) = "cors" /\ Detail(c).cross)
    /\ log'[c] = IF Current(c) = "logger"
                 THEN Append(log[c], [of |-> consumed[c], status |-> flow[c].res.status])
                 ELSE log[c]
    /\ threw'[c] = threw[c]

UnwindAt(c) ==
    /\ InApplication(c, "fail") /\ flow[c].at > 0
    /\ flow'[c].at = flow[c].at - 1
    /\ IF Current(c) = "recover"
       THEN flow'[c].way = "up" /\ flow'[c].res = Failure
       ELSE flow'[c].way = "fail" /\ flow'[c].res = flow[c].res
    /\ log'[c] = log[c] /\ threw'[c] = threw[c]

\* A step of the application, in terms of its connection.
LEMMA InsideAt ==
    ASSUME Typed, NEW c \in Conns, InsideStep(c)
    PROVE  Stays(c) /\ (PassOnAt(c) \/ PreflightAt(c) \/ EndpointAt(c) \/ ReturnAt(c) \/ UnwindAt(c))
<1>1. Stays(c)
  BY InsideSame DEF Stays
<1>2. /\ flow[c] \in Item /\ flow[c].at \in Nat /\ flow[c].res \in AnyResponse
      /\ DOMAIN flow = Conns /\ DOMAIN log = Conns /\ DOMAIN threw = Conns
  BY TypedAt DEF Typed, ServiceTypes
<1>3. \A f : Inside(c, f) => flow'[c] = f
  BY <1>2 DEF Inside
<1>4. CASE PassOn(c)
  <2>1. flow'[c] = [flow[c] EXCEPT !.at = @ + 1]
    BY <1>3, <1>4 DEF PassOn
  <2>2. flow'[c].at = flow[c].at + 1 /\ flow'[c].way = flow[c].way /\ flow'[c].res = flow[c].res
    BY <1>2, <2>1 DEF Item
  <2> QED BY <1>1, <1>4, <2>2 DEF PassOn, PassOnAt, InApplication
<1>5. CASE Preflight(c)
  <2> DEFINE res == [Response(200) EXCEPT !.granted = TRUE]
  <2>1. SameButGranted(res, Response(200)) /\ res.granted
    BY OwnResponses DEF SameButGranted, AnyResponse
  <2>2. flow'[c] = [flow[c] EXCEPT !.way = "up", !.res = res]
    BY <1>3, <1>5 DEF Preflight
  <2> HIDE DEF res
  <2>3. flow'[c].at = flow[c].at /\ flow'[c].way = "up" /\ flow'[c].res = res
    BY <1>2, <2>2 DEF Item
  <2>4. threw'[c] = Append(threw[c], FALSE)
    BY <1>2, <1>5 DEF Preflight
  <2> QED BY <1>1, <1>5, <2>1, <2>3, <2>4 DEF Preflight, PreflightAt
<1>6. CASE Endpoint(c)
  <2>1. /\ InApplication(c, "down") /\ flow[c].at = Len(layers) /\ log' = log
    BY <1>6 DEF Endpoint
  <2>2. CASE /\ \E res \in Responses : Inside(c, [flow[c] EXCEPT !.way = "up", !.res = res])
             /\ threw' = [threw EXCEPT ![c] = Append(@, FALSE)]
    <3>1. PICK res \in Responses : flow'[c] = [flow[c] EXCEPT !.way = "up", !.res = res]
      BY <1>3, <2>2
    <3>2. flow'[c].at = flow[c].at /\ flow'[c].way = "up" /\ flow'[c].res = res
      BY <1>2, <3>1 DEF Item
    <3>3. threw'[c] = Append(threw[c], FALSE)
      BY <1>2, <2>2
    <3> QED BY <1>1, <2>1, <3>2, <3>3 DEF EndpointAt
  <2>3. CASE /\ Inside(c, [flow[c] EXCEPT !.way = "fail"])
             /\ threw' = [threw EXCEPT ![c] = Append(@, TRUE)]
    <3>1. flow'[c] = [flow[c] EXCEPT !.way = "fail"]
      BY <1>3, <2>3
    <3>2. flow'[c].at = flow[c].at /\ flow'[c].way = "fail" /\ flow'[c].res = flow[c].res
      BY <1>2, <3>1 DEF Item
    <3>3. threw'[c] = Append(threw[c], TRUE)
      BY <1>2, <2>3
    <3> QED BY <1>1, <2>1, <3>2, <3>3 DEF EndpointAt
  <2> QED BY <1>6, <2>2, <2>3 DEF Endpoint
<1>7. CASE Return(c)
  <2> DEFINE granted == flow[c].res.granted \/ (Current(c) = "cors" /\ Detail(c).cross)
             res == [flow[c].res EXCEPT !.granted = granted]
  <2>1. SameButGranted(res, flow[c].res) /\ res.granted = granted
    BY <1>2 DEF SameButGranted, AnyResponse
  <2>2. flow'[c] = [flow[c] EXCEPT !.at = flow[c].at - 1, !.res = res]
    <3>1. Inside(c, [flow[c] EXCEPT !.at = flow[c].at - 1, !.res = res])
      BY <1>7 DEF Return
    <3> QED BY <1>3, <3>1
  <2>3. /\ InApplication(c, "up") /\ flow[c].at > 0 /\ threw' = threw
        /\ log' = IF Current(c) = "logger" THEN PrintLine(c, flow[c].res.status) ELSE log
    BY <1>7 DEF Return
  <2>4. flow'[c].at = flow[c].at - 1 /\ flow'[c].way = flow[c].way /\ flow'[c].res = res
    <3> HIDE DEF res
    <3> QED BY <1>2, <2>2 DEF Item
  <2>5. log'[c] = IF Current(c) = "logger"
                  THEN Append(log[c], [of |-> consumed[c], status |-> flow[c].res.status])
                  ELSE log[c]
    BY <1>2, <2>3 DEF PrintLine
  <2> HIDE DEF res
  <2> QED BY <1>1, <2>1, <2>3, <2>4, <2>5 DEF ReturnAt, InApplication
<1>8. CASE Unwind(c)
  <2>1. flow'[c] = IF Current(c) = "recover"
                   THEN [flow[c] EXCEPT !.at = @ - 1, !.way = "up", !.res = Failure]
                   ELSE [flow[c] EXCEPT !.at = @ - 1]
    BY <1>3, <1>8 DEF Unwind
  <2>2. /\ flow'[c].at = flow[c].at - 1
        /\ IF Current(c) = "recover"
           THEN flow'[c].way = "up" /\ flow'[c].res = Failure
           ELSE flow'[c].way = flow[c].way /\ flow'[c].res = flow[c].res
    BY <1>2, <2>1 DEF Item
  <2> QED BY <1>1, <1>8, <2>2 DEF Unwind, UnwindAt, InApplication
<1> QED BY <1>1, <1>4, <1>5, <1>6, <1>7, <1>8 DEF InsideStep

\* Every step keeps where a request is on its way.
LEMMA FlowStep ==
    ASSUME Typed, NEW c \in Conns, Acts(c), Flow(c), HeadsInOrder(c),
           Executor!OneInFlight(c), Executor!OneInFlight(c)'
    PROVE  Flow(c)'
<1>0. /\ DOMAIN pc = Conns /\ DOMAIN requests = Conns /\ DOMAIN consumed = Conns
      /\ DOMAIN answers = Conns /\ DOMAIN details = Conns /\ DOMAIN flow = Conns
      /\ DOMAIN written = Conns
      /\ consumed[c] \in Nat /\ requests[c] \in Seq(Requests) /\ details[c] \in Seq(Details)
      /\ written[c] \in Seq(AnyFrame) /\ answers[c] \in Seq(Executor!Answers)
      /\ log[c] \in Seq(Line) /\ threw[c] \in Seq(BOOLEAN) /\ layers \in Seq(Layers)
      /\ flow[c] \in Item /\ flow[c].at \in Nat /\ flow[c].res \in AnyResponse
  BY TypedAt DEF Typed, ServiceTypes, Executor!TypeOK
<1>9. /\ Len(Append(threw[c], FALSE)) = Len(threw[c]) + 1
      /\ Len(Append(threw[c], TRUE)) = Len(threw[c]) + 1
  BY <1>0
<1>1. CASE Read(c)
  <2>1. /\ pc[c] = "reading" /\ pc'[c] = "handling" /\ consumed'[c] = consumed[c] + 1
        /\ flow'[c] = [at |-> 0, way |-> "down", res |-> Response(404)]
        /\ UNCHANGED <<requests, answers, layers, log, threw, details, written>>
    BY <1>0, <1>1, ReadDoes
  <2>2. Response(404).stale = FALSE /\ Response(404).length = None
    BY DEF Response
  <2>3. /\ flow'[c].at = 0 /\ flow'[c].way = "down"
        /\ flow'[c].res.stale = FALSE /\ flow'[c].res.length = None
    BY <2>1, <2>2
  <2>4. \A i \in DOMAIN log[c] : log[c][i].of \in Nat
    <3>1. log[c] \in Seq(Line)
      BY <1>0
    <3>2. \A i \in DOMAIN log[c] : log[c][i] \in Line
      BY <3>1
    <3> QED BY <3>2 DEF Line
  <2> QED BY <1>0, <2>1, <2>3, <2>4 DEF Flow, InApplication
<1>2. CASE Moves(c)
  <2>1. /\ UNCHANGED <<requests, consumed, answers, layers, flow, log, threw, details, written>>
        /\ \/ pc'[c] = pc[c]
           \/ pc[c] # "handling" /\ pc'[c] \notin {"handling", "writing"}
    BY <1>0, <1>2, MovesDo
  <2> QED BY <1>0, <2>1 DEF Flow, InApplication
<1>3. CASE InsideStep(c)
  <2>1. Stays(c)
    BY <1>3, InsideAt
  <2>2. CASE PassOnAt(c)
    BY <1>0, <2>1, <2>2 DEF Stays, PassOnAt, Flow, InApplication
  <2>3. CASE PreflightAt(c)
    <3>1. Response(200).stale = FALSE /\ Response(200).length = None
      BY DEF Response
    <3> QED BY <1>0, <1>9, <2>1, <2>3, <3>1 DEF Stays, PreflightAt, Flow, InApplication, SameButGranted
  <2>4. CASE EndpointAt(c)
    <3>1. ~flow'[c].res.stale => flow'[c].res.length \in {None, flow'[c].res.body}
      BY <2>4, ResponsesAssumption DEF EndpointAt, Flow
    <3>2. Len(threw'[c]) = consumed[c] /\ flow'[c].way # "down" /\ flow'[c].way # "idle"
      <4>1. Len(threw[c]) = consumed[c] - 1
        BY <2>4 DEF EndpointAt, Flow
      <4>2. \/ threw'[c] = Append(threw[c], FALSE) /\ flow'[c].way = "up"
            \/ threw'[c] = Append(threw[c], TRUE) /\ flow'[c].way = "fail"
        BY <2>4 DEF EndpointAt
      <4>3. Len(threw'[c]) = Len(threw[c]) + 1
        BY <1>9, <4>2
      <4>4. consumed[c] \in Nat
        BY <1>0
      <4>5. Len(threw'[c]) = consumed[c]
        BY <4>1, <4>3, <4>4
      <4> QED BY <4>2, <4>5
    <3> QED BY <1>0, <2>1, <2>4, <3>1, <3>2 DEF Stays, EndpointAt, Flow, InApplication
  <2>5. CASE ReturnAt(c)
    <3>1. \A i \in DOMAIN log'[c] : log'[c][i].of <= consumed[c]
      BY <1>0, <2>5 DEF ReturnAt, Flow
    <3> QED BY <1>0, <2>1, <2>5, <3>1 DEF Stays, ReturnAt, Flow, InApplication, SameButGranted
  <2>6. CASE UnwindAt(c)
    BY <1>0, <2>1, <2>6, OwnResponses DEF Stays, UnwindAt, Flow, InApplication
  <2> QED BY <1>3, <2>2, <2>3, <2>4, <2>5, <2>6, InsideAt
<1>4. CASE Respond(c)
  <2>1. /\ pc[c] = "handling" /\ flow[c].way = "up" /\ pc'[c] = "writing"
        /\ UNCHANGED <<requests, consumed, answers, layers, flow, log, threw, details, written>>
    BY <1>0, <1>4, RespondDoes
  <2> QED BY <1>0, <2>1 DEF Flow, InApplication
<1>5. CASE Fail(c)
  <2>1. /\ pc[c] = "handling" /\ flow[c].way = "fail" /\ pc'[c] = "writing"
        /\ flow'[c] = [flow[c] EXCEPT !.res = Failure]
        /\ UNCHANGED <<requests, consumed, answers, layers, log, threw, details, written>>
    <3>1. /\ pc[c] = "handling" /\ flow[c].way = "fail"
          /\ pc' = [pc EXCEPT ![c] = "writing"] /\ flow' = [flow EXCEPT ![c].res = Failure]
          /\ UNCHANGED <<requests, consumed, answers, layers, log, threw, details, written>>
      BY <1>5, FailDoes
    <3> QED BY <1>0, <3>1
  <2>2. flow'[c].at = flow[c].at /\ flow'[c].way = "fail" /\ flow'[c].res = Failure
    BY <1>0, <2>1 DEF Item
  <2> QED BY <1>0, <2>1, <2>2, OwnResponses DEF Flow, InApplication
<1>6. CASE Write(c)
  <2> DEFINE frame == Frame(Executor!Current(c), flow[c].res)
  <2>0. /\ pc[c] = "writing" /\ pc'[c] \in {"reading", "closing"}
        /\ answers' = [answers EXCEPT ![c] = Append(@, response[c])]
        /\ written' = [written EXCEPT ![c] = Append(@, frame)]
        /\ flow' = [flow EXCEPT ![c] = Idle]
        /\ UNCHANGED <<requests, consumed, layers, log, threw, details>>
    BY <1>6, WriteDoes
  <2>2. Idle.at = 0 /\ Idle.res.stale = FALSE /\ Idle.res.length = None
    BY DEF Idle, Response
  <2>3. frame \in AnyFrame
    BY <1>0, FrameTyped
  <2>4. response[c] \in Executor!Answers
    BY TypedAt
  <2> HIDE DEF frame
  <2>1. /\ answers'[c] = Append(answers[c], response[c])
        /\ written'[c] = Append(written[c], frame)
        /\ flow'[c] = Idle
    BY <1>0, <2>0
  <2> QED BY <1>0, <2>0, <2>1, <2>2, <2>3, <2>4 DEF Flow, InApplication
<1>7. CASE Send(c)
  <2>1. /\ \E r \in Requests : requests'[c] = Append(requests[c], r)
        /\ \E d \in Details : details'[c] = Append(details[c], d)
        /\ UNCHANGED <<pc, consumed, answers, layers, flow, log, threw, written>>
    BY <1>0, <1>7, SendDoes
  <2> QED BY <1>0, <2>1 DEF Flow, InApplication
<1>8. CASE Take(c)
  BY <1>8, TakeSame DEF Flow, InApplication
<1> QED
  BY <1>1, <1>2, <1>3, <1>4, <1>5, <1>6, <1>7, <1>8, ActsSplit

-----------------------------------------------------------------------------
(* What the layers have done. *)

\* The facts about one connection that the bookkeeping needs.
Known(c) == Flow(c) /\ Executor!OneInFlight(c)

\* What is known of the counts of a connection.
LEMMA KnownAt ==
    ASSUME Typed, NEW c \in Conns, Known(c)
    PROVE  /\ consumed[c] \in Nat
           /\ pc[c] \in {"handling", "writing"} =>
                 consumed[c] \in DOMAIN details[c] /\ Len(written[c]) + 1 = consumed[c]
           /\ Len(written[c]) \in Nat
           /\ \A n \in Written(c) : n \in DOMAIN details[c] /\ n <= consumed[c]
           /\ \A n \in Written(c) : pc[c] \in {"handling", "writing"} => n < consumed[c]
           /\ \A n \in Written(c) : n \in DOMAIN threw[c]
           /\ pc[c] = "writing" => consumed[c] \in DOMAIN threw[c]
           /\ InApplication(c, "up") \/ InApplication(c, "fail") => consumed[c] \in DOMAIN threw[c]
<1>1. /\ consumed[c] \in Nat /\ requests[c] \in Seq(Requests) /\ details[c] \in Seq(Details)
      /\ written[c] \in Seq(AnyFrame) /\ answers[c] \in Seq(Executor!Answers)
      /\ threw[c] \in Seq(BOOLEAN)
      /\ pc[c] \in {"none", "backlog", "reading", "handling", "writing", "closing", "done"}
  BY TypedAt
<1> DEFINE Nw == Len(written[c])  Na == Len(answers[c])  Nt == Len(threw[c])
           Nd == Len(details[c])  Nr == Len(requests[c])
<1>2. /\ Nw \in Nat /\ Na \in Nat /\ Nt \in Nat /\ Nd \in Nat /\ Nr \in Nat
      /\ DOMAIN threw[c] = 1 .. Nt /\ DOMAIN details[c] = 1 .. Nd
  BY <1>1
<1>3. /\ Nt = IF InApplication(c, "down") THEN consumed[c] - 1 ELSE consumed[c]
      /\ Nd = Nr /\ Nw = Na
  BY DEF Known, Flow
<1>4. /\ consumed[c] <= Nr
      /\ pc[c] \in {"none", "backlog", "reading"} => Na = consumed[c]
      /\ pc[c] \in {"handling", "writing"} => consumed[c] = Na + 1
      /\ pc[c] \in {"closing", "done"} => consumed[c] \in {Na, Na + 1}
  BY DEF Known, Executor!OneInFlight
<1>5. \A w : InApplication(c, w) <=> pc[c] = "handling" /\ flow[c].way = w
  BY DEF InApplication
<1> HIDE DEF Nw, Na, Nt, Nd, Nr
<1>6. /\ Nw <= Nt /\ Nw <= Nd /\ Nw <= consumed[c]
      /\ pc[c] \in {"handling", "writing"} => consumed[c] <= Nd /\ Nw + 1 = consumed[c] /\ consumed[c] \in 1 .. Nd
      /\ pc[c] = "writing" => consumed[c] \in 1 .. Nt
      /\ InApplication(c, "up") \/ InApplication(c, "fail") => consumed[c] \in 1 .. Nt
  <2>1. pc[c] \in {"handling", "writing"} => consumed[c] = Nw + 1 /\ consumed[c] \in 1 .. Nd
    BY <1>1, <1>2, <1>3, <1>4
  <2>2. Nw <= consumed[c] /\ Nw <= Nd
    BY <1>1, <1>2, <1>3, <1>4
  <2>3. ~InApplication(c, "down") => Nt = consumed[c]
    BY <1>3
  <2>4. InApplication(c, "down") => Nt = Nw
    BY <1>1, <1>2, <1>3, <1>5, <2>1
  <2>5. Nw <= Nt
    BY <2>2, <2>3, <2>4, <1>2
  <2>6. pc[c] = "writing" => consumed[c] \in 1 .. Nt
    <3>1. ASSUME pc[c] = "writing" PROVE ~InApplication(c, "down")
      BY <3>1, <1>5
    <3> QED BY <1>2, <2>1, <2>3, <3>1
  <2>7. ASSUME InApplication(c, "up") \/ InApplication(c, "fail") PROVE consumed[c] \in 1 .. Nt
    <3>1. ~InApplication(c, "down") /\ pc[c] = "handling"
      BY <2>7, <1>5
    <3> QED BY <1>2, <2>1, <2>3, <3>1
  <2> QED BY <1>1, <1>2, <2>1, <2>2, <2>5, <2>6, <2>7
<1> QED
  BY <1>1, <1>2, <1>6 DEF Written, Nw, Nt, Nd

\* What has been done for the n-th request depends on the layers, on whether the
\* endpoint threw and on the request.
LEMMA BehindSame ==
    ASSUME UNCHANGED layers, NEW c, NEW n,
           threw'[c][n] = threw[c][n], details'[c][n] = details[c][n]
    PROVE  /\ \A i : GotBack(c, n, i)' <=> GotBack(c, n, i)
           /\ \A p : LoggedBehind(c, n, p)' <=> LoggedBehind(c, n, p)
           /\ \A p : GrantedBehind(c, n, p)' <=> GrantedBehind(c, n, p)
           /\ \A a : Has(a)' <=> Has(a)
<1>1. \A i : GotBack(c, n, i)' <=> GotBack(c, n, i)
  BY DEF GotBack
<1>2. \A p : LoggedBehind(c, n, p)' <=> LoggedBehind(c, n, p)
  BY <1>1 DEF LoggedBehind
<1>3. \A p : GrantedBehind(c, n, p)' <=> GrantedBehind(c, n, p)
  BY <1>1 DEF GrantedBehind
<1>4. \A a : Has(a)' <=> Has(a)
  BY DEF Has
<1> QED
  BY <1>1, <1>2, <1>3, <1>4

\* A line about one request adds none about another.
LEMMA LinesSame ==
    ASSUME NEW c, NEW n, log[c] \in Seq(Line),
           log'[c] = log[c] \/ \E l \in Line : log'[c] = Append(log[c], l) /\ l.of # n
    PROVE  /\ Lines(c, n)' = Lines(c, n)
           /\ \A i \in Lines(c, n) : log'[c][i] = log[c][i]
<1>1. CASE log'[c] = log[c]
  BY <1>1 DEF Lines
<1>2. ASSUME NEW l \in Line, log'[c] = Append(log[c], l), l.of # n
      PROVE  /\ Lines(c, n)' = Lines(c, n)
             /\ \A i \in Lines(c, n) : log'[c][i] = log[c][i]
  <2>1. /\ DOMAIN log'[c] = DOMAIN log[c] \cup {Len(log[c]) + 1}
        /\ \A i \in DOMAIN log[c] : log'[c][i] = log[c][i]
        /\ log'[c][Len(log[c]) + 1] = l
    BY <1>2
  <2> QED BY <1>2, <2>1 DEF Lines
<1> QED BY <1>1, <1>2

\* What was done for a request stays as it was, when its line does.
LEMMA AccountsStay ==
    ASSUME UNCHANGED layers, NEW c, NEW n, NEW p, NEW res, Accounts(c, n, p, res),
           log[c] \in Seq(Line),
           log'[c] = log[c] \/ \E l \in Line : log'[c] = Append(log[c], l) /\ l.of # n,
           threw'[c][n] = threw[c][n], details'[c][n] = details[c][n]
    PROVE  /\ IF LoggedBehind(c, n, p)'
              THEN \E i \in DOMAIN log'[c] : Lines(c, n)' = {i} /\ log'[c][i].status = res.status
              ELSE Lines(c, n)' = {}
           /\ res.granted <=> GrantedBehind(c, n, p)'
           /\ details'[c][n].preflight /\ Has("cors")' => ~threw'[c][n]
<1>1. /\ Lines(c, n)' = Lines(c, n)
      /\ \A i \in Lines(c, n) : log'[c][i] = log[c][i]
  BY LinesSame
<1>2. DOMAIN log[c] \subseteq DOMAIN log'[c]
  <2>1. \A l \in Line : DOMAIN log[c] \subseteq DOMAIN Append(log[c], l)
    OBVIOUS
  <2> QED BY <2>1
<1>3. /\ LoggedBehind(c, n, p)' <=> LoggedBehind(c, n, p)
      /\ GrantedBehind(c, n, p)' <=> GrantedBehind(c, n, p)
      /\ Has("cors")' <=> Has("cors")
  BY BehindSame
<1>4. res.granted <=> GrantedBehind(c, n, p)
  BY DEF Accounts
<1>5. details[c][n].preflight /\ Has("cors") => ~threw[c][n]
  BY DEF Accounts
<1>6. CASE LoggedBehind(c, n, p)
  <2>1. PICK i \in DOMAIN log[c] : Lines(c, n) = {i} /\ log[c][i].status = res.status
    BY <1>6 DEF Accounts
  <2>2. Lines(c, n)' = {i} /\ log'[c][i].status = res.status /\ i \in DOMAIN log'[c]
    BY <1>1, <1>2, <2>1
  <2> QED BY <1>3, <1>4, <1>5, <1>6, <2>2
<1>7. CASE ~LoggedBehind(c, n, p)
  <2>1. Lines(c, n)' = {}
    BY <1>1, <1>7 DEF Accounts
  <2> QED BY <1>3, <1>4, <1>5, <1>7, <2>1
<1> QED BY <1>6, <1>7

\* So it does for the requests that are answered already.
LEMMA WrittenStay ==
    ASSUME Typed, UNCHANGED layers, NEW c \in Conns, Known(c), Bookkeeping(c),
           log'[c] = log[c] \/ \E l \in Line : log'[c] = Append(log[c], l) /\ l.of = consumed[c]
                                               /\ pc[c] = "handling",
           \A n \in DOMAIN threw[c] : threw'[c][n] = threw[c][n],
           \A n \in DOMAIN details[c] : details'[c][n] = details[c][n],
           NEW n \in Written(c), written'[c][n] = written[c][n]
    PROVE  Accounts(c, n, 0, written[c][n])'
<1>1. Accounts(c, n, 0, written[c][n])
  BY DEF Bookkeeping
<1>2. /\ n \in DOMAIN threw[c] /\ n \in DOMAIN details[c] /\ n \in Nat /\ consumed[c] \in Nat
      /\ pc[c] = "handling" => n < consumed[c]
  BY KnownAt DEF Written
<1>3. log'[c] = log[c] \/ \E l \in Line : log'[c] = Append(log[c], l) /\ l.of # n
  BY <1>2
<1>4. log[c] \in Seq(Line)
  BY TypedAt
<1>5. threw'[c][n] = threw[c][n] /\ details'[c][n] = details[c][n]
  BY <1>2
<1> DEFINE res == written[c][n]
<1> HIDE DEF res
<1>6. Accounts(c, n, 0, res)
  BY <1>1 DEF res
<1>7. /\ IF LoggedBehind(c, n, 0)'
         THEN \E i \in DOMAIN log'[c] : Lines(c, n)' = {i} /\ log'[c][i].status = res.status
         ELSE Lines(c, n)' = {}
      /\ res.granted <=> GrantedBehind(c, n, 0)'
      /\ details'[c][n].preflight /\ Has("cors")' => ~threw'[c][n]
  BY <1>3, <1>4, <1>5, <1>6, AccountsStay
<1>8. written'[c][n] = res
  BY DEF res
<1> QED
  BY <1>7, <1>8 DEF Accounts

\* The request in the application is the one that was read last.
LEMMA DownStep ==
    ASSUME Typed, NEW c \in Conns, Known(c), Bookkeeping(c), Stays(c),
           PassOnAt(c) \/ PreflightAt(c) \/ EndpointAt(c),
           NEW n, n = consumed[c]
    PROVE  /\ flow'[c].way = "down" => Down(c, n)'
           /\ flow'[c].way = "up" => Up(c, n)'
           /\ flow'[c].way = "fail" => Failing(c, n)'
<1>0. /\ pc[c] = "handling" /\ InApplication(c, "down")
      /\ log'[c] = log[c]
  BY DEF PassOnAt, PreflightAt, EndpointAt, InApplication
<1>1. /\ n \in Nat /\ n \in DOMAIN details[c] /\ details[c][n] \in AnyDetail
      /\ details[c][n].preflight => details[c][n].cross
      /\ details[c] \in Seq(Details) /\ threw[c] \in Seq(BOOLEAN)
      /\ layers \in Seq(Layers) /\ flow[c].at \in Nat
      /\ \A i, j \in DOMAIN layers : layers[i] = layers[j] => i = j
  <2>1. n \in DOMAIN details[c] /\ n \in Nat
    BY <1>0, KnownAt
  <2> QED BY <2>1, TypedAt, DetailsAssumption
<1>2. /\ Lines(c, n) = {} /\ Lines(c, n)' = {}
      /\ details[c][n].preflight => \A j \in 1 .. flow[c].at : layers[j] # "cors"
  <2>1. Down(c, n)
    BY <1>0 DEF Bookkeeping
  <2>2. Lines(c, n)' = Lines(c, n)
    BY <1>0 DEF Lines
  <2> QED BY <2>1, <2>2 DEF Down
<1>3. /\ details'[c] = details[c] /\ layers' = layers
  BY DEF Stays
<1>4. Len(threw[c]) + 1 = n
  BY <1>0, <1>1 DEF Known, Flow
<1>5. /\ threw'[c] = Append(threw[c], FALSE) => threw'[c][n] = FALSE
      /\ threw'[c] = Append(threw[c], TRUE) => threw'[c][n] = TRUE
  <2>1. \A b \in BOOLEAN : Append(threw[c], b)[Len(threw[c]) + 1] = b
    BY <1>1
  <2> QED BY <1>4, <2>1
<1>6. CASE PassOnAt(c)
  <2>1. flow'[c].at = flow[c].at + 1 /\ flow'[c].way = "down"
    BY <1>6 DEF PassOnAt
  <2>2. details[c][n].preflight => layers[flow[c].at + 1] # "cors"
    BY <1>6 DEF PassOnAt, Below, Detail
  <2>4. Lines(c, n)' = {} /\ details'[c] = details[c] /\ layers' = layers
    BY <1>2, <1>3
  <2>5. ASSUME details[c][n].preflight, NEW j \in 1 .. flow[c].at + 1 PROVE layers[j] # "cors"
    <3>1. flow[c].at \in Nat
      BY <1>1
    <3>2. j \in 1 .. flow[c].at \/ j = flow[c].at + 1
      BY <3>1
    <3> QED BY <1>2, <2>2, <2>5, <3>2
  <2>3. Down(c, n)'
    BY <2>1, <2>4, <2>5 DEF Down
  <2> QED BY <1>3, <2>1, <2>3
<1>7. CASE PreflightAt(c)
  <2>1. /\ flow'[c].at = flow[c].at /\ flow'[c].way = "up" /\ flow'[c].res.granted
        /\ layers[flow[c].at + 1] = "cors" /\ flow[c].at + 1 \in DOMAIN layers
        /\ details[c][n].preflight /\ threw'[c][n] = FALSE
    <3>1. /\ flow'[c].at = flow[c].at /\ flow'[c].way = "up" /\ flow'[c].res.granted
          /\ layers[flow[c].at + 1] = "cors" /\ flow[c].at < Len(layers)
          /\ details[c][n].preflight /\ threw'[c] = Append(threw[c], FALSE)
      BY <1>7 DEF PreflightAt, Below, Detail
    <3>2. flow[c].at + 1 \in DOMAIN layers
      BY <1>1, <3>1
    <3> QED BY <1>5, <3>1, <3>2
  <2>2. ~LoggedBehind(c, n, flow[c].at)'
    BY <1>1, <1>3, <2>1 DEF LoggedBehind, GotBack
  <2>3. GrantedBehind(c, n, flow[c].at)'
    BY <1>1, <1>3, <2>1 DEF GrantedBehind
  <2>4. \A i \in 1 .. flow[c].at : GotBack(c, n, i)'
    BY <1>1, <1>2, <1>3, <2>1 DEF GotBack
  <2>5. Up(c, n)'
    BY <1>2, <2>1, <2>2, <2>3, <2>4 DEF Up, Accounts, LoggedBehind, GrantedBehind, GotBack
  <2> QED BY <1>3, <2>1, <2>5
<1>8. CASE EndpointAt(c)
  <2>1. flow'[c].at = flow[c].at /\ flow[c].at = Len(layers)
    BY <1>8 DEF EndpointAt
  <2>2. CASE flow'[c].way = "up" /\ flow'[c].res \in Responses /\ threw'[c] = Append(threw[c], FALSE)
    <3>1. threw'[c][n] = FALSE /\ flow'[c].res.granted = FALSE
      BY <1>5, <2>2, ResponsesAssumption DEF AnyResponse
    <3>2. ~LoggedBehind(c, n, flow[c].at)'
      BY <1>1, <1>3, <2>1 DEF LoggedBehind
    <3>3. ~GrantedBehind(c, n, flow[c].at)'
      BY <1>1, <1>3, <2>1 DEF GrantedBehind
    <3>4. \A i \in 1 .. flow[c].at : GotBack(c, n, i)'
      BY <1>1, <1>2, <1>3, <3>1 DEF GotBack
    <3>5. Up(c, n)'
      BY <1>2, <2>1, <3>1, <3>2, <3>3, <3>4 DEF Up, Accounts, LoggedBehind, GrantedBehind, GotBack
    <3> QED BY <1>3, <2>2, <3>5
  <2>3. CASE flow'[c].way = "fail" /\ threw'[c] = Append(threw[c], TRUE)
    <3>1. threw'[c][n] = TRUE
      BY <1>5, <2>3
    <3>2. details'[c][n].preflight => ~Has("cors")'
      BY <1>1, <1>2, <1>3, <2>1 DEF Has
    <3>3. Failing(c, n)'
      BY <1>1, <1>2, <1>3, <2>1, <3>1, <3>2 DEF Failing
    <3> QED BY <1>3, <2>3, <3>3
  <2> QED BY <1>8, <2>2, <2>3 DEF EndpointAt
<1> QED BY <1>6, <1>7, <1>8

\* A response that passes a layer keeps the books of that layer.
LEMMA ReturnStep ==
    ASSUME Typed, NEW c \in Conns, Known(c), Bookkeeping(c), Stays(c), ReturnAt(c),
           NEW n, n = consumed[c]
    PROVE  Up(c, n)'
<1> DEFINE p == flow[c].at
<1>1. /\ n \in Nat /\ p \in Nat /\ layers \in Seq(Layers) /\ log[c] \in Seq(Line)
      /\ \A i, j \in DOMAIN layers : layers[i] = layers[j] => i = j
      /\ flow[c].res \in AnyResponse
  BY TypedAt
<1>2. /\ InApplication(c, "up") /\ p > 0 /\ p <= Len(layers) /\ flow'[c].at = p - 1
      /\ threw'[c] = threw[c] /\ details'[c] = details[c] /\ UNCHANGED layers
      /\ flow'[c].res.status = flow[c].res.status
  BY DEF ReturnAt, Stays, Known, Flow, SameButGranted
<1>3. p \in DOMAIN layers
  BY <1>1, <1>2
<1>4. Up(c, n)
  BY <1>2 DEF Bookkeeping
<1>5. /\ \A i : GotBack(c, n, i)' <=> GotBack(c, n, i)
      /\ \A q : LoggedBehind(c, n, q)' <=> LoggedBehind(c, n, q)
      /\ \A q : GrantedBehind(c, n, q)' <=> GrantedBehind(c, n, q)
      /\ \A a : Has(a)' <=> Has(a)
  BY <1>2, BehindSame
<1>6. \A i \in 1 .. p : GotBack(c, n, i)
  BY <1>4 DEF Up
<1>7. \A i \in 1 .. p - 1 : GotBack(c, n, i)'
  BY <1>1, <1>5, <1>6
<1>8. /\ Current(c) = layers[p] /\ Detail(c) = details[c][n]
  BY DEF Current, Detail
<1>9. /\ flow'[c].res.granted <=> flow[c].res.granted \/ (layers[p] = "cors" /\ details[c][n].cross)
      /\ log'[c] = IF layers[p] = "logger"
                   THEN Append(log[c], [of |-> n, status |-> flow[c].res.status])
                   ELSE log[c]
  BY <1>8 DEF ReturnAt
<1> HIDE DEF p
<1>10. \A i \in DOMAIN layers : i > p - 1 <=> i > p \/ i = p
  BY <1>1
<1>11. GotBack(c, n, p) /\ \A i \in DOMAIN layers : i > p => i # p
  BY <1>1, <1>2, <1>6
<1>12. IF LoggedBehind(c, n, p - 1)
       THEN \E i \in DOMAIN log'[c] : Lines(c, n)' = {i} /\ log'[c][i].status = flow[c].res.status
       ELSE Lines(c, n)' = {}
  <2>1. CASE layers[p] = "logger"
    <3>1. LoggedBehind(c, n, p - 1) /\ ~LoggedBehind(c, n, p)
      BY <1>1, <1>3, <1>10, <1>11, <2>1 DEF LoggedBehind
    <3>2. Lines(c, n) = {}
      BY <1>4, <3>1 DEF Up, Accounts, p
    <3> DEFINE l == [of |-> n, status |-> flow[c].res.status]
    <3>3. l \in Line /\ l.of = n /\ l.status = flow[c].res.status
      BY <1>1 DEF Line, AnyResponse
    <3>4. log'[c] = Append(log[c], l)
      BY <1>9, <2>1
    <3> HIDE DEF l
    <3>5. /\ DOMAIN log'[c] = DOMAIN log[c] \cup {Len(log[c]) + 1}
          /\ \A i \in DOMAIN log[c] : log'[c][i] = log[c][i]
          /\ log'[c][Len(log[c]) + 1] = l
      BY <1>1, <3>3, <3>4
    <3>6. Lines(c, n)' = {Len(log[c]) + 1}
      BY <3>2, <3>3, <3>5 DEF Lines
    <3> QED BY <3>1, <3>3, <3>5, <3>6
  <2>2. CASE layers[p] # "logger"
    <3>1. LoggedBehind(c, n, p - 1) <=> LoggedBehind(c, n, p)
      BY <1>3, <1>10, <2>2 DEF LoggedBehind
    <3>2. Lines(c, n)' = Lines(c, n) /\ log'[c] = log[c]
      BY <1>9, <2>2 DEF Lines
    <3> QED BY <1>4, <3>1, <3>2 DEF Up, Accounts, p
  <2> QED BY <2>1, <2>2
<1>13. flow'[c].res.granted <=> GrantedBehind(c, n, p - 1)
  <2>0. flow[c].res.granted <=> GrantedBehind(c, n, p)
    BY <1>4 DEF Up, Accounts, p
  <2>1. CASE layers[p] = "cors"
    <3>1. GrantedBehind(c, n, p - 1) <=> details[c][n].cross
      BY <1>3, <1>10, <1>11, <2>1 DEF GrantedBehind
    <3>2. ~GrantedBehind(c, n, p)
      BY <1>1, <1>3, <1>11, <2>1 DEF GrantedBehind
    <3> QED BY <1>9, <2>0, <2>1, <3>1, <3>2
  <2>2. CASE layers[p] # "cors"
    <3>1. GrantedBehind(c, n, p - 1) <=> GrantedBehind(c, n, p)
      BY <1>3, <1>10, <2>2 DEF GrantedBehind
    <3> QED BY <1>9, <2>0, <2>2, <3>1
  <2> QED BY <2>1, <2>2
<1>14. details'[c][n].preflight /\ Has("cors")' => ~threw'[c][n]
  BY <1>2, <1>4, <1>5 DEF Up, Accounts
<1> QED
  BY <1>2, <1>5, <1>7, <1>12, <1>13, <1>14 DEF Up, Accounts

\* An exception that passes a layer, or is caught, keeps its books.
LEMMA UnwindStep ==
    ASSUME Typed, NEW c \in Conns, Known(c), Bookkeeping(c), Stays(c), UnwindAt(c),
           NEW n, n = consumed[c]
    PROVE  /\ flow'[c].way = "up" => Up(c, n)'
           /\ flow'[c].way = "fail" => Failing(c, n)'
<1> DEFINE p == flow[c].at
<1>1. p \in Nat /\ layers \in Seq(Layers)
  BY TypedAt
<1>2. /\ InApplication(c, "fail") /\ p > 0 /\ p <= Len(layers) /\ flow'[c].at = p - 1
      /\ threw'[c] = threw[c] /\ details'[c] = details[c] /\ log'[c] = log[c] /\ UNCHANGED layers
  BY DEF UnwindAt, Stays, Known, Flow
<1>3. Failing(c, n)
  BY <1>2 DEF Bookkeeping
<1>4. Current(c) = layers[p]
  BY DEF Current
<1>5. /\ threw[c][n] /\ Lines(c, n)' = {}
      /\ \A j \in DOMAIN layers : j > p => layers[j] # "recover"
      /\ details[c][n].preflight => ~Has("cors")
  BY <1>2, <1>3 DEF Failing, Lines
<1>6. CASE layers[p] = "recover"
  <2>1. flow'[c].way = "up" /\ flow'[c].res = Failure /\ Failure.granted = FALSE
    BY <1>4, <1>6, OwnResponses DEF UnwindAt
  <2> HIDE DEF p
  <2>2. \A i \in DOMAIN layers : i > p - 1 => ~GotBack(c, n, i)
    BY <1>1, <1>5 DEF GotBack
  <2>3. ~LoggedBehind(c, n, p - 1) /\ ~GrantedBehind(c, n, p - 1)
    BY <1>5, <2>2 DEF LoggedBehind, GrantedBehind, Has
  <2>4. /\ \A i : GotBack(c, n, i)' <=> GotBack(c, n, i)
        /\ \A q : LoggedBehind(c, n, q)' <=> LoggedBehind(c, n, q)
        /\ \A q : GrantedBehind(c, n, q)' <=> GrantedBehind(c, n, q)
        /\ \A a : Has(a)' <=> Has(a)
    BY <1>2, BehindSame
  <2>5. \A i \in 1 .. p - 1 : GotBack(c, n, i)
    BY <1>1, <1>2, <1>5, <1>6 DEF GotBack, Has
  <2> QED
    BY <1>2, <1>5, <2>1, <2>3, <2>4, <2>5 DEF Up, Accounts
<1>7. CASE layers[p] # "recover"
  <2>1. flow'[c].way = "fail"
    BY <1>4, <1>7 DEF UnwindAt
  <2>2. \A j \in DOMAIN layers : j > p - 1 => layers[j] # "recover"
    BY <1>1, <1>5, <1>7
  <2>3. Has("cors")' <=> Has("cors")
    BY <1>2 DEF Has
  <2> QED
    BY <1>2, <1>5, <2>1, <2>2, <2>3 DEF Failing
<1> QED
  BY <1>6, <1>7

\* A chain that has thrown through all the layers has left nothing behind.
LEMMA FailingAccounts ==
    ASSUME Typed, NEW c \in Conns, NEW n, Failing(c, n), flow[c].at = 0,
           NEW res, res.granted = FALSE
    PROVE  Accounts(c, n, 0, res)
<1>1. layers \in Seq(Layers)
  BY TypedAt
<1>2. \A i \in DOMAIN layers : ~GotBack(c, n, i)
  BY <1>1 DEF Failing, GotBack
<1>3. ~LoggedBehind(c, n, 0) /\ ~GrantedBehind(c, n, 0)
  BY <1>2 DEF LoggedBehind, GrantedBehind, Failing, Has
<1> QED
  BY <1>3 DEF Failing, Accounts

\* What a step keeps when it answers nothing.
LEMMA OldAnswers ==
    ASSUME Typed, UNCHANGED layers, NEW c \in Conns, Known(c), Bookkeeping(c),
           log'[c] = log[c] \/ \E l \in Line : log'[c] = Append(log[c], l) /\ l.of = consumed[c]
                                               /\ pc[c] = "handling",
           \A n \in DOMAIN threw[c] : threw'[c][n] = threw[c][n],
           \A n \in DOMAIN details[c] : details'[c][n] = details[c][n],
           written'[c] = written[c]
    PROVE  \A n \in Written(c)' : Accounts(c, n, 0, written[c][n])'
<1>1. Written(c)' = Written(c)
  BY DEF Written
<1> QED
  BY <1>1, WrittenStay

\* Every step keeps what is logged and granted in line with the way of the request.
LEMMA BookkeepingStep ==
    ASSUME Typed, NEW c \in Conns, Acts(c), Known(c), Bookkeeping(c), HeadsInOrder(c)
    PROVE  Bookkeeping(c)'
<1>0. /\ DOMAIN pc = Conns /\ DOMAIN requests = Conns /\ DOMAIN consumed = Conns
      /\ DOMAIN answers = Conns /\ DOMAIN details = Conns /\ DOMAIN flow = Conns
      /\ DOMAIN written = Conns /\ DOMAIN log = Conns /\ DOMAIN threw = Conns
      /\ consumed[c] \in Nat /\ details[c] \in Seq(Details)
      /\ written[c] \in Seq(AnyFrame)
      /\ log[c] \in Seq(Line) /\ threw[c] \in Seq(BOOLEAN)
      /\ flow[c] \in Item /\ flow[c].at \in Nat /\ flow[c].res \in AnyResponse
  BY TypedAt DEF Typed, ServiceTypes, Executor!TypeOK
<1>1. CASE Read(c)
  <2>1. /\ pc'[c] = "handling" /\ consumed'[c] = consumed[c] + 1
        /\ flow'[c].at = 0 /\ flow'[c].way = "down"
        /\ UNCHANGED <<layers, log, threw, details, written>>
    BY <1>0, <1>1, ReadDoes
  <2>2. Lines(c, consumed[c] + 1) = {}
    <3>1. \A i \in DOMAIN log[c] : log[c][i].of <= consumed[c]
      BY DEF Known, Flow
    <3>2. \A i \in DOMAIN log[c] : log[c][i] \in Line
      BY <1>0
    <3>3. \A i \in DOMAIN log[c] : log[c][i].of \in Nat
      BY <3>2 DEF Line
    <3> QED BY <1>0, <3>1, <3>3 DEF Lines
  <2>3. Down(c, consumed[c])'
    BY <2>1, <2>2 DEF Down, Lines
  <2>4. \A n \in Written(c)' : Accounts(c, n, 0, written[c][n])'
    BY <2>1, OldAnswers
  <2> QED BY <2>1, <2>3, <2>4 DEF Bookkeeping, InApplication
<1>2. CASE Moves(c)
  <2>1. /\ UNCHANGED <<consumed, layers, flow, log, threw, details, written>>
        /\ \/ pc'[c] = pc[c]
           \/ pc[c] # "handling" /\ pc'[c] \notin {"handling", "writing"}
    BY <1>0, <1>2, MovesDo
  <2>2. \A n \in Written(c)' : Accounts(c, n, 0, written[c][n])'
    BY <2>1, OldAnswers
  <2>3. CASE pc'[c] \notin {"handling", "writing"}
    BY <2>2, <2>3 DEF Bookkeeping, InApplication
  <2>4. CASE pc'[c] = pc[c]
    BY <2>1, <2>2, <2>4
    DEF Bookkeeping, InApplication, Up, Down, Failing, Accounts, Lines, LoggedBehind, GrantedBehind, GotBack, Has
  <2> QED BY <2>1, <2>3, <2>4
<1>3. CASE InsideStep(c)
  <2>1. /\ Stays(c)
        /\ PassOnAt(c) \/ PreflightAt(c) \/ EndpointAt(c) \/ ReturnAt(c) \/ UnwindAt(c)
    BY <1>3, InsideAt
  <2>2. /\ pc[c] = "handling" /\ pc'[c] = "handling" /\ consumed'[c] = consumed[c]
    BY <2>1 DEF Stays, PassOnAt, PreflightAt, EndpointAt, ReturnAt, UnwindAt, InApplication
  <2>3. PICK n : n = consumed[c]
    OBVIOUS
  <2>4. /\ flow'[c].way = "down" => Down(c, n)'
        /\ flow'[c].way = "up" => Up(c, n)'
        /\ flow'[c].way = "fail" => Failing(c, n)'
    <3>1. CASE PassOnAt(c) \/ PreflightAt(c) \/ EndpointAt(c)
      BY <2>1, <2>3, <3>1, DownStep
    <3>2. CASE ReturnAt(c)
      <4>1. Up(c, n)'
        BY <2>1, <2>3, <3>2, ReturnStep
      <4> QED BY <3>2, <4>1 DEF ReturnAt
    <3>3. CASE UnwindAt(c)
      <4>1. /\ flow'[c].way = "up" => Up(c, n)'
            /\ flow'[c].way = "fail" => Failing(c, n)'
        BY <2>1, <2>3, <3>3, UnwindStep
      <4> QED BY <3>3, <4>1 DEF UnwindAt
    <3> QED BY <2>1, <3>1, <3>2, <3>3
  <2>5. /\ InApplication(c, "down")' => Down(c, consumed[c])'
        /\ InApplication(c, "up")' => Up(c, consumed[c])'
        /\ InApplication(c, "fail")' => Failing(c, consumed[c])'
    BY <2>2, <2>3, <2>4 DEF InApplication, Down, Up, Failing, Accounts, Lines, LoggedBehind,
                            GrantedBehind, GotBack
  <2>6. \A m \in DOMAIN threw[c] : threw'[c][m] = threw[c][m]
    <3>1. ASSUME NEW b \in BOOLEAN, threw'[c] = Append(threw[c], b), NEW m \in DOMAIN threw[c]
          PROVE  threw'[c][m] = threw[c][m]
      <4>1. threw[c] \in Seq(BOOLEAN)
        BY <1>0
      <4> QED BY <3>1, <4>1
    <3>2. threw'[c] = threw[c] \/ \E b \in BOOLEAN : threw'[c] = Append(threw[c], b)
      BY <2>1 DEF PassOnAt, PreflightAt, EndpointAt, ReturnAt, UnwindAt
    <3> QED BY <3>1, <3>2
  <2>7. log'[c] = log[c] \/ \E l \in Line : log'[c] = Append(log[c], l) /\ l.of = consumed[c]
    <3>1. [of |-> consumed[c], status |-> flow[c].res.status] \in Line
      BY <1>0 DEF Line, AnyResponse
    <3> QED BY <2>1, <3>1 DEF PassOnAt, PreflightAt, EndpointAt, ReturnAt, UnwindAt
  <2>8. \A m \in Written(c)' : Accounts(c, m, 0, written[c][m])'
    BY <2>1, <2>2, <2>6, <2>7, OldAnswers DEF Stays
  <2> QED BY <2>2, <2>5, <2>8 DEF Bookkeeping
<1>4. CASE Respond(c)
  <2>1. /\ pc[c] = "handling" /\ flow[c].way = "up" /\ flow[c].at = 0 /\ pc'[c] = "writing"
        /\ UNCHANGED <<consumed, layers, flow, log, threw, details, written>>
    BY <1>0, <1>4, RespondDoes
  <2>2. \A n \in Written(c)' : Accounts(c, n, 0, written[c][n])'
    BY <2>1, OldAnswers
  <2>3. Up(c, consumed[c])
    BY <2>1 DEF Bookkeeping, InApplication
  <2>4. Accounts(c, consumed[c], 0, flow[c].res)'
    BY <2>1, <2>3 DEF Up, Accounts, Lines, LoggedBehind, GrantedBehind, GotBack, Has
  <2> QED BY <2>1, <2>2, <2>4 DEF Bookkeeping, InApplication
<1>5. CASE Fail(c)
  <2>1. /\ pc[c] = "handling" /\ flow[c].way = "fail" /\ flow[c].at = 0 /\ pc'[c] = "writing"
        /\ flow' = [flow EXCEPT ![c].res = Failure]
        /\ UNCHANGED <<consumed, layers, log, threw, details, written>>
    BY <1>0, <1>5, FailDoes
  <2>2. flow'[c].res = Failure
    BY <1>0, <2>1 DEF Item
  <2>3. \A n \in Written(c)' : Accounts(c, n, 0, written[c][n])'
    BY <2>1, OldAnswers
  <2>4. Failing(c, consumed[c])
    BY <2>1 DEF Bookkeeping, InApplication
  <2>5. Accounts(c, consumed[c], 0, Failure)
    BY <2>1, <2>4, OwnResponses, FailingAccounts
  <2>6. Accounts(c, consumed[c], 0, flow[c].res)'
    BY <2>1, <2>2, <2>5 DEF Accounts, Lines, LoggedBehind, GrantedBehind, GotBack, Has
  <2> QED BY <2>1, <2>3, <2>6 DEF Bookkeeping, InApplication
<1>6. CASE Write(c)
  <2> DEFINE frame == Frame(Executor!Current(c), flow[c].res)
  <2>1. /\ pc[c] = "writing" /\ pc'[c] \in {"reading", "closing"}
        /\ written' = [written EXCEPT ![c] = Append(@, frame)]
        /\ UNCHANGED <<consumed, layers, log, threw, details>>
    BY <1>0, <1>6, WriteDoes
  <2>2. frame.status = flow[c].res.status /\ frame.granted = flow[c].res.granted
    BY DEF Frame
  <2>3. frame \in AnyFrame
    BY <1>0, FrameTyped
  <2> HIDE DEF frame
  <2>4. written'[c] = Append(written[c], frame)
    BY <1>0, <2>1
  <2>5. /\ Written(c)' = Written(c) \cup {Len(written[c]) + 1}
        /\ \A n \in Written(c) : written'[c][n] = written[c][n]
        /\ written'[c][Len(written[c]) + 1] = frame
    BY <1>0, <2>3, <2>4 DEF Written
  <2>6. \A n \in Written(c) : Accounts(c, n, 0, written[c][n])'
    BY <2>1, <2>5, WrittenStay
  <2>7. PICK n : n = consumed[c]
    OBVIOUS
  <2>8. n = Len(written[c]) + 1
    BY <2>1, <2>7, KnownAt
  <2>9. Accounts(c, n, 0, flow[c].res)
    BY <2>1, <2>7 DEF Bookkeeping
  <2>10. Accounts(c, n, 0, written[c][n])'
    BY <2>1, <2>2, <2>5, <2>8, <2>9 DEF Accounts, Lines, LoggedBehind, GrantedBehind, GotBack, Has
  <2>11. \A m \in Written(c)' : Accounts(c, m, 0, written[c][m])'
    BY <2>5, <2>6, <2>8, <2>10
  <2> QED BY <2>1, <2>11 DEF Bookkeeping, InApplication
<1>7. CASE Send(c)
  <2>1. PICK d \in Details : details' = [details EXCEPT ![c] = Append(@, d)]
    BY <1>7, SendDoes
  <2>2. UNCHANGED <<pc, consumed, layers, flow, log, threw, written>>
    BY <1>7, SendDoes
  <2>3. \A n \in DOMAIN details[c] : details'[c][n] = details[c][n]
    BY <1>0, <2>1
  <2>4. \A n \in Written(c)' : Accounts(c, n, 0, written[c][n])'
    BY <2>2, <2>3, OldAnswers
  <2>5. pc[c] \in {"handling", "writing"} => details'[c][consumed[c]] = details[c][consumed[c]]
    BY <2>3, KnownAt
  <2>6. /\ InApplication(c, "down")' => Down(c, consumed[c])'
        /\ InApplication(c, "up")' => Up(c, consumed[c])'
        /\ InApplication(c, "fail")' => Failing(c, consumed[c])'
        /\ pc'[c] = "writing" => Accounts(c, consumed[c], 0, flow[c].res)'
    BY <2>2, <2>5 DEF Bookkeeping, InApplication, Up, Down, Failing, Accounts, Lines,
                      LoggedBehind, GrantedBehind, GotBack, Has
  <2> QED BY <2>4, <2>6 DEF Bookkeeping
<1>8. CASE Take(c)
  <2>1. UNCHANGED <<pc, consumed, layers, flow, log, threw, details, written>>
    BY <1>8, TakeSame
  <2> QED
    BY <2>1 DEF Bookkeeping, InApplication, Up, Down, Failing, Accounts, Lines,
                LoggedBehind, GrantedBehind, GotBack, Has, Written
<1> QED
  BY <1>1, <1>2, <1>3, <1>4, <1>5, <1>6, <1>7, <1>8, ActsSplit

-----------------------------------------------------------------------------
(* The wire. *)

\* Whether a message is misframed is settled when it is written.
LEMMA MisframedStays ==
    ASSUME Typed, NEW c \in Conns, Known(c),
           \A n \in DOMAIN details[c] : details'[c][n] = details[c][n],
           \A n \in Written(c) : written'[c][n] = written[c][n]
    PROVE  \A n \in Written(c) : Misframed(c, n)' <=> Misframed(c, n)
<1>1. \A n \in Written(c) : details'[c][n] = details[c][n]
  BY KnownAt
<1> QED BY <1>1 DEF Misframed

\* What neither writes nor takes keeps the framing.
LEMMA FramingStays ==
    ASSUME Typed, NEW c \in Conns, Known(c), Framing(c),
           \A n \in DOMAIN details[c] : details'[c][n] = details[c][n],
           written'[c] = written[c], wire'[c] = wire[c], taken'[c] = taken[c]
    PROVE  Framing(c)'
<1>1. taken[c] \in Seq(Taking) /\ written[c] \in Seq(AnyFrame) /\ Len(taken[c]) <= Len(written[c])
  BY TypedAt DEF Framing, HeadsInOrder
<1>2. \A n \in Written(c) : Misframed(c, n)' <=> Misframed(c, n)
  BY MisframedStays
<1>3. \A n \in DOMAIN taken[c] : n \in Written(c) /\ \A k \in 1 .. n - 1 : k \in Written(c)
  BY <1>1 DEF Written
<1>4. HeadsInOrder(c)' /\ \A i : Message(c, i)' <=> Message(c, i)
  BY DEF Framing, HeadsInOrder, Message
<1>5. Aligned(c)'
  BY <1>2, <1>3 DEF Framing, Aligned
<1> QED
  BY <1>2, <1>3, <1>4, <1>5 DEF Framing, Written

\* A write puts its frame behind those on the wire.
LEMMA WriteFraming ==
    ASSUME Typed, NEW c \in Conns, Known(c), Framing(c), Write(c)
    PROVE  Framing(c)'
<1> DEFINE frame == Frame(Executor!Current(c), flow[c].res)
           m     == Len(written[c]) + 1
           W     == Len(wire[c])
<1>1. /\ written[c] \in Seq(AnyFrame) /\ wire[c] \in Seq(Unit) /\ taken[c] \in Seq(Taking)
      /\ flow[c].res \in AnyResponse /\ DOMAIN written = Conns /\ DOMAIN wire = Conns
  BY TypedAt DEF Typed, ServiceTypes
<1>2. /\ frame \in AnyFrame
      /\ ~frame.stale => frame.length = frame.body
  <2>1. ~flow[c].res.stale => flow[c].res.length \in {None, flow[c].res.body}
    BY DEF Known, Flow
  <2>2. frame.stale = flow[c].res.stale
    BY DEF Frame
  <2>3. /\ frame \in AnyFrame
        /\ ~flow[c].res.stale /\ flow[c].res.length \in {None, flow[c].res.body} =>
              frame.length = frame.body
    <3>1. flow[c].res.body = frame.body
      BY DEF Frame
    <3> QED BY <1>1, <3>1, FrameTyped
  <2> QED BY <2>1, <2>2, <2>3
<1>3. /\ written'[c] = Append(written[c], frame)
      /\ wire'[c] = wire[c] \o Bytes(m, frame)
      /\ details' = details /\ taken' = taken
  BY <1>1, WriteDoes
<1>4. m \in Nat /\ W \in Nat /\ frame.body \in Nat /\ Len(written[c]) = m - 1
  BY <1>1, <1>2 DEF AnyFrame
<1>5. /\ Bytes(m, frame) \in Seq(Unit) /\ Len(Bytes(m, frame)) = frame.body + 1
      /\ \A i \in 1 .. frame.body + 1 : Bytes(m, frame)[i] = [of |-> m, head |-> i = 1]
  BY <1>2, <1>4, BytesTyped
<1> HIDE DEF frame
<1>6. /\ Len(written'[c]) = m /\ written'[c][m] = frame
      /\ \A n \in 1 .. m - 1 : written'[c][n] = written[c][n]
  <2>1. Append(written[c], frame) \in Seq(AnyFrame)
    BY <1>1, <1>2
  <2> QED BY <1>1, <1>2, <1>3
<1>7. /\ Len(wire'[c]) = W + frame.body + 1
      /\ \A i \in 1 .. W : wire'[c][i] = wire[c][i]
      /\ \A i \in 1 .. frame.body + 1 : wire'[c][W + i] = Bytes(m, frame)[i]
  <2> DEFINE b == Bytes(m, frame)
  <2> HIDE DEF b
  <2>1. wire'[c] = wire[c] \o b /\ b \in Seq(Unit) /\ Len(b) = frame.body + 1
    BY <1>3, <1>5 DEF b
  <2>2. Len(wire'[c]) = W + Len(b) /\ \A i \in 1 .. W : wire'[c][i] = wire[c][i]
    BY <1>1, <2>1
  <2>3. \A i \in 1 .. Len(b) : wire'[c][W + i] = b[i]
    BY <1>1, <2>1
  <2>4. Len(wire'[c]) = W + frame.body + 1
    BY <1>4, <2>1, <2>2
  <2>5. \A i \in 1 .. frame.body + 1 : wire'[c][W + i] = b[i]
    BY <2>1, <2>3
  <2> QED BY <2>2, <2>4, <2>5 DEF b
<1>8. /\ \A j \in 1 .. frame.body + 1 : wire'[c][W + j] = [of |-> m, head |-> j = 1]
      /\ wire'[c][W + 1] = [of |-> m, head |-> TRUE]
      /\ \A i \in W + 2 .. W + frame.body + 1 : wire'[c][i] = [of |-> m, head |-> FALSE]
  <2>1. \A j \in 1 .. frame.body + 1 : wire'[c][W + j] = [of |-> m, head |-> j = 1]
    BY <1>5, <1>7
  <2>2. 1 \in 1 .. frame.body + 1
    BY <1>4
  <2>3. ASSUME NEW i \in W + 2 .. W + frame.body + 1
        PROVE  wire'[c][i] = [of |-> m, head |-> FALSE]
    <3>1. i - W \in 1 .. frame.body + 1 /\ i = W + (i - W) /\ i - W # 1
      BY <1>4
    <3> QED BY <2>1, <3>1
  <2> QED BY <2>1, <2>2, <2>3
<1> DEFINE W2 == Len(wire'[c])
<1>9. /\ W2 = W + frame.body + 1
      /\ DOMAIN wire[c] = 1 .. W
      /\ DOMAIN wire'[c] = 1 .. W2
  <2>1. wire'[c] \in Seq(Unit)
    BY <1>1, <1>3, <1>5
  <2> QED BY <1>1, <1>7, <2>1
<1> HIDE DEF m, W, W2
\* The heads are those that were there and the new one.
<1>10. \A i \in 1 .. W2 : wire'[c][i].head =>
          \/ i \in 1 .. W /\ wire[c][i].head /\ wire'[c][i] = wire[c][i]
          \/ i = W + 1 /\ wire'[c][i].of = m
  <2> SUFFICES ASSUME NEW i \in 1 .. W2, wire'[c][i].head
               PROVE  \/ i \in 1 .. W /\ wire[c][i].head /\ wire'[c][i] = wire[c][i]
                      \/ i = W + 1 /\ wire'[c][i].of = m
    OBVIOUS
  <2>1. i \in 1 .. W \/ i = W + 1 \/ i \in W + 2 .. W + frame.body + 1
    BY <1>4, <1>9
  <2> QED BY <1>7, <1>8, <2>1
<1>11. /\ \A i \in 1 .. W : wire[c][i].head =>
             /\ wire[c][i].of \in Nat
             /\ Len(taken[c]) < wire[c][i].of /\ wire[c][i].of <= m - 1
             /\ Message(c, i)
       /\ Len(taken[c]) <= m - 1
  <2>1. \A i \in 1 .. W : wire[c][i] \in Unit
    <3>1. wire[c] \in Seq(Unit)
      BY <1>1
    <3>2. \A i \in DOMAIN wire[c] : wire[c][i] \in Unit
      BY <3>1
    <3> QED BY <1>9, <3>2
  <2> QED BY <1>4, <1>9, <2>1 DEF Framing, HeadsInOrder, Unit
<1>12. HeadsInOrder(c)'
  <2>1. \A i, j \in 1 .. W : i < j /\ wire[c][i].head /\ wire[c][j].head =>
            wire[c][i].of < wire[c][j].of
    BY <1>9 DEF Framing, HeadsInOrder
  <2>2. Len(taken[c]) \in Nat
    BY <1>1
  <2>3. ASSUME NEW i \in 1 .. W2, wire'[c][i].head
        PROVE  Len(taken[c]) < wire'[c][i].of /\ wire'[c][i].of <= m
    BY <1>4, <1>10, <1>11, <2>2, <2>3
  <2>4. ASSUME NEW i \in 1 .. W2, NEW j \in 1 .. W2, i < j, wire'[c][i].head, wire'[c][j].head
        PROVE  wire'[c][i].of < wire'[c][j].of
    <3>4. j <= W + 1
      BY <1>4, <1>10, <2>4
    <3>5. i # W + 1
      BY <1>4, <2>4, <3>4
    <3>1. i \in 1 .. W /\ wire[c][i].head /\ wire'[c][i] = wire[c][i]
      BY <1>10, <2>4, <3>5
    <3>2. CASE j = W + 1 /\ wire'[c][j].of = m
      BY <1>4, <1>11, <3>1, <3>2
    <3>3. CASE j \in 1 .. W /\ wire[c][j].head /\ wire'[c][j] = wire[c][j]
      BY <2>1, <2>4, <3>1, <3>3
    <3> QED BY <1>10, <2>4, <3>2, <3>3
  <2>5. Len(taken[c]) <= m
    BY <1>4, <1>11, <2>2
  <2> QED
    BY <1>3, <1>6, <1>9, <2>3, <2>4, <2>5 DEF HeadsInOrder
<1>13. ASSUME NEW i \in 1 .. W2, wire'[c][i].head PROVE Message(c, i)'
  <2>1. CASE i \in 1 .. W /\ wire[c][i].head /\ wire'[c][i] = wire[c][i]
    <3>1. PICK n : n = wire[c][i].of
      OBVIOUS
    <3>2. n \in Nat /\ n <= m - 1 /\ Len(taken[c]) < n /\ Message(c, i) /\ n \in 1 .. m - 1
      BY <1>1, <1>4, <1>11, <2>1, <3>1
    <3>3. PICK last : last = i + written[c][n].body
      OBVIOUS
    <3>4. written'[c][n] = written[c][n] /\ wire'[c][i].of = n
      BY <1>6, <2>1, <3>1, <3>2
    <3>5. last \in Nat
      <4>1. written[c][n] \in AnyFrame
        BY <1>1, <1>4, <3>2
      <4> QED BY <3>3, <4>1 DEF AnyFrame
    <3>6. /\ last <= W
          /\ \A j \in i + 1 .. last : wire[c][j] = [of |-> n, head |-> FALSE]
          /\ IF n = m - 1 THEN last = W
             ELSE last < W /\ wire[c][last + 1] = [of |-> n + 1, head |-> TRUE]
      BY <1>4, <3>1, <3>2, <3>3 DEF Message, W
    <3>7. last < W2 /\ wire'[c][last + 1] = [of |-> n + 1, head |-> TRUE]
      <4>1. CASE n = m - 1
        BY <1>4, <1>8, <1>9, <3>6, <4>1
      <4>2. CASE n # m - 1
        <5>1. last < W /\ wire[c][last + 1] = [of |-> n + 1, head |-> TRUE] /\ last + 1 \in 1 .. W
          BY <1>4, <3>5, <3>6, <4>2
        <5> QED BY <1>4, <1>7, <1>9, <3>5, <5>1
      <4> QED BY <4>1, <4>2
    <3>8. \A j \in i + 1 .. last : wire'[c][j] = [of |-> n, head |-> FALSE]
      <4>1. \A j \in i + 1 .. last : j \in 1 .. W
        BY <1>4, <2>1, <3>5, <3>6
      <4> QED BY <1>7, <3>6, <4>1
    <3>9. n # m
      BY <1>4, <3>2
    <3>10. last <= W2
      BY <1>4, <1>9, <3>5, <3>7
    <3> QED
      BY <1>6, <3>3, <3>4, <3>7, <3>8, <3>9, <3>10 DEF Message, W2
  <2>2. CASE i = W + 1 /\ wire'[c][i].of = m
    <3>1. /\ i + frame.body = W2
          /\ \A j \in i + 1 .. W2 : wire'[c][j] = [of |-> m, head |-> FALSE]
      <4>1. i + frame.body = W2 /\ i + 1 = W + 2
        <5>1. W \in Nat /\ frame.body \in Nat /\ W2 = W + frame.body + 1 /\ i = W + 1
          BY <1>4, <1>9, <2>2
        <5> QED BY <5>1
      <4> QED BY <1>8, <1>9, <4>1
    <3>2. W2 <= W2
      BY <1>4, <1>9
    <3> QED
      BY <1>6, <2>2, <3>1, <3>2 DEF Message, W2
  <2> QED BY <1>10, <1>13, <2>1, <2>2
<1>14. \A n \in Written(c) : Misframed(c, n)' <=> Misframed(c, n)
  BY <1>3, <1>4, <1>6, MisframedStays DEF Written
<1>15. Written(c) = 1 .. m - 1 /\ Written(c)' = 1 .. m
  BY <1>4, <1>6 DEF Written
<1>16. /\ DOMAIN taken[c] = 1 .. Len(taken[c]) /\ Len(taken[c]) \in Nat
       /\ \A n \in DOMAIN taken[c] : n \in 1 .. m - 1 /\ \A k \in 1 .. n - 1 : k \in 1 .. m - 1
  BY <1>1, <1>4, <1>11
<1>17. Aligned(c)'
  <2> SUFFICES ASSUME \A n \in DOMAIN taken[c] : ~Misframed(c, n)
               PROVE  /\ Len(taken[c]) # m
                      /\ wire'[c] # << >>
                      /\ wire'[c][1] = [of |-> Len(taken[c]) + 1, head |-> TRUE]
    BY <1>3, <1>6, <1>14, <1>15, <1>16 DEF Aligned
  <2>1. Len(taken[c]) # m /\ wire'[c] # << >>
    BY <1>4, <1>9, <1>11, <1>16 DEF W2
  <2>2. IF Len(taken[c]) = m - 1 THEN wire[c] = << >>
        ELSE wire[c] # << >> /\ wire[c][1] = [of |-> Len(taken[c]) + 1, head |-> TRUE]
    BY <1>4 DEF Framing, Aligned
  <2>3. CASE Len(taken[c]) = m - 1
    <3>1. W = 0
      BY <2>2, <2>3 DEF W
    <3>2. W + 1 = 1 /\ m = Len(taken[c]) + 1
      BY <1>4, <1>16, <2>3, <3>1
    <3> QED BY <1>8, <2>1, <3>2
  <2>4. CASE Len(taken[c]) # m - 1
    <3>1. 1 \in 1 .. W
      <4>1. wire[c] \in Seq(Unit) /\ wire[c] # << >>
        BY <1>1, <2>2, <2>4
      <4> QED BY <4>1 DEF W
    <3> QED BY <1>7, <2>1, <2>2, <2>4, <3>1
  <2> QED BY <2>3, <2>4
<1>18. \A n \in Written(c)' : ~written'[c][n].stale => written'[c][n].length = written'[c][n].body
  <2>1. \A n \in 1 .. m : n \in 1 .. m - 1 \/ n = m
    BY <1>4
  <2> QED BY <1>2, <1>6, <1>15, <2>1 DEF Framing
<1>19. \A k \in DOMAIN taken[c] :
          (\A n \in 1 .. k - 1 : ~Misframed(c, n)') =>
              /\ taken[c][k].of = k
              /\ ~Misframed(c, k)' => taken[c][k].whole
  BY <1>14, <1>15, <1>16 DEF Framing
<1> QED
  BY <1>3, <1>9, <1>12, <1>13, <1>17, <1>18, <1>19 DEF Framing, W2

\* The rest of a sequence.
LEMMA SuffixIs ==
    ASSUME NEW S, NEW s \in Seq(S), NEW k \in Nat, k < Len(s)
    PROVE  /\ SubSeq(s, k + 2, Len(s)) \in Seq(S)
           /\ Len(SubSeq(s, k + 2, Len(s))) = Len(s) - k - 1
           /\ Len(s) - k - 1 \in Nat
           /\ \A i \in 1 .. Len(s) - k - 1 : SubSeq(s, k + 2, Len(s))[i] = s[i + k + 1]
<1>1. Len(s) - k - 1 \in Nat /\ Len(s) \in Nat
  OBVIOUS
<1>2. SubSeq(s, k + 2, Len(s)) = [i \in 1 .. (Len(s) - k - 1) |-> s[i + k + 1]]
  BY <1>1
<1>3. \A i \in 1 .. Len(s) - k - 1 : i + k + 1 \in DOMAIN s
  OBVIOUS
<1>4. \A i \in 1 .. Len(s) - k - 1 : s[i + k + 1] \in S
  BY <1>3
<1> DEFINE f == [i \in 1 .. (Len(s) - k - 1) |-> s[i + k + 1]]
<1>5. f \in [1 .. (Len(s) - k - 1) -> S]
  BY <1>4
<1>6. \A i \in 1 .. Len(s) - k - 1 : f[i] = s[i + k + 1]
  OBVIOUS
<1> HIDE DEF f
<1>7. f \in Seq(S) /\ Len(f) = Len(s) - k - 1
  BY <1>1, <1>5, FunctionIsSeq
<1> QED
  BY <1>1, <1>2, <1>6, <1>7 DEF f

\* Taking a response moves the client past its bytes, or out of step.
LEMMA TakeFraming ==
    ASSUME Typed, NEW c \in Conns, Known(c), Framing(c), Take(c)
    PROVE  Framing(c)'
<1>0. PICK n \in Written(c), size \in Nat, whole \in BOOLEAN : Takes(c, n, size, whole)
  BY TakeDoes DEF Known, Framing
<1> DEFINE k == Len(taken[c]) + 1
           W == Len(wire[c])
           N == Len(written[c])
<1>1. /\ written[c] \in Seq(AnyFrame) /\ wire[c] \in Seq(Unit) /\ taken[c] \in Seq(Taking)
      /\ DOMAIN taken = Conns /\ DOMAIN wire = Conns
  BY TypedAt DEF Typed, ServiceTypes
<1>2. /\ wire[c] # << >> /\ wire[c][1].head /\ wire[c][1].of = n
      /\ size = Expected(details[c][k], written[c][n])
      /\ whole <=> /\ size = written[c][n].body
                   /\ \A i \in 2 .. size + 1 : wire[c][i] = [of |-> n, head |-> FALSE]
      /\ W > size
      /\ taken' = [taken EXCEPT ![c] = Append(@, [of |-> n, whole |-> whole])]
      /\ wire' = [wire EXCEPT ![c] = SubSeq(@, size + 2, W)]
  BY <1>0 DEF Takes
<1>3. details' = details /\ written' = written
  BY TakeSame
<1>4. k \in Nat /\ W \in Nat /\ N \in Nat /\ n \in 1 .. N /\ Len(taken[c]) = k - 1 /\ k >= 1
  BY <1>1 DEF Written
<1>5. /\ DOMAIN taken'[c] = 1 .. k /\ Len(taken'[c]) = k
      /\ DOMAIN taken[c] = 1 .. k - 1
      /\ \A i \in 1 .. k - 1 : taken'[c][i] = taken[c][i]
      /\ taken'[c][k].of = n /\ taken'[c][k].whole = whole
  <2> DEFINE t == [of |-> n, whole |-> whole]
  <2>1. t \in Taking /\ t.of = n /\ t.whole = whole
    BY <1>4 DEF Taking
  <2>2. taken'[c] = Append(taken[c], t)
    BY <1>1, <1>2
  <2> HIDE DEF t
  <2>3. /\ DOMAIN taken'[c] = 1 .. k /\ Len(taken'[c]) = k
        /\ DOMAIN taken[c] = 1 .. k - 1
        /\ \A i \in 1 .. k - 1 : taken'[c][i] = taken[c][i]
        /\ taken'[c][k] = t
    BY <1>1, <2>1, <2>2
  <2> QED BY <2>1, <2>3
<1>6. /\ DOMAIN wire[c] = 1 .. W /\ DOMAIN wire'[c] = 1 .. W - size - 1
      /\ Len(wire'[c]) = W - size - 1 /\ W - size - 1 \in Nat
      /\ \A i \in 1 .. W - size - 1 : wire'[c][i] = wire[c][i + size + 1]
  <2> DEFINE w == wire[c]
  <2>1. w \in Seq(Unit) /\ size < Len(w) /\ DOMAIN w = 1 .. Len(w)
    BY <1>1, <1>2, <1>4
  <2>2. wire'[c] = SubSeq(w, size + 2, Len(w))
    BY <1>1, <1>2
  <2> HIDE DEF w
  <2> DEFINE suffix == SubSeq(w, size + 2, Len(w))
  <2>5. /\ suffix \in Seq(Unit) /\ Len(suffix) = Len(w) - size - 1
        /\ Len(w) - size - 1 \in Nat
        /\ \A i \in 1 .. Len(w) - size - 1 : suffix[i] = w[i + size + 1]
    BY <2>1, SuffixIs
  <2> HIDE DEF suffix
  <2>6. wire'[c] = suffix
    BY <2>2 DEF suffix
  <2>3. /\ wire'[c] \in Seq(Unit) /\ Len(wire'[c]) = Len(w) - size - 1
        /\ Len(w) - size - 1 \in Nat
        /\ \A i \in 1 .. Len(w) - size - 1 : wire'[c][i] = w[i + size + 1]
    BY <2>5, <2>6
  <2>4. DOMAIN wire'[c] = 1 .. Len(w) - size - 1
    BY <2>3
  <2> QED BY <2>1, <2>3, <2>4 DEF w
<1> DEFINE W2 == W - size - 1
<1>7. /\ W2 \in Nat /\ W2 + size + 1 = W /\ \A i \in 1 .. W2 : i + size + 1 \in 2 .. W /\ i + size + 1 \in 1 .. W
      /\ 1 \in 1 .. W
  <2> HIDE DEF W
  <2>1. W \in Nat /\ W > size /\ W - size - 1 \in Nat
    BY <1>2, <1>4, <1>6
  <2>2. \A i \in 1 .. W2 : i + size + 1 \in 2 .. W /\ i + size + 1 \in 1 .. W
    BY <2>1
  <2> QED BY <2>1, <2>2
<1>8. /\ Len(taken'[c]) = k /\ Len(written'[c]) = N /\ Len(wire'[c]) = W2
      /\ DOMAIN wire'[c] = 1 .. W2
  BY <1>3, <1>5, <1>6
<1>9. \A i \in 1 .. W : wire[c][i].of \in Nat
  <2>1. \A i \in DOMAIN wire[c] : wire[c][i] \in Unit
    BY <1>1
  <2> QED BY <1>6, <2>1 DEF Unit
<1>10. /\ \A i, j \in 1 .. W : i < j /\ wire[c][i].head /\ wire[c][j].head => wire[c][i].of < wire[c][j].of
       /\ \A i \in 1 .. W : wire[c][i].head => k - 1 < wire[c][i].of /\ wire[c][i].of <= N
       /\ \A i \in 1 .. W : wire[c][i].head => Message(c, i)
  BY <1>4, <1>6 DEF Framing, HeadsInOrder
<1>11. \A i \in 1 .. W2 : wire'[c][i] = wire[c][i + size + 1]
  BY <1>6
<1> HIDE DEF W2
<1>12. HeadsInOrder(c)'
  <2>1. k <= n /\ k <= N
    <3>1. k - 1 < n /\ n <= N
      BY <1>2, <1>7, <1>10
    <3> QED BY <1>4, <3>1
  <2>2. ASSUME NEW i \in 1 .. W2, wire'[c][i].head
        PROVE  k < wire'[c][i].of /\ wire'[c][i].of <= N
    <3>1. /\ i + size + 1 \in 1 .. W /\ 1 < i + size + 1
          /\ wire'[c][i] = wire[c][i + size + 1]
      BY <1>7, <1>11
    <3>2. n < wire[c][i + size + 1].of /\ wire[c][i + size + 1].of <= N
      BY <1>2, <1>7, <1>10, <2>2, <3>1
    <3> QED BY <1>4, <1>9, <2>1, <3>1, <3>2
  <2>3. ASSUME NEW i \in 1 .. W2, NEW j \in 1 .. W2, i < j, wire'[c][i].head, wire'[c][j].head
        PROVE  wire'[c][i].of < wire'[c][j].of
    <3>1. /\ i + size + 1 \in 1 .. W /\ j + size + 1 \in 1 .. W
          /\ wire'[c][i] = wire[c][i + size + 1] /\ wire'[c][j] = wire[c][j + size + 1]
      BY <1>7, <1>11
    <3>2. i + size + 1 < j + size + 1
      BY <2>3
    <3> QED BY <1>10, <2>3, <3>1, <3>2
  <2> QED
    BY <1>8, <2>1, <2>2, <2>3 DEF HeadsInOrder
<1>13. ASSUME NEW i \in 1 .. W2, wire'[c][i].head PROVE Message(c, i)'
  <2> DEFINE d == size + 1
  <2>1. i + d \in 1 .. W /\ wire'[c][i] = wire[c][i + d] /\ d \in Nat /\ W2 + d = W
    BY <1>7, <1>11
  <2>2. PICK m : m = wire[c][i + d].of
    OBVIOUS
  <2>3. m \in Nat /\ m \in 1 .. N /\ Message(c, i + d)
    BY <1>4, <1>9, <1>10, <1>13, <2>1, <2>2
  <2>4. PICK body : body = written[c][m].body
    OBVIOUS
  <2>5. body \in Nat
    <3>1. written[c][m] \in AnyFrame
      BY <1>1, <2>3
    <3> QED BY <2>4, <3>1 DEF AnyFrame
  <2> HIDE DEF d
  <2>6. /\ (i + d) + body <= W
        /\ \A j \in (i + d) + 1 .. (i + d) + body : wire[c][j] = [of |-> m, head |-> FALSE]
        /\ IF m = N THEN (i + d) + body = W
           ELSE (i + d) + body < W /\ wire[c][(i + d) + body + 1] = [of |-> m + 1, head |-> TRUE]
    BY <2>2, <2>3, <2>4 DEF Message
  <2>7. i + body <= W2
    BY <1>7, <2>1, <2>5, <2>6
  <2>8. ASSUME NEW j \in i + 1 .. i + body PROVE wire'[c][j] = [of |-> m, head |-> FALSE]
    <3>1. j \in 1 .. W2 /\ j + d \in (i + d) + 1 .. (i + d) + body
      <4>1. W2 \in Nat /\ d \in Nat /\ body \in Nat /\ i + body <= W2 /\ i \in Nat /\ i >= 1
        BY <1>7, <2>1, <2>5, <2>7
      <4> QED BY <4>1
    <3>2. wire'[c][j] = wire[c][j + d]
      BY <1>4, <1>11, <2>1, <3>1 DEF d
    <3> QED BY <2>6, <3>1, <3>2
  <2>9. IF m = N THEN i + body = W2
        ELSE i + body < W2 /\ wire'[c][i + body + 1] = [of |-> m + 1, head |-> TRUE]
    <3>1. CASE m = N
      BY <1>7, <2>1, <2>5, <2>6, <3>1
    <3>2. CASE m # N
      <4>1. (i + d) + body < W /\ wire[c][(i + d) + body + 1] = [of |-> m + 1, head |-> TRUE]
        BY <2>6, <3>2
      <4>2. i + body < W2 /\ i + body + 1 \in 1 .. W2 /\ (i + body + 1) + d = (i + d) + body + 1
        <5> HIDE DEF W
        <5>1. /\ W \in Nat /\ W2 \in Nat /\ W2 + d = W /\ d \in Nat /\ i \in Nat /\ body \in Nat
              /\ i >= 1
          BY <1>4, <1>7, <2>1, <2>5
        <5>2. i + body < W2
          BY <4>1, <5>1
        <5> QED BY <5>1, <5>2
      <4>3. wire'[c][i + body + 1] = wire[c][(i + body + 1) + d]
        <5>1. PICK q \in 1 .. W2 : q = i + body + 1
          BY <4>2
        <5>2. wire'[c][q] = wire[c][q + size + 1] /\ q + size + 1 = q + d
          BY <1>11 DEF d
        <5> QED BY <5>1, <5>2
      <4> QED BY <3>2, <4>1, <4>2, <4>3
    <3> QED BY <3>1, <3>2
  <2> QED
    BY <1>3, <1>8, <2>1, <2>2, <2>4, <2>7, <2>8, <2>9 DEF Message
<1>14. \A m : Misframed(c, m)' <=> Misframed(c, m)
  BY <1>3 DEF Misframed
<1>15. ASSUME \A m \in 1 .. k - 1 : ~Misframed(c, m)
       PROVE  n = k /\ Message(c, 1)
  <2>1. wire[c][1] = [of |-> k, head |-> TRUE]
    BY <1>2, <1>5, <1>15 DEF Framing, Aligned
  <2>2. n = k
    BY <1>2, <2>1
  <2>3. Message(c, 1)
    BY <1>2, <1>7, <1>10
  <2> QED BY <2>2, <2>3
<1>16. ASSUME \A m \in 1 .. k - 1 : ~Misframed(c, m), ~Misframed(c, k)
       PROVE  n = k /\ Message(c, 1) /\ size = written[c][k].body
  <2>1. n = k /\ Message(c, 1)
    BY <1>15, <1>16
  <2>2. /\ ~written[c][k].stale
        /\ ~(written[c][k].body > 0 /\ Bodiless(details[c][k], written[c][k].status))
    BY <1>16 DEF Misframed
  <2>3. written[c][k].length = written[c][k].body
    BY <1>4, <2>1, <2>2 DEF Framing, Written
  <2>4. written[c][k] \in AnyFrame
    BY <1>1, <1>4, <2>1
  <2>5. written[c][k].body \in Nat
    BY <2>4 DEF AnyFrame
  <2> QED
    BY <1>2, <2>1, <2>2, <2>3, <2>5 DEF Expected
<1>17. Aligned(c)'
  <2> SUFFICES ASSUME \A m \in 1 .. k : ~Misframed(c, m)
               PROVE  IF k = N THEN wire'[c] = << >>
                      ELSE wire'[c] # << >> /\ wire'[c][1] = [of |-> k + 1, head |-> TRUE]
    BY <1>5, <1>8, <1>14 DEF Aligned
  <2>1. n = k /\ Message(c, 1) /\ size = written[c][k].body
    BY <1>4, <1>16
  <2>2. IF k = N THEN 1 + size = W
        ELSE 1 + size < W /\ wire[c][1 + size + 1] = [of |-> k + 1, head |-> TRUE]
    BY <1>2, <2>1 DEF Message
  <2>3. wire'[c] \in Seq(Unit)
    BY <1>1, <1>2
  <2>4. CASE k = N
    BY <1>7, <1>8, <2>2, <2>3, <2>4
  <2>5. CASE k # N
    <3>1. 1 \in 1 .. W2 /\ 1 + size + 1 = size + 2
      BY <1>4, <1>7, <2>2, <2>5
    <3>2. wire'[c][1] = wire[c][1 + size + 1] /\ wire'[c] # << >>
      BY <1>8, <1>11, <3>1
    <3> QED BY <2>2, <2>5, <3>2
  <2> QED BY <2>4, <2>5
<1>18. ASSUME NEW j \in 1 .. k, \A m \in 1 .. j - 1 : ~Misframed(c, m)
       PROVE  /\ taken'[c][j].of = j
              /\ ~Misframed(c, j) => taken'[c][j].whole
  <2>1. CASE j \in 1 .. k - 1
    BY <1>5, <1>18, <2>1 DEF Framing
  <2>2. CASE j = k
    <3>1. n = k /\ Message(c, 1)
      BY <1>15, <1>18, <2>2
    <3>2. ASSUME ~Misframed(c, k) PROVE whole
      <4>1. size = written[c][k].body
        BY <1>16, <1>18, <2>2, <3>2
      <4>2. \A i \in 1 + 1 .. 1 + size : wire[c][i] = [of |-> k, head |-> FALSE]
        BY <1>2, <3>1, <4>1 DEF Message
      <4>3. 1 + 1 .. 1 + size = 2 .. size + 1
        OBVIOUS
      <4> QED BY <1>2, <3>1, <4>1, <4>2, <4>3
    <3> QED BY <1>5, <2>2, <3>1, <3>2
  <2> QED BY <1>4, <2>1, <2>2
<1>19. \A m \in Written(c)' : ~written'[c][m].stale => written'[c][m].length = written'[c][m].body
  BY <1>3 DEF Framing, Written
<1> QED
  BY <1>5, <1>8, <1>12, <1>13, <1>14, <1>17, <1>18, <1>19 DEF Framing

\* Every step keeps what the client has read and what is on the wire in line.
LEMMA FramingStep ==
    ASSUME Typed, NEW c \in Conns, Acts(c), Known(c), Framing(c)
    PROVE  Framing(c)'
<1>0. details[c] \in Seq(Details) /\ DOMAIN details = Conns /\ HeadsInOrder(c)
  BY TypedAt DEF Typed, ServiceTypes, Framing
<1>1. CASE Write(c)
  BY <1>1, WriteFraming
<1>2. CASE Take(c)
  BY <1>2, TakeFraming
<1>3. CASE Read(c)
  BY <1>3, ReadDoes, FramingStays
<1>4. CASE Moves(c)
  BY <1>4, MovesDo, FramingStays
<1>5. CASE InsideStep(c)
  BY <1>5, InsideSame, FramingStays
<1>6. CASE Respond(c)
  BY <1>6, RespondDoes, FramingStays
<1>7. CASE Fail(c)
  BY <1>7, FailDoes, FramingStays
<1>8. CASE Send(c)
  <2>1. PICK d \in Details : details' = [details EXCEPT ![c] = Append(@, d)]
    BY <1>8, SendDoes
  <2>2. \A n \in DOMAIN details[c] : details'[c][n] = details[c][n]
    BY <1>0, <2>1
  <2> QED BY <1>8, <2>2, SendDoes, FramingStays
<1> QED
  BY <1>1, <1>2, <1>3, <1>4, <1>5, <1>6, <1>7, <1>8, ActsSplit

-----------------------------------------------------------------------------
(* What the client is promised. *)

\* A frame keeps the connection alive as the executor's answer does.
LEMMA FrameKeepAlive ==
    ASSUME NEW r, NEW res
    PROVE  /\ Frame(r, res).keepAlive = Executor!ToBeastResponse(r, 200, res.connection).keepAlive
           /\ Frame(r, res).status = res.status
BY DEF Frame

\* A response that is framed is one that the request may get.
LEMMA ServedIfMade ==
    ASSUME NEW r, NEW res, Made(res)
    PROVE  [status |-> res.status, keepAlive |-> Frame(r, res).keepAlive] \in Served(r)
<1>1. PICK made \in Responses \cup {Failure, Response(200)} :
          res.status = made.status /\ res.connection = made.connection
  BY DEF Made
<1>2. Frame(r, res).keepAlive = Frame(r, made).keepAlive
  BY <1>1, FrameKeepAlive
<1> QED BY <1>1, <1>2 DEF Served

\* The request a session is about was sent before.
LEMMA RequestSent ==
    ASSUME Typed, NEW c \in Conns, Known(c)
    PROVE  /\ pc[c] \in {"handling", "writing"} => consumed[c] \in DOMAIN requests[c]
           /\ \A n \in Written(c) : n \in DOMAIN requests[c]
<1>1. details[c] \in Seq(Details) /\ requests[c] \in Seq(Requests)
  BY TypedAt
<1>2. Len(details[c]) = Len(requests[c])
  BY DEF Known, Flow
<1>3. DOMAIN details[c] = DOMAIN requests[c]
  BY <1>1, <1>2
<1> QED BY <1>3, KnownAt

\* What writes nothing keeps what is promised.
LEMMA PromisedStays ==
    ASSUME Typed, NEW c \in Conns, Known(c), Promised(c),
           \A n \in DOMAIN requests[c] : requests'[c][n] = requests[c][n],
           written'[c] = written[c], answers'[c] = answers[c]
    PROVE  \A n \in Written(c)' :
              /\ written'[c][n].keepAlive = answers'[c][n].keepAlive
              /\ [status |-> written'[c][n].status, keepAlive |-> written'[c][n].keepAlive]
                    \in Served(requests'[c][n])
BY RequestSent DEF Promised, Written

\* Every step keeps what is written among what the request may get.
LEMMA PromisedStep ==
    ASSUME Typed, NEW c \in Conns, Acts(c), Known(c), Promised(c), HeadsInOrder(c)
    PROVE  Promised(c)'
<1>0. /\ DOMAIN pc = Conns /\ DOMAIN requests = Conns /\ DOMAIN consumed = Conns
      /\ DOMAIN answers = Conns /\ DOMAIN flow = Conns /\ DOMAIN response = Conns
      /\ DOMAIN written = Conns
      /\ consumed[c] \in Nat /\ requests[c] \in Seq(Requests)
      /\ written[c] \in Seq(AnyFrame) /\ answers[c] \in Seq(Executor!Answers)
      /\ flow[c] \in Item /\ flow[c].res \in AnyResponse /\ response[c] \in Executor!Answers
  BY TypedAt DEF Typed, ServiceTypes, Executor!TypeOK
<1>1. CASE Read(c)
  <2>1. /\ pc'[c] = "handling" /\ flow'[c].way = "down"
        /\ UNCHANGED <<requests, answers, written>>
    BY <1>0, <1>1, ReadDoes
  <2> QED BY <2>1, PromisedStays DEF Promised, InApplication
<1>2. CASE Moves(c)
  <2>1. /\ UNCHANGED <<requests, consumed, response, answers, flow, written>>
        /\ \/ pc'[c] = pc[c]
           \/ pc[c] # "handling" /\ pc'[c] \notin {"handling", "writing"}
    BY <1>0, <1>2, MovesDo
  <2> QED BY <2>1, PromisedStays DEF Promised, InApplication, Executor!Current, Made
<1>3. CASE InsideStep(c)
  <2>1. /\ Stays(c)
        /\ PassOnAt(c) \/ PreflightAt(c) \/ EndpointAt(c) \/ ReturnAt(c) \/ UnwindAt(c)
    BY <1>3, InsideAt
  <2>2. /\ pc'[c] = "handling" /\ requests'[c] = requests[c] /\ written'[c] = written[c]
        /\ answers'[c] = answers[c]
    BY <2>1 DEF Stays, PassOnAt, PreflightAt, EndpointAt, ReturnAt, UnwindAt, InApplication
  <2>3. flow'[c].way = "up" => Made(flow[c].res)'
    <3>1. CASE PassOnAt(c)
      BY <3>1 DEF PassOnAt
    <3>2. CASE PreflightAt(c)
      BY <3>2 DEF PreflightAt, SameButGranted, Made
    <3>3. CASE EndpointAt(c)
      BY <3>3 DEF EndpointAt, Made
    <3>4. CASE ReturnAt(c)
      <4>1. Made(flow[c].res)
        BY <3>4 DEF ReturnAt, Promised
      <4> QED BY <3>4, <4>1 DEF ReturnAt, SameButGranted, Made
    <3>5. CASE UnwindAt(c)
      BY <3>5 DEF UnwindAt, Made
    <3> QED BY <2>1, <3>1, <3>2, <3>3, <3>4, <3>5
  <2> QED BY <2>2, <2>3, PromisedStays DEF Promised, InApplication
<1>4. CASE Respond(c)
  <2>1. /\ pc[c] = "handling" /\ flow[c].way = "up" /\ pc'[c] = "writing"
        /\ response'[c].keepAlive = Frame(Executor!Current(c), flow[c].res).keepAlive
        /\ UNCHANGED <<requests, consumed, answers, flow, written>>
    BY <1>0, <1>4, RespondDoes
  <2>2. Made(flow[c].res)
    BY <2>1 DEF Promised, InApplication
  <2>3. /\ Made(flow[c].res)'
        /\ response'[c].keepAlive = Frame(Executor!Current(c), flow[c].res)'.keepAlive
    <3>1. Made(flow[c].res)'
      BY <2>1, <2>2 DEF Made
    <3>2. Executor!Current(c)' = Executor!Current(c)
      BY <2>1 DEF Executor!Current
    <3>3. Frame(Executor!Current(c), flow[c].res)'.keepAlive = Frame(Executor!Current(c), flow[c].res).keepAlive
      BY <2>1, <3>2 DEF Frame
    <3> QED BY <2>1, <3>1, <3>3
  <2> QED BY <2>1, <2>3, PromisedStays DEF Promised, InApplication
<1>5. CASE Fail(c)
  <2>1. /\ pc'[c] = "writing"
        /\ response' = [response EXCEPT ![c] = Executor!Failure(Executor!Current(c))]
        /\ flow' = [flow EXCEPT ![c].res = Failure]
        /\ UNCHANGED <<requests, consumed, answers, written>>
    BY <1>0, <1>5, FailDoes
  <2>2. flow'[c].res = Failure
    BY <1>0, <2>1 DEF Item
  <2>3. Made(flow[c].res)'
    BY <2>2 DEF Made
  <2>4. response'[c].keepAlive = Frame(Executor!Current(c), flow[c].res)'.keepAlive
    <3>1. Executor!Current(c)' = Executor!Current(c)
      BY <2>1 DEF Executor!Current
    <3>2. response'[c] = Executor!ToBeastResponse(Executor!Current(c), 500, "none")
      BY <1>0, <2>1 DEF Executor!Failure
    <3>3. Frame(Executor!Current(c), flow[c].res)'.keepAlive =
              Executor!ToBeastResponse(Executor!Current(c), 200, "none").keepAlive
      BY <2>2, <3>1, OwnResponses DEF Frame
    <3> QED BY <3>2, <3>3 DEF Executor!ToBeastResponse
  <2> QED BY <2>1, <2>3, <2>4, PromisedStays DEF Promised, InApplication
<1>6. CASE Write(c)
  <2> DEFINE r     == Executor!Current(c)
             frame == Frame(r, flow[c].res)
             m     == Len(written[c]) + 1
  <2>1. /\ pc[c] = "writing" /\ pc'[c] \in {"reading", "closing"}
        /\ answers' = [answers EXCEPT ![c] = Append(@, response[c])]
        /\ written' = [written EXCEPT ![c] = Append(@, frame)]
        /\ UNCHANGED <<requests, consumed>>
    BY <1>0, <1>6, WriteDoes
  <2>2. frame \in AnyFrame
    BY <1>0, FrameTyped
  <2>3. Made(flow[c].res) /\ response[c].keepAlive = frame.keepAlive
    BY <2>1 DEF Promised
  <2>4. [status |-> frame.status, keepAlive |-> frame.keepAlive] \in Served(r)
    BY <2>3, ServedIfMade, FrameKeepAlive
  <2>5. r = requests[c][m]
    BY <2>1, KnownAt DEF Executor!Current
  <2>6. written'[c] = Append(written[c], frame) /\ answers'[c] = Append(answers[c], response[c])
    BY <1>0, <2>1
  <2>7. Len(answers[c]) = Len(written[c])
    BY DEF Known, Flow
  <2> HIDE DEF frame, r
  <2>8. /\ Written(c)' = Written(c) \cup {m}
        /\ \A n \in Written(c) : written'[c][n] = written[c][n]
        /\ written'[c][m] = frame
    BY <1>0, <2>2, <2>6 DEF Written
  <2>9. /\ \A n \in Written(c) : answers'[c][n] = answers[c][n]
        /\ answers'[c][m] = response[c]
    BY <1>0, <2>6, <2>7 DEF Written
  <2>10. \A n \in Written(c)' :
            /\ written'[c][n].keepAlive = answers'[c][n].keepAlive
            /\ [status |-> written'[c][n].status, keepAlive |-> written'[c][n].keepAlive]
                  \in Served(requests'[c][n])
    <3> HIDE DEF m
    <3>1. requests'[c] = requests[c]
      BY <2>1
    <3>2. \A n \in Written(c) :
            /\ written'[c][n].keepAlive = answers'[c][n].keepAlive
            /\ [status |-> written'[c][n].status, keepAlive |-> written'[c][n].keepAlive]
                  \in Served(requests'[c][n])
      BY <2>8, <2>9, <3>1 DEF Promised
    <3>3. /\ written'[c][m].keepAlive = answers'[c][m].keepAlive
          /\ [status |-> written'[c][m].status, keepAlive |-> written'[c][m].keepAlive]
                \in Served(requests'[c][m])
      BY <2>3, <2>4, <2>5, <2>8, <2>9, <3>1
    <3> QED BY <2>8, <3>2, <3>3
  <2> QED BY <2>1, <2>10 DEF Promised, InApplication
<1>7. CASE Send(c)
  <2>1. PICK r \in Requests : requests' = [requests EXCEPT ![c] = Append(@, r)]
    BY <1>7, SendDoes
  <2>2. UNCHANGED <<pc, consumed, response, answers, flow, written>>
    BY <1>7, SendDoes
  <2>3. \A n \in DOMAIN requests[c] : requests'[c][n] = requests[c][n]
    BY <1>0, <2>1
  <2>4. pc[c] = "writing" => Executor!Current(c)' = Executor!Current(c)
    BY <2>2, <2>3, RequestSent DEF Executor!Current
  <2>5. pc[c] = "writing" => Frame(Executor!Current(c), flow[c].res)' = Frame(Executor!Current(c), flow[c].res)
    BY <2>2, <2>4 DEF Frame
  <2> QED BY <2>2, <2>3, <2>5, PromisedStays DEF Promised, InApplication, Made
<1>8. CASE Take(c)
  <2>1. UNCHANGED <<pc, requests, consumed, response, answers, flow, written>>
    BY <1>8, TakeSame
  <2> QED BY <2>1, PromisedStays DEF Promised, InApplication, Executor!Current, Made
<1> QED
  BY <1>1, <1>2, <1>3, <1>4, <1>5, <1>6, <1>7, <1>8, ActsSplit

-----------------------------------------------------------------------------
(* The invariant holds. *)

\* Nothing about a connection changes by what others do.
LEMMA ConnInvStays ==
    ASSUME NEW c, ConnInv(c), layers' = layers, SameAt(c)
    PROVE  ConnInv(c)'
<1>1. Flow(c)'
  BY DEF ConnInv, SameAt, Flow, InApplication
<1>2. Bookkeeping(c)'
  <2>1. /\ \A n : Lines(c, n)' = Lines(c, n)
        /\ \A n, i : GotBack(c, n, i)' <=> GotBack(c, n, i)
        /\ \A w : InApplication(c, w)' <=> InApplication(c, w)
        /\ \A a : Has(a)' <=> Has(a)
        /\ Written(c)' = Written(c)
    BY DEF SameAt, Lines, GotBack, InApplication, Has, Written
  <2>2. /\ \A n, p : LoggedBehind(c, n, p)' <=> LoggedBehind(c, n, p)
        /\ \A n, p : GrantedBehind(c, n, p)' <=> GrantedBehind(c, n, p)
    BY <2>1 DEF SameAt, LoggedBehind, GrantedBehind
  <2>3. InApplication(c, "down") => Down(c, consumed[c])'
    BY <2>1 DEF ConnInv, Bookkeeping, SameAt, Down, Lines
  <2>4. InApplication(c, "fail") => Failing(c, consumed[c])'
    BY <2>1 DEF ConnInv, Bookkeeping, SameAt, Failing, Lines, Has
  <2>5. InApplication(c, "up") => Up(c, consumed[c])'
    BY DEF ConnInv, Bookkeeping, SameAt, Up, Accounts, Lines, LoggedBehind, GrantedBehind, GotBack, Has
  <2>6. pc[c] = "writing" => Accounts(c, consumed[c], 0, flow[c].res)'
    BY DEF ConnInv, Bookkeeping, SameAt, Accounts, Lines, LoggedBehind, GrantedBehind, GotBack, Has
  <2>7. \A n \in Written(c) : Accounts(c, n, 0, written[c][n])'
    BY DEF ConnInv, Bookkeeping, SameAt, Accounts, Lines, LoggedBehind, GrantedBehind, GotBack, Has
  <2> QED BY <2>1, <2>3, <2>4, <2>5, <2>6, <2>7 DEF Bookkeeping, SameAt
<1>3. Framing(c)'
  <2>1. /\ \A n : Misframed(c, n)' <=> Misframed(c, n)
        /\ Written(c)' = Written(c)
        /\ \A i : Message(c, i)' <=> Message(c, i)
    BY DEF SameAt, Misframed, Written, Message
  <2>2. HeadsInOrder(c)' /\ Aligned(c)'
    BY <2>1 DEF ConnInv, Framing, SameAt, HeadsInOrder, Aligned
  <2> QED BY <2>1, <2>2 DEF ConnInv, Framing, SameAt
<1>4. Promised(c)'
  BY DEF ConnInv, SameAt, Promised, InApplication, Made, Written, Executor!Current, Frame
<1> QED BY <1>1, <1>2, <1>3, <1>4 DEF ConnInv

\* The inductive invariant holds before anything is sent.
LEMMA InitIInv == ASSUME Init PROVE IInv
<1> USE DEF Init
<1>1. ServiceTypes
  <2>1. Idle \in Item
    BY OwnResponses DEF Idle, Item, Ways
  <2> QED BY <2>1 DEF ServiceTypes
<1>2. ASSUME NEW c \in Conns PROVE ConnInv(c)
  <2>1. /\ pc[c] = "none" /\ consumed[c] = 0 /\ requests[c] = << >> /\ answers[c] = << >>
        /\ flow[c] = Idle /\ details[c] = << >> /\ log[c] = << >> /\ threw[c] = << >>
        /\ written[c] = << >> /\ wire[c] = << >> /\ taken[c] = << >>
    BY DEF Executor!Init
  <2>2. layers \in Seq(Layers)
    BY ApplicationsAssumption
  <2>3. Idle.at = 0 /\ Idle.way = "idle" /\ Idle.res.stale = FALSE /\ Idle.res.length = None
    BY DEF Idle, Response
  <2>4. Flow(c)
    BY <2>1, <2>2, <2>3 DEF Flow, InApplication
  <2>5. Bookkeeping(c)
    BY <2>1 DEF Bookkeeping, InApplication, Written
  <2>6. Framing(c)
    BY <2>1 DEF Framing, HeadsInOrder, Aligned, Written
  <2>7. Promised(c)
    BY <2>1 DEF Promised, InApplication, Written
  <2> QED BY <2>4, <2>5, <2>6, <2>7 DEF ConnInv
<1> QED BY <1>1, <1>2 DEF IInv

\* Every step keeps the inductive invariant.
LEMMA StepIInv ==
    ASSUME IInv, ExecutorInv, ExecutorInv', [Next]_vars
    PROVE  IInv'
<1>0. Typed
  BY DEF Typed, IInv, ExecutorInv
<1>1. CASE StartUp \/ UNCHANGED vars
  <2>1. ServiceTypes' /\ layers' = layers /\ \A d \in Conns : SameAt(d)
    BY <1>0, <1>1, StartUpSame
  <2> QED BY <2>1, ConnInvStays DEF IInv
<1>2. ASSUME NEW c \in Conns, Acts(c) PROVE IInv'
  <2>1. /\ Known(c) /\ HeadsInOrder(c) /\ Flow(c) /\ Bookkeeping(c) /\ Framing(c) /\ Promised(c)
        /\ Executor!OneInFlight(c) /\ Executor!OneInFlight(c)'
    BY DEF IInv, ConnInv, Known, Framing, ExecutorInv, Executor!SerialPerConnection
  <2>2. ServiceTypes' /\ layers' = layers
    BY <1>0, <1>2, <2>1, ActsTyped
  <2>3. Flow(c)'
    BY <1>0, <1>2, <2>1, FlowStep
  <2>4. Bookkeeping(c)'
    BY <1>0, <1>2, <2>1, BookkeepingStep
  <2>5. Framing(c)'
    BY <1>0, <1>2, <2>1, FramingStep
  <2>6. Promised(c)'
    BY <1>0, <1>2, <2>1, PromisedStep
  <2>7. ConnInv(c)'
    BY <2>3, <2>4, <2>5, <2>6 DEF ConnInv
  <2>8. ASSUME NEW d \in Conns, d # c PROVE ConnInv(d)'
    <3>1. SameAt(d)
      BY <1>0, <1>2, <2>1, <2>8, OthersSame
    <3> QED BY <2>2, <3>1, ConnInvStays DEF IInv
  <2> QED BY <2>2, <2>7, <2>8 DEF IInv
<1> QED BY <1>1, <1>2 DEF Next, Acts

\* The inductive invariant: what the layers have done for each request of a
\* connection, where its messages lie on the wire and what the client has taken.
THEOREM Invariance == Spec => []IInv
<1>1. Init => IInv
  BY InitIInv
<1>2. IInv /\ ExecutorInv /\ ExecutorInv' /\ [Next]_vars => IInv'
  BY StepIInv
<1> QED BY <1>1, <1>2, KeepsTheExecutor, PTL DEF Spec

-----------------------------------------------------------------------------
(* The properties the run checks. *)

\* Behind the outermost layer lie all of them.
LEMMA BehindAll ==
    ASSUME Typed, NEW c \in Conns, NEW n \in DOMAIN threw[c]
    PROVE  /\ LoggedBehind(c, n, 0) <=>
                 /\ Has("logger") /\ ~Missed(c, n, "logger")
                 /\ details[c][n].preflight => ~Around("cors", "logger")
           /\ (details[c][n].preflight /\ Has("cors") => ~threw[c][n]) =>
                 (GrantedBehind(c, n, 0) <=>
                    Has("cors") /\ details[c][n].cross /\ ~Missed(c, n, "cors"))
<1>1. /\ layers \in Seq(Layers)
      /\ \A i, j \in DOMAIN layers : layers[i] = layers[j] => i = j
      /\ threw[c] \in Seq(BOOLEAN)
  BY TypedAt
<1>2. DOMAIN layers = 1 .. Len(layers) /\ Len(layers) \in Nat
  BY <1>1
<1>3. ASSUME NEW i \in DOMAIN layers
      PROVE  GotBack(c, n, i) <=>
                /\ ~Missed(c, n, layers[i])
                /\ details[c][n].preflight => ~Around("cors", layers[i]) /\ layers[i] # "cors"
  <2>1. (\E j \in DOMAIN layers : j > i /\ layers[j] = "recover") <=> Around(layers[i], "recover")
    BY <1>1, <1>2, <1>3 DEF Around
  <2>2. (\A j \in 1 .. i : layers[j] # "cors") <=> ~Around("cors", layers[i]) /\ layers[i] # "cors"
    <3>1. \A j \in DOMAIN layers : j < i \/ j = i \/ j > i
      BY <1>2
    <3>2. \A j \in 1 .. i : j \in DOMAIN layers /\ (j < i \/ j = i)
      BY <1>2
    <3>3. \A j \in DOMAIN layers : j < i => j \in 1 .. i
      BY <1>2
    <3>4. i \in 1 .. i
      BY <1>2
    <3> QED BY <1>1, <3>2, <3>3, <3>4 DEF Around
  <2> QED BY <2>1, <2>2 DEF GotBack, Missed
<1>4. \A i \in DOMAIN layers : i > 0
  BY <1>2
<1>5. LoggedBehind(c, n, 0) <=>
         /\ Has("logger") /\ ~Missed(c, n, "logger")
         /\ details[c][n].preflight => ~Around("cors", "logger")
  BY <1>3, <1>4 DEF LoggedBehind, Has
<1>6. ASSUME details[c][n].preflight /\ Has("cors") => ~threw[c][n]
      PROVE  GrantedBehind(c, n, 0) <=>
                Has("cors") /\ details[c][n].cross /\ ~Missed(c, n, "cors")
  <2>1. CASE details[c][n].preflight
    BY <1>4, <1>6, <2>1 DEF GrantedBehind, Has, Missed
  <2>2. CASE ~details[c][n].preflight
    BY <1>3, <1>4, <2>2 DEF GrantedBehind, Has
  <2> QED BY <2>1, <2>2
<1> QED BY <1>5, <1>6

\* No request is logged twice, and each that comes back to the logger is, with the
\* status its client gets.
THEOREM LogsOnce == Spec => []LoggedOnce
<1>1. IInv /\ ExecutorInv => LoggedOnce
  <2> SUFFICES ASSUME IInv, ExecutorInv, NEW c \in Conns, NEW n \in Written(c)
               PROVE  /\ Cardinality(Lines(c, n)) <= 1
                      /\ \A i \in Lines(c, n) : log[c][i].status = written[c][n].status
                      /\ (/\ Has("logger") /\ ~Missed(c, n, "logger")
                          /\ details[c][n].preflight => ~Around("cors", "logger")) => Lines(c, n) # {}
    BY DEF LoggedOnce, Lines
  <2>1. Typed /\ Known(c) /\ Accounts(c, n, 0, written[c][n])
    BY DEF Typed, Known, IInv, ConnInv, Bookkeeping, ExecutorInv, Executor!SerialPerConnection
  <2>2. n \in DOMAIN threw[c]
    BY <2>1, KnownAt
  <2>3. LoggedBehind(c, n, 0) <=>
           /\ Has("logger") /\ ~Missed(c, n, "logger")
           /\ details[c][n].preflight => ~Around("cors", "logger")
    BY <2>1, <2>2, BehindAll
  <2>4. CASE LoggedBehind(c, n, 0)
    <3>1. PICK i \in DOMAIN log[c] : Lines(c, n) = {i} /\ log[c][i].status = written[c][n].status
      BY <2>1, <2>4 DEF Accounts
    <3>2. Cardinality({i}) = 1
      BY FS_Singleton
    <3> QED BY <2>3, <2>4, <3>1, <3>2
  <2>5. CASE ~LoggedBehind(c, n, 0)
    <3>1. Lines(c, n) = {}
      BY <2>1, <2>5 DEF Accounts
    <3> QED BY <2>3, <2>5, <3>1, FS_EmptySet
  <2> QED BY <2>4, <2>5
<1> QED BY <1>1, Invariance, KeepsTheExecutor, PTL

\* With CORS, exactly the answers to permitted cross-origin requests let the page
\* read them, but for what was thrown through the CORS layer.
THEOREM GrantsUnlessThrown == Spec => []GrantedUnlessThrown
<1>1. IInv /\ ExecutorInv => GrantedUnlessThrown
  <2> SUFFICES ASSUME IInv, ExecutorInv, NEW c \in Conns, NEW n \in Written(c)
               PROVE  written[c][n].granted <=>
                         Has("cors") /\ details[c][n].cross /\ ~Missed(c, n, "cors")
    BY DEF GrantedUnlessThrown
  <2>1. Typed /\ Known(c) /\ Accounts(c, n, 0, written[c][n])
    BY DEF Typed, Known, IInv, ConnInv, Bookkeeping, ExecutorInv, Executor!SerialPerConnection
  <2>2. n \in DOMAIN threw[c]
    BY <2>1, KnownAt
  <2>3. (details[c][n].preflight /\ Has("cors") => ~threw[c][n])
        /\ (written[c][n].granted <=> GrantedBehind(c, n, 0))
    BY <2>1 DEF Accounts
  <2> QED BY <2>1, <2>2, <2>3, BehindAll
<1> QED BY <1>1, Invariance, KeepsTheExecutor, PTL

\* Until a handler misframes a message, a client takes the k-th answer for its
\* k-th request, whole, and finds a head where one should be.
THEOREM StaysInSync == Spec => []InSync
<1>1. IInv /\ ExecutorInv => InSync
  <2> SUFFICES ASSUME IInv, ExecutorInv, NEW c \in Conns
               PROVE  /\ \A k \in DOMAIN taken[c] :
                            (\A n \in 1 .. k : ~Misframed(c, n)) =>
                                taken[c][k].of = k /\ taken[c][k].whole
                      /\ (\A n \in Written(c) : ~Misframed(c, n)) => ~Garbled(c)
    BY DEF InSync
  <2>1. Typed /\ Framing(c)
    BY DEF Typed, IInv, ConnInv, ExecutorInv
  <2>2. ASSUME \A n \in Written(c) : ~Misframed(c, n), wire[c] # << >> PROVE Head(wire[c]).head
    <3>1. taken[c] \in Seq(Taking) /\ wire[c] \in Seq(Unit) /\ written[c] \in Seq(AnyFrame)
      BY <2>1, TypedAt
    <3>2. \A n \in DOMAIN taken[c] : n \in Written(c)
      BY <2>1, <3>1 DEF Framing, HeadsInOrder, Written
    <3>3. wire[c][1].head
      BY <2>1, <2>2, <3>2 DEF Framing, Aligned
    <3> QED BY <2>2, <3>1, <3>3
  <2>3. ASSUME NEW k \in DOMAIN taken[c], \A n \in 1 .. k : ~Misframed(c, n)
        PROVE  taken[c][k].of = k /\ taken[c][k].whole
    <3>1. taken[c] \in Seq(Taking)
      BY <2>1, TypedAt
    <3>2. k \in Nat /\ k \in 1 .. k /\ \A n \in 1 .. k - 1 : n \in 1 .. k
      BY <3>1
    <3> QED BY <2>1, <2>3, <3>2 DEF Framing
  <2> QED BY <2>2, <2>3 DEF Garbled, Listening
<1> QED BY <1>1, Invariance, KeepsTheExecutor, PTL

-----------------------------------------------------------------------------
(* The client's exchange. *)

\* The numbers up to the first bad one.
LEMMA FirstOnes ==
    ASSUME NEW L \in Nat, NEW B
    PROVE  \E t \in 0 .. L : {k \in 1 .. L : \A j \in 1 .. k : j \notin B} = 1 .. t
<1> DEFINE T == {k \in 1 .. L : \A j \in 1 .. k : j \notin B}
           Beyond == (1 .. L + 1) \ T
           R == {ss \in Nat \X Nat : ss[1] < ss[2]}
<1>1. IsWellFoundedOn(R, Nat)
  BY NatLessThanWellFounded DEF OpToRel
<1>2. Beyond \subseteq Nat /\ L + 1 \in Beyond
  OBVIOUS
<1>3. \A x, y \in Nat : x < y => <<x, y>> \in R
  OBVIOUS
<1> HIDE DEF R, Beyond
<1>4. PICK x \in Beyond : \A y \in Beyond : ~(<<y, x>> \in R)
  <2>1. Beyond # {}
    BY <1>2
  <2> QED BY <1>1, <1>2, <2>1, WFMin
<1> USE DEF Beyond
<1>5. x \in 1 .. L + 1 /\ x \notin T /\ \A y \in 1 .. x - 1 : y \in T
  <2>1. \A y \in 1 .. x - 1 : y \in 1 .. L + 1 /\ y \in Nat /\ x \in Nat /\ y < x
    BY <1>2, <1>4
  <2> QED BY <1>3, <1>4, <2>1
<1>6. ASSUME NEW y \in T PROVE y \in 1 .. x - 1
  <2>1. y \in 1 .. L /\ \A j \in 1 .. y : j \notin B
    OBVIOUS
  <2>2. CASE y >= x
    <3>1. x \in 1 .. L /\ \A j \in 1 .. x : j \notin B
      BY <1>5, <2>1, <2>2
    <3> QED BY <1>5, <3>1
  <2>3. CASE y < x
    BY <1>5, <2>1, <2>3
  <2> QED BY <1>5, <2>1, <2>2, <2>3
<1>7. T = 1 .. x - 1 /\ x - 1 \in 0 .. L
  BY <1>5, <1>6
<1> QED BY <1>7

Bad(c) == {j \in Written(c) : Misframed(c, j)}

Seen(c, k) == [status |-> written[c][k].status, keepAlive |-> written[c][k].keepAlive]

\* The trusted answers are those to the first t requests.
TrustedIs(c, t) ==
    /\ t \in 0 .. Len(taken[c])
    /\ \A k \in 1 .. Len(taken[c]) : k <= t <=> \A j \in 1 .. k : j \notin Bad(c)
    /\ Trusted(c) = [k \in 1 .. t |-> Seen(c, k)]

\* What the client may trust are the responses before the first bad one.
LEMMA TrustedAt ==
    ASSUME Typed, NEW c \in Conns, Framing(c)
    PROVE  \E t \in Nat : TrustedIs(c, t)
<1> DEFINE L == Len(taken[c])
           N == Len(written[c])
           T == {k \in 1 .. L : \A j \in 1 .. k : j \notin Bad(c)}
<1>1. /\ taken[c] \in Seq(Taking) /\ written[c] \in Seq(AnyFrame)
      /\ L \in Nat /\ N \in Nat /\ L <= N /\ DOMAIN taken[c] = 1 .. L
  BY TypedAt DEF Framing, HeadsInOrder
<1>2. PICK t \in 0 .. L : T = 1 .. t
  BY <1>1, FirstOnes
<1>3. \A k \in 1 .. L : k <= t <=> \A j \in 1 .. k : j \notin Bad(c)
  BY <1>1, <1>2
<1>4. \A k \in 1 .. L : 1 .. k \subseteq Written(c)
  BY <1>1 DEF Written
<1>5. {k \in DOMAIN taken[c] : \A j \in Written(c) : j <= k => ~Misframed(c, j)} = T
  <2>1. ASSUME NEW k \in 1 .. L
        PROVE  (\A j \in Written(c) : j <= k => ~Misframed(c, j)) <=> \A j \in 1 .. k : j \notin Bad(c)
    <3>1. \A j \in Written(c) : j <= k <=> j \in 1 .. k
      BY <1>1 DEF Written
    <3> QED BY <1>4, <3>1 DEF Bad
  <2> QED BY <1>1, <2>1
<1>6. Cardinality(1 .. t) = t
  <2>1. t \in Nat /\ 1 \in Int /\ t \in Int
    BY <1>1
  <2>2. Cardinality(1 .. t) = IF 1 > t THEN 0 ELSE t - 1 + 1
    BY <2>1, FS_Interval
  <2> QED BY <2>1, <2>2
<1>7. \A k \in 1 .. t : taken[c][k].of = k
  <2>1. ASSUME NEW k \in 1 .. t PROVE \A n \in 1 .. k - 1 : ~Misframed(c, n)
    <3>1. k \in 1 .. L /\ \A n \in 1 .. k - 1 : n \in 1 .. k
      BY <1>1
    <3>2. \A n \in 1 .. k : n \notin Bad(c)
      BY <1>2, <3>1
    <3> QED BY <1>4, <3>1, <3>2 DEF Bad
  <2>2. \A k \in 1 .. t : k \in DOMAIN taken[c]
    BY <1>1
  <2> QED BY <2>1, <2>2 DEF Framing
<1>8. Trusted(c) = [k \in 1 .. t |-> Seen(c, k)]
  <2>1. Trusted(c) = [k \in 1 .. t |-> [status    |-> written[c][taken[c][k].of].status,
                                        keepAlive |-> written[c][taken[c][k].of].keepAlive]]
    BY <1>2, <1>5, <1>6 DEF Trusted
  <2> QED BY <1>7, <2>1 DEF Seen
<1> QED
  BY <1>1, <1>3, <1>8 DEF TrustedIs

\* The whole of what is invariant.
AllInv ==
    /\ IInv /\ ExecutorInv
    /\ \A c \in Conns : \E t \in Nat : TrustedIs(c, t)

\* The service's invariant and that of the executor in it.
LEMMA AllInvariant == Spec => []AllInv
<1>1. IInv /\ ExecutorInv => AllInv
  BY TrustedAt DEF AllInv, Typed, IInv, ConnInv, ExecutorInv
<1> QED BY <1>1, Invariance, KeepsTheExecutor, PTL

\* Only a client that takes an answer sees more of the exchange.
LEMMA TrustedStays ==
    ASSUME Typed, NEW c \in Conns, Known(c), Framing(c),
           \A n \in DOMAIN details[c] : details'[c][n] = details[c][n],
           \A n \in Written(c) : written'[c][n] = written[c][n],
           Written(c) \subseteq Written(c)', taken'[c] = taken[c],
           NEW t \in Nat, TrustedIs(c, t), NEW u \in Nat, TrustedIs(c, u)'
    PROVE  Trusted(c)' = Trusted(c)
<1> DEFINE L == Len(taken[c])
<1>1. L \in Nat /\ Len(written[c]) \in Nat /\ L <= Len(written[c])
  <2>1. taken[c] \in Seq(Taking) /\ written[c] \in Seq(AnyFrame)
    BY TypedAt
  <2> QED BY <2>1 DEF Framing, HeadsInOrder
<1>2. \A n \in 1 .. L : n \in Written(c) /\ n \in Written(c)'
  BY <1>1 DEF Written
<1>3. \A n \in 1 .. L : n \in Bad(c)' <=> n \in Bad(c)
  BY <1>2, MisframedStays DEF Bad
<1>4. \A k \in 1 .. L : (\A j \in 1 .. k : j \notin Bad(c)') <=> (\A j \in 1 .. k : j \notin Bad(c))
  <2>1. \A k \in 1 .. L : \A j \in 1 .. k : j \in 1 .. L
    BY <1>1
  <2> QED BY <1>3, <2>1
<1>5. t \in 0 .. L /\ u \in 0 .. L
  BY DEF TrustedIs
<1>6. \A k \in 1 .. L : k <= t <=> k <= u
  BY <1>4 DEF TrustedIs
<1>7. t = u
  BY <1>1, <1>5, <1>6
<1>8. \A k \in 1 .. t : k \in Written(c)
  BY <1>1, <1>2, <1>5
<1>9. \A k \in 1 .. t : Seen(c, k)' = Seen(c, k)
  BY <1>8 DEF Seen
<1> QED
  BY <1>7, <1>9 DEF TrustedIs

\* Taking a response answers the oldest open request, or nothing to be trusted.
LEMMA TakeAnswers ==
    ASSUME Typed, NEW c \in Conns, Take(c), ConnInv(c), Executor!OneInFlight(c),
           Executor!Silent(c),
           NEW t \in Nat, TrustedIs(c, t), NEW u \in Nat, TrustedIs(c, u)'
    PROVE  \/ Trusted(c)' = Trusted(c)
           \/ /\ \A k \in 1 .. Len(Trusted(c)) : Trusted(c)[k].keepAlive
              /\ Len(Trusted(c)) < Len(requests[c])
              /\ \E a \in Served(requests[c][Len(Trusted(c)) + 1]) :
                    Trusted(c)' = Append(Trusted(c), a)
<1> DEFINE L == Len(taken[c])
<1>0. Flow(c) /\ HeadsInOrder(c) /\ Promised(c) /\ Known(c)
  BY DEF ConnInv, Framing, Known
<1>1. /\ taken[c] \in Seq(Taking) /\ written[c] \in Seq(AnyFrame)
      /\ answers[c] \in Seq(Executor!Answers) /\ L \in Nat /\ DOMAIN taken = Conns
      /\ Len(written[c]) = Len(answers[c]) /\ Len(written[c]) \in Nat
  BY <1>0, TypedAt DEF Typed, ServiceTypes, Flow
<1>2. PICK n \in Written(c), size \in Nat, whole \in BOOLEAN : Takes(c, n, size, whole)
  BY <1>0, TakeDoes
<1>3. UNCHANGED <<requests, details, written>>
  BY TakeSame
<1>4. /\ Len(taken'[c]) = L + 1
      /\ L + 1 <= Len(written[c])
      /\ L < Len(requests[c])
  <2> DEFINE x == [of |-> n, whole |-> whole]
  <2>1. taken'[c] = Append(taken[c], x)
    BY <1>1, <1>2 DEF Takes
  <2>2. wire[c][1].head /\ n = wire[c][1].of /\ 1 \in DOMAIN wire[c]
    <3>1. wire[c] \in Seq(Unit) /\ wire[c] # << >>
      BY <1>2, TypedAt DEF Takes
    <3>2. wire[c][1].head /\ n = wire[c][1].of
      BY <1>2 DEF Takes
    <3>3. 1 \in DOMAIN wire[c]
      BY <3>1
    <3> QED BY <3>2, <3>3
  <2>3. L < n /\ n <= Len(written[c]) /\ n \in Nat
    BY <1>0, <1>1, <2>2 DEF HeadsInOrder, Written
  <2>4. L < Len(requests[c])
    BY DEF Take
  <2> HIDE DEF x
  <2> QED BY <1>1, <2>1, <2>3, <2>4
<1>5. Bad(c)' = Bad(c)
  BY <1>3 DEF Bad, Written, Misframed
<1>6. /\ t \in 0 .. L /\ u \in 0 .. L + 1
      /\ \A k \in 1 .. L : k <= t <=> \A j \in 1 .. k : j \notin Bad(c)
      /\ \A k \in 1 .. L + 1 : k <= u <=> \A j \in 1 .. k : j \notin Bad(c)
  BY <1>4, <1>5 DEF TrustedIs
<1>7. u = t \/ (t = L /\ u = L + 1)
  <2>1. \A k \in 1 .. L : k <= t <=> k <= u
    <3>1. \A k \in 1 .. L : k \in 1 .. L + 1
      BY <1>1
    <3> QED BY <1>6, <3>1
  <2>2. CASE t = L
    <3>1. u >= L
      BY <1>1, <1>6, <2>1, <2>2
    <3> QED BY <1>1, <1>6, <2>2, <3>1
  <2>3. CASE t < L
    <3>1. t + 1 \in 1 .. L /\ ~(t + 1 <= t)
      BY <1>1, <1>6, <2>3
    <3>2. u < t + 1
      BY <1>1, <1>6, <2>1, <3>1
    <3>3. t <= u
      BY <1>1, <1>6, <2>1
    <3> QED BY <1>6, <3>2, <3>3
  <2> QED BY <1>1, <1>6, <2>2, <2>3
<1>8. \A k : Seen(c, k)' = Seen(c, k)
  BY <1>3 DEF Seen
<1>9. Trusted(c) = [k \in 1 .. t |-> Seen(c, k)] /\ Trusted(c)' = [k \in 1 .. u |-> Seen(c, k)]
  BY <1>8 DEF TrustedIs
<1>10. CASE u = t
  BY <1>9, <1>10
<1>11. CASE t = L /\ u = L + 1
  <2>1. /\ Len(Trusted(c)) = L
        /\ \A k \in 1 .. L : Trusted(c)[k] = Seen(c, k)
        /\ Trusted(c)' = Append(Trusted(c), Seen(c, L + 1))
    <3> DEFINE f == [k \in 1 .. L |-> Seen(c, k)]
               g == [k \in 1 .. L + 1 |-> Seen(c, k)]
               S == {Seen(c, k) : k \in 1 .. L}
    <3>1. f \in [1 .. L -> S] /\ (\A k \in 1 .. L : f[k] = Seen(c, k))
      OBVIOUS
    <3>2. (\A k \in 1 .. L + 1 : g[k] = Seen(c, k)) /\ DOMAIN g = 1 .. L + 1 /\ g = [k \in 1 .. L + 1 |-> g[k]]
      OBVIOUS
    <3>3. Trusted(c) = f /\ Trusted(c)' = g
      BY <1>9, <1>11
    <3> HIDE DEF f, g, S
    <3>4. f \in Seq(S) /\ Len(f) = L
      BY <1>1, <3>1, FunctionIsSeq
    <3>5. Append(f, Seen(c, L + 1)) = [k \in 1 .. L + 1 |-> IF k \in 1 .. L THEN f[k] ELSE Seen(c, L + 1)]
      BY <1>1, <3>4
    <3>6. g = Append(f, Seen(c, L + 1))
      BY <1>1, <3>1, <3>2, <3>5
    <3> QED BY <3>1, <3>3, <3>4, <3>6
  <2>2. ASSUME NEW k \in 1 .. L PROVE Seen(c, k).keepAlive
    <3>1. k \in Written(c) /\ k \in 1 .. Len(answers[c]) /\ k # Len(answers[c])
      BY <1>1, <1>4 DEF Written
    <3>2. answers[c][k].keepAlive
      BY <3>1 DEF Executor!Silent
    <3> QED BY <1>0, <3>1, <3>2 DEF Promised, Seen
  <2>3. Seen(c, L + 1) \in Served(requests[c][L + 1])
    <3>1. L + 1 \in Written(c)
      BY <1>1, <1>4 DEF Written
    <3> QED BY <1>0, <3>1 DEF Promised, Seen
  <2> QED BY <1>4, <2>1, <2>2, <2>3
<1> QED BY <1>7, <1>10, <1>11

\* Every step is one of the exchange, or one the client does not see.
LEMMA ExchangeStep ==
    ASSUME AllInv, AllInv', [Next]_vars
    PROVE  [Client!Next]_(Client!vars)
<1> DEFINE seen == [c \in Conns |-> Trusted(c)]
<1>0. Typed
  BY DEF Typed, AllInv, IInv, ExecutorInv
<1>1. \A c \in Conns : /\ ConnInv(c) /\ Executor!OneInFlight(c) /\ Executor!Silent(c)
                       /\ Known(c) /\ Framing(c) /\ Flow(c) /\ HeadsInOrder(c)
  BY DEF AllInv, IInv, ExecutorInv, ConnInv, Known, Framing, Executor!SerialPerConnection,
         Executor!SilentAfterClose
<1>2. \A c \in Conns : (\E t \in Nat : TrustedIs(c, t)) /\ (\E u \in Nat : TrustedIs(c, u)')
  BY DEF AllInv
\* A connection whose client takes nothing sees what it saw.
<1>3. ASSUME NEW c \in Conns,
             \A n \in DOMAIN details[c] : details'[c][n] = details[c][n],
             \A n \in Written(c) : written'[c][n] = written[c][n],
             Written(c) \subseteq Written(c)', taken'[c] = taken[c]
      PROVE  Trusted(c)' = Trusted(c)
  BY <1>0, <1>1, <1>2, <1>3, TrustedStays
<1>4. ASSUME NEW c \in Conns, SameAt(c) PROVE Trusted(c)' = Trusted(c)
  <2>1. Written(c)' = Written(c)
    BY <1>4 DEF SameAt, Written
  <2> QED BY <1>3, <1>4, <2>1 DEF SameAt
<1>5. CASE StartUp \/ UNCHANGED vars
  <2>1. \A c \in Conns : SameAt(c)
    BY <1>0, <1>5, StartUpSame
  <2>2. requests' = requests
    BY <1>5 DEF StartUp, Same, Executor!Serve, Executor!RunOrThrow, Executor!AcceptFails,
                Executor!sessionVars, vars, executor
  <2>3. seen' = seen
    BY <1>4, <2>1
  <2> QED BY <2>2, <2>3 DEF Client!vars
<1>6. ASSUME NEW c \in Conns, Acts(c) PROVE [Client!Next]_(Client!vars)
  <2>1. \A d \in Conns : d # c => Trusted(d)' = Trusted(d)
    BY <1>0, <1>1, <1>4, <1>6, OthersSame
  <2>2. Trusted(c)' = Trusted(c) => seen' = seen
    BY <2>1
  <2>3. ASSUME Trusted(c)' = Trusted(c), requests' = requests PROVE [Client!Next]_(Client!vars)
    BY <2>2, <2>3 DEF Client!vars
  <2>4. ASSUME requests' = requests, details' = details, written' = written, taken' = taken
        PROVE  [Client!Next]_(Client!vars)
    <3>1. Written(c)' = Written(c)
      BY <2>4 DEF Written
    <3> QED BY <1>3, <2>3, <2>4, <3>1
  <2>5. CASE Read(c)
    BY <1>0, <2>4, <2>5, ReadDoes
  <2>6. CASE Moves(c)
    BY <1>0, <2>4, <2>6, MovesDo
  <2>7. CASE InsideStep(c)
    BY <2>4, <2>7, InsideSame
  <2>8. CASE Respond(c)
    BY <1>0, <2>4, <2>8, RespondDoes
  <2>9. CASE Fail(c)
    BY <1>0, <2>4, <2>9, FailDoes
  <2>10. CASE Write(c)
    <3> DEFINE frame == Frame(Executor!Current(c), flow[c].res)
    <3>1. /\ written' = [written EXCEPT ![c] = Append(@, frame)]
          /\ UNCHANGED <<requests, details, taken>>
      BY <1>0, <2>10, WriteDoes
    <3>2. written[c] \in Seq(AnyFrame) /\ flow[c].res \in AnyResponse /\ DOMAIN written = Conns
      BY <1>0, TypedAt DEF Typed, ServiceTypes
    <3>3. frame \in AnyFrame
      BY <3>2, FrameTyped
    <3> HIDE DEF frame
    <3>4. /\ Written(c) \subseteq Written(c)'
          /\ \A n \in Written(c) : written'[c][n] = written[c][n]
      BY <3>1, <3>2, <3>3 DEF Written
    <3> QED BY <1>3, <2>3, <3>1, <3>4
  <2>11. CASE Send(c)
    <3>1. PICK r \in Requests : requests' = [requests EXCEPT ![c] = Append(@, r)]
      BY <1>0, <2>11, SendDoes
    <3>2. PICK d \in Details : details' = [details EXCEPT ![c] = Append(@, d)]
      BY <1>0, <2>11, SendDoes
    <3>3. UNCHANGED <<written, taken>>
      BY <1>0, <2>11, SendDoes
    <3>4. \A n \in DOMAIN details[c] : details'[c][n] = details[c][n]
      <4>1. details[c] \in Seq(Details) /\ DOMAIN details = Conns
        BY <1>0, TypedAt DEF Typed, ServiceTypes
      <4> QED BY <3>2, <4>1
    <3>5. Trusted(c)' = Trusted(c)
      BY <1>3, <3>3, <3>4 DEF Written
    <3>6. Client!Send(c)
      BY <2>2, <3>1, <3>5 DEF Client!Send
    <3> QED BY <3>6 DEF Client!Next
  <2>12. CASE Take(c)
    <3>1. requests' = requests
      BY <2>12, TakeSame
    <3>2. CASE Trusted(c)' = Trusted(c)
      BY <2>3, <3>1, <3>2
    <3>3. CASE /\ \A k \in 1 .. Len(Trusted(c)) : Trusted(c)[k].keepAlive
               /\ Len(Trusted(c)) < Len(requests[c])
               /\ \E a \in Served(requests[c][Len(Trusted(c)) + 1]) :
                     Trusted(c)' = Append(Trusted(c), a)
      <4>1. PICK a \in Served(requests[c][Len(Trusted(c)) + 1]) : Trusted(c)' = Append(Trusted(c), a)
        BY <3>3
      <4>2. seen[c] = Trusted(c)
        OBVIOUS
      <4>3. seen' = [seen EXCEPT ![c] = Append(@, a)]
        BY <2>1, <4>1
      <4> HIDE DEF seen
      <4>4. Client!Answer(c)
        BY <3>1, <3>3, <4>1, <4>2, <4>3 DEF Client!Answer, Client!Usable, seen
      <4> QED BY <4>4 DEF Client!Next
    <3> QED
      BY <1>0, <1>1, <1>2, <2>12, <3>2, <3>3, TakeAnswers
  <2> QED
    BY <1>6, <2>5, <2>6, <2>7, <2>8, <2>9, <2>10, <2>11, <2>12, ActsSplit
<1> QED BY <1>5, <1>6 DEF Next, Acts

\* Seen from the client, the service is the exchange an HTTP server owes it: for
\* its requests, in order, answers that they may get, and none after one that
\* closes the connection.
THEOREM ClientsExchangeHolds == Spec => ClientsExchange
<1>1. Init => Client!Init
  <2> SUFFICES ASSUME Init PROVE Client!Init
    OBVIOUS
  <2>1. requests = [c \in Conns |-> << >>]
    BY DEF Init, Executor!Init
  <2>2. ASSUME NEW c \in Conns PROVE Trusted(c) = << >>
    <3>1. taken[c] = << >>
      BY DEF Init
    <3>2. {k \in DOMAIN taken[c] : \A j \in Written(c) : j <= k => ~Misframed(c, j)} = {}
      BY <3>1
    <3>3. Cardinality({}) = 0
      BY FS_EmptySet
    <3>4. Trusted(c) = [k \in 1 .. 0 |-> [status    |-> written[c][taken[c][k].of].status,
                                          keepAlive |-> written[c][taken[c][k].of].keepAlive]]
      BY <3>2, <3>3 DEF Trusted
    <3>5. 1 .. 0 = {}
      OBVIOUS
    <3> QED BY <3>4, <3>5
  <2> QED BY <2>1, <2>2 DEF Client!Init
<1>2. AllInv /\ AllInv' /\ [Next]_vars => [Client!Next]_(Client!vars)
  BY ExchangeStep
<1> QED BY <1>1, <1>2, AllInvariant, PTL DEF Spec, ClientsExchange, Client!Spec
====================
