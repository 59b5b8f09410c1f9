----------------------- MODULE BeastExecutor_proofs -------------------------
(***************************************************************************)
(* Theorems about BeastExecutor, for any set of connections, any requests  *)
(* and any bounds: its invariants, that it implements HttpExchange, and    *)
(* that a session whose client has gone has boundedly many steps left.     *)
(***************************************************************************)
EXTENDS BeastExecutor, TLAPS

\* What is being written answers the request that was read last.
Writing(c) == pc[c] = "writing" => response[c] \in Possible(Current(c))

\* Beyond the first socket call there is a handler.
StartedWithHandler == phase \notin {"idle", "failed"} => handlerSet

\* What holds of each connection.
ConnInv(c) == OneInFlight(c) /\ Silent(c) /\ Match(c) /\ Writing(c)

\* The inductive invariant: the properties the runs check, and the two facts
\* they rest on.
IInv ==
    /\ TypeOK
    /\ \A c \in Conns : ConnInv(c)
    /\ NeverUnconfigured
    /\ StartedWithHandler

-----------------------------------------------------------------------------

\* An answer handle_request gives to any request is an answer.
LEMMA PossibleIsAnswer ==
    ASSUME NEW r, NEW a \in Possible(r)
    PROVE  a \in Answers
<1>1. \A v, t : KeepAlive(v, t) \in BOOLEAN
  BY DEF KeepAlive
<1>2. \A s \in {200, 500} : \A t : ToBeastResponse(r, s, t) \in Answers
  BY <1>1 DEF ToBeastResponse, Answers
<1> QED BY <1>2 DEF Possible, Failure

\* The socket calls of serve() run before the accept loop and only lead on.
LEMMA RunOrThrowPhases ==
    ASSUME NEW ok \in BOOLEAN, RunOrThrow(ok)
    PROVE  /\ phase \in {"open", "set_option", "bind", "listen"}
           /\ phase' \in Phases
BY DEF RunOrThrow, Steps, Phases

\* The inductive invariant holds of the executor before it is served.
LEMMA InitIInv == Init => IInv
<1> SUFFICES ASSUME Init PROVE IInv
  OBVIOUS
<1> USE DEF Init
<1>1. TypeOK
  <2>1. NoAnswer \in Answers
    BY DEF NoAnswer, Answers
  <2>2. requests \in [Conns -> Seq(Requests)] /\ answers \in [Conns -> Seq(Answers)]
    OBVIOUS
  <2>3. /\ phase \in Phases /\ acceptErrors \in Nat /\ handlerSet \in BOOLEAN
        /\ client \in [Conns -> {"open", "shut", "reset"}]
        /\ pc \in [Conns -> {"none", "backlog", "reading", "handling",
                             "writing", "closing", "done"}]
        /\ consumed \in [Conns -> Nat]
    BY DEF Phases
  <2> QED BY <2>1, <2>2, <2>3 DEF TypeOK
<1>2. \A c \in Conns : ConnInv(c)
  <2> SUFFICES ASSUME NEW c \in Conns PROVE ConnInv(c)
    OBVIOUS
  <2>1. pc[c] = "none" /\ consumed[c] = 0 /\ Len(answers[c]) = 0 /\ Len(requests[c]) = 0
    OBVIOUS
  <2> QED BY <2>1 DEF ConnInv, OneInFlight, Silent, Match, Writing
<1>3. NeverUnconfigured /\ StartedWithHandler
  BY DEF NeverUnconfigured, StartedWithHandler
<1> QED BY <1>1, <1>2, <1>3 DEF IInv

\* Types are kept by every step.
LEMMA TypeStep == TypeOK /\ [Next]_vars => TypeOK'
<1> SUFFICES ASSUME TypeOK, [Next]_vars PROVE TypeOK'
  OBVIOUS
<1> USE DEF TypeOK
<1>1. ASSUME NEW b \in BOOLEAN, Serve(b) PROVE TypeOK'
  BY <1>1 DEF Serve, sessionVars, Phases
<1>2. ASSUME NEW b \in BOOLEAN, RunOrThrow(b) PROVE TypeOK'
  BY <1>2, RunOrThrowPhases DEF RunOrThrow, sessionVars
<1>3. CASE AcceptFails
  BY <1>3 DEF AcceptFails, sessionVars
<1>4. ASSUME NEW c \in Conns, Accept(c) PROVE TypeOK'
  BY <1>4 DEF Accept, serverVars
<1>5. ASSUME NEW c \in Conns, SessionStep(c) PROVE TypeOK'
  <2>1. CASE Read(c)
    BY <2>1 DEF Read, Goto, serverVars
  <2>2. CASE ReadFails(c)
    BY <2>2 DEF ReadFails, Goto, serverVars
  <2>3. CASE HandlerReturns(c)
    <3>1. PICK t \in Tokens :
            response' = [response EXCEPT ![c] = ToBeastResponse(Current(c), 200, t)]
      BY <2>3 DEF HandlerReturns
    <3>2. ToBeastResponse(Current(c), 200, t) \in Answers
      BY PossibleIsAnswer DEF Possible
    <3> QED BY <2>3, <3>1, <3>2 DEF HandlerReturns, Goto, serverVars
  <2>4. CASE HandlerThrows(c)
    <3>1. Failure(Current(c)) \in Answers
      BY PossibleIsAnswer DEF Possible
    <3> QED BY <2>4, <3>1 DEF HandlerThrows, Goto, serverVars
  <2>5. CASE Write(c)
    BY <2>5 DEF Write, Goto, serverVars
  <2>6. CASE WriteFails(c)
    BY <2>6 DEF WriteFails, Goto, serverVars
  <2>7. CASE Shutdown(c)
    BY <2>7 DEF Shutdown, Goto, serverVars
  <2> QED BY <1>5, <2>1, <2>2, <2>3, <2>4, <2>5, <2>6, <2>7 DEF SessionStep
<1>6. ASSUME NEW c \in Conns, ClientStep(c) PROVE TypeOK'
  <2>1. CASE Connect(c)
    BY <2>1 DEF Connect, Goto, serverVars
  <2>2. CASE Send(c)
    BY <2>2 DEF Send, serverVars, sessionVars
  <2>3. CASE Leave(c)
    BY <2>3 DEF Leave, serverVars, sessionVars
  <2> QED BY <1>6, <2>1, <2>2, <2>3 DEF ClientStep
<1>7. CASE UNCHANGED vars
  BY <1>7 DEF vars
<1> QED BY <1>1, <1>2, <1>3, <1>4, <1>5, <1>6, <1>7 DEF Next, ServerStep

-----------------------------------------------------------------------------

\* Nothing the session of c looks at changes.
Same(c) ==
    /\ pc'[c] = pc[c]
    /\ requests'[c] = requests[c]
    /\ consumed'[c] = consumed[c]
    /\ response'[c] = response[c]
    /\ answers'[c] = answers[c]

\* A session's part of the invariant depends on its own state only.
LEMMA SameConn ==
    ASSUME NEW c \in Conns, ConnInv(c), Same(c)
    PROVE  ConnInv(c)'
BY DEF ConnInv, OneInFlight, Silent, Match, Writing, Current, Same

\* A step of one connection is invisible to the others.
LEMMA OthersSame ==
    ASSUME TypeOK, NEW c \in Conns, SessionStep(c) \/ ClientStep(c) \/ Accept(c),
           NEW d \in Conns, d # c
    PROVE  Same(d)
<1> USE DEF TypeOK, Same, Goto, sessionVars
<1>1. CASE SessionStep(c)
  BY <1>1 DEF SessionStep, Read, ReadFails, HandlerReturns, HandlerThrows,
              Write, WriteFails, Shutdown
<1>2. CASE ClientStep(c)
  BY <1>2 DEF ClientStep, Connect, Send, Leave
<1>3. CASE Accept(c)
  BY <1>3 DEF Accept
<1> QED BY <1>1, <1>2, <1>3

\* The connection that takes the step keeps its invariant.
LEMMA OwnStep ==
    ASSUME TypeOK, NEW c \in Conns, ConnInv(c),
           SessionStep(c) \/ ClientStep(c) \/ Accept(c)
    PROVE  ConnInv(c)'
<1> USE DEF TypeOK
<1>1. CASE Read(c)
  BY <1>1 DEF Read, Goto, Pending, ConnInv, OneInFlight, Silent, Match, Writing
<1>2. CASE ReadFails(c)
  BY <1>2 DEF ReadFails, Goto, ConnInv, OneInFlight, Silent, Match, Writing
<1>3. CASE HandlerReturns(c)
  <2>1. PICK t \in Tokens :
          response' = [response EXCEPT ![c] = ToBeastResponse(Current(c), 200, t)]
    BY <1>3 DEF HandlerReturns
  <2>2. response'[c] \in Possible(Current(c))
    BY <2>1 DEF Possible
  <2> QED BY <1>3, <2>2
      DEF HandlerReturns, Goto, Current, ConnInv, OneInFlight, Silent, Match, Writing
<1>4. CASE HandlerThrows(c)
  <2>1. response'[c] \in Possible(Current(c))
    BY <1>4 DEF HandlerThrows, Possible
  <2> QED BY <1>4, <2>1
      DEF HandlerThrows, Goto, Current, ConnInv, OneInFlight, Silent, Match, Writing
<1>5. CASE Write(c)
  <2>1. /\ answers'[c] = Append(answers[c], response[c])
        /\ requests' = requests /\ consumed' = consumed /\ response' = response
        /\ pc[c] = "writing"
        /\ pc'[c] = IF response[c].keepAlive THEN "reading" ELSE "closing"
    BY <1>5 DEF Write, Goto
  <2>2. /\ Len(answers'[c]) = Len(answers[c]) + 1
        /\ answers'[c][Len(answers[c]) + 1] = response[c]
        /\ \A k \in 1..Len(answers[c]) : answers'[c][k] = answers[c][k]
    BY <2>1
  <2>3. consumed[c] = Len(answers[c]) + 1 /\ consumed[c] <= Len(requests[c])
    BY <2>1 DEF ConnInv, OneInFlight
  <2>4. OneInFlight(c)'
    BY <2>1, <2>2, <2>3 DEF OneInFlight
  <2>5. Silent(c)'
    BY <2>1, <2>2, <2>3 DEF Silent, ConnInv
  <2>6. Match(c)'
    BY <2>1, <2>2, <2>3 DEF Match, ConnInv, Writing, Current
  <2> QED BY <2>1, <2>4, <2>5, <2>6 DEF ConnInv, Writing
<1>6. CASE WriteFails(c)
  BY <1>6 DEF WriteFails, Goto, ConnInv, OneInFlight, Silent, Match, Writing
<1>7. CASE Shutdown(c)
  BY <1>7 DEF Shutdown, Goto, ConnInv, OneInFlight, Silent, Match, Writing
<1>8. CASE Connect(c)
  BY <1>8 DEF Connect, Goto, ConnInv, OneInFlight, Silent, Match, Writing
<1>9. CASE Send(c)
  <2>1. PICK r \in Requests : requests'[c] = Append(requests[c], r)
    BY <1>9 DEF Send
  <2>2. /\ Len(requests'[c]) = Len(requests[c]) + 1
        /\ \A k \in 1..Len(requests[c]) : requests'[c][k] = requests[c][k]
    BY <2>1
  <2> QED BY <1>9, <2>2
      DEF Send, sessionVars, Current, ConnInv, OneInFlight, Silent, Match, Writing
<1>10. CASE Leave(c)
  BY <1>10, SameConn DEF Leave, Same, sessionVars
<1>11. CASE Accept(c)
  BY <1>11 DEF Accept, ConnInv, OneInFlight, Silent, Match, Writing
<1> QED BY <1>1, <1>2, <1>3, <1>4, <1>5, <1>6, <1>7, <1>8, <1>9, <1>10, <1>11
        DEF SessionStep, ClientStep

-----------------------------------------------------------------------------

\* A connection takes a step.
Acts(c) == SessionStep(c) \/ ClientStep(c) \/ Accept(c)

\* No connection takes one: serve() does.
Starts == \/ \E b \in BOOLEAN : Serve(b) \/ RunOrThrow(b)
          \/ AcceptFails

\* A step configures or starts the server, or is one of one connection.
LEMMA NextSplit == Next <=> (Starts \/ \E c \in Conns : Acts(c))
BY DEF Next, ServerStep, Starts, Acts

\* Every session's part of the invariant is kept, whoever takes the step.
LEMMA ConnStep ==
    ASSUME IInv, [Next]_vars
    PROVE  \A c \in Conns : ConnInv(c)'
<1> SUFFICES ASSUME NEW d \in Conns PROVE ConnInv(d)'
  OBVIOUS
<1>1. TypeOK /\ ConnInv(d)
  BY DEF IInv
<1>2. ASSUME NEW c \in Conns, Acts(c) PROVE ConnInv(d)'
  <2>1. CASE c = d
    BY <1>1, <1>2, <2>1, OwnStep DEF Acts
  <2>2. CASE c # d
    <3>1. Same(d)
      BY <1>1, <1>2, <2>2, OthersSame DEF Acts
    <3> QED BY <1>1, <3>1, SameConn
  <2> QED BY <2>1, <2>2
<1>3. CASE Starts \/ UNCHANGED vars
  <2>1. Same(d)
    BY <1>3 DEF Starts, Serve, RunOrThrow, AcceptFails, Same, sessionVars, vars
  <2> QED BY <1>1, <2>1, SameConn
<1> QED BY <1>2, <1>3, NextSplit

\* Starting keeps its order: no session runs before there is a handler.
LEMMA StartStep ==
    ASSUME IInv, [Next]_vars
    PROVE  NeverUnconfigured' /\ StartedWithHandler'
<1> USE DEF IInv, TypeOK, NeverUnconfigured, StartedWithHandler
<1>1. ASSUME NEW c \in Conns, Acts(c) PROVE NeverUnconfigured' /\ StartedWithHandler'
  <2>1. /\ phase' = phase /\ handlerSet' = handlerSet
        /\ \A d \in Conns : pc'[d] # "none" => pc[d] # "none" \/ phase = "accept"
    <3>1. CASE SessionStep(c)
      BY <3>1 DEF SessionStep, Read, ReadFails, HandlerReturns, HandlerThrows,
                  Write, WriteFails, Shutdown, Goto, serverVars
    <3>2. CASE ClientStep(c)
      BY <3>2 DEF ClientStep, Connect, Send, Leave, Goto, serverVars, sessionVars
    <3>3. CASE Accept(c)
      BY <3>3 DEF Accept, serverVars
    <3> QED BY <1>1, <3>1, <3>2, <3>3 DEF Acts
  <2> QED BY <2>1
<1>2. ASSUME NEW b \in BOOLEAN, Serve(b) PROVE NeverUnconfigured' /\ StartedWithHandler'
  BY <1>2 DEF Serve, sessionVars
<1>3. ASSUME NEW b \in BOOLEAN, RunOrThrow(b)
      PROVE  NeverUnconfigured' /\ StartedWithHandler'
  BY <1>3, RunOrThrowPhases DEF RunOrThrow, sessionVars
<1>4. CASE AcceptFails
  BY <1>4 DEF AcceptFails, sessionVars
<1>5. CASE UNCHANGED vars
  BY <1>5 DEF vars
<1> QED BY <1>1, <1>2, <1>3, <1>4, <1>5, NextSplit DEF Starts

\* Every step keeps the inductive invariant.
LEMMA StepIInv == IInv /\ [Next]_vars => IInv'
BY TypeStep, ConnStep, StartStep DEF IInv

\* The inductive invariant, for any connections and requests.
LEMMA Invariance == Spec => []IInv
BY InitIInv, StepIInv, PTL DEF Spec

\* Whatever the connections, the requests and the interleaving of the sessions,
\* every variable of beast_executor keeps its type.
THEOREM TypeCorrect == Spec => []TypeOK
<1>1. IInv => TypeOK
  BY DEF IInv
<1> QED BY Invariance, <1>1, PTL

\* session() calls the handler for one request of its connection at a time, in
\* order and without skipping one.
THEOREM Serial == Spec => []SerialPerConnection
<1>1. IInv => SerialPerConnection
  BY DEF IInv, ConnInv, SerialPerConnection
<1> QED BY Invariance, <1>1, PTL

\* After a response that closes the connection session() reads and writes nothing.
THEOREM SilentOnceClosed == Spec => []SilentAfterClose
<1>1. IInv => SilentAfterClose
  BY DEF IInv, ConnInv, SilentAfterClose
<1> QED BY Invariance, <1>1, PTL

\* The k-th answer on a connection is an answer to its k-th request.
THEOREM AnswersInOrder == Spec => []AnswersMatch
<1>1. IInv => AnswersMatch
  BY DEF IInv, ConnInv, AnswersMatch
<1> QED BY Invariance, <1>1, PTL

\* handle_request never takes its "no handler" branch.
THEOREM AlwaysConfigured == Spec => []NeverUnconfigured
<1>1. IInv => NeverUnconfigured
  BY DEF IInv
<1> QED BY Invariance, <1>1, PTL

-----------------------------------------------------------------------------
(* Refinement: Send is the client's Send, Write is Answer, and every other *)
(* step stutters.                                                          *)

\* The executor starts where the exchange it implements does.
LEMMA ExchangeInit == Init => Exchange!Init
BY DEF Init, Exchange!Init

\* Every step is one of the exchange, or one that it does not see.
LEMMA ExchangeStep ==
    ASSUME IInv, [Next]_vars
    PROVE  [Exchange!Next]_(Exchange!vars)
<1> USE DEF Exchange!vars
<1>1. ASSUME NEW c \in Conns, Send(c) PROVE Exchange!Next
  BY <1>1 DEF Send, sessionVars, Exchange!Next, Exchange!Send
<1>2. ASSUME NEW c \in Conns, Write(c) PROVE Exchange!Next
  <2>1. /\ consumed[c] = Len(answers[c]) + 1
        /\ consumed[c] <= Len(requests[c])
        /\ Silent(c)
        /\ response[c] \in Possible(requests[c][Len(answers[c]) + 1])
        /\ Len(answers[c]) \in Nat /\ Len(requests[c]) \in Nat
    BY <1>2 DEF Write, Goto, IInv, TypeOK, ConnInv, OneInFlight, Writing, Current
  <2>2. \A k \in 1..Len(answers[c]) : answers[c][k].keepAlive
    BY <1>2, <2>1 DEF Silent, Write, Goto
  <2>3. Len(answers[c]) < Len(requests[c])
    BY <2>1
  <2>4. /\ answers' = [answers EXCEPT ![c] = Append(@, response[c])]
        /\ requests' = requests
    BY <1>2 DEF Write
  <2>5. Exchange!Answer(c)
    BY <2>1, <2>2, <2>3, <2>4 DEF Exchange!Answer, Exchange!Usable
  <2> QED BY <2>5 DEF Exchange!Next
<1>3. ASSUME NEW c \in Conns, Acts(c), ~Send(c), ~Write(c)
      PROVE  UNCHANGED <<requests, answers>>
  BY <1>3 DEF Acts, SessionStep, ClientStep, Read, ReadFails, HandlerReturns,
              HandlerThrows, WriteFails, Shutdown, Connect, Leave, Accept, sessionVars
<1>4. CASE Starts \/ UNCHANGED vars
  BY <1>4 DEF Starts, Serve, RunOrThrow, AcceptFails, sessionVars, vars
<1> QED BY <1>1, <1>2, <1>3, <1>4, NextSplit

\* beast_executor implements the exchange every client relies on: one answer for
\* each request, in order, and none after the one that closes the connection.
THEOREM Implements == Spec => ImplementsExchange
BY Invariance, ExchangeInit, ExchangeStep, PTL DEF Spec, ImplementsExchange, Exchange!Spec

-----------------------------------------------------------------------------
(* How long a session takes. *)

\* The steps of a session from a place in its loop, if it reads nothing more.
ToGo(c) ==
    CASE pc[c] = "none" -> 4 [] pc[c] = "backlog" -> 3 [] pc[c] = "reading" -> 2
      [] pc[c] = "handling" -> 4 [] pc[c] = "writing" -> 3
      [] pc[c] = "closing" -> 1 [] pc[c] = "done" -> 0

\* Three more for each request it has not read: reading, the handler and the answer.
StepsToGo(c) == 3 * (Len(requests[c]) - consumed[c]) + ToGo(c)

\* The connection comes up or its session goes on.
Advances(c) == Connect(c) \/ Accept(c) \/ SessionStep(c)

\* What a step does to it: only a request that arrives makes it more.
Shorter(c) ==
    /\ Advances(c) => StepsToGo(c)' < StepsToGo(c)
    /\ Send(c) => StepsToGo(c)' = StepsToGo(c) + 3
    /\ ~Advances(c) /\ ~Send(c) => StepsToGo(c)' = StepsToGo(c)
    /\ client[c] # "open" => StepsToGo(c)' <= StepsToGo(c)

SessionsShrink == [][\A c \in Conns : Shorter(c)]_vars

LEMMA ToGoIs ==
    ASSUME TypeOK, NEW c \in Conns, ConnInv(c)
    PROVE  /\ ToGo(c) \in 0 .. 4
           /\ Len(requests[c]) - consumed[c] \in Nat
           /\ StepsToGo(c) \in Nat
<1>1. ToGo(c) \in 0 .. 4
  BY DEF TypeOK, ToGo
<1>2. Len(requests[c]) \in Nat /\ consumed[c] \in Nat /\ consumed[c] <= Len(requests[c])
  BY DEF TypeOK, ConnInv, OneInFlight
<1> QED
  BY <1>1, <1>2 DEF StepsToGo

\* Each step of its own is one less.
LEMMA OwnShrinks ==
    ASSUME TypeOK, NEW c \in Conns, ConnInv(c), Advances(c)
    PROVE  StepsToGo(c)' \in Nat /\ StepsToGo(c)' < StepsToGo(c)
<1> DEFINE n == Len(requests[c]) - consumed[c]
           same == requests' = requests /\ consumed' = consumed
<1>1. n \in Nat /\ StepsToGo(c) = 3 * n + ToGo(c)
  BY ToGoIs DEF StepsToGo
<1>2. same => StepsToGo(c)' = 3 * n + ToGo(c)'
  BY DEF StepsToGo
<1>3. CASE Read(c)
  <2>1. /\ pc[c] = "reading" /\ pc'[c] = "handling"
        /\ consumed'[c] = consumed[c] + 1 /\ requests' = requests
    BY <1>3 DEF Read, Goto, TypeOK
  <2>2. ToGo(c) = 2 /\ ToGo(c)' = 4
    BY <2>1 DEF ToGo
  <2>3. Len(requests'[c]) - consumed'[c] = n - 1 /\ n - 1 \in Nat
    BY <1>3, <2>1 DEF Read, Pending, TypeOK
  <2>4. StepsToGo(c)' = 3 * (n - 1) + 4
    BY <2>2, <2>3 DEF StepsToGo
  <2> HIDE DEF n
  <2> QED
    BY <1>1, <2>2, <2>3, <2>4
<1>4. ASSUME same, ToGo(c) \in Nat, ToGo(c)' \in Nat, ToGo(c)' < ToGo(c)
      PROVE  StepsToGo(c)' \in Nat /\ StepsToGo(c)' < StepsToGo(c)
  <2> HIDE DEF n
  <2>1. StepsToGo(c)' = 3 * n + ToGo(c)'
    BY <1>2, <1>4
  <2>2. \A i, x, y \in Nat : y < x => 3 * i + y < 3 * i + x
    OBVIOUS
  <2> QED
    BY <1>1, <1>4, <2>1, <2>2
<1>5. CASE ReadFails(c)
  BY <1>4, <1>5 DEF ReadFails, Goto, ToGo, TypeOK
<1>6. CASE HandlerReturns(c)
  BY <1>4, <1>6 DEF HandlerReturns, Goto, ToGo, TypeOK
<1>7. CASE HandlerThrows(c)
  BY <1>4, <1>7 DEF HandlerThrows, Goto, ToGo, TypeOK
<1>8. CASE Write(c)
  BY <1>4, <1>8 DEF Write, Goto, ToGo, TypeOK
<1>9. CASE WriteFails(c)
  BY <1>4, <1>9 DEF WriteFails, Goto, ToGo, TypeOK
<1>10. CASE Shutdown(c)
  BY <1>4, <1>10 DEF Shutdown, Goto, ToGo, TypeOK
<1>11. CASE Accept(c)
  BY <1>4, <1>11 DEF Accept, ToGo, TypeOK
<1>12. CASE Connect(c)
  BY <1>4, <1>12 DEF Connect, Goto, ToGo, TypeOK
<1> QED
  BY <1>3, <1>5, <1>6, <1>7, <1>8, <1>9, <1>10, <1>11, <1>12 DEF Advances, SessionStep

\* A request that arrives is three more.
LEMMA SendAdds ==
    ASSUME TypeOK, NEW c \in Conns, ConnInv(c), Send(c)
    PROVE  StepsToGo(c)' = StepsToGo(c) + 3
<1>1. PICK r \in Requests : requests' = [requests EXCEPT ![c] = Append(@, r)]
  BY DEF Send
<1>2. Len(requests'[c]) = Len(requests[c]) + 1 /\ pc' = pc /\ consumed' = consumed
  BY <1>1 DEF Send, sessionVars, TypeOK
<1>3. ToGo(c)' = ToGo(c)
  BY <1>2 DEF ToGo
<1>4. Len(requests[c]) \in Nat /\ consumed[c] \in Nat
  BY DEF TypeOK
<1>5. ToGo(c) \in Nat
  BY ToGoIs
<1>6. StepsToGo(c)' = 3 * (Len(requests[c]) + 1 - consumed[c]) + ToGo(c)
  <2>1. Len(requests'[c]) - consumed'[c] = Len(requests[c]) + 1 - consumed[c]
    BY <1>2, <1>4
  <2> QED
    BY <1>3, <2>1 DEF StepsToGo
<1> QED
  BY <1>4, <1>5, <1>6 DEF StepsToGo

\* Any other step leaves it as it is.
LEMMA OthersKeep ==
    ASSUME TypeOK, NEW c \in Conns, Next, ~Advances(c), ~Send(c)
    PROVE  StepsToGo(c)' = StepsToGo(c)
<1>1. SUFFICES pc'[c] = pc[c] /\ requests'[c] = requests[c] /\ consumed'[c] = consumed[c]
  BY DEF StepsToGo, ToGo
<1>2. CASE Starts
  BY <1>2 DEF Starts, Serve, RunOrThrow, AcceptFails, sessionVars
<1>3. CASE Leave(c)
  BY <1>3 DEF Leave, sessionVars
<1>4. ASSUME NEW d \in Conns, Acts(d), d # c PROVE Same(c)
  BY <1>4, OthersSame DEF Acts
<1> QED
  BY <1>2, <1>3, <1>4, NextSplit DEF Acts, Advances, ClientStep, Same

\* Each step of a connection's session brings it nearer to its end, no step of
\* another connection, of the acceptor or of serve() takes it back, and what its
\* client sends adds three steps a request: a client that has gone leaves a session
\* that has so many steps left and no way to get more (session's for (;;)).
THEOREM SessionIsBounded ==
    Spec => [](\A c \in Conns : StepsToGo(c) \in Nat) /\ SessionsShrink
<1>1. IInv => \A c \in Conns : StepsToGo(c) \in Nat
  BY ToGoIs DEF IInv
<1>2. IInv /\ [Next]_vars => [\A c \in Conns : Shorter(c)]_vars
  <2> SUFFICES ASSUME IInv, Next, NEW c \in Conns PROVE Shorter(c)
    OBVIOUS
  <2>1. TypeOK /\ ConnInv(c)
    BY DEF IInv
  <2>2. StepsToGo(c) \in Nat
    BY <1>1
  <2>3. Advances(c) => StepsToGo(c)' < StepsToGo(c)
    BY <2>1, OwnShrinks
  <2>4. Send(c) => StepsToGo(c)' = StepsToGo(c) + 3
    BY <2>1, SendAdds
  <2>5. ~Advances(c) /\ ~Send(c) => StepsToGo(c)' = StepsToGo(c)
    BY <2>1, OthersKeep
  <2>6. client[c] # "open" => StepsToGo(c)' <= StepsToGo(c)
    <3>1. CASE Advances(c)
      <4>1. StepsToGo(c)' \in Nat
        BY <2>1, <3>1, OwnShrinks
      <4> QED
        BY <2>2, <2>3, <3>1, <4>1
    <3>2. CASE Send(c)
      BY <3>2 DEF Send
    <3>3. CASE ~Advances(c) /\ ~Send(c)
      BY <2>2, <2>5, <3>3
    <3> QED
      BY <3>1, <3>2, <3>3
  <2> QED
    BY <2>3, <2>4, <2>5, <2>6 DEF Shorter
<1> QED
  BY <1>1, <1>2, Invariance, PTL DEF Spec, SessionsShrink
=============================================================================
