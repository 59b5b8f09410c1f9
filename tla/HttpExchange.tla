---------------------------- MODULE HttpExchange ----------------------------
(***************************************************************************)
(* What an HTTP server owes each of its connections, without sockets,      *)
(* coroutines or an accept loop: it answers the requests of a connection   *)
(* in the order they were sent, one answer for each, every answer being    *)
(* one the handler may give to that request or the failure answer, and it  *)
(* says nothing more after an answer that closes the connection.           *)
(*                                                                         *)
(* BeastExecutor implements this specification.                            *)
(***************************************************************************)
EXTENDS Naturals, Sequences

CONSTANTS
    Conns,          \* the connections
    Requests,       \* what a client may send
    Possible(_)     \* Possible(r): the answers request r may get

VARIABLES
    requests,       \* requests[c]: what the client of c has sent, in order
    answers         \* answers[c]: what the server has answered on c, in order

vars == <<requests, answers>>

Init ==
    /\ requests = [c \in Conns |-> << >>]
    /\ answers  = [c \in Conns |-> << >>]

Send(c) ==
    /\ \E r \in Requests : requests' = [requests EXCEPT ![c] = Append(@, r)]
    /\ UNCHANGED answers

\* The connection is still usable: no answer so far has closed it.
Usable(c) == \A k \in 1..Len(answers[c]) : answers[c][k].keepAlive

Answer(c) ==
    /\ Usable(c)
    /\ Len(answers[c]) < Len(requests[c])
    /\ \E a \in Possible(requests[c][Len(answers[c]) + 1]) :
           answers' = [answers EXCEPT ![c] = Append(@, a)]
    /\ UNCHANGED requests

Next == \E c \in Conns : Send(c) \/ Answer(c)

Spec == Init /\ [][Next]_vars
=============================================================================
