-------------------------------- MODULE Onion -------------------------------
(***************************************************************************)
(* What composing middlewares promises: to a request the application is    *)
(* one list of layers, however it was put together.  A request goes down   *)
(* the list one layer at a time; the layer it has reached may pass it on,  *)
(* answer, or fail; an answer or a failure goes back up through exactly    *)
(* the layers that were passed, each of which may look again.              *)
(*                                                                         *)
(* Dispatch implements this specification.                                 *)
(***************************************************************************)
EXTENDS Naturals, Sequences

CONSTANTS
    Requests,       \* the requests
    Middlewares     \* what a layer may be

VARIABLES
    layers,         \* the layers of the application, outermost first
    passed,         \* passed[r]: the layers request r is inside of
    mode            \* mode[r]: what is happening at the innermost of them

vars == <<layers, passed, mode>>

\* "down": handed on to the next layer.  "at": inside a layer.  "up", "fail":
\* an answer or an exception on its way out.
Modes == {"idle", "down", "at", "up", "fail", "done"}

Init ==
    /\ layers = << >>
    /\ passed = [r \in Requests |-> << >>]
    /\ mode = [r \in Requests |-> "idle"]

\* Layers are put together before the first request.
Configure ==
    /\ \A r \in Requests : mode[r] = "idle"
    /\ layers' \in Seq(Middlewares)
    /\ UNCHANGED <<passed, mode>>

Switch(r, from, to) == mode[r] = from /\ mode' = [mode EXCEPT ![r] = to]

Arrive(r) == Switch(r, "idle", "down") /\ UNCHANGED <<layers, passed>>

\* The next layer, never another one, gets the request.
Descend(r) ==
    /\ Switch(r, "down", "at")
    /\ Len(passed[r]) < Len(layers)
    /\ passed' = [passed EXCEPT ![r] = Append(@, layers[Len(@) + 1])]
    /\ UNCHANGED layers

\* Past the last layer there is the empty answer.
Bottom(r) ==
    /\ Switch(r, "down", "up")
    /\ Len(passed[r]) = Len(layers)
    /\ UNCHANGED <<layers, passed>>

PassOn(r) == Switch(r, "at", "down") /\ UNCHANGED <<layers, passed>>

\* A layer answers, or fails, and is left.
Leave(r, how) ==
    /\ Switch(r, "at", how)
    /\ passed' = [passed EXCEPT ![r] = SubSeq(@, 1, Len(@) - 1)]
    /\ UNCHANGED layers

\* The layer above gets the answer, or catches the exception.
Resume(r) ==
    /\ passed[r] # << >>
    /\ Switch(r, "up", "at") \/ Switch(r, "fail", "at")
    /\ UNCHANGED <<layers, passed>>

\* It does not catch it.
Propagate(r) ==
    /\ Switch(r, "fail", "fail")
    /\ passed[r] # << >>
    /\ passed' = [passed EXCEPT ![r] = SubSeq(@, 1, Len(@) - 1)]
    /\ UNCHANGED layers

Finish(r) ==
    /\ passed[r] = << >>
    /\ Switch(r, "up", "done") \/ Switch(r, "fail", "done")
    /\ UNCHANGED <<layers, passed>>

Next ==
    \/ Configure
    \/ \E r \in Requests :
          \/ Arrive(r) \/ Descend(r) \/ Bottom(r) \/ PassOn(r)
          \/ Leave(r, "up") \/ Leave(r, "fail")
          \/ Resume(r) \/ Propagate(r) \/ Finish(r)

Spec == Init /\ [][Next]_vars
=============================================================================
