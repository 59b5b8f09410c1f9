------------------------------ MODULE Dispatch ------------------------------
(***************************************************************************)
(* echo::handler (src/handler.cpp): a chain of middlewares and a fallback, *)
(* handlers composed into handlers, and the recursion of coroutines        *)
(* through which dispatch() takes a request along.                         *)
(*                                                                         *)
(* A next function is dispatch() with its arguments bound: a state, an     *)
(* index, and the tail it was given, which is again a next function.  It   *)
(* is therefore a sequence of positions <<handler, index>>, innermost      *)
(* first, and the empty sequence is the absent one.                        *)
(*                                                                         *)
(* A middleware may await its next function any number of times, answer,   *)
(* throw, or catch what its next function throws.  The chains are shared   *)
(* by the requests in flight; they are put together before the first one.  *)
(***************************************************************************)
EXTENDS Naturals, Sequences, SequencesExt

CONSTANTS
    Handlers,       \* the handler objects
    Root,           \* the one requests enter by
    MayContain,     \* pairs <<h, g>>: g may be composed into h (no cycle)
    Middlewares,    \* handler functions and layers
    Null,           \* an empty std::function
    Requests,       \* the requests
    MaxChain,       \* bound: MaxChain[h], length of the chain of h
    MaxCalls        \* bound: times one middleware awaits its next function

ASSUME HandlersAssumption ==
    /\ Root \in Handlers
    /\ MayContain \subseteq Handlers \X Handlers
    /\ Null \notin Middlewares \cup Handlers
    /\ Middlewares \cap Handlers = {}
    /\ MaxChain \in [Handlers -> Nat]

\* Handlers are composed without a cycle: dispatch() would recurse for ever.
NoCycle(pairs) ==
    \A S \in SUBSET Handlers :
        S # {} => \E h \in S : \A g \in S : <<h, g>> \notin pairs

ASSUME NoCycleAssumption == NoCycle(MayContain)

Entries == Middlewares \cup Handlers \cup {Null}

VARIABLES
    chain,          \* chain[h]: state::chain
    fallback,       \* fallback[h]: state::fallback_
    stack,          \* stack[r]: the middlewares awaiting or running, outermost first
    mode,           \* mode[r]: what the innermost coroutine of r does
    next            \* next[r]: the next function being called, while it is

vars == <<chain, fallback, stack, mode, next>>

NoNext == << >>

-----------------------------------------------------------------------------
(* Building. *)

Init ==
    /\ chain = [h \in Handlers |-> << >>]
    /\ fallback = [h \in Handlers |-> Null]
    /\ stack = [r \in Requests |-> << >>]
    /\ mode = [r \in Requests |-> "idle"]
    /\ next = [r \in Requests |-> NoNext]

Building == \A r \in Requests : mode[r] = "idle"

\* The three overloads of use(): a composed handler is captured by reference.
Use(h, e) ==
    /\ Building
    /\ Len(chain[h]) < MaxChain[h]
    /\ e \in Handlers => <<h, e>> \in MayContain
    /\ chain' = [chain EXCEPT ![h] = Append(@, e)]
    /\ UNCHANGED <<fallback, stack, mode, next>>

SetFallback(h, m) ==
    /\ Building
    /\ fallback' = [fallback EXCEPT ![h] = m]
    /\ UNCHANGED <<chain, stack, mode, next>>

-----------------------------------------------------------------------------
(* Dispatching. *)

\* The next function is called, or handle() starts the chain.
Call(r, k) ==
    /\ mode' = [mode EXCEPT ![r] = "down"]
    /\ next' = [next EXCEPT ![r] = k]

\* A middleware starts, with k to go on with.
Enter(r, m, k) ==
    /\ stack' = [stack EXCEPT ![r] = Append(@, [mw |-> m, next |-> k, calls |-> 0])]
    /\ mode' = [mode EXCEPT ![r] = "at"]
    /\ next' = [next EXCEPT ![r] = NoNext]

\* handler::handle: dispatch(state_, req, 0, nullopt)
Handle(r) ==
    /\ mode[r] = "idle"
    /\ Call(r, << <<Root, 1>> >>)
    /\ UNCHANGED <<chain, fallback, stack>>

\* Mutant: at the end of a composed handler's chain it forgets the tail.
RestTailless(h, i, tail) == IF i = Len(chain[h]) THEN << <<h, i + 1>> >> ELSE << <<h, i + 1>> >> \o tail

\* rest: what entry i of h goes on with.
Rest(h, i, tail) == << <<h, i + 1>> >> \o tail

\* Mutant: a composed handler is not given the rest of the chain.
ComposedAlone(g, rest) == << <<g, 1>> >>

\* A composed handler is dispatched from its start, with the rest as its tail.
Composed(g, rest) == << <<g, 1>> >> \o rest

\* dispatch(h, req, i, tail)
Dispatch(r) ==
    /\ mode[r] = "down"
    /\ next[r] # NoNext
    /\ LET h    == Head(next[r])[1]
           i    == Head(next[r])[2]
           tail == Tail(next[r])
           rest == Rest(h, i, tail)
       IN  \/ \* the chain is exhausted: the fallback, or else the tail
              /\ i > Len(chain[h])
              /\ IF fallback[h] # Null
                 THEN Enter(r, fallback[h], tail)
                 ELSE Call(r, tail) /\ UNCHANGED stack
           \/ /\ i <= Len(chain[h])
              /\ \/ chain[h][i] = Null /\ Call(r, rest) /\ UNCHANGED stack
                 \/ /\ chain[h][i] \in Handlers
                    /\ Call(r, Composed(chain[h][i], rest))
                    /\ UNCHANGED stack
                 \/ chain[h][i] \in Middlewares /\ Enter(r, chain[h][i], rest)
    /\ UNCHANGED <<chain, fallback>>

\* Neither fallback nor tail: co_return response().
DefaultResponse(r) ==
    /\ mode[r] = "down"
    /\ next[r] = NoNext
    /\ mode' = [mode EXCEPT ![r] = "up"]
    /\ UNCHANGED <<chain, fallback, stack, next>>

-----------------------------------------------------------------------------
(* The middlewares. *)

Running(r) == mode[r] = "at"

\* Inside a request there always is a running or awaiting middleware.
Innermost(r) == Last(stack[r])

\* co_await next(req), possible if there is a next function
AwaitNext(r) ==
    /\ Running(r)
    /\ Innermost(r).next # NoNext
    /\ Innermost(r).calls < MaxCalls
    /\ stack' = [stack EXCEPT ![r][Len(stack[r])].calls = @ + 1]
    /\ Call(r, Innermost(r).next)
    /\ UNCHANGED <<chain, fallback>>

\* The middleware returns a response, or throws.
Leave(r, how) ==
    /\ Running(r)
    /\ stack' = [stack EXCEPT ![r] = Front(@)]
    /\ mode' = [mode EXCEPT ![r] = how]
    /\ UNCHANGED <<chain, fallback, next>>

\* The awaiting middleware gets the response, or catches the exception.
Resume(r) ==
    /\ mode[r] \in {"up", "fail"}
    /\ stack[r] # << >>
    /\ mode' = [mode EXCEPT ![r] = "at"]
    /\ UNCHANGED <<chain, fallback, stack, next>>

\* It has no handler for the exception.
Propagate(r) ==
    /\ mode[r] = "fail"
    /\ stack[r] # << >>
    /\ stack' = [stack EXCEPT ![r] = Front(@)]
    /\ UNCHANGED <<chain, fallback, mode, next>>

\* Mutant: an exception no middleware catches does not reach the session.
FinishAnswered(r) ==
    /\ mode[r] = "up"
    /\ stack[r] = << >>
    /\ mode' = [mode EXCEPT ![r] = "done"]
    /\ UNCHANGED <<chain, fallback, stack, next>>

\* handle() returns, or throws, to the session.
Finish(r) ==
    /\ mode[r] \in {"up", "fail"}
    /\ stack[r] = << >>
    /\ mode' = [mode EXCEPT ![r] = "done"]
    /\ UNCHANGED <<chain, fallback, stack, next>>

-----------------------------------------------------------------------------

Build == \E h \in Handlers :
            \/ \E e \in Entries : Use(h, e)
            \/ \E m \in Middlewares \cup {Null} : SetFallback(h, m)

Step(r) ==
    \/ Handle(r) \/ Dispatch(r) \/ DefaultResponse(r)
    \/ AwaitNext(r) \/ Leave(r, "up") \/ Leave(r, "fail")
    \/ Resume(r) \/ Propagate(r) \/ Finish(r)

Next == Build \/ \E r \in Requests : Step(r)

Spec == Init /\ [][Next]_vars

\* Coroutines go on, and no middleware waits or loops for ever.
FairSpec == Spec /\ \A r \in Requests : WF_vars(mode[r] # "idle" /\ Step(r))

-----------------------------------------------------------------------------
(* Properties. *)

\* The layers of an application, read off its chains c and fallbacks f: those of a
\* handler are its chain with every composed handler in its place, and its fallback
\* as the last one.
Expanded(e, of) == IF e = Null THEN << >> ELSE IF e \in Handlers THEN of[e] ELSE <<e>>

LastLayer(f, h) == IF f[h] = Null THEN << >> ELSE <<f[h]>>

LayersIn(c, f) ==
    LET of[h \in Handlers] ==
            FlattenSeq([i \in 1..Len(c[h]) |-> Expanded(c[h][i], of)]) \o LastLayer(f, h)
    IN  of

Layers == LayersIn(chain, fallback)[Root]

\* The layers a next function leads to: those from each of its positions on.
LayersFrom(c, f, p) ==
    FlattenSeq([j \in 1..(Len(c[p[1]]) + 1 - p[2]) |->
                   Expanded(c[p[1]][p[2] + j - 1], LayersIn(c, f))]) \o LastLayer(f, p[1])

LayersAhead(c, f, k) == FlattenSeq([j \in 1..Len(k) |-> LayersFrom(c, f, k[j])])

Ahead(k) == LayersAhead(chain, fallback, k)

Passed(r) == [j \in 1..Len(stack[r]) |-> stack[r][j].mw]

\* Whatever a middleware calls, returns, throws or catches, it and those around
\* it are the first layers of the application, and its next function leads to
\* exactly the layers after it: none is skipped, repeated or reordered, and a
\* composed handler's fallback comes before the layers outside.
NextIsTheRest ==
    \A r \in Requests :
        /\ \A j \in 1..Len(stack[r]) :
              SubSeq(Passed(r), 1, j) \o Ahead(stack[r][j].next) = Layers
        /\ mode[r] = "down" => Passed(r) \o Ahead(next[r]) = Layers

\* Every request ends, if every middleware does.
Ends == \A r \in Requests : mode[r] # "idle" ~> mode[r] = "done"

\* A chain of handlers is the list of its layers.
Abstract == INSTANCE Onion WITH
    layers <- Layers,
    passed <- [r \in Requests |-> Passed(r)]
ImplementsOnion == Abstract!Spec
=============================================================================
