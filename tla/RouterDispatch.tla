--------------------------- MODULE RouterDispatch ---------------------------
(***************************************************************************)
(* One request on its way through nested routers (src/middlewares/         *)
(* router.cpp): router::handle, route_tail_for and mounted_child::handle,  *)
(* with the request context they share: the mount prefix in force and the  *)
(* parameters of the matched route, set on the way in and restored on      *)
(* every way out.                                                          *)
(*                                                                         *)
(* As in Dispatch, a next function is the sequence of what it leads to.    *)
(* Its elements are a position in the pipeline of a router, the routes of  *)
(* a router behind that pipeline, and the return into the parent of a      *)
(* mounted router, which puts the parent's prefix back first.              *)
(***************************************************************************)
EXTENDS RouterPaths

CONSTANTS
    Routers,        \* the router objects
    Root,           \* the one the application uses
    Methods,        \* what requests have for a method
    Upper(_),       \* Upper(m): the same in capitals
    MethodOrder,    \* method_order: the methods routes can have, as Allow lists them
    Paths,          \* request paths
    Rewrites,       \* what a middleware may change the path to
    OwnParams,      \* what it may put under "params" itself
    Tables,         \* what the routers may be configured to (see TablesAssumption)
    MaxCalls,       \* bound: times one middleware awaits its next function
    None            \* no such entry in the context, no answer yet

\* A table gives each router its pipeline of middlewares and mounts, its static
\* and dynamic routes with the methods of each, and whether it has a fallback.
\* A static path or a pattern occurs once, as in routes and dynamic_routes.
Middleware == [kind |-> "mw"]
Mount(prefix, child) == [kind |-> "mount", prefix |-> prefix, child |-> child]

Entries == {Middleware} \cup [kind : {"mount"}, prefix : Seq(Segments), child : Routers]
Routes == [path : Seq(Segments \cup Params), methods : SUBSET ToSet(MethodOrder)]

ASSUME TablesAssumption ==
    \A t \in Tables : \A r \in Routers :
        /\ t[r].pipeline \in Seq(Entries)
        /\ t[r].static \subseteq Routes /\ \A s \in t[r].static : ~IsDynamic(s.path)
        /\ \A s1, s2 \in t[r].static : s1.path = s2.path => s1 = s2
        /\ t[r].dynamic \in Seq(Routes) /\ \A d \in ToSet(t[r].dynamic) : IsDynamic(d.path)
        /\ t[r].fallback \in BOOLEAN

\* Routers mounted under "/" are mounted without a cycle: no request would get
\* through it.  Under other prefixes there may be one, each round takes segments
\* of the path.
ASSUME MountsAssumption ==
    \A t \in Tables : \A S \in SUBSET Routers : S # {} =>
        \E r \in S : \A q \in S : Mount(<< >>, q) \notin ToSet(t[r].pipeline)

ASSUME MethodOrderAssumption == MethodOrder \in Seq(ToSet(MethodOrder))

ASSUME RootAssumption == Root \in Routers

ASSUME PathsAssumption == Paths \subseteq Seq(Segments)

ASSUME BoundAssumption == MaxCalls \in Nat

ASSUME RewritesAssumption == Rewrites \subseteq Seq(Segments)

ASSUME NoneAssumption == None \notin Seq(Segments)

VARIABLES
    table,          \* the configuration
    path, method,   \* req->path, req->method
    touched,        \* history: what a middleware has changed: the path, "params", nothing
    hasOuter,       \* the application goes on behind the root router
    prefix,         \* context["__echo.router.prefix"]
    params,         \* context["params"]
    stack,          \* the coroutines that are awaiting or running, outermost first
    mode,           \* what the innermost one does
    next,           \* the next function being called, while it is
    answer          \* how the request was answered last

config == <<table, path, touched, method, hasOuter>>
context == <<prefix, params>>
vars == <<config, context, stack, mode, next, answer>>

NoNext == << >>

-----------------------------------------------------------------------------
(* Elements of next functions. *)

Chain(r, i)   == [kind |-> "chain", router |-> r, index |-> i]
RouteTail(r, p) == [kind |-> "routes", router |-> r, prefix |-> p]
ChildNext(saved) == [kind |-> "back", saved |-> saved]
Outer == [kind |-> "outer"]

Pipeline(r) == table[r].pipeline
HasFallback(r) == table[r].fallback

\* parse_method: none for what is not a method of routes.
ParseMethod(m) == {Upper(m)} \cap ToSet(MethodOrder)

\* allow_header_value
AllowHeaderValue(bucket) ==
    FoldLeft(LAMBDA allow, m : IF m \in bucket.methods THEN Append(allow, m) ELSE allow,
             << >>, MethodOrder)

\* current_prefix
CurrentPrefix == IF prefix = None THEN << >> ELSE prefix

\* router::handle behind its prefix check: the pipeline, then the routes.
RouterHandle(r, p, k) == <<Chain(r, 1), RouteTail(r, p)>> \o k

\* The most specific dynamic route for a relative path, if any.
FindDynamic(r, rel) ==
    LET dynamic == table[r].dynamic
        best    == BestDynamic([i \in DOMAIN dynamic |-> dynamic[i].path], rel)
    IN  IF best # 0 THEN {dynamic[best]} ELSE {}

\* The bucket for it: a static route first, a dynamic route otherwise, or none.
FindBucket(r, rel) ==
    LET static == {s \in table[r].static : s.path = rel}
    IN  IF static # {} THEN static ELSE FindDynamic(r, rel)

-----------------------------------------------------------------------------
(* Steps of the coroutines. *)

Init ==
    /\ table \in Tables
    /\ path \in Paths
    /\ touched = "nothing"
    /\ method \in Methods
    /\ hasOuter \in BOOLEAN
    /\ prefix = None
    /\ params = None
    /\ stack = << >>
    /\ mode = "idle"
    /\ next = NoNext
    /\ answer = None

Call(k) == mode' = "down" /\ next' = k

Respond(a) == mode' = "up" /\ next' = NoNext /\ answer' = a

Push(frame) == stack' = Append(stack, frame) /\ mode' = "at" /\ next' = NoNext

\* router::handle of the root, called by the application.
Handle ==
    /\ mode = "idle"
    /\ Call(RouterHandle(Root, CurrentPrefix, IF hasOuter THEN <<Outer>> ELSE NoNext))
    /\ UNCHANGED <<config, context, stack, answer>>

\* handler::dispatch on a pipeline, for a middleware or past the end.
DispatchPipeline ==
    /\ mode = "down" /\ next # NoNext
    /\ LET c == Head(next)
       IN  /\ c.kind = "chain"
           /\ \/ c.index > Len(Pipeline(c.router)) /\ Call(Tail(next)) /\ UNCHANGED stack
              \/ /\ c.index <= Len(Pipeline(c.router))
                 /\ Pipeline(c.router)[c.index] = Middleware
                 /\ Push([kind |-> "mw", calls |-> 0,
                          next |-> <<Chain(c.router, c.index + 1)>> \o Tail(next)])
    /\ UNCHANGED <<config, context, answer>>

\* mounted_child::handle: on to the next entry, or into the child under the
\* joined prefix.  Its coroutine stays to restore the prefix.
DispatchMount ==
    /\ mode = "down" /\ next # NoNext
    /\ LET c    == Head(next)
           m    == Pipeline(c.router)[c.index]
           rest == <<Chain(c.router, c.index + 1)>> \o Tail(next)
           effective == JoinPrefix(CurrentPrefix, m.prefix)
       IN  /\ c.kind = "chain"
           /\ c.index <= Len(Pipeline(c.router))
           /\ m.kind = "mount"
           /\ IF MatchesPrefix(path, effective)
              THEN /\ prefix' = effective
                   /\ stack' = Append(stack, [kind |-> "mount", saved |-> prefix])
                   /\ Call(RouterHandle(m.child, effective, <<ChildNext(prefix)>> \o rest))
              ELSE /\ Call(rest)
                   /\ UNCHANGED <<prefix, stack>>
    /\ UNCHANGED <<config, params, answer>>

\* Mutant: the parent goes on under the child's prefix.
LeaveChildUnrestored ==
    /\ mode = "down" /\ next # NoNext
    /\ Head(next).kind = "back"
    /\ Call(Tail(next))
    /\ UNCHANGED <<config, context, stack, answer>>

\* child_next: apply_saved_prefix, then the parent's next.
LeaveChild ==
    /\ mode = "down" /\ next # NoNext
    /\ Head(next).kind = "back"
    /\ prefix' = Head(next).saved
    /\ Call(Tail(next))
    /\ UNCHANGED <<config, params, stack, answer>>

\* substr starts behind the end: a path with fewer characters than the prefix of
\* the mount it came through.
OutOfRange(at) == ~MatchesPrefix(path, at) /\ Length(path) < Length(at)

\* The bucket of the path behind the prefix.  Of another path of the same length
\* nothing is left, and "" is the path of no route; what is cut off in a segment
\* begins without a slash, which no static path does.
Bucket(r, at) ==
    LET rel == RelativePath(path, at)
    IN  IF MatchesPrefix(path, at) THEN FindBucket(r, rel)
        ELSE IF Length(path) = Length(at) THEN {}
        ELSE IF Into(path, Length(at)) = 0 THEN FindBucket(r, rel)
        ELSE FindDynamic(r, rel)

\* route_tail_for: find the bucket of the path, and in it the endpoint.
DispatchRoute ==
    /\ mode = "down" /\ next # NoNext
    /\ Head(next).kind = "routes"
    /\ LET r      == Head(next).router
           at     == Head(next).prefix
           bucket == IF OutOfRange(at) THEN {} ELSE Bucket(r, at)
       IN  \/ \* std::out_of_range
              /\ OutOfRange(at)
              /\ mode' = "fail" /\ next' = NoNext
              /\ UNCHANGED <<stack, params, answer>>
           \/ \* no bucket: the fallback, the outer next, or 404
              /\ ~OutOfRange(at) /\ bucket = {}
              /\ IF HasFallback(r)
                 THEN /\ Push([kind |-> "fallback", calls |-> 0, next |-> Tail(next)])
                      /\ answer' = [by |-> "fallback", router |-> r]
                 ELSE IF Tail(next) # NoNext
                      THEN Call(Tail(next)) /\ UNCHANGED <<stack, answer>>
                      ELSE Respond([by |-> "404"]) /\ UNCHANGED stack
              /\ UNCHANGED params
           \/ \* 405 with the methods of the bucket
              \E b \in bucket :
                 /\ ParseMethod(method) \cap b.methods = {}
                 /\ Respond([by |-> "405", router |-> r, path |-> b.path,
                             allow |-> AllowHeaderValue(b)])
                 /\ UNCHANGED <<stack, params>>
           \/ \* the endpoint; a dynamic one sees its parameters
              \E b \in bucket :
                 /\ ParseMethod(method) \cap b.methods # {}
                 /\ Push([kind |-> "endpoint", saved |-> params])
                 /\ answer' = [by |-> "endpoint", router |-> r, path |-> b.path]
                 /\ params' = IF IsDynamic(b.path)
                             THEN Bindings(b.path, RelativePath(path, at)) ELSE params
    /\ UNCHANGED <<config, prefix>>

\* The next function of the application behind the root router.
DispatchOuter ==
    /\ mode = "down" /\ next # NoNext
    /\ Head(next).kind = "outer"
    /\ Respond([by |-> "outer"])
    /\ UNCHANGED <<config, context, stack>>

-----------------------------------------------------------------------------
(* Middlewares and endpoints, and the way back. *)

Innermost == Last(stack)

Pop == stack' = Front(stack)

\* A middleware or a fallback: user code that is given a next function.
IsHandler(frame) == frame.kind \in {"mw", "fallback"}

\* A middleware awaits next, and may have changed the request before (once).
AwaitNext ==
    /\ mode = "at"
    /\ IsHandler(Innermost)
    /\ Innermost.next # NoNext
    /\ Innermost.calls < MaxCalls
    /\ stack' = [stack EXCEPT ![Len(stack)].calls = @ + 1]
    /\ Call(Innermost.next)
    /\ \/ UNCHANGED <<path, params, touched>>
       \/ /\ touched = "nothing" /\ touched' = "path"
          /\ path' \in Rewrites /\ UNCHANGED params
       \/ /\ touched = "nothing" /\ touched' = "params"
          /\ params' = OwnParams /\ UNCHANGED path
    /\ UNCHANGED <<table, method, hasOuter, prefix, answer>>

\* Mutant: restore_params is only called when the endpoint returns.
LeaveRestoresOnReturn(how) ==
    /\ mode = "at"
    /\ Pop
    /\ mode' = how
    /\ params' = IF Innermost.kind = "endpoint" /\ how = "up" THEN Innermost.saved ELSE params
    /\ UNCHANGED <<config, prefix, next, answer>>

\* It returns or throws; route_tail_for then restores the parameters.
Leave(how) ==
    /\ mode = "at"
    /\ Pop
    /\ mode' = how
    /\ params' = IF Innermost.kind = "endpoint" THEN Innermost.saved ELSE params
    /\ UNCHANGED <<config, prefix, next, answer>>

\* A response, or an exception it catches, reaches an awaiting middleware.
Resume ==
    /\ mode \in {"up", "fail"}
    /\ stack # << >>
    /\ IsHandler(Innermost)
    /\ mode' = "at"
    /\ UNCHANGED <<config, context, stack, next, answer>>

\* The exception passes it.
Propagate ==
    /\ mode = "fail"
    /\ stack # << >>
    /\ IsHandler(Innermost)
    /\ Pop
    /\ UNCHANGED <<config, context, mode, next, answer>>

\* Mutant: restore_prefix is only called when the child returns.
LeaveMountOnReturn ==
    /\ mode \in {"up", "fail"}
    /\ stack # << >>
    /\ Innermost.kind = "mount"
    /\ Pop
    /\ prefix' = IF mode = "up" THEN Innermost.saved ELSE prefix
    /\ UNCHANGED <<config, params, mode, next, answer>>

\* mounted_child::handle restores the prefix on both ways out.
LeaveMount ==
    /\ mode \in {"up", "fail"}
    /\ stack # << >>
    /\ Innermost.kind = "mount"
    /\ Pop
    /\ prefix' = Innermost.saved
    /\ UNCHANGED <<config, params, mode, next, answer>>

Finish ==
    /\ mode \in {"up", "fail"}
    /\ stack = << >>
    /\ mode' = "done"
    /\ UNCHANGED <<config, context, stack, next, answer>>

Next ==
    \/ Handle
    \/ DispatchPipeline \/ DispatchMount \/ DispatchRoute \/ DispatchOuter \/ LeaveChild
    \/ AwaitNext \/ Leave("up") \/ Leave("fail")
    \/ Resume \/ Propagate \/ LeaveMount \/ Finish

Spec == Init /\ [][Next]_vars

-----------------------------------------------------------------------------
(* Properties. *)

SavedPrefixes == Seq(Segments) \cup {None}

Elements ==
    [kind : {"chain"}, router : Routers, index : Nat \ {0}]
        \cup [kind : {"routes"}, router : Routers, prefix : Seq(Segments)]
        \cup [kind : {"back"}, saved : SavedPrefixes]
        \cup {Outer}

Frames ==
    [kind : {"mw", "fallback"}, calls : 0..MaxCalls, next : Seq(Elements)]
        \cup [kind : {"mount"}, saved : SavedPrefixes]
        \cup [kind : {"endpoint"}, saved : {None, OwnParams}]

\* The context, the coroutines and what they go on with are well formed.
TypeOK ==
    /\ prefix \in SavedPrefixes
    /\ stack \in Seq(Frames)
    /\ mode \in {"idle", "down", "at", "up", "fail", "done"}
    /\ next \in Seq(Elements)
    /\ mode = "at" => stack # << >>

\* However a request ends, by a response or an exception, of the routers' own
\* lookup too, after any retry or change of the path, the context has no trace of
\* the routers it went through, and still has what a middleware has put there.
Restored ==
    mode = "done" => prefix = None /\ params = (IF touched = "params" THEN OwnParams ELSE None)

\* What a segment of a route at a position may stand for: that segment of the
\* path.  The first one of a path that a middleware has changed may have lost its
\* beginning to the prefix of a mount.
StandsFor(pattern, i) ==
    LET segment == path[Len(path) - Len(pattern) + i]
        ends    == {Dropped(segment, k) : k \in 0..Size(segment)}
    IN  {segment} \cup (IF touched = "path" /\ i = 1 THEN ends ELSE {})

\* Only a dynamic endpoint sees its parameters, never a middleware that catches its
\* exception or gets its response.  Each has the value of one of its segments in
\* the path, never of a mount's, and the literal segments are in the path as well.
ParamsInScope ==
    params \notin {None, OwnParams} =>
        /\ mode = "at" /\ Innermost.kind = "endpoint" /\ answer.by = "endpoint"
        /\ LET pattern == answer.path
           IN  /\ DOMAIN params = {NameOf(pattern[i]) :
                                      i \in {j \in DOMAIN pattern : pattern[j] \in Params}}
               /\ \A i \in DOMAIN pattern :
                     IF pattern[i] \in Params
                     THEN \E j \in DOMAIN pattern :
                             /\ pattern[j] \in Params
                             /\ NameOf(pattern[j]) = NameOf(pattern[i])
                             /\ params[NameOf(pattern[i])] \in StandsFor(pattern, j)
                     ELSE pattern[i] \in StandsFor(pattern, i)

\* A middleware or fallback inside a mounted router awaits its next function
\* again.  If the first call fell through to the parent, the prefix in force is
\* the parent's now, and mounts of the child compute theirs from the wrong one.
RetryInsideMount ==
    \E i, j \in DOMAIN stack :
        /\ i < j
        /\ stack[i].kind = "mount"
        /\ IsHandler(stack[j]) /\ stack[j].calls > 1

\* A router works under the prefix in the context: before any of its entries or
\* routes, the context has the prefix its routes are relative to, and unless a
\* middleware has changed it the path is under that prefix, so that the lookup
\* does not throw.
ScopeFollows ==
    (/\ mode = "down" /\ next # NoNext
     /\ Head(next).kind \in {"chain", "routes"}
     /\ ~RetryInsideMount)
    => LET own == CHOOSE i \in DOMAIN next :
                     next[i].kind = "routes" /\ \A j \in 1..(i - 1) : next[j].kind # "routes"
       IN  /\ CurrentPrefix = next[own].prefix
           /\ touched # "path" => MatchesPrefix(path, CurrentPrefix)

\* What answers a request, stated without prefixes, next functions or loops.
\* The routers are visited inside out, each with n segments of the path behind
\* it: the matching mounts in their order, then the routes of the router itself.
\* A literal path wins over patterns, more literals over fewer, then the first.
Chosen(r, rel) ==
    LET static   == {s \in table[r].static : s.path = rel}
        patterns == table[r].dynamic
        matches  == {i \in DOMAIN patterns : MatchesPattern(patterns[i].path, rel)}
        literals(i) == LiteralCount(patterns[i].path)
        best     == {patterns[i] : i \in
                      {i \in matches : \A j \in matches :
                          \/ literals(i) > literals(j)
                          \/ literals(i) = literals(j) /\ i <= j}}
    IN  IF static # {} THEN static ELSE best

OwnAnswers(r, rel) ==
    IF Chosen(r, rel) = {}
    THEN IF HasFallback(r) THEN <<[by |-> "fallback", router |-> r]>> ELSE << >>
    ELSE SetToSeq({IF Upper(method) \in b.methods
                   THEN [by |-> "endpoint", router |-> r, path |-> b.path]
                   ELSE [by |-> "405", router |-> r, path |-> b.path, allow |-> b.methods] :
                      b \in Chosen(r, rel)})

AnswersFrom[at \in Routers \X (0..Len(path))] ==
    LET r    == at[1]
        rest == SubSeq(path, at[2] + 1, Len(path))
        answersOf(entry) ==
            IF entry.kind = "mount" /\ IsPrefix(entry.prefix, rest)
            THEN AnswersFrom[<<entry.child, at[2] + Len(entry.prefix)>>]
            ELSE << >>
    IN  FlattenSeq([i \in DOMAIN Pipeline(r) |-> answersOf(Pipeline(r)[i])])
            \o OwnAnswers(r, NormalizePath(rest))

Resolution == AnswersFrom[<<Root, 0>>] \o <<IF hasOuter THEN [by |-> "outer"] ELSE [by |-> "404"]>>

\* The absolute prefixes a router is reachable under.
MountedAt[r \in Routers] ==
    LET mounts(q) == {m \in ToSet(Pipeline(q)) : m.kind = "mount" /\ m.child = r}
        through(q) == UNION {{p \o m.prefix : p \in MountedAt[q]} : m \in mounts(q)}
    IN  IF r = Root THEN {<< >>} ELSE UNION {through(q) : q \in Routers}

\* A route or fallback of a router nested under a prefix answers requests under
\* that prefix, and no others.
NestedUnderPrefix ==
    (answer # None /\ answer.by \notin {"404", "outer"}) =>
        \E p \in MountedAt[answer.router] : IsPrefix(p, path)

\* The fallbacks that are awaiting or running.
FallbacksPassed == Cardinality({i \in DOMAIN stack : stack[i].kind = "fallback"})

\* An answer as a resolution has it: the order of the allowed methods is free.
Named(a) == IF a.by = "405" THEN [a EXCEPT !.allow = ToSet(@)] ELSE a

\* The routes that answer are those of the resolution, one after each fallback
\* that goes on, at the first attempt and at every retry that is not inside a
\* mounted router, while no middleware has changed the path; a 405 allows what
\* the route has, whatever the method of the request is and however it is written.
AnsweredAsResolved ==
    [][answer' # answer /\ ~RetryInsideMount /\ touched # "path"
        => /\ FallbacksPassed < Len(Resolution)
           /\ Named(answer') = Resolution[FallbacksPassed + 1]
           /\ \A i \in 1..FallbacksPassed : Resolution[i].by = "fallback"]_vars
=============================================================================
