--------------------------- MODULE RouterRegistry ---------------------------
(***************************************************************************)
(* The tables of a router and the route builders that fill them            *)
(* (src/middlewares/router.cpp): register_endpoint and its buckets, and    *)
(* route_builder with the methods it has selected for its next layer().    *)
(*                                                                         *)
(* Several builders may work on one path, in any order, and a builder may  *)
(* be copied: the router returns builders by value and their calls return  *)
(* references.  Handlers and layers are told apart by the call that passed *)
(* them: its position in the log.                                          *)
(***************************************************************************)
EXTENDS Naturals, FiniteSets, FiniteSetsExt, Sequences, SequencesExt

CONSTANTS
    Methods,        \* the methods of router::method
    StaticPaths,    \* paths without a parameter
    Patterns,       \* paths with one
    Builders,       \* the route_builder objects
    None,           \* no endpoint, no such builder
    MaxCalls        \* bound: calls on builders and router

ASSUME PathsAssumption == StaticPaths \cap Patterns = {}

ASSUME NoneAssumption ==
    /\ None \notin [handler : Nat, layers : Seq(Nat)]
    /\ None \notin [path : StaticPaths \cup Patterns, selected : SUBSET Methods,
                    reset : BOOLEAN, past : SUBSET Nat]

ASSUME BoundAssumption == MaxCalls \in Nat

Paths == StaticPaths \cup Patterns

VARIABLES
    routes,         \* routes[p]: the bucket of a static path
    dynamic_routes, \* the buckets of the patterns, in order
    builders,       \* builders[b]: path_, selected_methods_, reset_selection_on_next_...,
                    \* and which calls made it what it is
    log             \* the calls so far, oldest first

vars == <<routes, dynamic_routes, builders, log>>

Call == Len(log) + 1

-----------------------------------------------------------------------------
(* Buckets. *)

Endpoint(h) == [handler |-> h, layers |-> << >>]

NoEndpoints == [m \in Methods |-> None]

\* A bucket after handler h was registered for the methods ms.
Registered(bucket, ms, h) == [m \in Methods |-> IF m \in ms THEN Endpoint(h) ELSE bucket[m]]

\* find_dynamic_route: where a pattern is in dynamic_routes.
FindDynamicRoute(p) == {i \in DOMAIN dynamic_routes : dynamic_routes[i].path = p}

\* find_route_bucket; no endpoints if there is no bucket.
FindRouteBucket(p) ==
    IF p \in StaticPaths THEN routes[p]
    ELSE IF FindDynamicRoute(p) = {} THEN NoEndpoints
    ELSE dynamic_routes[Min(FindDynamicRoute(p))].endpoints

\* The bucket of p, which has one, becomes this one.
UpdateBucket(p, bucket) ==
    IF p \in StaticPaths
    THEN routes' = [routes EXCEPT ![p] = bucket] /\ UNCHANGED dynamic_routes
    ELSE /\ dynamic_routes' =
               [dynamic_routes EXCEPT ![Min(FindDynamicRoute(p))] = [path |-> p, endpoints |-> bucket]]
         /\ UNCHANGED routes

\* A pattern gets its entry behind the others.
AppendBucket(p, bucket) ==
    /\ dynamic_routes' = Append(dynamic_routes, [path |-> p, endpoints |-> bucket])
    /\ UNCHANGED routes

\* Mutant: a pattern that is registered again moves to the end.
RegisterMoves(p, ms, h) ==
    LET bucket == Registered(FindRouteBucket(p), ms, h)
    IN  IF ms = {} THEN UNCHANGED <<routes, dynamic_routes>>
        ELSE IF p \in Patterns
        THEN /\ dynamic_routes' = Append(SelectSeq(dynamic_routes, LAMBDA r : r.path # p),
                                         [path |-> p, endpoints |-> bucket])
             /\ UNCHANGED routes
        ELSE UpdateBucket(p, bucket)

\* register_endpoint, for each of the methods ms.
RegisterEndpoint(p, ms, h) ==
    LET bucket == Registered(FindRouteBucket(p), ms, h)
    IN  IF ms = {} THEN UNCHANGED <<routes, dynamic_routes>>
        ELSE IF p \in Patterns /\ FindDynamicRoute(p) = {}
        THEN AppendBucket(p, bucket) ELSE UpdateBucket(p, bucket)

-----------------------------------------------------------------------------
(* Builders. *)

State(p, selected, reset, past) ==
    [path |-> p, selected |-> selected, reset |-> reset, past |-> past]

\* A new builder.
Builder(p) == State(p, {}, FALSE, {})

Init ==
    /\ routes = [p \in StaticPaths |-> NoEndpoints]
    /\ dynamic_routes = << >>
    /\ builders = [b \in Builders |-> None]
    /\ log = << >>

\* router::route, and get(path), post(path), ... without a handler.
Route(b, p) ==
    /\ builders' = [builders EXCEPT ![b] = Builder(p)]
    /\ UNCHANGED <<routes, dynamic_routes, log>>

\* A builder is copied.
Copy(b, c) ==
    /\ builders[b] # None
    /\ builders' = [builders EXCEPT ![c] = builders[b]]
    /\ UNCHANGED <<routes, dynamic_routes, log>>

\* A call on a builder in state s, as the log has it.
Entry(kind, s, ms) == [kind |-> kind, path |-> s.path, methods |-> ms, past |-> s.past]

\* Mutant: the selection is never started anew.
SelectedGrows(s, m) == s.selected \cup {m}

\* What register_single leaves selected.
Selected(s, m) == (IF s.reset THEN {} ELSE s.selected) \cup {m}

\* register_single, on builder state s: get, post, ... with a handler.
RegisterSingle(b, s, m) ==
    /\ Len(log) < MaxCalls
    /\ RegisterEndpoint(s.path, {m}, Call)
    /\ builders' = [builders EXCEPT ![b] =
                      State(s.path, Selected(s, m), FALSE, s.past \cup {Call})]
    /\ log' = Append(log, Entry("register", s, {m}))

\* route_builder::get, post, ...
Register(b, m) == builders[b] # None /\ RegisterSingle(b, builders[b], m)

\* router::get(path, handler), ...: a new builder and its first registration.
RouteWith(b, p, m) == RegisterSingle(b, Builder(p), m)

\* route_builder::on: each of the methods, which become the selection.
On(b, ms) ==
    /\ Len(log) < MaxCalls
    /\ builders[b] # None
    /\ LET s == builders[b]
       IN  /\ RegisterEndpoint(s.path, ms, Call)
           /\ builders' = [builders EXCEPT ![b] = State(s.path, ms, FALSE, s.past \cup {Call})]
           /\ log' = Append(log, Entry("on", s, ms))

\* endpoints[m].chain->use(l), which makes an endpoint with an empty chain, and
\* so without a handler (0), if there was none.
Wrapped(e, l) ==
    IF e = None THEN [handler |-> 0, layers |-> <<l>>]
    ELSE [handler |-> e.handler, layers |-> Append(e.layers, l)]

\* Mutant: layer() wraps every method there is.
LayeredAll(bucket, selected, l) == [m \in Methods |-> Wrapped(bucket[m], l)]

\* layer() wraps the selected methods.
Layered(bucket, selected, l) ==
    [m \in Methods |-> IF m \in selected THEN Wrapped(bucket[m], l) ELSE bucket[m]]

\* route_builder::layer: nothing happens while the path has no bucket.
Layer(b) ==
    /\ Len(log) < MaxCalls
    /\ builders[b] # None
    /\ LET s == builders[b]
       IN  IF FindRouteBucket(s.path) = NoEndpoints
           THEN UNCHANGED vars
           ELSE /\ UpdateBucket(s.path, Layered(FindRouteBucket(s.path), s.selected, Call))
                /\ builders' = [builders EXCEPT ![b] =
                                  State(s.path, s.selected, TRUE, s.past \cup {Call})]
                /\ log' = Append(log, Entry("layer", s, {}))

Next ==
    \E b \in Builders :
        \/ \E p \in Paths : Route(b, p)
        \/ \E p \in Paths, m \in Methods : RouteWith(b, p, m)
        \/ \E c \in Builders \ {b} : Copy(b, c)
        \/ \E m \in Methods : Register(b, m)
        \/ \E ms \in SUBSET Methods : On(b, ms)
        \/ Layer(b)

Spec == Init /\ [][Next]_vars

-----------------------------------------------------------------------------
(* Properties. *)

Endpoints == [handler : Nat, layers : Seq(Nat)]
Buckets == [Methods -> Endpoints \cup {None}]
States == [path : Paths, selected : SUBSET Methods, reset : BOOLEAN, past : SUBSET Nat]
Entries == [kind : {"register", "on", "layer"}, path : Paths, methods : SUBSET Methods,
            past : SUBSET Nat]

\* Every variable has its type, and no pattern is in dynamic_routes without an
\* endpoint.
TypeOK ==
    /\ routes \in [StaticPaths -> Buckets]
    /\ dynamic_routes \in Seq([path : Patterns, endpoints : Buckets])
    /\ \A i \in DOMAIN dynamic_routes : dynamic_routes[i].endpoints # NoEndpoints
    /\ builders \in [Builders -> States \cup {None}]
    /\ log \in Seq(Entries)

\* layer() finds the endpoint of every method it has selected: no sequence of
\* calls on any builders and copies leaves an endpoint without a handler, which
\* would answer 200 with an empty body instead of 405.
NoBareEndpoint ==
    \A p \in Paths, m \in Methods :
        FindRouteBucket(p)[m] # None => FindRouteBucket(p)[m].handler # 0

\* No pattern has two entries, of which the second would never be reached.
PatternsAreUnique ==
    \A i, j \in DOMAIN dynamic_routes :
        dynamic_routes[i].path = dynamic_routes[j].path => i = j

\* The calls, among those of a log, that register an endpoint for m on p.
Registrations(calls, p, m) ==
    {i \in DOMAIN calls : calls[i].path = p /\ m \in calls[i].methods}

\* Which of a builder's past calls its next layer() belongs to: all up to an on()
\* or a registration after an earlier layer(), which start a new group.
Group(calls, past) ==
    {j \in past :
        /\ calls[j].kind \in {"register", "on"}
        /\ ~\E k \in past : k > j /\ calls[k].kind = "on"
        /\ ~\E k, l \in past : j < k /\ k < l /\ calls[k].kind = "layer"
                               /\ calls[l].kind = "register"}

\* The layer() calls since the last registration of m on p whose group has m.
LayersOver(calls, p, m) ==
    {i \in DOMAIN calls :
        /\ i > Max(Registrations(calls, p, m))
        /\ calls[i].kind = "layer" /\ calls[i].path = p
        /\ \E j \in Group(calls, calls[i].past) : m \in calls[j].methods}

\* s lists the members of S in ascending order.
Ascending(s, S) == ToSet(s) = S /\ \A i, j \in DOMAIN s : i < j => s[i] < s[j]

\* An endpoint is what was registered last for its path and method, under the
\* layers that were added since by builders whose group has that method, in
\* order.  (So a second registration drops the layers of the first, and a layer
\* reaches an endpoint of another builder if it selected the same method.)
ChainsAsWritten ==
    \A p \in Paths, m \in Methods :
        LET endpoint == FindRouteBucket(p)[m]
        IN  IF Registrations(log, p, m) = {} THEN endpoint = None
            ELSE /\ endpoint # None
                 /\ endpoint.handler = Max(Registrations(log, p, m))
                 /\ Ascending(endpoint.layers, LayersOver(log, p, m))

\* The calls that register something on p.
Uses(calls, p) == {i \in DOMAIN calls : calls[i].path = p /\ calls[i].methods # {}}

\* Of two patterns the one that was registered first comes first, which decides
\* between equally specific ones; registering it again does not move it.
PatternsInOrder ==
    \A i, j \in DOMAIN dynamic_routes :
        i < j => Min(Uses(log, dynamic_routes[i].path)) < Min(Uses(log, dynamic_routes[j].path))

\* What was once registered stays: no call takes a method from a bucket, so the
\* Allow header of a 405 only grows.
BucketsGrow ==
    [][\A p \in Paths, m \in Methods :
          FindRouteBucket(p)[m] # None => FindRouteBucket(p)'[m] # None]_vars
=============================================================================
