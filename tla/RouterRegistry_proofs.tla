----------------------- MODULE RouterRegistry_proofs -------------------------
(***************************************************************************)
(* Proofs about RouterRegistry: for any paths, methods, builders and any   *)
(* number of calls, the tables are well formed, no pattern has two         *)
(* entries, no endpoint lacks a handler and no method is ever lost.        *)
(*                                                                         *)
(* A layer() call is safe because of what its builder remembers: every     *)
(* method it has selected has an endpoint in the bucket of its path        *)
(* (SelectionInv), which holds of copies too and needs that registrations  *)
(* by other builders never remove an endpoint.                             *)
(*                                                                         *)
(* Then the tables against the log of calls: each endpoint has the handler *)
(* of its last registration and the layers that were put over it since,    *)
(* outermost first (LogInv), and the patterns stand in the order of their  *)
(* first use (FirstInv).                                                   *)
(*                                                                         *)
(* And the texts of RouterStrings: a path spells its segments, each after  *)
(* a slash, and no other segments spell it, so that what join_prefix,      *)
(* matches_prefix and relative_path_for do to characters they do to        *)
(* segments.                                                               *)
(*                                                                         *)
(* And those of RequestText: what the loops over a query and over header   *)
(* lines have read after each of their steps, and what trimming leaves.    *)
(***************************************************************************)
EXTENDS RouterRegistry, RouterStrings, RequestText, SequenceTheorems, WellFoundedInduction, TLAPS

\* What a builder has selected is registered.
SelectionInv ==
    \A b \in Builders, p \in Paths, m \in Methods :
        builders[b] # None /\ builders[b].path = p /\ m \in builders[b].selected
            => FindRouteBucket(p)[m] # None

Inv == TypeOK /\ PatternsAreUnique /\ NoBareEndpoint /\ SelectionInv

-----------------------------------------------------------------------------
(* Buckets. *)

\* The entry of a pattern is found.
LEMMA FindIsThe ==
    ASSUME TypeOK, PatternsAreUnique, NEW i \in DOMAIN dynamic_routes
    PROVE  /\ FindDynamicRoute(dynamic_routes[i].path) = {i}
           /\ Min(FindDynamicRoute(dynamic_routes[i].path)) = i
<1>1. i \in Nat
  BY DEF TypeOK
<1>2. FindDynamicRoute(dynamic_routes[i].path) = {i}
  BY DEF FindDynamicRoute, PatternsAreUnique
<1> QED BY <1>1, <1>2 DEF Min

\* A bucket is a bucket.
LEMMA FindBucketType ==
    ASSUME TypeOK, PatternsAreUnique, NEW p \in Paths
    PROVE  FindRouteBucket(p) \in Buckets
<1>1. CASE p \in StaticPaths
  BY <1>1 DEF TypeOK, FindRouteBucket
<1>2. CASE p \notin StaticPaths /\ FindDynamicRoute(p) = {}
  BY <1>2 DEF FindRouteBucket, NoEndpoints, Buckets
<1>3. CASE p \notin StaticPaths /\ FindDynamicRoute(p) # {}
  <2>1. PICK i \in DOMAIN dynamic_routes : dynamic_routes[i].path = p
    BY <1>3 DEF FindDynamicRoute
  <2>2. FindRouteBucket(p) = dynamic_routes[i].endpoints
    BY <1>3, <2>1, FindIsThe DEF FindRouteBucket
  <2>3. dynamic_routes \in Seq([path : Patterns, endpoints : Buckets])
    BY DEF TypeOK
  <2>4. dynamic_routes[i] \in [path : Patterns, endpoints : Buckets]
    BY <2>3, ElementOfSeq, LenProperties
  <2> QED BY <2>2, <2>4
<1> QED BY <1>1, <1>2, <1>3

\* The bucket of every path after AppendBucket.
LEMMA AfterAppend ==
    ASSUME TypeOK, PatternsAreUnique,
           NEW p \in Patterns, FindDynamicRoute(p) = {},
           NEW bucket \in Buckets, AppendBucket(p, bucket)
    PROVE  /\ PatternsAreUnique'
           /\ dynamic_routes' \in Seq([path : Patterns, endpoints : Buckets])
           /\ \A i \in DOMAIN dynamic_routes' :
                 \/ dynamic_routes'[i].endpoints = bucket
                 \/ i \in DOMAIN dynamic_routes
                    /\ dynamic_routes'[i].endpoints = dynamic_routes[i].endpoints
           /\ \A q \in Paths :
                 FindRouteBucket(q)' = IF q = p THEN bucket ELSE FindRouteBucket(q)
<1> DEFINE n == Len(dynamic_routes)
           new == [path |-> p, endpoints |-> bucket]
<1>1. /\ n \in Nat
      /\ DOMAIN dynamic_routes = 1..n
      /\ DOMAIN dynamic_routes' = 1..(n + 1)
      /\ dynamic_routes'[n + 1] = new
      /\ \A i \in 1..n : dynamic_routes'[i] = dynamic_routes[i]
      /\ dynamic_routes' \in Seq([path : Patterns, endpoints : Buckets])
  BY DEF TypeOK, AppendBucket
<1>2. new.path = p /\ new.endpoints = bucket
  OBVIOUS
<1> HIDE DEF n, new
<1>3. \A i \in 1..n : dynamic_routes[i].path # p
  BY <1>1 DEF FindDynamicRoute
<1>4. \A i \in 1..(n + 1) : i \in 1..n \/ i = n + 1
  BY <1>1
<1>5. PatternsAreUnique'
  BY <1>1, <1>2, <1>3, <1>4 DEF PatternsAreUnique
<1>6. ASSUME NEW q \in Paths
      PROVE  FindRouteBucket(q)' = IF q = p THEN bucket ELSE FindRouteBucket(q)
  <2>1. CASE q \in StaticPaths
    BY <2>1, PathsAssumption DEF FindRouteBucket, AppendBucket
  <2>2. CASE q = p
    <3>1. FindDynamicRoute(p)' = {n + 1}
      BY <1>1, <1>2, <1>3, <1>4 DEF FindDynamicRoute
    <3>2. Min(FindDynamicRoute(p)') = n + 1
      BY <1>1, <3>1 DEF Min
    <3>3. FindRouteBucket(p)' = dynamic_routes'[n + 1].endpoints
      BY <3>1, <3>2, PathsAssumption DEF FindRouteBucket, Min
    <3> QED BY <1>1, <1>2, <2>2, <3>3
  <2>3. CASE q \notin StaticPaths /\ q # p
    <3>1. FindDynamicRoute(q)' = FindDynamicRoute(q)
      BY <1>1, <1>2, <1>4, <2>3 DEF FindDynamicRoute
    <3>2. CASE FindDynamicRoute(q) = {}
      BY <2>3, <3>1, <3>2 DEF FindRouteBucket, NoEndpoints
    <3>3. CASE FindDynamicRoute(q) # {}
      <4>1. PICK i \in DOMAIN dynamic_routes : dynamic_routes[i].path = q
        BY <3>3 DEF FindDynamicRoute
      <4>2. Min(FindDynamicRoute(q)) = i
        BY <4>1, FindIsThe
      <4>3. FindRouteBucket(q)' = dynamic_routes'[Min(FindDynamicRoute(q))].endpoints
        BY <2>3, <3>1, <3>3 DEF FindRouteBucket, Min
      <4> QED BY <1>1, <2>3, <3>3, <4>1, <4>2, <4>3 DEF FindRouteBucket
    <3> QED BY <3>2, <3>3
  <2> QED BY <2>1, <2>2, <2>3
<1>7. \A i \in DOMAIN dynamic_routes' :
         \/ dynamic_routes'[i].endpoints = bucket
         \/ i \in DOMAIN dynamic_routes
            /\ dynamic_routes'[i].endpoints = dynamic_routes[i].endpoints
  BY <1>1, <1>2, <1>4
<1> QED BY <1>1, <1>5, <1>6, <1>7

\* The bucket of every path after UpdateBucket.
LEMMA AfterUpdate ==
    ASSUME TypeOK, PatternsAreUnique,
           NEW p \in Paths, p \in StaticPaths \/ FindDynamicRoute(p) # {},
           NEW bucket \in Buckets, UpdateBucket(p, bucket)
    PROVE  /\ PatternsAreUnique'
           /\ routes' \in [StaticPaths -> Buckets]
           /\ dynamic_routes' \in Seq([path : Patterns, endpoints : Buckets])
           /\ \A i \in DOMAIN dynamic_routes' :
                 \/ dynamic_routes'[i].endpoints = bucket
                 \/ i \in DOMAIN dynamic_routes
                    /\ dynamic_routes'[i].endpoints = dynamic_routes[i].endpoints
           /\ \A q \in Paths :
                 FindRouteBucket(q)' = IF q = p THEN bucket ELSE FindRouteBucket(q)
<1>1. CASE p \in StaticPaths
  <2>1. routes' = [routes EXCEPT ![p] = bucket] /\ dynamic_routes' = dynamic_routes
    BY <1>1 DEF UpdateBucket
  <2>2. routes' \in [StaticPaths -> Buckets] /\ routes'[p] = bucket
    BY <1>1, <2>1 DEF TypeOK
  <2>3. \A q \in StaticPaths : q # p => routes'[q] = routes[q]
    BY <2>1 DEF TypeOK
  <2>4. \A q \in Paths : FindDynamicRoute(q)' = FindDynamicRoute(q)
    BY <2>1 DEF FindDynamicRoute
  <2>5. ASSUME NEW q \in Paths
        PROVE  FindRouteBucket(q)' = IF q = p THEN bucket ELSE FindRouteBucket(q)
    <3>1. CASE q \in StaticPaths
      BY <2>2, <2>3, <3>1 DEF FindRouteBucket
    <3>2. CASE q \notin StaticPaths /\ FindDynamicRoute(q) = {}
      BY <1>1, <2>4, <3>2 DEF FindRouteBucket, NoEndpoints
    <3>3. CASE q \notin StaticPaths /\ FindDynamicRoute(q) # {}
      <4>1. FindRouteBucket(q)' = dynamic_routes'[Min(FindDynamicRoute(q))].endpoints
        BY <2>4, <3>3 DEF FindRouteBucket, Min
      <4>2. FindRouteBucket(q) = dynamic_routes[Min(FindDynamicRoute(q))].endpoints
        BY <3>3 DEF FindRouteBucket
      <4> QED BY <1>1, <2>1, <3>3, <4>1, <4>2
    <3> QED BY <3>1, <3>2, <3>3
  <2> QED BY <2>1, <2>2, <2>5 DEF PatternsAreUnique, TypeOK
<1>2. CASE p \notin StaticPaths /\ FindDynamicRoute(p) # {}
  <2>1. PICK k \in DOMAIN dynamic_routes : dynamic_routes[k].path = p
    BY <1>2 DEF FindDynamicRoute
  <2> DEFINE new == [path |-> p, endpoints |-> bucket]
  <2>2. dynamic_routes' = [dynamic_routes EXCEPT ![k] = new] /\ routes' = routes
    BY <1>2, <2>1, FindIsThe DEF UpdateBucket
  <2>3. new.path = p /\ new.endpoints = bucket /\ new \in [path : Patterns, endpoints : Buckets]
    BY <1>2 DEF Paths
  <2> HIDE DEF new
  <2>4. /\ DOMAIN dynamic_routes' = DOMAIN dynamic_routes
        /\ dynamic_routes'[k] = new
        /\ \A i \in DOMAIN dynamic_routes : i # k => dynamic_routes'[i] = dynamic_routes[i]
        /\ dynamic_routes' \in Seq([path : Patterns, endpoints : Buckets])
    BY <2>2, <2>3 DEF TypeOK
  <2>5. \A i \in DOMAIN dynamic_routes : dynamic_routes'[i].path = dynamic_routes[i].path
    BY <2>1, <2>3, <2>4
  <2>6. PatternsAreUnique'
    BY <2>4, <2>5 DEF PatternsAreUnique
  <2>7. \A q \in Paths : FindDynamicRoute(q)' = FindDynamicRoute(q)
    BY <2>4, <2>5 DEF FindDynamicRoute
  <2>8. ASSUME NEW q \in Paths
        PROVE  FindRouteBucket(q)' = IF q = p THEN bucket ELSE FindRouteBucket(q)
    <3>1. CASE q \in StaticPaths
      BY <1>2, <2>2, <3>1 DEF FindRouteBucket
    <3>2. CASE q \notin StaticPaths /\ FindDynamicRoute(q) = {}
      BY <1>2, <2>7, <3>2 DEF FindRouteBucket, NoEndpoints
    <3>3. CASE q \notin StaticPaths /\ FindDynamicRoute(q) # {}
      <4>1. PICK i \in DOMAIN dynamic_routes : dynamic_routes[i].path = q
        BY <3>3 DEF FindDynamicRoute
      <4>2. Min(FindDynamicRoute(q)) = i
        BY <4>1, FindIsThe
      <4>3. FindRouteBucket(q)' = dynamic_routes'[i].endpoints
        BY <2>7, <3>3, <4>2 DEF FindRouteBucket, Min
      <4>4. FindRouteBucket(q) = dynamic_routes[i].endpoints
        BY <3>3, <4>2 DEF FindRouteBucket
      <4>5. (q = p) <=> (i = k)
        BY <2>1, <4>1 DEF PatternsAreUnique
      <4> QED BY <2>3, <2>4, <4>3, <4>4, <4>5
    <3> QED BY <3>1, <3>2, <3>3
  <2>9. \A i \in DOMAIN dynamic_routes' :
           \/ dynamic_routes'[i].endpoints = bucket
           \/ i \in DOMAIN dynamic_routes
              /\ dynamic_routes'[i].endpoints = dynamic_routes[i].endpoints
    BY <2>3, <2>4
  <2> QED BY <2>2, <2>4, <2>6, <2>8, <2>9 DEF TypeOK
<1> QED BY <1>1, <1>2

\* What register_endpoint does to the buckets.
LEMMA AfterRegister ==
    ASSUME TypeOK, PatternsAreUnique,
           NEW p \in Paths, NEW ms \in SUBSET Methods, NEW h \in Nat,
           RegisterEndpoint(p, ms, h)
    PROVE  /\ PatternsAreUnique'
           /\ routes' \in [StaticPaths -> Buckets]
           /\ dynamic_routes' \in Seq([path : Patterns, endpoints : Buckets])
           /\ \A i \in DOMAIN dynamic_routes' : dynamic_routes'[i].endpoints # NoEndpoints
           /\ \A q \in Paths :
                 FindRouteBucket(q)' = IF q = p THEN Registered(FindRouteBucket(p), ms, h)
                                       ELSE FindRouteBucket(q)
<1> DEFINE bucket == Registered(FindRouteBucket(p), ms, h)
<1>1. Endpoint(h) \in Endpoints
  BY DEF Endpoint, Endpoints
<1>2. bucket \in Buckets
  BY <1>1, FindBucketType DEF Registered, Buckets
<1>3. ms # {} => bucket # NoEndpoints
  <2>1. Endpoint(h) # None
    BY <1>1, NoneAssumption DEF Endpoints
  <2>2. \A m \in ms : bucket[m] = Endpoint(h) /\ NoEndpoints[m] = None
    BY DEF Registered, NoEndpoints
  <2> QED BY <2>1, <2>2
<1>4. CASE ms = {}
  <2>1. UNCHANGED <<routes, dynamic_routes>>
    BY <1>4 DEF RegisterEndpoint
  <2>2. bucket = FindRouteBucket(p)
    BY <1>4, FindBucketType DEF Registered, Buckets
  <2>3. \A q \in Paths : FindRouteBucket(q)' = FindRouteBucket(q)
    BY <2>1 DEF FindRouteBucket, FindDynamicRoute, NoEndpoints, Min
  <2>4. PatternsAreUnique'
    BY <2>1 DEF PatternsAreUnique
  <2> QED BY <2>1, <2>2, <2>3, <2>4 DEF TypeOK
<1>5. CASE ms # {} /\ p \in Patterns /\ FindDynamicRoute(p) = {}
  <2>1. AppendBucket(p, bucket)
    BY <1>5 DEF RegisterEndpoint
  <2> HIDE DEF bucket
  <2>2. routes' = routes
    BY <2>1 DEF AppendBucket
  <2> QED BY <1>2, <1>3, <1>5, <2>1, <2>2, AfterAppend DEF TypeOK, bucket
<1>6. CASE ms # {} /\ ~(p \in Patterns /\ FindDynamicRoute(p) = {})
  <2>1. UpdateBucket(p, bucket)
    BY <1>6 DEF RegisterEndpoint
  <2>2. p \in StaticPaths \/ FindDynamicRoute(p) # {}
    BY <1>6 DEF Paths
  <2> HIDE DEF bucket
  <2> QED BY <1>2, <1>3, <1>6, <2>1, <2>2, AfterUpdate DEF TypeOK, bucket
<1> QED BY <1>4, <1>5, <1>6

-----------------------------------------------------------------------------
(* Steps. *)

\* A registration by a builder in state s, whatever it leaves selected of the
\* old and the new methods.
LEMMA RegisterStep ==
    ASSUME Inv, NEW b \in Builders, NEW s \in States, NEW ms \in SUBSET Methods,
           \A m \in s.selected : FindRouteBucket(s.path)[m] # None,
           RegisterEndpoint(s.path, ms, Call),
           NEW t \in States, t.path = s.path, t.selected \subseteq s.selected \cup ms,
           builders' = [builders EXCEPT ![b] = t],
           NEW e \in Entries, log' = Append(log, e)
    PROVE  /\ Inv'
           /\ \A p \in Paths, m \in Methods :
                 FindRouteBucket(p)[m] # None => FindRouteBucket(p)'[m] # None
<1> USE DEF Inv
<1>1. s.path \in Paths /\ Call \in Nat /\ Call # 0
  BY DEF States, Call, TypeOK
<1>2. /\ PatternsAreUnique'
      /\ routes' \in [StaticPaths -> Buckets]
      /\ dynamic_routes' \in Seq([path : Patterns, endpoints : Buckets])
      /\ \A i \in DOMAIN dynamic_routes' : dynamic_routes'[i].endpoints # NoEndpoints
      /\ \A q \in Paths :
            FindRouteBucket(q)' = IF q = s.path
                                  THEN Registered(FindRouteBucket(s.path), ms, Call)
                                  ELSE FindRouteBucket(q)
  BY <1>1, AfterRegister
<1>3. Endpoint(Call) # None /\ Endpoint(Call).handler # 0
  <2>1. Endpoint(Call) \in Endpoints /\ Endpoint(Call).handler = Call
    BY <1>1 DEF Endpoint, Endpoints
  <2> QED BY <1>1, <2>1, NoneAssumption DEF Endpoints
<1>4. \A m \in Methods :
         Registered(FindRouteBucket(s.path), ms, Call)[m] =
            IF m \in ms THEN Endpoint(Call) ELSE FindRouteBucket(s.path)[m]
  BY DEF Registered
<1>5. \A p \in Paths, m \in Methods :
         FindRouteBucket(p)[m] # None => FindRouteBucket(p)'[m] # None
  BY <1>2, <1>3, <1>4
<1>6. NoBareEndpoint'
  <2>1. ASSUME NEW p \in Paths, NEW m \in Methods, FindRouteBucket(p)'[m] # None
        PROVE  FindRouteBucket(p)'[m].handler # 0
    <3>1. CASE p = s.path /\ m \in ms
      BY <1>2, <1>3, <1>4, <3>1
    <3>2. CASE ~(p = s.path /\ m \in ms)
      BY <1>2, <1>4, <2>1, <3>2 DEF NoBareEndpoint
    <3> QED BY <3>1, <3>2
  <2> QED BY <2>1 DEF NoBareEndpoint
<1>7. TypeOK'
  <2>1. builders' \in [Builders -> States \cup {None}]
    BY DEF TypeOK
  <2>2. log' \in Seq(Entries)
    BY DEF TypeOK
  <2> QED BY <1>2, <2>1, <2>2 DEF TypeOK, NoEndpoints
<1>8. SelectionInv'
  <2>1. ASSUME NEW c \in Builders, NEW p \in Paths, NEW m \in Methods,
               builders'[c] # None, builders'[c].path = p, m \in builders'[c].selected
        PROVE  FindRouteBucket(p)'[m] # None
    <3>1. CASE c = b /\ m \in ms
      <4>1. p = s.path
        BY <2>1, <3>1 DEF TypeOK
      <4> QED BY <1>2, <1>3, <1>4, <3>1, <4>1
    <3>2. CASE c = b /\ m \notin ms
      <4>1. p = s.path /\ m \in s.selected
        BY <2>1, <3>2 DEF TypeOK
      <4> QED BY <1>5, <4>1
    <3>3. CASE c # b
      <4>1. builders'[c] = builders[c]
        BY <3>3 DEF TypeOK
      <4> QED BY <1>5, <2>1, <4>1 DEF SelectionInv
    <3> QED BY <3>1, <3>2, <3>3
  <2> QED BY <2>1 DEF SelectionInv
<1> QED BY <1>2, <1>5, <1>6, <1>7, <1>8

\* An empty builder state is one.
LEMMA BuilderType ==
    ASSUME NEW p \in Paths
    PROVE  Builder(p) \in States /\ Builder(p).path = p /\ Builder(p).selected = {}
BY DEF Builder, State, States

\* A builder is put in the place of another; nothing is registered.
LEMMA BuilderStep ==
    ASSUME Inv, NEW b \in Builders, NEW t \in States,
           \A m \in t.selected : FindRouteBucket(t.path)[m] # None,
           builders' = [builders EXCEPT ![b] = t],
           UNCHANGED <<routes, dynamic_routes, log>>
    PROVE  /\ Inv'
           /\ \A p \in Paths : FindRouteBucket(p)' = FindRouteBucket(p)
<1> USE DEF Inv
<1>1. \A p \in Paths : FindRouteBucket(p)' = FindRouteBucket(p)
  BY DEF FindRouteBucket, FindDynamicRoute, NoEndpoints, Min
<1>2. PatternsAreUnique' /\ NoBareEndpoint'
  BY <1>1 DEF PatternsAreUnique, NoBareEndpoint
<1>3. builders' \in [Builders -> States \cup {None}]
  BY DEF TypeOK
<1>4. TypeOK'
  BY <1>3 DEF TypeOK, NoEndpoints
<1>5. ASSUME NEW c \in Builders, NEW p \in Paths, NEW m \in Methods,
             builders'[c] # None, builders'[c].path = p, m \in builders'[c].selected
      PROVE  FindRouteBucket(p)'[m] # None
  <2>1. CASE c = b
    BY <1>1, <1>5, <2>1 DEF TypeOK
  <2>2. CASE c # b
    <3>1. builders'[c] = builders[c]
      BY <2>2 DEF TypeOK
    <3> QED BY <1>1, <1>5, <3>1 DEF SelectionInv
  <2> QED BY <2>1, <2>2
<1> QED BY <1>1, <1>2, <1>4, <1>5 DEF SelectionInv

\* A layer() on the bucket of a builder in state s.
LEMMA LayerStep ==
    ASSUME Inv, NEW b \in Builders, builders[b] # None, Layer(b)
    PROVE  /\ Inv'
           /\ \A p \in Paths, m \in Methods :
                 FindRouteBucket(p)[m] # None => FindRouteBucket(p)'[m] # None
<1> USE DEF Inv
<1> DEFINE s == builders[b]
           old == FindRouteBucket(s.path)
           bucket == Layered(old, s.selected, Call)
<1>1. s \in States /\ s.path \in Paths /\ s.selected \in SUBSET Methods /\ Call \in Nat
  BY DEF TypeOK, States, Call
<1>2. old \in Buckets
  BY <1>1, FindBucketType
<1>3. \A m \in s.selected : old[m] # None
  BY <1>1 DEF SelectionInv
<1>4. \A m \in Methods :
         bucket[m] = IF m \in s.selected THEN Wrapped(old[m], Call) ELSE old[m]
  BY DEF Layered
<1>5. \A m \in s.selected :
         /\ Wrapped(old[m], Call) \in Endpoints
         /\ Wrapped(old[m], Call).handler = old[m].handler
  <2>1. ASSUME NEW m \in s.selected
        PROVE  /\ Wrapped(old[m], Call) \in Endpoints
               /\ Wrapped(old[m], Call).handler = old[m].handler
    <3>1. old[m] \in Endpoints /\ m \in Methods
      BY <1>1, <1>2, <1>3 DEF Buckets
    <3>2. Wrapped(old[m], Call) =
             [handler |-> old[m].handler, layers |-> Append(old[m].layers, Call)]
      BY <1>3 DEF Wrapped
    <3>3. old[m].handler \in Nat /\ Append(old[m].layers, Call) \in Seq(Nat)
      BY <1>1, <3>1 DEF Endpoints
    <3> QED BY <3>2, <3>3 DEF Endpoints
  <2> QED BY <2>1
<1>6. bucket \in Buckets
  <2>1. \A m \in Methods : bucket[m] \in Endpoints \cup {None}
    BY <1>2, <1>4, <1>5 DEF Buckets
  <2> QED BY <2>1 DEF Layered, Buckets
<1>7. \A m \in Methods : /\ old[m] # None => bucket[m] # None
                         /\ bucket[m] # None => old[m] # None /\ bucket[m].handler = old[m].handler
  BY <1>3, <1>4, <1>5, NoneAssumption DEF Endpoints
<1>8. CASE old = NoEndpoints
  <2>1. UNCHANGED vars
    BY <1>8 DEF Layer
  <2>2. \A p \in Paths : FindRouteBucket(p)' = FindRouteBucket(p)
    BY <2>1 DEF vars, FindRouteBucket, FindDynamicRoute, NoEndpoints, Min
  <2>3. builders' = [builders EXCEPT ![b] = s] /\ UNCHANGED <<routes, dynamic_routes, log>>
    BY <2>1 DEF vars, TypeOK
  <2> HIDE DEF s
  <2>4. \A m \in s.selected : FindRouteBucket(s.path)[m] # None
    BY <1>3
  <2> QED BY <1>1, <2>2, <2>3, <2>4, BuilderStep
<1>9. CASE old # NoEndpoints
  <2>1. /\ UpdateBucket(s.path, bucket)
        /\ builders' = [builders EXCEPT ![b] = State(s.path, s.selected, TRUE, s.past \cup {Call})]
        /\ log' = Append(log, Entry("layer", s, {}))
    BY <1>9 DEF Layer
  <2>2. s.path \in StaticPaths \/ FindDynamicRoute(s.path) # {}
    BY <1>9 DEF FindRouteBucket
  <2> DEFINE t == State(s.path, s.selected, TRUE, s.past \cup {Call})
  <2>3. t \in States /\ t.path = s.path /\ t.selected = s.selected
    BY <1>1 DEF State, States
  <2>4. Entry("layer", s, {}) \in Entries
    BY <1>1 DEF Entry, Entries, States
  <2>5. bucket # NoEndpoints
    <3>1. PICK m \in Methods : old[m] # None
      BY <1>2, <1>9 DEF Buckets, NoEndpoints
    <3> QED BY <1>7, <3>1 DEF NoEndpoints
  <2> HIDE DEF bucket, old, t
  <2>6. /\ PatternsAreUnique'
        /\ routes' \in [StaticPaths -> Buckets]
        /\ dynamic_routes' \in Seq([path : Patterns, endpoints : Buckets])
        /\ \A i \in DOMAIN dynamic_routes' :
              \/ dynamic_routes'[i].endpoints = bucket
              \/ i \in DOMAIN dynamic_routes
                 /\ dynamic_routes'[i].endpoints = dynamic_routes[i].endpoints
        /\ \A q \in Paths : FindRouteBucket(q)' = IF q = s.path THEN bucket ELSE FindRouteBucket(q)
    BY <1>1, <1>6, <2>1, <2>2, AfterUpdate
  <2>7. \A p \in Paths, m \in Methods :
           FindRouteBucket(p)[m] # None => FindRouteBucket(p)'[m] # None
    BY <1>7, <2>6 DEF old
  <2>8. NoBareEndpoint'
    BY <1>1, <1>7, <2>6 DEF NoBareEndpoint, old
  <2>9. TypeOK'
    <3>1. builders' \in [Builders -> States \cup {None}]
      BY <2>1, <2>3 DEF TypeOK, t
    <3>2. log' \in Seq(Entries)
      BY <2>1, <2>4 DEF TypeOK
    <3> QED BY <2>5, <2>6, <3>1, <3>2 DEF TypeOK, NoEndpoints
  <2>10. ASSUME NEW c \in Builders, NEW p \in Paths, NEW m \in Methods,
                builders'[c] # None, builders'[c].path = p, m \in builders'[c].selected
         PROVE  FindRouteBucket(p)'[m] # None
    <3>1. CASE c = b
      <4>1. builders'[c] = t
        BY <2>1, <3>1 DEF TypeOK, t
      <4>2. p = s.path /\ m \in s.selected
        BY <2>3, <2>10, <4>1
      <4> QED BY <1>3, <1>7, <2>6, <4>2
    <3>2. CASE c # b
      <4>1. builders'[c] = builders[c]
        BY <2>1, <3>2 DEF TypeOK
      <4>2. FindRouteBucket(p)[m] # None
        BY <2>10, <4>1 DEF SelectionInv
      <4> QED BY <2>7, <4>2
    <3> QED BY <3>1, <3>2
  <2>11. SelectionInv'
    BY <2>10 DEF SelectionInv
  <2> QED BY <2>6, <2>7, <2>8, <2>9, <2>11
<1> QED BY <1>8, <1>9

-----------------------------------------------------------------------------
(* The specification. *)

\* No method is lost in a step.
Grows ==
    \A p \in Paths, m \in Methods :
        FindRouteBucket(p)[m] # None => FindRouteBucket(p)'[m] # None

\* A registration through register_single, by any builder state.
LEMMA SingleStep ==
    ASSUME Inv, NEW b \in Builders, NEW s \in States, NEW m \in Methods,
           \A n \in s.selected : FindRouteBucket(s.path)[n] # None,
           RegisterSingle(b, s, m)
    PROVE  Inv' /\ Grows
<1> DEFINE t == State(s.path, Selected(s, m), FALSE, s.past \cup {Call})
<1>1. Call \in Nat /\ s.path \in Paths /\ s.selected \in SUBSET Methods /\ s.past \in SUBSET Nat
  BY DEF Inv, TypeOK, Call, States
<1>2. Selected(s, m) \in SUBSET Methods /\ Selected(s, m) \subseteq s.selected \cup {m}
  BY <1>1 DEF Selected
<1>3. t \in States /\ t.path = s.path /\ t.selected = Selected(s, m)
  BY <1>1, <1>2 DEF State, States
<1>4. Entry("register", s, {m}) \in Entries
  BY <1>1 DEF Entry, Entries
<1>5. /\ RegisterEndpoint(s.path, {m}, Call)
      /\ builders' = [builders EXCEPT ![b] = t]
      /\ log' = Append(log, Entry("register", s, {m}))
  BY DEF RegisterSingle
<1> HIDE DEF t
<1> QED BY <1>2, <1>3, <1>4, <1>5, RegisterStep DEF Grows

\* Every call of the application keeps the invariant and loses no method.
LEMMA StepKeepsInv == Inv /\ [Next]_vars => Inv' /\ Grows
<1> SUFFICES ASSUME Inv, [Next]_vars PROVE Inv' /\ Grows
  OBVIOUS
<1>1. CASE UNCHANGED vars
  <2>1. \A p \in Paths : FindRouteBucket(p)' = FindRouteBucket(p)
    BY <1>1 DEF vars, FindRouteBucket, FindDynamicRoute, NoEndpoints, Min
  <2>2. TypeOK'
    BY <1>1 DEF Inv, TypeOK, vars, NoEndpoints
  <2>3. PatternsAreUnique' /\ NoBareEndpoint' /\ SelectionInv'
    BY <1>1, <2>1 DEF Inv, PatternsAreUnique, NoBareEndpoint, SelectionInv, vars
  <2> QED BY <2>1, <2>2, <2>3 DEF Inv, Grows
<1>2. ASSUME NEW b \in Builders, NEW p \in Paths, Route(b, p)
      PROVE  Inv' /\ Grows
  BY <1>2, BuilderType, BuilderStep DEF Route, Grows
<1>3. ASSUME NEW b \in Builders, NEW p \in Paths, NEW m \in Methods, RouteWith(b, p, m)
      PROVE  Inv' /\ Grows
  BY <1>3, BuilderType, SingleStep DEF RouteWith
<1>4. ASSUME NEW b \in Builders, builders[b] # None
      PROVE  /\ builders[b] \in States
             /\ builders[b].path \in Paths /\ builders[b].selected \in SUBSET Methods
             /\ \A m \in builders[b].selected : FindRouteBucket(builders[b].path)[m] # None
  <2>1. builders[b] \in States
    BY <1>4 DEF Inv, TypeOK
  <2>2. builders[b].path \in Paths /\ builders[b].selected \in SUBSET Methods
    BY <2>1 DEF States
  <2> QED BY <1>4, <2>1, <2>2 DEF Inv, SelectionInv
<1>5. ASSUME NEW b \in Builders, NEW c \in Builders, Copy(b, c)
      PROVE  Inv' /\ Grows
  <2> DEFINE s == builders[b]
  <2>1. builders[b] # None /\ builders' = [builders EXCEPT ![c] = s]
        /\ UNCHANGED <<routes, dynamic_routes, log>>
    BY <1>5 DEF Copy
  <2>2. s \in States /\ \A m \in s.selected : FindRouteBucket(s.path)[m] # None
    BY <1>4, <2>1
  <2> HIDE DEF s
  <2> QED BY <2>1, <2>2, BuilderStep DEF Grows
<1>6. ASSUME NEW b \in Builders, NEW m \in Methods, Register(b, m)
      PROVE  Inv' /\ Grows
  BY <1>4, <1>6, SingleStep DEF Register
<1>7. ASSUME NEW b \in Builders, NEW ms \in SUBSET Methods, On(b, ms)
      PROVE  Inv' /\ Grows
  <2> DEFINE s == builders[b]
             t == State(s.path, ms, FALSE, s.past \cup {Call})
  <2>1. /\ builders[b] # None
        /\ RegisterEndpoint(s.path, ms, Call)
        /\ builders' = [builders EXCEPT ![b] = t]
        /\ log' = Append(log, Entry("on", s, ms))
    BY <1>7 DEF On
  <2>2. /\ s \in States /\ s.path \in Paths
        /\ \A m \in s.selected : FindRouteBucket(s.path)[m] # None
    BY <1>4, <2>1
  <2>3. Call \in Nat /\ s.past \in SUBSET Nat
    BY <2>2 DEF Inv, TypeOK, Call, States
  <2>4. t \in States /\ t.path = s.path /\ t.selected = ms
    BY <2>2, <2>3 DEF State, States
  <2>5. Entry("on", s, ms) \in Entries
    BY <2>2, <2>3 DEF Entry, Entries
  <2> HIDE DEF s, t
  <2> QED BY <2>1, <2>2, <2>4, <2>5, RegisterStep DEF Grows
<1>8. ASSUME NEW b \in Builders, Layer(b)
      PROVE  Inv' /\ Grows
  <2>1. builders[b] # None
    BY <1>8 DEF Layer
  <2> QED BY <1>8, <2>1, LayerStep DEF Grows
<1> QED BY <1>1, <1>2, <1>3, <1>5, <1>6, <1>7, <1>8 DEF Next

\* The invariant holds before any call.
LEMMA InitHasInv == Init => Inv
<1> SUFFICES ASSUME Init PROVE Inv
  OBVIOUS
<1>1. \A p \in Paths : FindRouteBucket(p) = NoEndpoints
  BY DEF Init, FindRouteBucket, FindDynamicRoute
<1>2. NoEndpoints \in Buckets /\ \A m \in Methods : NoEndpoints[m] = None
  BY DEF NoEndpoints, Buckets
<1>3. TypeOK
  BY <1>2 DEF Init, TypeOK
<1> QED BY <1>1, <1>2, <1>3 DEF Inv, Init, PatternsAreUnique, NoBareEndpoint, SelectionInv

\* Every reachable state of the tables and builders has the invariant.
THEOREM Invariant == Spec => []Inv
BY InitHasInv, StepKeepsInv, PTL DEF Spec

\* The variables keep their types: what the code's own declarations promise, and
\* no pattern without an endpoint (router.cpp:567-588).
THEOREM TypeCorrect == Spec => []TypeOK
<1>1. Inv => TypeOK
  BY DEF Inv
<1> QED BY <1>1, Invariant, PTL

\* No sequence of route, get, on, layer calls leaves an endpoint without a
\* handler (router.cpp:170-183).
THEOREM EveryEndpointHasAHandler == Spec => []NoBareEndpoint
<1>1. Inv => NoBareEndpoint
  BY DEF Inv
<1> QED BY <1>1, Invariant, PTL

\* dynamic_routes has one entry for each pattern (router.cpp:576-581).
THEOREM OneEntryEach == Spec => []PatternsAreUnique
<1>1. Inv => PatternsAreUnique
  BY DEF Inv
<1> QED BY <1>1, Invariant, PTL

\* Methods are never removed from a bucket (router.cpp:567-588).
THEOREM NothingIsUnregistered == Spec => BucketsGrow
<1>1. Inv /\ [Next]_vars =>
         [\A p \in Paths, m \in Methods :
             FindRouteBucket(p)[m] # None => FindRouteBucket(p)'[m] # None]_vars
  BY StepKeepsInv DEF Grows
<1> QED BY <1>1, Invariant, PTL DEF Spec, BucketsGrow

-----------------------------------------------------------------------------
(* The tables are what the calls say: groups, layers and first uses, of a  *)
(* log that grows by one call.                                             *)

\* Past calls are past.
PastOK(calls) == \A i \in DOMAIN calls : calls[i].past \subseteq 1 .. (i - 1)

\* Among the calls of a builder, a layer() comes after j.
Followed(calls, past, j) == \E k \in past : j < k /\ calls[k].kind = "layer"

\* A builder has selected the methods of its group, which it starts anew with its
\* next registration if a layer() was added to it.
StateOK(calls, s) ==
    /\ s.past \subseteq DOMAIN calls
    /\ \A m \in Methods : m \in s.selected <=> \E j \in Group(calls, s.past) : m \in calls[j].methods
    /\ \A j \in Group(calls, s.past) : s.reset <=> Followed(calls, s.past, j)

\* What another call adds to a log.
LEMMA LogStep ==
    ASSUME NEW g \in Seq(Entries), NEW e \in Entries
    PROVE  /\ Append(g, e) \in Seq(Entries)
           /\ DOMAIN g = 1 .. Len(g) /\ Len(g) \in Nat
           /\ DOMAIN Append(g, e) = 1 .. (Len(g) + 1)
           /\ Append(g, e)[Len(g) + 1] = e
           /\ \A i \in 1 .. Len(g) : Append(g, e)[i] = g[i]
BY AppendProperties

\* The group of calls that are past does not change.
LEMMA GroupStays ==
    ASSUME NEW g \in Seq(Entries), NEW e \in Entries, NEW P, P \subseteq DOMAIN g
    PROVE  /\ Group(Append(g, e), P) = Group(g, P)
           /\ \A j \in P : Followed(Append(g, e), P, j) <=> Followed(g, P, j)
<1> DEFINE h == Append(g, e)
<1>1. \A i \in P : h[i] = g[i]
  BY LogStep
<1> HIDE DEF h
<1>2. Group(h, P) = Group(g, P)
  BY <1>1 DEF Group
<1>3. \A j \in P : Followed(h, P, j) <=> Followed(g, P, j)
  BY <1>1 DEF Followed
<1> QED BY <1>2, <1>3 DEF h

\* A builder that makes no call stays as it is.
LEMMA StateStays ==
    ASSUME NEW g \in Seq(Entries), NEW e \in Entries, NEW s, StateOK(g, s)
    PROVE  StateOK(Append(g, e), s)
<1> DEFINE h == Append(g, e)
<1>1. s.past \subseteq DOMAIN g
  BY DEF StateOK
<1>2. /\ DOMAIN g \subseteq DOMAIN h /\ \A i \in DOMAIN g : h[i] = g[i]
  BY LogStep
<1>3. /\ Group(h, s.past) = Group(g, s.past)
      /\ \A j \in s.past : Followed(h, s.past, j) <=> Followed(g, s.past, j)
  BY <1>1, GroupStays
<1>4. Group(g, s.past) \subseteq s.past
  BY DEF Group
<1> HIDE DEF h
<1>5. StateOK(h, s)
  <2>1. s.past \subseteq DOMAIN h
    BY <1>1, <1>2
  <2>2. ASSUME NEW m \in Methods
        PROVE  m \in s.selected <=> \E j \in Group(h, s.past) : m \in h[j].methods
    BY <1>1, <1>2, <1>3, <1>4 DEF StateOK
  <2>3. ASSUME NEW j \in Group(h, s.past) PROVE s.reset <=> Followed(h, s.past, j)
    BY <1>3, <1>4 DEF StateOK
  <2> QED BY <2>1, <2>2, <2>3 DEF StateOK
<1> QED BY <1>5 DEF h

\* The part of a group that no layer() was added to yet.
Open(calls, past) == {j \in Group(calls, past) : ~Followed(calls, past, j)}

\* The group after one more call, e, of the builder: of the calls Q in the log h.
GroupGrows(g, e, P, h, Q) ==
    LET n == Len(g) + 1
    IN  /\ e.kind = "on" => Group(h, Q) = {n}
        /\ e.kind = "register" => Group(h, Q) = {n} \cup Open(g, P)
        /\ e.kind = "layer" => Group(h, Q) = Group(g, P)
        /\ ~Followed(h, Q, n)
        /\ e.kind = "layer" => \A j \in P : Followed(h, Q, j)
        /\ e.kind # "layer" => \A j \in P : Followed(h, Q, j) <=> Followed(g, P, j)

\* And so it grows.
LEMMA GroupStep ==
    ASSUME NEW g \in Seq(Entries), NEW e \in Entries, NEW P, P \subseteq DOMAIN g
    PROVE  GroupGrows(g, e, P, Append(g, e), P \cup {Len(g) + 1})
<1> DEFINE n == Len(g) + 1
           h == Append(g, e)
           Q == P \cup {n}
<1>1. /\ n \in Nat /\ n \notin P /\ h[n] = e
      /\ \A i \in P : i \in Nat /\ i < n /\ h[i] = g[i]
  BY LogStep
<1> HIDE DEF n, h
<1>2. ASSUME e.kind = "on" PROVE Group(h, Q) = {n}
  BY <1>1, <1>2 DEF Group
<1>3. ASSUME e.kind = "register"
      PROVE  Group(h, Q) = {n} \cup Open(g, P)
  <2>1. n \in Group(h, Q)
    BY <1>1, <1>3 DEF Group
  <2>2. ASSUME NEW j \in P
        PROVE  j \in Group(h, Q) <=> j \in Group(g, P) /\ ~Followed(g, P, j)
    <3>1. (\E k \in Q : k > j /\ h[k].kind = "on") <=> (\E k \in P : k > j /\ g[k].kind = "on")
      BY <1>1, <1>3
    <3>2. (\E k, l \in Q : j < k /\ k < l /\ h[k].kind = "layer" /\ h[l].kind = "register")
            <=> Followed(g, P, j)
      <4>1. ASSUME NEW k \in Q, NEW l \in Q, j < k, k < l, h[k].kind = "layer"
            PROVE  Followed(g, P, j)
        BY <1>1, <1>3, <4>1 DEF Followed
      <4>2. ASSUME NEW k \in P, j < k, g[k].kind = "layer"
            PROVE  k \in Q /\ n \in Q /\ k < n /\ h[k].kind = "layer" /\ h[n].kind = "register"
        BY <1>1, <1>3, <4>2
      <4> QED BY <4>1, <4>2 DEF Followed
    <3>3. (\E k, l \in P : j < k /\ k < l /\ g[k].kind = "layer" /\ g[l].kind = "register")
            => Followed(g, P, j)
      BY DEF Followed
    <3>4. h[j] = g[j] /\ j \in Q
      BY <1>1
    <3>5. j \in Group(h, Q) <=>
            /\ h[j].kind \in {"register", "on"}
            /\ ~\E k \in Q : k > j /\ h[k].kind = "on"
            /\ ~\E k, l \in Q : j < k /\ k < l /\ h[k].kind = "layer" /\ h[l].kind = "register"
      BY <3>4 DEF Group
    <3>6. j \in Group(g, P) <=>
            /\ g[j].kind \in {"register", "on"}
            /\ ~\E k \in P : k > j /\ g[k].kind = "on"
            /\ ~\E k, l \in P : j < k /\ k < l /\ g[k].kind = "layer" /\ g[l].kind = "register"
      BY DEF Group
    <3> QED BY <3>1, <3>2, <3>3, <3>4, <3>5, <3>6
  <2>3. Group(h, Q) \subseteq Q /\ Group(g, P) \subseteq P
    BY DEF Group
  <2> QED BY <2>1, <2>2, <2>3 DEF Open
<1>4. ASSUME e.kind = "layer" PROVE Group(h, Q) = Group(g, P)
  <2>1. n \notin Group(h, Q)
    BY <1>1, <1>4 DEF Group
  <2>2. ASSUME NEW j \in P PROVE j \in Group(h, Q) <=> j \in Group(g, P)
    <3>1. (\E k \in Q : k > j /\ h[k].kind = "on") <=> (\E k \in P : k > j /\ g[k].kind = "on")
      BY <1>1, <1>4
    <3>2. (\E k, l \in Q : j < k /\ k < l /\ h[k].kind = "layer" /\ h[l].kind = "register")
            <=> (\E k, l \in P : j < k /\ k < l /\ g[k].kind = "layer" /\ g[l].kind = "register")
      <4>1. ASSUME NEW k \in Q, NEW l \in Q, j < k, k < l, h[k].kind = "layer", h[l].kind = "register"
            PROVE  k \in P /\ l \in P /\ g[k].kind = "layer" /\ g[l].kind = "register"
        BY <1>1, <1>4, <4>1
      <4>2. ASSUME NEW k \in P, NEW l \in P, g[k].kind = "layer", g[l].kind = "register"
            PROVE  k \in Q /\ l \in Q /\ h[k].kind = "layer" /\ h[l].kind = "register"
        BY <1>1, <4>2
      <4> QED BY <4>1, <4>2
    <3>3. h[j] = g[j] /\ j \in Q
      BY <1>1
    <3> QED BY <3>1, <3>2, <3>3 DEF Group
  <2>3. Group(h, Q) \subseteq Q /\ Group(g, P) \subseteq P
    BY DEF Group
  <2> QED BY <2>1, <2>2, <2>3
<1>5. ~Followed(h, Q, n)
  BY <1>1 DEF Followed
<1>6. ASSUME e.kind = "layer" PROVE \A j \in P : Followed(h, Q, j)
  BY <1>1, <1>6 DEF Followed
<1>7. ASSUME e.kind # "layer" PROVE \A j \in P : Followed(h, Q, j) <=> Followed(g, P, j)
  BY <1>1, <1>7 DEF Followed
<1> QED BY <1>2, <1>3, <1>4, <1>5, <1>6, <1>7 DEF n, h, GroupGrows

\* What a builder has selected and remembers after a call.
LEMMA StateStep ==
    ASSUME NEW g \in Seq(Entries), NEW s \in States, StateOK(g, s),
           NEW n, n = Len(g) + 1
    PROVE  /\ \A ms \in SUBSET Methods :
                 StateOK(Append(g, Entry("on", s, ms)), State(s.path, ms, FALSE, s.past \cup {n}))
           /\ \A m \in Methods :
                 StateOK(Append(g, Entry("register", s, {m})),
                         State(s.path, Selected(s, m), FALSE, s.past \cup {n}))
           /\ StateOK(Append(g, Entry("layer", s, {})),
                      State(s.path, s.selected, TRUE, s.past \cup {n}))
<1> DEFINE P == s.past
<1>1. /\ P \subseteq DOMAIN g /\ s.path \in Paths /\ s.past \in SUBSET Nat
      /\ s.selected \in SUBSET Methods /\ s.reset \in BOOLEAN
  BY DEF StateOK, States
<1>2. Group(g, P) \subseteq P
  BY DEF Group
<1>3. /\ \A x \in Methods : x \in s.selected <=> \E j \in Group(g, P) : x \in g[j].methods
      /\ \A j \in Group(g, P) : s.reset <=> Followed(g, P, j)
  BY DEF StateOK
<1>4. ASSUME NEW e \in Entries
      PROVE  /\ P \cup {n} \subseteq DOMAIN Append(g, e) /\ Append(g, e)[n] = e
             /\ \A j \in P : Append(g, e)[j] = g[j]
             /\ n \notin P
  BY <1>1, LogStep
<1> HIDE DEF P
<1>5. ASSUME NEW ms \in SUBSET Methods
      PROVE  StateOK(Append(g, Entry("on", s, ms)), State(s.path, ms, FALSE, P \cup {n}))
  <2> DEFINE e == Entry("on", s, ms)
             h == Append(g, e)
             Q == P \cup {n}
             t == State(s.path, ms, FALSE, P \cup {n})
  <2>1. e \in Entries /\ e.kind = "on" /\ e.methods = ms
    BY <1>1 DEF Entry, Entries
  <2>2. t.past = Q /\ t.selected = ms /\ t.reset = FALSE
    BY DEF State
  <2>h. h = Append(g, e) /\ Q = P \cup {n}
    OBVIOUS
  <2> HIDE DEF e, t, h, Q
  <2>3. Group(h, Q) = {n} /\ ~Followed(h, Q, n)
    <3>1. GroupGrows(g, e, P, h, Q)
      BY <1>1, <2>1, <2>h, GroupStep
    <3> QED BY <2>1, <3>1 DEF GroupGrows
  <2>4. Q \subseteq DOMAIN h /\ h[n] = e
    BY <1>4, <2>1, <2>h
  <2>5. StateOK(h, t)
    BY <2>1, <2>2, <2>3, <2>4 DEF StateOK
  <2> QED BY <2>5 DEF h, e, t
<1>6. ASSUME NEW m \in Methods
      PROVE  StateOK(Append(g, Entry("register", s, {m})), State(s.path, Selected(s, m), FALSE, P \cup {n}))
  <2> DEFINE e == Entry("register", s, {m})
             h == Append(g, e)
             Q == P \cup {n}
             t == State(s.path, Selected(s, m), FALSE, P \cup {n})
             G == Open(g, P)
  <2>1. e \in Entries /\ e.kind = "register" /\ e.methods = {m}
    BY <1>1 DEF Entry, Entries
  <2>2. t.past = Q /\ t.selected = Selected(s, m) /\ t.reset = FALSE
    BY DEF State
  <2>h. h = Append(g, e) /\ Q = P \cup {n}
    OBVIOUS
  <2> HIDE DEF e, t, h, Q
  <2>3. /\ Group(h, Q) = {n} \cup G /\ ~Followed(h, Q, n)
        /\ \A j \in P : Followed(h, Q, j) <=> Followed(g, P, j)
    <3>1. GroupGrows(g, e, P, h, Q)
      BY <1>1, <2>1, <2>h, GroupStep
    <3> QED BY <2>1, <3>1 DEF GroupGrows
  <2>4. Q \subseteq DOMAIN h /\ h[n] = e /\ \A j \in P : h[j] = g[j]
    BY <1>4, <2>1, <2>h
  <2>5. ASSUME NEW x \in Methods
        PROVE  x \in t.selected <=> \E j \in {n} \cup G : x \in h[j].methods
    <3>1. CASE s.reset
      <4>1. G = {}
        BY <1>3, <3>1 DEF Open
      <4> QED BY <2>1, <2>2, <2>4, <3>1, <4>1 DEF Selected
    <3>2. CASE ~s.reset
      <4>1. G = Group(g, P)
        BY <1>3, <3>2 DEF Open
      <4>2. x \in s.selected <=> \E j \in G : x \in h[j].methods
        BY <1>2, <1>3, <2>4, <4>1
      <4>3. x \in t.selected <=> x \in s.selected \/ x = m
        BY <2>2, <3>2 DEF Selected
      <4> QED BY <2>1, <2>4, <4>2, <4>3
    <3> QED BY <3>1, <3>2
  <2>6. \A j \in {n} \cup G : ~Followed(h, Q, j)
    BY <1>2, <2>3 DEF Open
  <2> HIDE DEF G
  <2>7. StateOK(h, t)
    BY <2>2, <2>3, <2>4, <2>5, <2>6 DEF StateOK
  <2> QED BY <2>7 DEF h, e, t
<1>7. StateOK(Append(g, Entry("layer", s, {})), State(s.path, s.selected, TRUE, P \cup {n}))
  <2> DEFINE e == Entry("layer", s, {})
             h == Append(g, e)
             Q == P \cup {n}
             t == State(s.path, s.selected, TRUE, P \cup {n})
  <2>1. e \in Entries /\ e.kind = "layer" /\ e.methods = {}
    BY <1>1 DEF Entry, Entries
  <2>2. t.past = Q /\ t.selected = s.selected /\ t.reset = TRUE
    BY DEF State
  <2>h. h = Append(g, e) /\ Q = P \cup {n}
    OBVIOUS
  <2> HIDE DEF e, t, h, Q
  <2>3. /\ Group(h, Q) = Group(g, P)
        /\ \A j \in P : Followed(h, Q, j)
    <3>1. GroupGrows(g, e, P, h, Q)
      BY <1>1, <2>1, <2>h, GroupStep
    <3> QED BY <2>1, <3>1 DEF GroupGrows
  <2>4. Q \subseteq DOMAIN h /\ \A j \in P : h[j] = g[j]
    BY <1>4, <2>1, <2>h
  <2>5. ASSUME NEW x \in Methods
        PROVE  x \in t.selected <=> \E j \in Group(g, P) : x \in h[j].methods
    BY <1>2, <1>3, <2>2, <2>4
  <2>6. StateOK(h, t)
    BY <1>2, <2>2, <2>3, <2>4, <2>5 DEF StateOK
  <2> QED BY <2>6 DEF h, e, t
<1> QED BY <1>5, <1>6, <1>7 DEF P

\* The last registration is one, if there is any.
LastIsOne(calls) ==
    \A p \in Paths, m \in Methods :
        Registrations(calls, p, m) # {} => Max(Registrations(calls, p, m)) \in Registrations(calls, p, m)

\* A call registers what it names, and adds to the layers of what it does not name.
LEMMA LogLayers ==
    ASSUME NEW g \in Seq(Entries), PastOK(g), LastIsOne(g),
           NEW e \in Entries, e.past \subseteq DOMAIN g,
           NEW p \in Paths, NEW m \in Methods
    PROVE  /\ e.path = p /\ m \in e.methods =>
                 /\ Registrations(Append(g, e), p, m) # {}
                 /\ Max(Registrations(Append(g, e), p, m)) = Len(g) + 1
                 /\ Len(g) + 1 \in Registrations(Append(g, e), p, m)
                 /\ LayersOver(Append(g, e), p, m) = {}
           /\ ~(e.path = p /\ m \in e.methods) =>
                 Registrations(Append(g, e), p, m) = Registrations(g, p, m)
           /\ ~(e.path = p /\ m \in e.methods) /\ Registrations(g, p, m) # {} =>
                 LayersOver(Append(g, e), p, m) =
                    IF /\ e.kind = "layer" /\ e.path = p
                       /\ \E j \in Group(g, e.past) : m \in g[j].methods
                    THEN LayersOver(g, p, m) \cup {Len(g) + 1}
                    ELSE LayersOver(g, p, m)
<1> DEFINE h == Append(g, e)
           n == Len(g) + 1
           R == Registrations(g, p, m)
           S == Registrations(h, p, m)
<1>1. /\ n \in Nat /\ DOMAIN g = 1 .. Len(g) /\ Len(g) \in Nat /\ n = Len(g) + 1
      /\ DOMAIN h = 1 .. n /\ h[n] = e
      /\ \A i \in 1 .. Len(g) : h[i] = g[i]
  BY LogStep
<1>2. R \subseteq 1 .. Len(g)
  BY <1>1 DEF Registrations
<1> HIDE DEF h, n
<1>3. ASSUME e.path = p, m \in e.methods
      PROVE  S # {} /\ Max(S) = n /\ n \in S /\ LayersOver(h, p, m) = {}
  <2>1. n \in S /\ S \subseteq 1 .. n
    BY <1>1, <1>3 DEF Registrations
  <2> HIDE DEF S
  <2>2. Max(S) = n
    <3>1. \A x \in S : n >= x
      BY <1>1, <2>1
    <3>2. \A x \in S : (\A y \in S : x >= y) => x = n
      BY <1>1, <2>1
    <3> QED BY <2>1, <3>1, <3>2 DEF Max
  <2>3. LayersOver(h, p, m) = {}
    BY <1>1, <2>2 DEF LayersOver, S
  <2> QED BY <2>1, <2>2, <2>3
<1>4. ASSUME ~(e.path = p /\ m \in e.methods)
      PROVE  S = R
  BY <1>1, <1>4 DEF Registrations
<1>5. ASSUME ~(e.path = p /\ m \in e.methods), R # {}
      PROVE  LayersOver(h, p, m) =
                IF /\ e.kind = "layer" /\ e.path = p
                   /\ \E j \in Group(g, e.past) : m \in g[j].methods
                THEN LayersOver(g, p, m) \cup {n}
                ELSE LayersOver(g, p, m)
  <2> DEFINE last == Max(R)
  <2>1. last \in R
    BY <1>5 DEF LastIsOne
  <2>2. Max(S) = last /\ last < n /\ last \in Nat
    BY <1>1, <1>2, <1>4, <1>5, <2>1
  <2> HIDE DEF R, S, last
  <2>3. ASSUME NEW i \in DOMAIN h, NEW P, P = h[i].past
        PROVE  /\ P \subseteq DOMAIN g
               /\ Group(h, P) = Group(g, P)
               /\ (\E j \in Group(h, P) : m \in h[j].methods) <=>
                      (\E j \in Group(g, P) : m \in g[j].methods)
    <3>1. P \subseteq DOMAIN g
      <4>1. CASE i = n
        BY <1>1, <2>3, <4>1
      <4>2. CASE i # n
        <5>1. i \in DOMAIN g /\ h[i] = g[i]
          BY <1>1, <4>2
        <5>2. g[i].past \subseteq 1 .. (i - 1)
          BY <5>1 DEF PastOK
        <5> QED BY <1>1, <2>3, <5>1, <5>2
      <4> QED BY <4>1, <4>2
    <3>2. Group(h, P) = Group(g, P)
      BY <3>1, GroupStays DEF h
    <3>3. Group(g, P) \subseteq P
      BY DEF Group
    <3> QED BY <1>1, <3>1, <3>2, <3>3
  <2>4. ASSUME NEW i \in DOMAIN g
        PROVE  i \in LayersOver(h, p, m) <=> i \in LayersOver(g, p, m)
    <3>1. i \in DOMAIN h /\ h[i] = g[i]
      BY <1>1
    <3>2. (\E j \in Group(h, h[i].past) : m \in h[j].methods) <=>
             (\E j \in Group(g, g[i].past) : m \in g[j].methods)
      BY <2>3, <3>1
    <3>3. i \in LayersOver(h, p, m) <=>
             /\ i > Max(S) /\ h[i].kind = "layer" /\ h[i].path = p
             /\ \E j \in Group(h, h[i].past) : m \in h[j].methods
      BY <3>1 DEF LayersOver, S
    <3>4. i \in LayersOver(g, p, m) <=>
             /\ i > last /\ g[i].kind = "layer" /\ g[i].path = p
             /\ \E j \in Group(g, g[i].past) : m \in g[j].methods
      BY DEF LayersOver, R, last
    <3> QED BY <2>2, <3>1, <3>2, <3>3, <3>4
  <2>5. n \in LayersOver(h, p, m) <=>
           e.kind = "layer" /\ e.path = p /\ \E j \in Group(g, e.past) : m \in g[j].methods
    <3>1. n \in DOMAIN h /\ h[n] = e /\ n > Max(S)
      BY <1>1, <2>2
    <3>2. (\E j \in Group(h, e.past) : m \in h[j].methods) <=>
             (\E j \in Group(g, e.past) : m \in g[j].methods)
      BY <2>3, <3>1
    <3>3. n \in LayersOver(h, p, m) <=>
             /\ n > Max(S) /\ h[n].kind = "layer" /\ h[n].path = p
             /\ \E j \in Group(h, h[n].past) : m \in h[j].methods
      BY <3>1 DEF LayersOver, S
    <3> QED BY <3>1, <3>2, <3>3
  <2>6. LayersOver(h, p, m) \subseteq DOMAIN h /\ LayersOver(g, p, m) \subseteq DOMAIN g
    BY DEF LayersOver
  <2>7. ASSUME NEW i \in DOMAIN h, i # n PROVE i \in DOMAIN g
    <3>1. i \in 1 .. n
      BY <1>1
    <3>2. i \in 1 .. Len(g)
      BY <1>1, <2>7, <3>1
    <3> QED BY <1>1, <3>2
  <2>8. n \notin DOMAIN g
    BY <1>1
  <2> DEFINE A == LayersOver(h, p, m)
             B == LayersOver(g, p, m)
             added == e.kind = "layer" /\ e.path = p /\ \E j \in Group(g, e.past) : m \in g[j].methods
  <2>9. /\ \A i \in DOMAIN g : i \in A <=> i \in B
        /\ n \in A <=> added
        /\ A \subseteq DOMAIN g \cup {n} /\ B \subseteq DOMAIN g /\ n \notin DOMAIN g
    BY <2>4, <2>5, <2>6, <2>7, <2>8
  <2> HIDE DEF A, B, added
  <2>10. A = IF added THEN B \cup {n} ELSE B
    <3>1. CASE added
      <4>1. \A i : i \in A => i \in B \cup {n}
        BY <2>9
      <4>2. \A i : i \in B \cup {n} => i \in A
        BY <2>9, <3>1
      <4> QED BY <3>1, <4>1, <4>2
    <3>2. CASE ~added
      <4>1. \A i : i \in A <=> i \in B
        BY <2>9, <3>2
      <4> QED BY <3>2, <4>1
    <3> QED BY <3>1, <3>2
  <2> QED BY <2>10 DEF A, B, added
<1> QED BY <1>3, <1>4, <1>5 DEF h, n

\* An ascending sequence stays one with a greater number behind it.
LEMMA AscendingAppend ==
    ASSUME NEW s \in Seq(Nat), NEW S, Ascending(s, S), NEW n \in Nat, \A i \in S : i < n
    PROVE  Ascending(Append(s, n), S \cup {n})
<1> DEFINE t == Append(s, n)
           k == Len(s)
<1>1. /\ k \in Nat /\ DOMAIN s = 1 .. k /\ DOMAIN t = 1 .. k + 1
      /\ t[k + 1] = n /\ \A i \in 1 .. k : t[i] = s[i]
  BY AppendProperties
<1>2. S = {s[i] : i \in DOMAIN s} /\ \A i, j \in DOMAIN s : i < j => s[i] < s[j]
  BY DEF Ascending, ToSet
<1> HIDE DEF t, k
<1>3. ToSet(t) = S \cup {n}
  <2>1. \A i \in DOMAIN t : t[i] \in S \cup {n}
    BY <1>1, <1>2
  <2>2. \A x \in S \cup {n} : \E i \in DOMAIN t : t[i] = x
    BY <1>1, <1>2
  <2> QED BY <2>1, <2>2 DEF ToSet
<1>4. ASSUME NEW i \in DOMAIN t, NEW j \in DOMAIN t, i < j PROVE t[i] < t[j]
  <2>1. i \in 1 .. k
    BY <1>1, <1>4
  <2>2. t[i] = s[i] /\ s[i] \in S
    BY <1>1, <1>2, <2>1
  <2>3. CASE j = k + 1
    BY <1>1, <2>2, <2>3
  <2>4. CASE j # k + 1
    <3>1. j \in 1 .. k
      BY <1>1, <2>4
    <3> QED BY <1>1, <1>2, <1>4, <2>1, <3>1
  <2> QED BY <2>3, <2>4
<1>5. Ascending(t, S \cup {n})
  BY <1>3, <1>4 DEF Ascending
<1> QED BY <1>5 DEF t

\* An endpoint without layers.
LEMMA AscendingEmpty == Ascending(<< >>, {})
BY DEF Ascending, ToSet

-----------------------------------------------------------------------------
\* The log, what the builders know of it, and the endpoints it has led to.
LogInv ==
    /\ PastOK(log) /\ LastIsOne(log)
    /\ \A b \in Builders : builders[b] # None => StateOK(log, builders[b])
    /\ ChainsAsWritten

\* What may happen to an endpoint, e, when the call c is added to the log.
AsCalled(c, p, m, e, f) ==
    IF c.path = p /\ m \in c.methods THEN f = Endpoint(Call)
    ELSE IF /\ c.kind = "layer" /\ c.path = p
            /\ \E j \in Group(log, c.past) : m \in log[j].methods
    THEN e # None /\ f = Wrapped(e, Call)
    ELSE f = e

\* A call that changes the endpoints as it says.
LEMMA CallStep ==
    ASSUME Inv, LogInv, NEW c \in Entries, c.past \subseteq DOMAIN log,
           log' = Append(log, c),
           NEW b \in Builders, NEW t, builders' = [builders EXCEPT ![b] = t],
           StateOK(log', t),
           c.kind = "layer" => c.methods = {},
           \A p \in Paths, m \in Methods :
              AsCalled(c, p, m, FindRouteBucket(p)[m], FindRouteBucket(p)'[m])
    PROVE  LogInv'
<1> DEFINE n == Len(log) + 1
<1>0. log \in Seq(Entries) /\ builders \in [Builders -> States \cup {None}] /\ Call = n
  BY DEF Inv, TypeOK, Call
<1>1. /\ n \in Nat /\ DOMAIN log = 1 .. Len(log) /\ Len(log) \in Nat
      /\ DOMAIN log' = 1 .. n /\ log'[n] = c
      /\ \A i \in 1 .. Len(log) : log'[i] = log[i]
  BY <1>0, LogStep
<1>2. PastOK(log')
  <2>1. ASSUME NEW i \in DOMAIN log' PROVE log'[i].past \subseteq 1 .. (i - 1)
    <3>1. CASE i = n
      BY <1>1, <3>1
    <3>2. CASE i # n
      <4>1. i \in DOMAIN log /\ log'[i] = log[i]
        BY <1>1, <3>2
      <4> QED BY <4>1 DEF LogInv, PastOK
    <3> QED BY <3>1, <3>2
  <2> QED BY <2>1 DEF PastOK
<1>3. ASSUME NEW p \in Paths, NEW m \in Methods
      PROVE  /\ c.path = p /\ m \in c.methods =>
                 /\ Registrations(log', p, m) # {}
                 /\ Max(Registrations(log', p, m)) = n
                 /\ n \in Registrations(log', p, m)
                 /\ LayersOver(log', p, m) = {}
             /\ ~(c.path = p /\ m \in c.methods) =>
                 Registrations(log', p, m) = Registrations(log, p, m)
             /\ ~(c.path = p /\ m \in c.methods) /\ Registrations(log, p, m) # {} =>
                 LayersOver(log', p, m) =
                    IF /\ c.kind = "layer" /\ c.path = p
                       /\ \E j \in Group(log, c.past) : m \in log[j].methods
                    THEN LayersOver(log, p, m) \cup {n}
                    ELSE LayersOver(log, p, m)
  BY <1>0, LogLayers DEF LogInv
<1>4. LastIsOne(log')
  <2>1. ASSUME NEW p \in Paths, NEW m \in Methods, Registrations(log', p, m) # {}
        PROVE  Max(Registrations(log', p, m)) \in Registrations(log', p, m)
    BY <1>3, <2>1 DEF LogInv, LastIsOne
  <2> QED BY <2>1 DEF LastIsOne
<1>5. ASSUME NEW d \in Builders, builders'[d] # None PROVE StateOK(log', builders'[d])
  <2>1. CASE d = b
    BY <1>0, <2>1
  <2>2. CASE d # b
    <3>1. builders'[d] = builders[d]
      BY <1>0, <2>2
    <3>2. StateOK(log, builders[d])
      BY <1>5, <3>1 DEF LogInv
    <3> QED BY <1>0, <3>1, <3>2, StateStays
  <2> QED BY <2>1, <2>2
<1>6. ASSUME NEW p \in Paths, NEW m \in Methods, NEW e, NEW f,
             e = FindRouteBucket(p)[m], f = FindRouteBucket(p)'[m]
      PROVE  IF Registrations(log', p, m) = {} THEN f = None
             ELSE /\ f # None /\ f.handler = Max(Registrations(log', p, m))
                  /\ Ascending(f.layers, LayersOver(log', p, m))
  <2>1. AsCalled(c, p, m, e, f)
    BY <1>6
  <2>2. IF Registrations(log, p, m) = {} THEN e = None
        ELSE /\ e # None /\ e.handler = Max(Registrations(log, p, m))
             /\ Ascending(e.layers, LayersOver(log, p, m))
    BY <1>6 DEF LogInv, ChainsAsWritten
  <2>3. e \in Endpoints \cup {None}
    <3>1. FindRouteBucket(p) \in Buckets
      BY FindBucketType DEF Inv
    <3> QED BY <1>6, <3>1 DEF Buckets
  <2>4. CASE c.path = p /\ m \in c.methods
    <3>1. f = Endpoint(n)
      BY <1>0, <2>1, <2>4 DEF AsCalled
    <3>2. f \in Endpoints /\ f.handler = n /\ f.layers = << >>
      BY <1>1, <3>1 DEF Endpoint, Endpoints
    <3>3. f # None
      BY <3>2, NoneAssumption DEF Endpoints
    <3> QED BY <1>3, <2>4, <3>2, <3>3, AscendingEmpty
  <2>5. CASE /\ ~(c.path = p /\ m \in c.methods)
             /\ c.kind = "layer" /\ c.path = p
             /\ \E j \in Group(log, c.past) : m \in log[j].methods
    <3> DEFINE S == LayersOver(log, p, m)
    <3>1. e # None /\ f = Wrapped(e, n)
      BY <1>0, <2>1, <2>5 DEF AsCalled
    <3>2. f = [handler |-> e.handler, layers |-> Append(e.layers, n)]
      BY <3>1 DEF Wrapped
    <3>3. e \in Endpoints /\ e.handler \in Nat /\ e.layers \in Seq(Nat)
      BY <2>3, <3>1 DEF Endpoints
    <3>4. f \in Endpoints
      BY <1>1, <3>2, <3>3 DEF Endpoints
    <3>5. /\ Registrations(log, p, m) # {} /\ e.handler = Max(Registrations(log, p, m))
          /\ Ascending(e.layers, S)
      BY <2>2, <3>1
    <3>6. /\ Registrations(log', p, m) = Registrations(log, p, m)
          /\ LayersOver(log', p, m) = S \cup {n}
      BY <1>3, <2>5, <3>5
    <3>7. \A i \in S : i < n
      BY <1>1 DEF LayersOver
    <3> HIDE DEF S
    <3>8. Ascending(Append(e.layers, n), S \cup {n})
      BY <1>1, <3>3, <3>5, <3>7, AscendingAppend
    <3>9. f # None
      BY <3>4, NoneAssumption DEF Endpoints
    <3> QED BY <3>2, <3>5, <3>6, <3>8, <3>9
  <2>6. CASE /\ ~(c.path = p /\ m \in c.methods)
             /\ ~(/\ c.kind = "layer" /\ c.path = p
                  /\ \E j \in Group(log, c.past) : m \in log[j].methods)
    <3>1. f = e
      BY <2>1, <2>6 DEF AsCalled
    <3> QED BY <1>3, <2>2, <2>6, <3>1
  <2> QED BY <2>4, <2>5, <2>6
<1> QED BY <1>2, <1>4, <1>5, <1>6 DEF LogInv, ChainsAsWritten

\* A builder that makes no call, and knows what another one, or none, has known.
LEMMA NoCallStep ==
    ASSUME Inv, LogInv, log' = log,
           \A p \in Paths : FindRouteBucket(p)' = FindRouteBucket(p),
           \A b \in Builders : builders'[b] # None => StateOK(log, builders'[b])
    PROVE  LogInv'
BY DEF LogInv, ChainsAsWritten

\* Nothing is known of the past by a new builder.
LEMMA NewBuilder ==
    ASSUME NEW p \in Paths
    PROVE  StateOK(log, Builder(p)) /\ Builder(p) \in States /\ Builder(p).selected = {}
<1>1. Builder(p) \in States /\ Builder(p).past = {} /\ Builder(p).selected = {}
  BY DEF Builder, State, States
<1>2. Group(log, {}) = {}
  BY DEF Group
<1> QED BY <1>1, <1>2 DEF StateOK

\* A registration by a builder in state s, which knows the log.
LEMMA RegistersAsCalled ==
    ASSUME Inv, LogInv, NEW s \in States, StateOK(log, s), NEW ms \in SUBSET Methods,
           RegisterEndpoint(s.path, ms, Call),
           NEW kind \in {"on", "register"}, NEW c, c = Entry(kind, s, ms)
    PROVE  /\ c \in Entries /\ c.past \subseteq DOMAIN log /\ c.kind = kind
           /\ \A p \in Paths, m \in Methods :
                 AsCalled(c, p, m, FindRouteBucket(p)[m], FindRouteBucket(p)'[m])
<1>1. s.path \in Paths /\ s.past \in SUBSET Nat /\ Call \in Nat
  BY DEF States, Inv, TypeOK, Call
<1>2. c \in Entries /\ c.past = s.past /\ c.kind = kind /\ c.path = s.path /\ c.methods = ms
  BY <1>1 DEF Entry, Entries
<1>3. c.past \subseteq DOMAIN log
  BY <1>2 DEF StateOK
<1>4. \A q \in Paths :
         FindRouteBucket(q)' = IF q = s.path THEN Registered(FindRouteBucket(s.path), ms, Call)
                               ELSE FindRouteBucket(q)
  BY <1>1, AfterRegister DEF Inv
<1>5. ASSUME NEW p \in Paths, NEW m \in Methods
      PROVE  AsCalled(c, p, m, FindRouteBucket(p)[m], FindRouteBucket(p)'[m])
  <2>1. FindRouteBucket(p)'[m] = IF p = s.path /\ m \in ms THEN Endpoint(Call) ELSE FindRouteBucket(p)[m]
    BY <1>4 DEF Registered
  <2> QED BY <1>2, <2>1 DEF AsCalled
<1> QED BY <1>2, <1>3, <1>5

\* register_single.
LEMMA SingleCalled ==
    ASSUME Inv, LogInv, NEW b \in Builders, NEW s \in States, StateOK(log, s), NEW m \in Methods,
           RegisterSingle(b, s, m)
    PROVE  LogInv'
<1> DEFINE n == Len(log) + 1
           c == Entry("register", s, {m})
           t == State(s.path, Selected(s, m), FALSE, s.past \cup {n})
<1>1. log \in Seq(Entries) /\ Call = n
  BY DEF Inv, TypeOK, Call
<1>2. RegisterEndpoint(s.path, {m}, Call) /\ builders' = [builders EXCEPT ![b] = t] /\ log' = Append(log, c)
  BY <1>1 DEF RegisterSingle
<1>3. StateOK(Append(log, c), t)
  BY <1>1, StateStep
<1> HIDE DEF c, t, n
<1>4. /\ c \in Entries /\ c.past \subseteq DOMAIN log /\ c.kind = "register"
      /\ \A p \in Paths, x \in Methods :
            AsCalled(c, p, x, FindRouteBucket(p)[x], FindRouteBucket(p)'[x])
  BY <1>2, RegistersAsCalled DEF c
<1> QED BY <1>2, <1>3, <1>4, CallStep

\* on().
LEMMA OnCalled ==
    ASSUME Inv, LogInv, NEW b \in Builders, NEW ms \in SUBSET Methods, On(b, ms)
    PROVE  LogInv'
<1> DEFINE n == Len(log) + 1
           s == builders[b]
           c == Entry("on", s, ms)
           t == State(s.path, ms, FALSE, s.past \cup {n})
<1>1. /\ log \in Seq(Entries) /\ Call = n /\ s \in States /\ StateOK(log, s)
  BY DEF Inv, TypeOK, Call, On, LogInv
<1>2. RegisterEndpoint(s.path, ms, Call) /\ builders' = [builders EXCEPT ![b] = t] /\ log' = Append(log, c)
  BY <1>1 DEF On
<1> HIDE DEF s
<1>3. StateOK(Append(log, c), t)
  BY <1>1, StateStep
<1> HIDE DEF c, t, n
<1>4. /\ c \in Entries /\ c.past \subseteq DOMAIN log /\ c.kind = "on"
      /\ \A p \in Paths, x \in Methods :
            AsCalled(c, p, x, FindRouteBucket(p)[x], FindRouteBucket(p)'[x])
  BY <1>1, <1>2, RegistersAsCalled DEF c
<1> QED BY <1>2, <1>3, <1>4, CallStep

\* layer().
LEMMA LayerCalled ==
    ASSUME Inv, LogInv, NEW b \in Builders, Layer(b)
    PROVE  LogInv'
<1> DEFINE n == Len(log) + 1
           s == builders[b]
           old == FindRouteBucket(s.path)
           bucket == Layered(old, s.selected, Call)
           c == Entry("layer", s, {})
           t == State(s.path, s.selected, TRUE, s.past \cup {n})
<1>1. /\ log \in Seq(Entries) /\ Call = n /\ s \in States /\ StateOK(log, s)
  BY DEF Inv, TypeOK, Call, Layer, LogInv
<1>2. CASE old = NoEndpoints
  <2>1. UNCHANGED vars
    BY <1>2 DEF Layer
  <2>2. \A p \in Paths : FindRouteBucket(p)' = FindRouteBucket(p)
    BY <2>1 DEF vars, FindRouteBucket, FindDynamicRoute, NoEndpoints, Min
  <2> QED BY <2>1, <2>2, NoCallStep DEF vars, LogInv
<1>3. CASE old # NoEndpoints
  <2>1. /\ UpdateBucket(s.path, bucket)
        /\ builders' = [builders EXCEPT ![b] = t]
        /\ log' = Append(log, c)
    BY <1>1, <1>3 DEF Layer
  <2>2. /\ s.path \in Paths /\ s.selected \in SUBSET Methods /\ s.past \in SUBSET Nat
        /\ (s.path \in StaticPaths \/ FindDynamicRoute(s.path) # {})
        /\ old \in Buckets /\ n \in Nat
    BY <1>1, <1>3, FindBucketType DEF States, FindRouteBucket, Inv
  <2>3. \A m \in s.selected : old[m] # None
    BY <1>1, <2>2 DEF Inv, SelectionInv, Layer
  <2>4. bucket \in Buckets
    <3>1. ASSUME NEW m \in Methods, m \in s.selected
          PROVE  Wrapped(old[m], Call) \in Endpoints
      <4>1. old[m] \in Endpoints
        BY <2>2, <2>3, <3>1 DEF Buckets
      <4>2. old[m].handler \in Nat /\ Append(old[m].layers, n) \in Seq(Nat)
        BY <2>2, <4>1 DEF Endpoints
      <4>3. Wrapped(old[m], Call) = [handler |-> old[m].handler, layers |-> Append(old[m].layers, n)]
        BY <1>1, <2>3, <3>1 DEF Wrapped
      <4> QED BY <4>2, <4>3 DEF Endpoints
    <3>2. \A m \in Methods : bucket[m] \in Endpoints \cup {None}
      BY <2>2, <3>1 DEF Layered, Buckets
    <3> QED BY <3>2 DEF Layered, Buckets
  <2>5. \A m \in Methods : bucket[m] = IF m \in s.selected THEN Wrapped(old[m], Call) ELSE old[m]
    BY DEF Layered
  <2> HIDE DEF bucket
  <2>6. \A q \in Paths : FindRouteBucket(q)' = IF q = s.path THEN bucket ELSE FindRouteBucket(q)
    BY <2>1, <2>2, <2>4, AfterUpdate DEF Inv
  <2>7. c \in Entries /\ c.past = s.past /\ c.kind = "layer" /\ c.path = s.path /\ c.methods = {}
    BY <2>2 DEF Entry, Entries
  <2>8. StateOK(Append(log, c), t)
    BY <1>1, StateStep
  <2> HIDE DEF c, t
  <2>9. c.past \subseteq DOMAIN log
    BY <1>1, <2>7 DEF StateOK
  <2>10. ASSUME NEW p \in Paths, NEW m \in Methods
         PROVE  AsCalled(c, p, m, FindRouteBucket(p)[m], FindRouteBucket(p)'[m])
    <3>1. m \in s.selected <=> \E j \in Group(log, c.past) : m \in log[j].methods
      BY <1>1, <2>7 DEF StateOK
    <3>2. CASE p = s.path /\ m \in s.selected
      BY <2>3, <2>5, <2>6, <2>7, <3>1, <3>2 DEF AsCalled
    <3>3. CASE p = s.path /\ m \notin s.selected
      BY <2>5, <2>6, <2>7, <3>1, <3>3 DEF AsCalled
    <3>4. CASE p # s.path
      BY <2>6, <2>7, <3>4 DEF AsCalled
    <3> QED BY <3>2, <3>3, <3>4
  <2> QED BY <2>1, <2>7, <2>8, <2>9, <2>10, CallStep
<1> QED BY <1>2, <1>3

\* Every call keeps what the log says.
LEMMA NextLogInv == Inv /\ LogInv /\ [Next]_vars => LogInv'
<1> SUFFICES ASSUME Inv, LogInv, [Next]_vars PROVE LogInv'
  OBVIOUS
<1>0. builders \in [Builders -> States \cup {None}]
  BY DEF Inv, TypeOK
<1>1. ASSUME UNCHANGED <<routes, dynamic_routes, log>>
      PROVE  \A p \in Paths : FindRouteBucket(p)' = FindRouteBucket(p)
  BY <1>1 DEF FindRouteBucket, FindDynamicRoute, NoEndpoints, Min
<1>2. ASSUME NEW b \in Builders, NEW p \in Paths, Route(b, p) PROVE LogInv'
  <2>1. \A d \in Builders : builders'[d] # None => StateOK(log, builders'[d])
    BY <1>0, <1>2, NewBuilder DEF Route, LogInv
  <2> QED BY <1>1, <1>2, <2>1, NoCallStep DEF Route
<1>3. ASSUME NEW b \in Builders, NEW p \in Paths, NEW m \in Methods, RouteWith(b, p, m) PROVE LogInv'
  BY <1>3, NewBuilder, SingleCalled DEF RouteWith
<1>4. ASSUME NEW b \in Builders, NEW c \in Builders, Copy(b, c) PROVE LogInv'
  <2>1. \A d \in Builders : builders'[d] # None => StateOK(log, builders'[d])
    BY <1>0, <1>4 DEF Copy, LogInv
  <2> QED BY <1>1, <1>4, <2>1, NoCallStep DEF Copy
<1>5. ASSUME NEW b \in Builders, NEW m \in Methods, Register(b, m) PROVE LogInv'
  BY <1>0, <1>5, SingleCalled DEF Register, LogInv
<1>6. CASE UNCHANGED vars
  BY <1>1, <1>6, NoCallStep DEF vars, LogInv
<1> QED BY <1>2, <1>3, <1>4, <1>5, <1>6, OnCalled, LayerCalled DEF Next

\* Before any call the tables are empty, as the log is.
LEMMA InitLogInv == Init => LogInv
<1> SUFFICES ASSUME Init PROVE LogInv
  OBVIOUS
<1>1. log = << >> /\ DOMAIN log = {} /\ \A b \in Builders : builders[b] = None
  BY DEF Init
<1>2. \A p \in Paths, m \in Methods : Registrations(log, p, m) = {}
  BY <1>1 DEF Registrations
<1>3. \A p \in Paths, m \in Methods : FindRouteBucket(p)[m] = None
  BY DEF Init, FindRouteBucket, FindDynamicRoute, NoEndpoints
<1>4. PastOK(log) /\ LastIsOne(log)
  BY <1>1, <1>2 DEF PastOK, LastIsOne
<1> QED BY <1>1, <1>2, <1>3, <1>4 DEF LogInv, ChainsAsWritten

\* Every endpoint is what was registered last for its path and method, under the
\* layers added since, for any interleaving of any builders and copies
\* (router.cpp:117-183, 567-588).
THEOREM ChainsAreWritten == Spec => []ChainsAsWritten
<1>1. LogInv => ChainsAsWritten
  BY DEF LogInv
<1> QED BY <1>1, InitLogInv, NextLogInv, Invariant, PTL DEF Spec

-----------------------------------------------------------------------------
\* The patterns with an entry are those that were registered, each with a first call.
Entered(p) == \E i \in DOMAIN dynamic_routes : dynamic_routes[i].path = p
HasFirst(calls, p) ==
    Uses(calls, p) # {} => /\ Min(Uses(calls, p)) \in Uses(calls, p)
                           /\ \A i \in Uses(calls, p) : Min(Uses(calls, p)) <= i
FirstInv ==
    /\ \A p \in Patterns : HasFirst(log, p) /\ (Entered(p) <=> Uses(log, p) # {})
    /\ PatternsInOrder

\* A later call is the first one only if it has no other before it.
UsesGrow(g, e, p, h) ==
    LET n == Len(g) + 1
    IN  /\ HasFirst(h, p)
        /\ Uses(h, p) # {} <=> Uses(g, p) # {} \/ (e.path = p /\ e.methods # {})
        /\ Uses(g, p) # {} => Min(Uses(h, p)) = Min(Uses(g, p)) /\ Min(Uses(g, p)) < n
        /\ Uses(g, p) = {} /\ Uses(h, p) # {} => Min(Uses(h, p)) = n

\* That is what another call does to the uses of a path.
LEMMA UsesStep ==
    ASSUME NEW g \in Seq(Entries), NEW e \in Entries, NEW p, HasFirst(g, p)
    PROVE  UsesGrow(g, e, p, Append(g, e))
<1> DEFINE n == Len(g) + 1
           h == Append(g, e)
           U == Uses(g, p)
           V == Uses(h, p)
           new == e.path = p /\ e.methods # {}
<1>1. /\ n \in Nat /\ DOMAIN g = 1 .. Len(g) /\ Len(g) \in Nat
      /\ DOMAIN h = 1 .. n /\ h[n] = e
      /\ \A i \in 1 .. Len(g) : h[i] = g[i]
  BY LogStep
<1>2. \A i \in U : i \in Nat /\ i < n
  BY <1>1 DEF Uses
<1>3. \A i : i \in V <=> i \in U \/ (i = n /\ new)
  <2>1. ASSUME NEW i \in V PROVE i \in U \/ (i = n /\ new)
    <3>1. i \in 1 .. n /\ h[i].path = p /\ h[i].methods # {}
      BY <1>1 DEF Uses
    <3>2. CASE i = n
      BY <1>1, <3>1, <3>2
    <3>3. CASE i # n
      <4>1. i \in 1 .. Len(g)
        BY <1>1, <3>1, <3>3
      <4> QED BY <1>1, <3>1, <4>1 DEF Uses
    <3> QED BY <3>2, <3>3
  <2>2. ASSUME NEW i \in U PROVE i \in V
    <3>1. i \in DOMAIN g /\ g[i].path = p /\ g[i].methods # {}
      BY DEF Uses
    <3>2. i \in DOMAIN h /\ h[i] = g[i]
      BY <1>1, <3>1
    <3> QED BY <3>1, <3>2 DEF Uses
  <2>3. ASSUME new PROVE n \in V
    <3>1. n \in DOMAIN h
      BY <1>1
    <3> QED BY <1>1, <2>3, <3>1 DEF Uses
  <2> QED BY <2>1, <2>2, <2>3
<1>4. U # {} => Min(U) \in U /\ \A i \in U : Min(U) <= i
  BY DEF HasFirst
<1> HIDE DEF U, V, new, n, h
<1>5. ASSUME U # {}
      PROVE  /\ Min(V) = Min(U) /\ Min(U) < n
             /\ Min(V) \in V /\ \A i \in V : Min(V) <= i
  <2> DEFINE f == Min(U)
  <2>1. f \in U /\ f \in V /\ f \in Nat /\ f < n /\ \A i \in V : f <= i
    BY <1>1, <1>2, <1>3, <1>4, <1>5
  <2>2. \A i \in V : i \in Nat
    BY <1>1, <1>2, <1>3
  <2> HIDE DEF f
  <2>3. \A x \in V : (\A y \in V : x <= y) => x = f
    BY <2>1, <2>2
  <2>4. Min(V) = f
    BY <2>1, <2>3 DEF Min
  <2> QED BY <2>1, <2>4 DEF f
<1>6. ASSUME U = {}, V # {}
      PROVE  Min(V) = n /\ n \in V /\ \A i \in V : n <= i
  <2>1. V = {n}
    BY <1>3, <1>6
  <2> QED BY <1>1, <2>1 DEF Min
<1>7. HasFirst(h, p)
  BY <1>5, <1>6 DEF HasFirst, U, V
<1> QED BY <1>3, <1>5, <1>6, <1>7 DEF U, V, new, n, h, UsesGrow

\* Entries are of patterns.
LEMMA EntryPath ==
    ASSUME TypeOK, NEW i \in DOMAIN dynamic_routes
    PROVE  dynamic_routes[i].path \in Patterns
<1>1. dynamic_routes \in Seq([path : Patterns, endpoints : Buckets])
  BY DEF TypeOK
<1>2. dynamic_routes[i] \in [path : Patterns, endpoints : Buckets]
  BY <1>1, ElementOfSeq, LenProperties
<1> QED BY <1>2

\* A call on a path without a new entry.
LEMMA SameEntries ==
    ASSUME Inv, FirstInv, NEW c \in Entries, log' = Append(log, c),
           DOMAIN dynamic_routes' = DOMAIN dynamic_routes,
           \A i \in DOMAIN dynamic_routes : dynamic_routes'[i].path = dynamic_routes[i].path,
           c.methods # {} /\ c.path \in Patterns => Entered(c.path)
    PROVE  FirstInv'
<1> DEFINE n == Len(log) + 1
<1>0. log \in Seq(Entries) /\ \A i \in DOMAIN dynamic_routes : dynamic_routes[i].path \in Patterns
  BY EntryPath DEF Inv, TypeOK
<1>1. ASSUME NEW p \in Patterns
      PROVE  /\ HasFirst(log', p) /\ (Uses(log', p) # {} <=> Uses(log, p) # {})
             /\ Uses(log, p) # {} => Min(Uses(log', p)) = Min(Uses(log, p))
  <2>1. HasFirst(log, p) /\ (Entered(p) <=> Uses(log, p) # {})
    BY DEF FirstInv
  <2>2. /\ HasFirst(log', p)
        /\ Uses(log', p) # {} <=> Uses(log, p) # {} \/ (c.path = p /\ c.methods # {})
        /\ Uses(log, p) # {} => Min(Uses(log', p)) = Min(Uses(log, p))
    <3>1. UsesGrow(log, c, p, log')
      BY <1>0, <2>1, UsesStep
    <3> QED BY <3>1 DEF UsesGrow
  <2> QED BY <2>1, <2>2
<1>2. ASSUME NEW p \in Patterns PROVE Entered(p)' <=> Entered(p)
  BY DEF Entered
<1>3. ASSUME NEW i \in DOMAIN dynamic_routes', NEW j \in DOMAIN dynamic_routes', i < j
      PROVE  Min(Uses(log', dynamic_routes'[i].path)) < Min(Uses(log', dynamic_routes'[j].path))
  <2> DEFINE p == dynamic_routes[i].path
             q == dynamic_routes[j].path
  <2>1. /\ p \in Patterns /\ q \in Patterns /\ Entered(p) /\ Entered(q)
        /\ dynamic_routes'[i].path = p /\ dynamic_routes'[j].path = q
    BY <1>0 DEF Entered
  <2>2. Min(Uses(log, p)) < Min(Uses(log, q))
    BY <1>3 DEF FirstInv, PatternsInOrder
  <2> HIDE DEF p, q
  <2>3. Uses(log, p) # {} /\ Uses(log, q) # {}
    BY <2>1 DEF FirstInv
  <2> QED BY <1>1, <2>1, <2>2, <2>3
<1> QED BY <1>1, <1>2, <1>3 DEF FirstInv, PatternsInOrder

\* The first registration on a pattern.
LEMMA NewEntry ==
    ASSUME Inv, FirstInv, NEW c \in Entries, log' = Append(log, c),
           NEW bucket, AppendBucket(c.path, bucket), c.path \in Patterns, c.methods # {},
           FindDynamicRoute(c.path) = {}
    PROVE  FirstInv'
<1> DEFINE n == Len(log) + 1
           k == Len(dynamic_routes)
<1>0. /\ log \in Seq(Entries) /\ k \in Nat /\ DOMAIN dynamic_routes = 1 .. k
      /\ \A i \in DOMAIN dynamic_routes : dynamic_routes[i].path \in Patterns
      /\ DOMAIN dynamic_routes' = 1 .. (k + 1)
      /\ dynamic_routes'[k + 1].path = c.path
      /\ \A i \in 1 .. k : dynamic_routes'[i] = dynamic_routes[i]
  <2> DEFINE new == [path |-> c.path, endpoints |-> bucket]
  <2>1. dynamic_routes \in Seq([path : Patterns, endpoints : Buckets])
    BY DEF Inv, TypeOK
  <2>2. new.path = c.path /\ dynamic_routes' = Append(dynamic_routes, new)
    BY DEF AppendBucket
  <2> HIDE DEF new
  <2>3. /\ k \in Nat /\ DOMAIN dynamic_routes = 1 .. k /\ DOMAIN dynamic_routes' = 1 .. (k + 1)
        /\ dynamic_routes'[k + 1] = new
        /\ \A i \in 1 .. k : dynamic_routes'[i] = dynamic_routes[i]
    BY <2>1, <2>2
  <2>4. log \in Seq(Entries)
    BY DEF Inv, TypeOK
  <2> QED BY <2>2, <2>3, <2>4, EntryPath DEF Inv
<1>1. ~Entered(c.path)
  BY DEF Entered, FindDynamicRoute
<1>2. ASSUME NEW p \in Patterns
      PROVE  /\ HasFirst(log', p)
             /\ Uses(log', p) # {} <=> Uses(log, p) # {} \/ p = c.path
             /\ Uses(log, p) # {} => Min(Uses(log', p)) = Min(Uses(log, p)) /\ Min(Uses(log, p)) < n
             /\ p = c.path => Min(Uses(log', p)) = n
  <2>1. HasFirst(log, p) /\ (Entered(p) <=> Uses(log, p) # {})
    BY DEF FirstInv
  <2>2. /\ HasFirst(log', p)
        /\ Uses(log', p) # {} <=> Uses(log, p) # {} \/ (c.path = p /\ c.methods # {})
        /\ Uses(log, p) # {} => Min(Uses(log', p)) = Min(Uses(log, p)) /\ Min(Uses(log, p)) < n
        /\ Uses(log, p) = {} /\ Uses(log', p) # {} => Min(Uses(log', p)) = n
    <3>1. UsesGrow(log, c, p, log')
      BY <1>0, <2>1, UsesStep
    <3> QED BY <3>1 DEF UsesGrow
  <2> QED BY <1>1, <2>1, <2>2
<1> HIDE DEF n, k
<1>3. ASSUME NEW p \in Patterns PROVE Entered(p)' <=> Entered(p) \/ p = c.path
  <2>1. ASSUME NEW i \in 1 .. (k + 1), dynamic_routes'[i].path = p
        PROVE  Entered(p) \/ p = c.path
    <3>1. CASE i = k + 1
      BY <1>0, <2>1, <3>1
    <3>2. CASE i # k + 1
      <4>1. i \in 1 .. k
        BY <1>0, <3>2
      <4> QED BY <1>0, <2>1, <4>1 DEF Entered
    <3> QED BY <3>1, <3>2
  <2>2. ASSUME Entered(p) PROVE Entered(p)'
    <3>1. PICK i \in 1 .. k : dynamic_routes[i].path = p
      BY <1>0, <2>2 DEF Entered
    <3>2. i \in 1 .. (k + 1) /\ dynamic_routes'[i].path = p
      BY <1>0, <3>1
    <3> QED BY <1>0, <3>2 DEF Entered
  <2>3. k + 1 \in 1 .. (k + 1)
    BY <1>0
  <2> QED BY <1>0, <2>1, <2>2, <2>3 DEF Entered
<1>4. ASSUME NEW i \in 1 .. k
      PROVE  /\ dynamic_routes'[i].path = dynamic_routes[i].path /\ dynamic_routes[i].path \in Patterns
             /\ Uses(log, dynamic_routes[i].path) # {}
  <2>1. Entered(dynamic_routes[i].path) /\ dynamic_routes[i].path \in Patterns
    BY <1>0 DEF Entered
  <2> QED BY <1>0, <2>1 DEF FirstInv
<1>5. ASSUME NEW i \in 1 .. (k + 1), NEW j \in 1 .. (k + 1), i < j
      PROVE  Min(Uses(log', dynamic_routes'[i].path)) < Min(Uses(log', dynamic_routes'[j].path))
  <2>1. i \in 1 .. k
    BY <1>0, <1>5
  <2>2. CASE j = k + 1
    BY <1>0, <1>2, <1>4, <2>1, <2>2
  <2>3. CASE j # k + 1
    <3>1. j \in 1 .. k
      BY <1>0, <2>3
    <3>2. Min(Uses(log, dynamic_routes[i].path)) < Min(Uses(log, dynamic_routes[j].path))
      BY <1>0, <1>5, <2>1, <3>1 DEF FirstInv, PatternsInOrder
    <3> QED BY <1>2, <1>4, <2>1, <3>1, <3>2
  <2> QED BY <2>2, <2>3
<1>6. \A p \in Patterns : HasFirst(log', p) /\ (Entered(p)' <=> Uses(log', p) # {})
  BY <1>2, <1>3 DEF FirstInv
<1> QED BY <1>0, <1>5, <1>6 DEF FirstInv, PatternsInOrder

\* A bucket that changes leaves the entries where they are.
LEMMA UpdateKeepsEntries ==
    ASSUME Inv, NEW p \in Paths, p \in StaticPaths \/ FindDynamicRoute(p) # {},
           NEW bucket, UpdateBucket(p, bucket)
    PROVE  /\ DOMAIN dynamic_routes' = DOMAIN dynamic_routes
           /\ \A i \in DOMAIN dynamic_routes : dynamic_routes'[i].path = dynamic_routes[i].path
           /\ p \in Patterns => Entered(p)
<1>1. CASE p \in StaticPaths
  BY <1>1, PathsAssumption DEF UpdateBucket
<1>2. CASE p \notin StaticPaths
  <2>1. PICK k \in DOMAIN dynamic_routes : dynamic_routes[k].path = p
    BY <1>2 DEF FindDynamicRoute
  <2>2. Min(FindDynamicRoute(p)) = k
    BY <2>1, FindIsThe DEF Inv
  <2>3. dynamic_routes' = [dynamic_routes EXCEPT ![k] = [path |-> p, endpoints |-> bucket]]
    BY <1>2, <2>2 DEF UpdateBucket
  <2> QED BY <2>1, <2>3 DEF Entered
<1> QED BY <1>1, <1>2

\* A registration keeps the order.
LEMMA RegisterInOrder ==
    ASSUME Inv, FirstInv, NEW s \in States, NEW ms \in SUBSET Methods, NEW kind \in {"on", "register"},
           RegisterEndpoint(s.path, ms, Call), log' = Append(log, Entry(kind, s, ms))
    PROVE  FirstInv'
<1> DEFINE c == Entry(kind, s, ms)
           bucket == Registered(FindRouteBucket(s.path), ms, Call)
<1>1. c \in Entries /\ c.path = s.path /\ c.methods = ms /\ s.path \in Paths
  BY DEF Entry, Entries, States
<1>2. log' = Append(log, c)
  OBVIOUS
<1> HIDE DEF c, bucket
<1>3. CASE ms = {}
  BY <1>1, <1>2, <1>3, SameEntries DEF RegisterEndpoint
<1>4. CASE ms # {} /\ s.path \in Patterns /\ FindDynamicRoute(s.path) = {}
  <2>1. AppendBucket(c.path, bucket)
    BY <1>1, <1>4 DEF RegisterEndpoint, bucket
  <2> QED BY <1>1, <1>2, <1>4, <2>1, NewEntry
<1>5. CASE ms # {} /\ ~(s.path \in Patterns /\ FindDynamicRoute(s.path) = {})
  <2>1. UpdateBucket(s.path, bucket)
    BY <1>5 DEF RegisterEndpoint, bucket
  <2>2. s.path \in StaticPaths \/ FindDynamicRoute(s.path) # {}
    BY <1>1, <1>5 DEF Paths
  <2> QED BY <1>1, <1>2, <2>1, <2>2, UpdateKeepsEntries, SameEntries
<1> QED BY <1>3, <1>4, <1>5

\* Every call keeps the order.
LEMMA NextInOrder == Inv /\ FirstInv /\ [Next]_vars => FirstInv'
<1> SUFFICES ASSUME Inv, FirstInv, [Next]_vars PROVE FirstInv'
  OBVIOUS
<1>0. ASSUME NEW b \in Builders, builders[b] # None PROVE builders[b] \in States
  BY <1>0 DEF Inv, TypeOK
<1>1. ASSUME UNCHANGED <<dynamic_routes, log>> PROVE FirstInv'
  BY <1>1 DEF FirstInv, PatternsInOrder, Entered
<1>2. ASSUME NEW b \in Builders, NEW s \in States, NEW m \in Methods, RegisterSingle(b, s, m)
      PROVE  FirstInv'
  BY <1>2, RegisterInOrder DEF RegisterSingle
<1>3. ASSUME NEW b \in Builders, NEW ms \in SUBSET Methods, On(b, ms) PROVE FirstInv'
  BY <1>0, <1>3, RegisterInOrder DEF On
<1>4. ASSUME NEW b \in Builders, Layer(b) PROVE FirstInv'
  <2> DEFINE s == builders[b]
             c == Entry("layer", s, {})
             bucket == Layered(FindRouteBucket(s.path), s.selected, Call)
  <2>1. CASE FindRouteBucket(s.path) = NoEndpoints
    BY <1>1, <1>4, <2>1 DEF Layer, vars
  <2>2. CASE FindRouteBucket(s.path) # NoEndpoints
    <3>1. s \in States /\ s.path \in Paths /\ c \in Entries /\ c.methods = {}
      BY <1>0, <1>4 DEF Layer, States, Entry, Entries
    <3>2. UpdateBucket(s.path, bucket) /\ log' = Append(log, c)
      BY <1>4, <2>2 DEF Layer
    <3>3. s.path \in StaticPaths \/ FindDynamicRoute(s.path) # {}
      BY <2>2 DEF FindRouteBucket
    <3> HIDE DEF s, c, bucket
    <3> QED BY <3>1, <3>2, <3>3, UpdateKeepsEntries, SameEntries
  <2> QED BY <2>1, <2>2
<1>5. ASSUME NEW b \in Builders, NEW p \in Paths, NEW m \in Methods, RouteWith(b, p, m)
      PROVE  FirstInv'
  BY <1>2, <1>5, BuilderType DEF RouteWith
<1>6. ASSUME NEW b \in Builders, NEW m \in Methods, Register(b, m) PROVE FirstInv'
  BY <1>0, <1>2, <1>6 DEF Register
<1>7. ASSUME NEW b \in Builders, NEW p \in Paths, Route(b, p) PROVE FirstInv'
  BY <1>1, <1>7 DEF Route
<1>8. ASSUME NEW b \in Builders, NEW c \in Builders, Copy(b, c) PROVE FirstInv'
  BY <1>1, <1>8 DEF Copy
<1>9. CASE UNCHANGED vars
  BY <1>1, <1>9 DEF vars
<1> QED BY <1>3, <1>4, <1>5, <1>6, <1>7, <1>8, <1>9 DEF Next

\* Before any call no pattern has an entry.
LEMMA InitInOrder == Init => FirstInv
<1> SUFFICES ASSUME Init PROVE FirstInv
  OBVIOUS
<1>1. log = << >> /\ DOMAIN log = {} /\ DOMAIN dynamic_routes = {}
  BY DEF Init
<1>2. \A p \in Patterns : Uses(log, p) = {} /\ ~Entered(p)
  BY <1>1 DEF Uses, Entered
<1> QED BY <1>1, <1>2 DEF FirstInv, HasFirst, PatternsInOrder

\* Of two patterns the one that was registered first comes first (router.cpp:576-581),
\* for any number of patterns and any interleaving of builders.
THEOREM PatternsAreInOrder == Spec => []PatternsInOrder
<1>1. FirstInv => PatternsInOrder
  BY DEF FirstInv
<1> QED BY <1>1, InitInOrder, NextInOrder, Invariant, PTL DEF Spec

-----------------------------------------------------------------------------
(* The texts of RouterStrings, and of RequestText. *)

\* Induction on the natural numbers, in terms of sets.
LEMMA Induction ==
    ASSUME NEW S, 0 \in S, \A n \in Nat : n \in S => n + 1 \in S
    PROVE  Nat \subseteq S
<1> DEFINE R == {ss \in Nat \X Nat : ss[1] < ss[2]}
<1>1. IsWellFoundedOn(R, Nat)
  BY NatLessThanWellFounded DEF OpToRel
<1> DEFINE T == Nat \ S
<1>2. ASSUME T # {} PROVE FALSE
  <2> HIDE DEF R
  <2>1. T \subseteq Nat
    OBVIOUS
  <2>2. PICK x \in T : \A y \in T : ~(<<y, x>> \in R)
    BY <1>1, <1>2, <2>1, WFMin
  <2>3. x # 0 /\ x \in Nat
    OBVIOUS
  <2>4. x - 1 \in Nat /\ x = (x - 1) + 1
    BY <2>3
  <2>5. x - 1 \notin S
    BY <2>4
  <2>6. <<x - 1, x>> \in R
    BY <2>3, <2>4 DEF R
  <2> QED
    BY <2>2, <2>4, <2>5, <2>6
<1> QED
  BY <1>2

\* The last element of an interval, and of a set of numbers with a last one.
LEMMA MaxIsLast ==
    ASSUME NEW n \in Nat, NEW S \in SUBSET (1 .. n), n \in S
    PROVE  Max(S) = n
<1>1. \A x \in S : x \in Nat /\ x <= n
  OBVIOUS
<1>2. n \in S /\ \A y \in S : n >= y
  BY <1>1
<1>3. Max(S) \in S /\ \A y \in S : Max(S) >= y
  BY <1>2 DEF Max
<1>4. Max(S) >= n /\ Max(S) <= n /\ Max(S) \in Nat
  BY <1>1, <1>3
<1> QED
  BY <1>4

\* The last index of an interval is its maximum.
LEMMA MaxOfInterval ==
    ASSUME NEW m \in Nat
    PROVE  Max(1 .. m + 1) = m + 1
<1>1. m + 1 \in Nat /\ 1 .. m + 1 \in SUBSET (1 .. m + 1) /\ m + 1 \in 1 .. m + 1
  OBVIOUS
<1> QED
  BY <1>1, MaxIsLast

\* The steps of the three loops over texts that are written as folds.
FoldStep(kind, text, done, x) ==
    CASE kind = "segments" -> NextChar(done, x)
      [] kind = "query" -> EndPart(text, done, x)
      [] kind = "header" -> PutLine(done, x)

\* What solves the recursion by which a fold over s is defined.
Folds(f, kind, text, base, s, n) ==
    f = [x \in SUBSET (1 .. n) |->
            IF x = {} THEN base ELSE FoldStep(kind, text, f[x \ {Max(x)}], s[Max(x)])]

LEMMA FoldsExist ==
    ASSUME NEW kind, NEW text, NEW base, NEW s, NEW n \in Nat
    PROVE  \E f : Folds(f, kind, text, base, s, n)
<1> DEFINE op(d, y) == FoldStep(kind, text, d, y)
<1> DEFINE Solves(f, m) ==
             f = [x \in SUBSET (1 .. m) |-> IF x = {} THEN base ELSE op(f[x \ {Max(x)}], s[Max(x)])]
<1> DEFINE I == {m \in Nat : \E f : Solves(f, m)}
<1>1. 0 \in I
  <2> DEFINE f == [x \in SUBSET (1 .. 0) |-> base]
  <2>1. \A x \in SUBSET (1 .. 0) : x = {}
    OBVIOUS
  <2> HIDE DEF op
  <2>2. f = [x \in SUBSET (1 .. 0) |-> IF x = {} THEN base ELSE op(f[x \ {Max(x)}], s[Max(x)])]
    BY <2>1
  <2>3. Solves(f, 0)
    BY <2>2
  <2> HIDE DEF f, Solves
  <2> QED
    BY <2>3
<1>2. ASSUME NEW m \in Nat, m \in I PROVE m + 1 \in I
  <2> HIDE DEF Solves
  <2>1. PICK g : Solves(g, m)
    BY <1>2
  <2> USE DEF Solves
  <2> DEFINE f == [x \in SUBSET (1 .. m + 1) |->
                     IF m + 1 \in x THEN op(g[x \ {m + 1}], s[m + 1]) ELSE g[x]]
  <2>2. ASSUME NEW x \in SUBSET (1 .. m + 1)
        PROVE  f[x] = IF x = {} THEN base ELSE op(f[x \ {Max(x)}], s[Max(x)])
    <3> HIDE DEF op
    <3>1. CASE m + 1 \in x
      <4>1. Max(x) = m + 1
        BY <3>1, MaxIsLast
      <4>2. x \ {m + 1} \in SUBSET (1 .. m + 1) /\ m + 1 \notin x \ {m + 1}
        OBVIOUS
      <4>3. f[x] = op(g[x \ {m + 1}], s[m + 1]) /\ f[x \ {m + 1}] = g[x \ {m + 1}]
        BY <3>1, <4>2
      <4> HIDE DEF f
      <4> QED
        BY <3>1, <4>1, <4>3
    <3>2. CASE m + 1 \notin x
      <4>1. x \in SUBSET (1 .. m)
        BY <3>2
      <4>2. x \ {Max(x)} \in SUBSET (1 .. m + 1) /\ m + 1 \notin x \ {Max(x)}
        BY <3>2
      <4>3. f[x] = g[x] /\ f[x \ {Max(x)}] = g[x \ {Max(x)}]
        BY <3>2, <4>2
      <4>4. g[x] = IF x = {} THEN base ELSE op(g[x \ {Max(x)}], s[Max(x)])
        BY <2>1, <4>1
      <4> HIDE DEF f
      <4> QED
        BY <4>3, <4>4
    <3> QED
      BY <3>1, <3>2
  <2>3. Solves(f, m + 1)
    <3> HIDE DEF op
    <3>1. f = [x \in SUBSET (1 .. m + 1) |-> f[x]]
      OBVIOUS
    <3> HIDE DEF f
    <3>2. [x \in SUBSET (1 .. m + 1) |-> IF x = {} THEN base ELSE op(f[x \ {Max(x)}], s[Max(x)])]
            = [x \in SUBSET (1 .. m + 1) |-> f[x]]
      BY <2>2
    <3> QED
      BY <3>1, <3>2
  <2> HIDE DEF f, Solves
  <2> QED
    BY <2>3
<1>3. Nat \subseteq I
  <2> HIDE DEF I
  <2> QED
    BY <1>1, <1>2, Induction
<1>4. PICK f : Solves(f, n)
  <2> HIDE DEF Solves
  <2> QED
    BY <1>3
<1> QED
  BY <1>4 DEF Folds

\* How far it is after each element of s.
Along(a, kind, text, base, s, n) ==
    /\ a[0] = base
    /\ \A i \in 1 .. n : a[i] = FoldStep(kind, text, a[i - 1], s[i])

\* It goes through s from the front.
LEMMA FoldsStepwise ==
    ASSUME NEW kind, NEW text, NEW base, NEW s, NEW n \in Nat,
           NEW f, Folds(f, kind, text, base, s, n)
    PROVE  \E a : Along(a, kind, text, base, s, n) /\ a[n] = f[1 .. n]
<1> DEFINE op(d, y) == FoldStep(kind, text, d, y)
<1>1. \A x \in SUBSET (1 .. n) : f[x] = IF x = {} THEN base ELSE op(f[x \ {Max(x)}], s[Max(x)])
  BY DEF Folds
<1> HIDE DEF op
<1> DEFINE a == [i \in 0 .. n |-> f[1 .. i]]
<1>2. a[0] = base
  <2>1. 1 .. 0 = {} /\ 0 \in 0 .. n
    OBVIOUS
  <2> QED
    BY <1>1, <2>1
<1>3. ASSUME NEW i \in 1 .. n PROVE a[i] = op(a[i - 1], s[i])
  <2>1. PICK m \in Nat : i = m + 1
    <3>1. i - 1 \in Nat /\ i = (i - 1) + 1
      OBVIOUS
    <3> QED
      BY <3>1
  <2>2. i \in 0 .. n /\ m \in 0 .. n /\ i - 1 = m
    BY <2>1
  <2>3. a[i] = f[1 .. m + 1] /\ a[i - 1] = f[1 .. m]
    BY <2>1, <2>2
  <2>4. \A y \in 1 .. m + 1 : y \in 1 .. n
    BY <2>1
  <2>5. 1 .. m + 1 \in SUBSET (1 .. n) /\ m + 1 \in 1 .. m + 1
    BY <2>4
  <2>6. Max(1 .. m + 1) = m + 1
    BY MaxOfInterval
  <2>7. (1 .. m + 1) \ {m + 1} = 1 .. m
    OBVIOUS
  <2> HIDE DEF a
  <2> QED
    BY <1>1, <2>1, <2>3, <2>5, <2>6, <2>7
<1>4. a[n] = f[1 .. n]
  OBVIOUS
<1> HIDE DEF a
<1> QED
  BY <1>2, <1>3, <1>4 DEF Along, op

\* The fold of the characters of a text into segments, one after the other.
Cuts(s) == FoldLeft(NextChar, << >>, s)

\* How far it is after each character.
Cutting(a, s) ==
    /\ a[0] = << >>
    /\ \A i \in 1 .. Len(s) : a[i] = NextChar(a[i - 1], s[i])

LEMMA CutsStepwise ==
    ASSUME NEW s \in Seq(Chars)
    PROVE  \E a : Cutting(a, s) /\ Cuts(s) = a[Len(s)]
<1> DEFINE n == Len(s)
<1>0. n \in Nat /\ DOMAIN s = 1 .. n
  OBVIOUS
<1> HIDE DEF n
<1> DEFINE Solves(f) ==
             f = [x \in SUBSET (1 .. n) |-> IF x = {} THEN << >> ELSE NextChar(f[x \ {Max(x)}], s[Max(x)])]
<1>1. \A d, y : FoldStep("segments", s, d, y) = NextChar(d, y)
  BY DEF FoldStep
<1>2. \A f : Folds(f, "segments", s, << >>, s, n) <=> Solves(f)
  BY <1>1 DEF Folds
<1>3. \E f : Solves(f)
  <2> HIDE DEF Solves
  <2> QED
    BY <1>0, <1>2, FoldsExist
<1> DEFINE iter == CHOOSE f : Solves(f)
<1>4. Cuts(s) = iter[1 .. n]
  BY <1>0 DEF Cuts, FoldLeft, MapThenFoldSet
<1>5. Solves(iter)
  <2> HIDE DEF Solves
  <2> QED
    BY <1>3
<1> HIDE DEF Solves, iter
<1>6. Folds(iter, "segments", s, << >>, s, n)
  BY <1>2, <1>5
<1>7. PICK a : Along(a, "segments", s, << >>, s, n) /\ a[n] = iter[1 .. n]
  BY <1>0, <1>6, FoldsStepwise
<1> QED
  BY <1>1, <1>4, <1>7 DEF Along, Cutting, n

\* Texts, and lists of them.
Texts == Seq(Chars)
Lists == Seq(Texts)

\* Facts about texts.
LEMMA OneChar ==
    ASSUME NEW ch \in Chars
    PROVE  <<ch>> \in Texts
<1>1. <<ch>> \in Seq(Chars)
  OBVIOUS
<1> QED
  BY <1>1 DEF Texts

LEMMA SlashText == <<Slash>> \in Texts
BY OneChar DEF Chars

LEMMA TextConcat ==
    ASSUME NEW s \in Texts, NEW t \in Texts
    PROVE  s \o t \in Texts
BY ConcatProperties DEF Texts

LEMMA TextAssociative ==
    ASSUME NEW s \in Texts, NEW t \in Texts, NEW u \in Texts
    PROVE  (s \o t) \o u = s \o (t \o u)
BY ConcatAssociative DEF Texts

LEMMA TextAppend ==
    ASSUME NEW s \in Texts, NEW ch \in Chars
    PROVE  Append(s, ch) \in Texts /\ Append(s, ch) = s \o <<ch>>
BY AppendProperties, AppendIsConcat DEF Texts

LEMMA TextLen ==
    ASSUME NEW s \in Texts
    PROVE  Len(s) \in Nat /\ (s # << >> => Len(s) >= 1) /\ \A i \in 1 .. Len(s) : s[i] \in Chars
BY LenProperties, EmptySeq, ElementOfSeq DEF Texts

LEMMA TextPart ==
    ASSUME NEW s \in Texts, NEW i \in Nat, NEW j \in Nat, i >= 1, j <= Len(s)
    PROVE  SubSeq(s, i, j) \in Texts
<1>1. Len(s) \in Nat /\ \A k \in 1 .. Len(s) : s[k] \in Chars
  BY TextLen
<1>2. \A k \in i .. j : k \in 1 .. Len(s)
  BY <1>1
<1>3. i \in Int /\ j \in Int /\ \A k \in i .. j : s[k] \in Chars
  BY <1>1, <1>2
<1> QED
  BY <1>3, SubSeqProperties DEF Texts

\* A character other than the slash goes on with the last segment.
LEMMA NextCharGoesOn ==
    ASSUME NEW x \in Lists, NEW e \in Texts, NEW ch \in Chars, ch # Slash
    PROVE  NextChar(Append(x, e), ch) = Append(x, Append(e, ch))
<1>1. PICK l \in Lists : l = Append(x, e)
  BY AppendProperties DEF Lists
<1>2. Len(x) \in Nat /\ Len(l) = Len(x) + 1 /\ l[Len(x) + 1] = e
      /\ \A i \in 1 .. Len(x) : l[i] = x[i]
  BY <1>1, AppendProperties, LenProperties DEF Lists
<1>3. PICK f \in Texts : f = Append(e, ch)
  BY AppendProperties DEF Texts
<1>4. PICK r \in Lists : r = Append(x, f)
  BY AppendProperties DEF Lists
<1>5. Len(r) = Len(x) + 1 /\ r[Len(x) + 1] = f /\ \A i \in 1 .. Len(x) : r[i] = x[i]
  BY <1>4, AppendProperties, LenProperties DEF Lists
<1>6. PICK q : q = [l EXCEPT ![Len(l)] = f]
  OBVIOUS
<1>7. NextChar(l, ch) = q
  BY <1>2, <1>3, <1>6 DEF NextChar
<1>8. Len(l) \in 1 .. Len(l)
  BY <1>2
<1>9. q \in Lists /\ Len(q) = Len(l) /\ \A j \in 1 .. Len(l) : q[j] = IF j = Len(l) THEN f ELSE l[j]
  BY <1>6, <1>8, ExceptSeq DEF Lists
<1>10. \A j \in 1 .. Len(q) : q[j] = r[j]
  BY <1>2, <1>5, <1>9
<1>11. q = r
  BY <1>2, <1>5, <1>9, <1>10, SeqEqual DEF Lists
<1> QED
  BY <1>1, <1>3, <1>4, <1>7, <1>11

\* A slash starts one.
LEMMA NextCharStarts ==
    ASSUME NEW x \in Lists
    PROVE  NextChar(x, Slash) = Append(x, << >>) /\ << >> \in Texts
BY EmptySeq DEF NextChar, Texts

LEMMA NextCharType ==
    ASSUME NEW x \in Lists, NEW ch \in Chars, x # << >> \/ ch = Slash
    PROVE  NextChar(x, ch) \in Lists /\ NextChar(x, ch) # << >>
<1>1. CASE ch = Slash
  BY <1>1, NextCharStarts, AppendProperties DEF Lists
<1>2. CASE ch # Slash
  <2>1. PICK y \in Lists, e \in Texts : x = Append(y, e)
    BY <1>2, SequenceEmptyOrAppend DEF Lists
  <2>2. PICK f \in Texts : f = Append(e, ch)
    BY AppendProperties DEF Texts
  <2>3. NextChar(x, ch) = Append(y, f)
    BY <1>2, <2>1, <2>2, NextCharGoesOn
  <2> QED
    BY <2>3, AppendProperties DEF Lists
<1> QED
  BY <1>1, <1>2

LEMMA AppendBehind ==
    ASSUME NEW x \in Lists, NEW z \in Lists, NEW e \in Texts
    PROVE  x \o Append(z, e) = Append(x \o z, e)
<1>1. PICK one \in Lists : one = <<e>>
  <2>1. <<e>> \in Seq(Texts)
    OBVIOUS
  <2> QED
    BY <2>1 DEF Lists
<1>2. Append(z, e) = z \o one
  BY <1>1, AppendIsConcat DEF Lists
<1>3. PICK xz \in Lists : xz = x \o z
  BY ConcatProperties DEF Lists
<1>4. Append(xz, e) = xz \o one
  BY <1>1, AppendIsConcat DEF Lists
<1>5. (x \o z) \o one = x \o (z \o one)
  BY <1>1, ConcatAssociative DEF Lists
<1> QED
  BY <1>2, <1>3, <1>4, <1>5

\* Segments that stand before are left alone.
LEMMA NextCharBehind ==
    ASSUME NEW x \in Lists, NEW y \in Lists, NEW ch \in Chars, y # << >> \/ ch = Slash
    PROVE  NextChar(x \o y, ch) = x \o NextChar(y, ch)
<1>2. PICK l \in Lists : l = x \o y
  BY ConcatProperties DEF Lists
<1>3. CASE ch = Slash
  <2>1. NextChar(l, ch) = Append(l, << >>) /\ NextChar(y, ch) = Append(y, << >>) /\ << >> \in Texts
    BY <1>2, <1>3, NextCharStarts
  <2>2. x \o Append(y, << >>) = Append(x \o y, << >>)
    BY <2>1, AppendBehind
  <2> QED
    BY <1>2, <2>1, <2>2
<1>4. CASE ch # Slash
  <2>1. PICK z \in Lists, e \in Texts : y = Append(z, e)
    BY <1>4, SequenceEmptyOrAppend DEF Lists
  <2>2. PICK f \in Texts : f = Append(e, ch)
    BY AppendProperties DEF Texts
  <2>3. NextChar(y, ch) = Append(z, f)
    BY <1>4, <2>1, <2>2, NextCharGoesOn
  <2>4. PICK xz \in Lists : xz = x \o z
    BY ConcatProperties DEF Lists
  <2>5. l = Append(xz, e)
    BY <1>2, <2>1, <2>4, AppendBehind
  <2>6. NextChar(l, ch) = Append(xz, f)
    BY <1>4, <2>2, <2>5, NextCharGoesOn
  <2>7. x \o Append(z, f) = Append(xz, f)
    BY <2>1, <2>2, <2>4, AppendBehind
  <2> QED
    BY <1>2, <2>3, <2>6, <2>7
<1> QED
  BY <1>3, <1>4

\* What follows a path that has been normalized, and such a path.
Onward(s) == s # << >> => s[1] = Slash

\* Its segments after each character.
LEMMA CuttingType ==
    ASSUME NEW s \in Texts, Onward(s), NEW a, Cutting(a, s)
    PROVE  \A i \in 0 .. Len(s) : a[i] \in Lists /\ (i # 0 => a[i] # << >>)
<1> DEFINE I == {i \in Nat : i <= Len(s) => a[i] \in Lists /\ (i # 0 => a[i] # << >>)}
<1>1. 0 \in I
  BY EmptySeq DEF Cutting, Lists
<1>2. ASSUME NEW i \in Nat, i \in I PROVE i + 1 \in I
  <2> SUFFICES ASSUME i + 1 <= Len(s)
               PROVE  a[i + 1] \in Lists /\ a[i + 1] # << >>
    OBVIOUS
  <2>1. i + 1 \in 1 .. Len(s) /\ (i + 1) - 1 = i /\ i <= Len(s)
    BY LenProperties DEF Texts
  <2>2. PICK ch \in Chars : ch = s[i + 1]
    BY <2>1, ElementOfSeq DEF Texts
  <2>3. a[i + 1] = NextChar(a[i], ch)
    BY <2>1, <2>2 DEF Cutting
  <2>4. PICK x \in Lists : x = a[i] /\ (i # 0 => x # << >>)
    BY <1>2, <2>1
  <2>5. x # << >> \/ ch = Slash
    <3>1. s # << >>
      BY <2>1
    <3> QED
      BY <2>2, <2>4, <3>1 DEF Onward
  <2> HIDE DEF I
  <2> QED
    BY <2>3, <2>4, <2>5, NextCharType
<1>3. Nat \subseteq I
  <2> HIDE DEF I
  <2> QED
    BY <1>1, <1>2, Induction
<1> QED
  BY <1>3

LEMMA CutsType ==
    ASSUME NEW s \in Texts, Onward(s)
    PROVE  Cuts(s) \in Lists
<1>1. PICK a : Cutting(a, s) /\ Cuts(s) = a[Len(s)]
  BY CutsStepwise DEF Texts
<1>2. Len(s) \in 0 .. Len(s)
  BY LenProperties DEF Texts
<1> QED
  BY <1>1, <1>2, CuttingType

\* What follows a path, after a slash, follows in segments.
LEMMA CutsBehind ==
    ASSUME NEW p \in Texts, NEW q \in Texts, Onward(p), Onward(q)
    PROVE  Cuts(p \o q) = Cuts(p) \o Cuts(q)
<1>1. PICK s \in Texts : s = p \o q
  BY ConcatProperties DEF Texts
<1>2. /\ Len(p) \in Nat /\ Len(q) \in Nat /\ Len(s) = Len(p) + Len(q)
      /\ \A i \in 1 .. Len(p) : s[i] = p[i]
      /\ \A j \in 1 .. Len(q) : s[Len(p) + j] = q[j]
  <2>1. Len(p) \in Nat /\ Len(q) \in Nat
    BY LenProperties DEF Texts
  <2>2. /\ Len(s) = Len(p) + Len(q)
        /\ \A i \in 1 .. Len(p) + Len(q) : s[i] = IF i <= Len(p) THEN p[i] ELSE q[i - Len(p)]
    BY <1>1, ConcatProperties DEF Texts
  <2>3. ASSUME NEW j \in 1 .. Len(q) PROVE s[Len(p) + j] = q[j]
    <3>1. Len(p) + j \in 1 .. Len(p) + Len(q) /\ ~(Len(p) + j <= Len(p)) /\ (Len(p) + j) - Len(p) = j
      BY <2>1
    <3> QED
      BY <2>2, <3>1
  <2>4. \A i \in 1 .. Len(p) : i \in 1 .. Len(p) + Len(q) /\ i <= Len(p)
    BY <2>1
  <2> QED
    BY <2>1, <2>2, <2>3, <2>4
<1>3. PICK a : Cutting(a, p) /\ Cuts(p) = a[Len(p)]
  BY CutsStepwise DEF Texts
<1>4. PICK b : Cutting(b, q) /\ Cuts(q) = b[Len(q)]
  BY CutsStepwise DEF Texts
<1>5. PICK c : Cutting(c, s) /\ Cuts(s) = c[Len(s)]
  BY CutsStepwise DEF Texts
<1>6. PICK x \in Lists : x = a[Len(p)]
  BY <1>2, <1>3, CuttingType
<1>7. \A j \in 0 .. Len(q) : b[j] \in Lists /\ (j # 0 => b[j] # << >>)
  BY <1>4, CuttingType
\* Through the path alike,
<1>8. c[Len(p)] = x
  <2> DEFINE I == {i \in Nat : i <= Len(p) => c[i] = a[i]}
  <2>1. 0 \in I
    BY <1>3, <1>5 DEF Cutting
  <2>2. ASSUME NEW i \in Nat, i \in I PROVE i + 1 \in I
    <3> SUFFICES ASSUME i + 1 <= Len(p) PROVE c[i + 1] = a[i + 1]
      OBVIOUS
    <3>1. i + 1 \in 1 .. Len(p) /\ i + 1 \in 1 .. Len(s) /\ (i + 1) - 1 = i /\ i <= Len(p)
      BY <1>2
    <3>2. c[i + 1] = NextChar(c[i], s[i + 1]) /\ a[i + 1] = NextChar(a[i], p[i + 1])
      BY <1>3, <1>5, <3>1 DEF Cutting
    <3> QED
      BY <1>2, <2>2, <3>1, <3>2
  <2>3. Nat \subseteq I
    <3> HIDE DEF I
    <3> QED
      BY <2>1, <2>2, Induction
  <2> QED
    BY <1>2, <1>6, <2>3
\* then behind it.
<1>9. c[Len(s)] = x \o b[Len(q)]
  <2> DEFINE I == {j \in Nat : j <= Len(q) => c[Len(p) + j] = x \o b[j]}
  <2>1. 0 \in I
    <3>1. b[0] = << >> /\ Len(p) + 0 = Len(p)
      BY <1>2, <1>4 DEF Cutting
    <3>2. x \o << >> = x
      BY ConcatEmptySeq DEF Lists
    <3> QED
      BY <1>8, <3>1, <3>2
  <2>2. ASSUME NEW j \in Nat, j \in I PROVE j + 1 \in I
    <3> SUFFICES ASSUME j + 1 <= Len(q) PROVE c[Len(p) + (j + 1)] = x \o b[j + 1]
      OBVIOUS
    <3>1. /\ j + 1 \in 1 .. Len(q) /\ Len(p) + (j + 1) \in 1 .. Len(s) /\ (j + 1) - 1 = j
          /\ (Len(p) + (j + 1)) - 1 = Len(p) + j /\ j \in 0 .. Len(q) /\ j <= Len(q)
      BY <1>2
    <3>2. PICK ch \in Chars : ch = q[j + 1]
      BY <3>1, ElementOfSeq DEF Texts
    <3>3. c[Len(p) + (j + 1)] = NextChar(c[Len(p) + j], ch) /\ b[j + 1] = NextChar(b[j], ch)
      <4>1. c[Len(p) + (j + 1)] = NextChar(c[(Len(p) + (j + 1)) - 1], s[Len(p) + (j + 1)])
        BY <1>5, <3>1 DEF Cutting
      <4>2. b[j + 1] = NextChar(b[(j + 1) - 1], q[j + 1])
        BY <1>4, <3>1 DEF Cutting
      <4>3. s[Len(p) + (j + 1)] = ch
        BY <1>2, <3>1, <3>2
      <4> QED
        BY <3>1, <3>2, <4>1, <4>2, <4>3
    <3>4. PICK y \in Lists : y = b[j] /\ (j # 0 => y # << >>)
      BY <1>7, <3>1
    <3>5. y # << >> \/ ch = Slash
      <4>1. j = 0 => q # << >> /\ ch = q[1]
        BY <3>1, <3>2
      <4> QED
        BY <3>4, <4>1 DEF Onward
    <3>6. NextChar(x \o y, ch) = x \o NextChar(y, ch)
      BY <3>5, NextCharBehind
    <3>7. c[Len(p) + j] = x \o y
      BY <2>2, <3>1, <3>4
    <3> QED
      BY <3>3, <3>4, <3>6, <3>7
  <2>3. Nat \subseteq I
    <3> HIDE DEF I
    <3> QED
      BY <2>1, <2>2, Induction
  <2> QED
    BY <1>2, <2>3
<1> QED
  BY <1>1, <1>3, <1>4, <1>5, <1>6, <1>9

\* Segments spell a text.
Spelling(f, x) ==
    /\ f \in [0 .. Len(x) -> Texts]
    /\ f[0] = << >>
    /\ \A k \in 1 .. Len(x) : f[k] = f[k - 1] \o (<<Slash>> \o x[k])

Spells(x, s) == \E f : Spelling(f, x) /\ f[Len(x)] = s

LEMMA SpellsNothing == Spells(<< >>, << >>)
<1> DEFINE f == [k \in {0} |-> << >>]
<1>1. << >> \in Texts /\ Len(<< >>) = 0 /\ 0 .. 0 = {0} /\ 1 .. 0 = {}
  BY EmptySeq DEF Texts
<1>2. Spelling(f, << >>)
  BY <1>1 DEF Spelling
<1> QED
  BY <1>1, <1>2 DEF Spells

\* One segment more.
LEMMA SpellsAppend ==
    ASSUME NEW x \in Lists, NEW e \in Texts, NEW s \in Texts
    PROVE  Spells(Append(x, e), s) <=> \E r \in Texts : Spells(x, r) /\ s = r \o (<<Slash>> \o e)
<1>1. PICK l \in Lists : l = Append(x, e)
  BY AppendProperties DEF Lists
<1>2. Len(x) \in Nat /\ Len(l) = Len(x) + 1 /\ l[Len(x) + 1] = e
      /\ \A i \in 1 .. Len(x) : l[i] = x[i]
  BY <1>1, AppendProperties, LenProperties DEF Lists
<1>a. /\ (Len(x) + 1) - 1 = Len(x) /\ Len(x) + 1 \in 1 .. Len(l) /\ Len(x) + 1 \in 0 .. Len(l)
      /\ Len(x) \in 0 .. Len(x)
      /\ \A k \in 1 .. Len(x) : /\ k \in 1 .. Len(l) /\ k \in 0 .. Len(x) /\ k - 1 \in 0 .. Len(x)
                                /\ k # Len(x) + 1 /\ k - 1 # Len(x) + 1
      /\ \A k \in 0 .. Len(x) : k \in 0 .. Len(l)
      /\ \A k \in 1 .. Len(l) : k # Len(x) + 1 => k \in 1 .. Len(x)
      /\ \A k \in 0 .. Len(l) : k # Len(x) + 1 => k \in 0 .. Len(x)
  BY <1>2
<1>3. ASSUME NEW f, Spelling(f, l), s = f[Len(l)]
      PROVE  \E r \in Texts : Spells(x, r) /\ s = r \o (<<Slash>> \o e)
  <2> DEFINE g == [k \in 0 .. Len(x) |-> f[k]]
  <2>1. \A k \in 0 .. Len(x) : g[k] = f[k] /\ f[k] \in Texts
    BY <1>3, <1>a DEF Spelling
  <2>2. g \in [0 .. Len(x) -> Texts]
    BY <2>1
  <2>3. 0 \in 0 .. Len(x) /\ f[0] = << >>
    BY <1>2, <1>3 DEF Spelling
  <2> HIDE DEF g
  <2>4. \A k \in 1 .. Len(x) : g[k] = g[k - 1] \o (<<Slash>> \o x[k])
    <3> SUFFICES ASSUME NEW k \in 1 .. Len(x) PROVE g[k] = g[k - 1] \o (<<Slash>> \o x[k])
      OBVIOUS
    <3>1. f[k] = f[k - 1] \o (<<Slash>> \o l[k])
      BY <1>3, <1>a DEF Spelling
    <3> QED
      BY <1>2, <1>a, <2>1, <3>1
  <2>5. Spelling(g, x)
    BY <2>1, <2>2, <2>3, <2>4 DEF Spelling
  <2>6. s = f[Len(x)] \o (<<Slash>> \o e)
    BY <1>2, <1>3, <1>a DEF Spelling
  <2>7. g[Len(x)] \in Texts /\ g[Len(x)] = f[Len(x)]
    BY <1>a, <2>1
  <2> QED
    BY <2>5, <2>6, <2>7 DEF Spells
<1>4. ASSUME NEW r \in Texts, Spells(x, r), s = r \o (<<Slash>> \o e)
      PROVE  Spells(l, s)
  <2>1. PICK f : Spelling(f, x) /\ f[Len(x)] = r
    BY <1>4 DEF Spells
  <2> DEFINE g == [k \in 0 .. Len(l) |-> IF k = Len(x) + 1 THEN s ELSE f[k]]
  <2>2. (\A k \in 0 .. Len(x) : g[k] = f[k]) /\ g[Len(x) + 1] = s
    BY <1>2, <1>a
  <2>3. g \in [0 .. Len(l) -> Texts]
    <3>1. ASSUME NEW k \in 0 .. Len(l) PROVE g[k] \in Texts
      <4>1. CASE k = Len(x) + 1
        BY <4>1
      <4>2. CASE k # Len(x) + 1
        <5>1. k \in 0 .. Len(x)
          BY <1>2, <4>2
        <5> QED
          BY <2>1, <4>2, <5>1 DEF Spelling
      <4> QED
        BY <4>1, <4>2
    <3> QED
      BY <3>1
  <2>4. 0 \in 0 .. Len(x) /\ f[0] = << >>
    BY <1>2, <2>1 DEF Spelling
  <2> HIDE DEF g
  <2>5. ASSUME NEW k \in 1 .. Len(l) PROVE g[k] = g[k - 1] \o (<<Slash>> \o l[k])
    <3>1. CASE k = Len(x) + 1
      BY <1>2, <1>4, <1>a, <2>1, <2>2, <3>1
    <3>2. CASE k # Len(x) + 1
      <4>1. k \in 1 .. Len(x)
        BY <1>2, <3>2
      <4>2. f[k] = f[k - 1] \o (<<Slash>> \o x[k])
        BY <2>1, <4>1 DEF Spelling
      <4> QED
        BY <1>2, <1>a, <2>2, <4>1, <4>2
    <3> QED
      BY <3>1, <3>2
  <2>6. Spelling(g, l)
    BY <2>2, <2>3, <2>4, <2>5 DEF Spelling
  <2> QED
    BY <1>2, <2>2, <2>6 DEF Spells
<1> QED
  BY <1>1, <1>3, <1>4 DEF Spells

\* Each character of a text is spelled by its segments.
LEMMA SpellsNext ==
    ASSUME NEW x \in Lists, NEW s \in Texts, NEW ch \in Chars, Spells(x, s), x # << >> \/ ch = Slash
    PROVE  Spells(NextChar(x, ch), Append(s, ch))
<1>0. PICK one \in Texts : one = <<ch>>
  BY OneChar
<1>a. PICK sl \in Texts : sl = <<Slash>>
  BY SlashText
<1>b. \A a, b \in Texts : (a \o b) \o one = a \o (b \o one)
  BY <1>0, TextAssociative
<1>1. PICK u \in Texts : u = Append(s, ch) /\ u = s \o one
  BY <1>0, AppendProperties, AppendIsConcat DEF Texts
<1>2. CASE ch = Slash
  <2>1. NextChar(x, ch) = Append(x, << >>) /\ << >> \in Texts
    BY <1>2, NextCharStarts
  <2>2. one \o << >> = one
    BY <1>0, ConcatEmptySeq DEF Texts
  <2>3. u = s \o (<<Slash>> \o << >>)
    BY <1>0, <1>1, <1>2, <2>2
  <2> QED
    BY <1>1, <2>1, <2>3, SpellsAppend
<1>3. CASE ch # Slash
  <2>1. PICK y \in Lists, e \in Texts : x = Append(y, e)
    BY <1>3, SequenceEmptyOrAppend DEF Lists
  <2>2. PICK r \in Texts : Spells(y, r) /\ s = r \o (<<Slash>> \o e)
    BY <2>1, SpellsAppend
  <2>3. PICK f \in Texts : f = Append(e, ch) /\ f = e \o one
    BY <1>0, AppendProperties, AppendIsConcat DEF Texts
  <2>4. PICK v \in Texts : v = sl \o e
    BY <1>a, ConcatProperties DEF Texts
  <2>5. (r \o v) \o one = r \o (v \o one)
    BY <1>b, <2>2, <2>4
  <2>6. (sl \o e) \o one = sl \o (e \o one)
    BY <1>0, <1>a, <2>1, TextAssociative
  <2>7. u = r \o (<<Slash>> \o f)
    BY <1>1, <1>a, <2>2, <2>3, <2>4, <2>5, <2>6
  <2>8. NextChar(x, ch) = Append(y, f)
    <3>1. NextChar(Append(y, e), ch) = Append(y, Append(e, ch))
      BY <1>3, <2>1, NextCharGoesOn
    <3> QED
      BY <2>1, <2>3, <3>1
  <2>9. Spells(Append(y, f), u)
    BY <1>1, <2>1, <2>2, <2>3, <2>7, SpellsAppend
  <2> QED
    BY <1>1, <2>8, <2>9
<1> QED
  BY <1>2, <1>3

LEMMA CutsSpells ==
    ASSUME NEW s \in Texts, Onward(s)
    PROVE  Spells(Cuts(s), s)
<1>1. PICK a : Cutting(a, s) /\ Cuts(s) = a[Len(s)]
  BY CutsStepwise DEF Texts
<1>2. Len(s) \in Nat
  BY LenProperties DEF Texts
<1>3. \A i \in 0 .. Len(s) : a[i] \in Lists /\ (i # 0 => a[i] # << >>)
  BY <1>1, CuttingType
<1> DEFINE I == {i \in Nat : i <= Len(s) => Spells(a[i], SubSeq(s, 1, i))}
<1>4. 0 \in I
  <2>1. SubSeq(s, 1, 0) = << >>
    BY SubSeqEmpty
  <2> QED
    BY <1>1, <2>1, SpellsNothing DEF Cutting
<1>5. ASSUME NEW i \in Nat, i \in I PROVE i + 1 \in I
  <2> SUFFICES ASSUME i + 1 <= Len(s) PROVE Spells(a[i + 1], SubSeq(s, 1, i + 1))
    OBVIOUS
  <2>1. i + 1 \in 1 .. Len(s) /\ (i + 1) - 1 = i /\ i <= Len(s) /\ i \in 0 .. Len(s)
        /\ 1 \in 1 .. Len(s) /\ i + 1 \in 1 .. Len(s)
    BY <1>2
  <2>2. PICK ch \in Chars : ch = s[i + 1]
    BY <2>1, ElementOfSeq DEF Texts
  <2>3. PICK x \in Lists : x = a[i] /\ (i # 0 => x # << >>)
    BY <1>3, <2>1
  <2>4. PICK t \in Texts : t = SubSeq(s, 1, i)
    <3>1. SubSeq(s, 1, i) \in Texts
      BY <2>1, TextPart
    <3> QED
      BY <3>1
  <2>5. SubSeq(s, 1, i + 1) = Append(t, ch)
    <3>1. SubSeq(s, 1, i + 1) = SubSeq(s, 1, (i + 1) - 1) \o <<s[i + 1]>>
      BY <2>1, SubSeqRecursiveSecond DEF Texts
    <3>2. Append(t, ch) = t \o <<ch>>
      BY <2>2, <2>4, AppendIsConcat DEF Texts
    <3> QED
      BY <2>1, <2>2, <2>4, <3>1, <3>2
  <2>6. x # << >> \/ ch = Slash
    <3>1. i = 0 => s # << >> /\ ch = s[1]
      BY <2>1, <2>2
    <3> QED
      BY <2>3, <3>1 DEF Onward
  <2>7. a[i + 1] = NextChar(x, ch)
    BY <1>1, <2>1, <2>2, <2>3 DEF Cutting
  <2>8. Spells(x, t)
    BY <1>5, <2>1, <2>3, <2>4
  <2> QED
    BY <2>5, <2>6, <2>7, <2>8, <2>2, <2>3, <2>4, SpellsNext
<1>6. Nat \subseteq I
  <2> HIDE DEF I
  <2> QED
    BY <1>4, <1>5, Induction
<1>7. SubSeq(s, 1, Len(s)) = s
  BY SubSeqFull DEF Texts
<1>8. Spells(a[Len(s)], SubSeq(s, 1, Len(s)))
  BY <1>2, <1>6
<1> QED
  BY <1>1, <1>7, <1>8

\* They spell one text.
LEMMA SpellsOne ==
    ASSUME NEW x \in Lists, NEW s \in Texts, NEW t \in Texts, Spells(x, s), Spells(x, t)
    PROVE  s = t
<1> DEFINE I == {n \in Nat : \A y \in Lists : \A u, v \in Texts :
                    Len(y) = n /\ Spells(y, u) /\ Spells(y, v) => u = v}
<1>1. 0 \in I
  <2>1. ASSUME NEW y \in Lists, Len(y) = 0, NEW u \in Texts, Spells(y, u) PROVE u = << >>
    BY <2>1 DEF Spells, Spelling
  <2> QED
    BY <2>1
<1>2. ASSUME NEW n \in Nat, n \in I PROVE n + 1 \in I
  <2> SUFFICES ASSUME NEW y \in Lists, NEW u \in Texts, NEW v \in Texts,
                      Len(y) = n + 1, Spells(y, u), Spells(y, v)
               PROVE  u = v
    OBVIOUS
  <2>1. y # << >>
    BY EmptySeq DEF Lists
  <2>2. PICK z \in Lists, e \in Texts : y = Append(z, e)
    BY <2>1, SequenceEmptyOrAppend DEF Lists
  <2>3. Len(z) = n
    <3>1. Len(z) \in Nat /\ Len(y) = Len(z) + 1
      BY <2>2, LenProperties, AppendProperties DEF Lists
    <3> QED
      BY <3>1
  <2>4. PICK a \in Texts : Spells(z, a) /\ u = a \o (<<Slash>> \o e)
    BY <2>2, SpellsAppend
  <2>5. PICK b \in Texts : Spells(z, b) /\ v = b \o (<<Slash>> \o e)
    BY <2>2, SpellsAppend
  <2>6. a = b
    BY <1>2, <2>2, <2>3, <2>4, <2>5
  <2> QED
    BY <2>4, <2>5, <2>6
<1>3. Nat \subseteq I
  <2> HIDE DEF I
  <2> QED
    BY <1>1, <1>2, Induction
<1>4. Len(x) \in I
  BY <1>3, LenProperties DEF Lists
<1> QED
  BY <1>4

\* More segments spell a text that goes on with a slash.
LEMMA SpellsOnward ==
    ASSUME NEW x \in Lists, NEW s \in Texts, Spells(x, s),
           NEW y \in Lists, NEW t \in Texts, Spells(x \o y, t)
    PROVE  \E r \in Texts : t = s \o r /\ Onward(r)
<1>0. PICK none \in Texts : none = << >> /\ s \o none = s /\ Onward(none)
  BY EmptySeq, ConcatEmptySeq DEF Texts, Onward
<1>a. PICK sl \in Texts : sl = <<Slash>>
  BY SlashText
<1>b. \A a, b \in Texts : (s \o a) \o b = s \o (a \o b)
  BY TextAssociative
<1> DEFINE I == {n \in Nat : \A z \in Lists : \A u \in Texts :
                    Len(z) = n /\ Spells(x \o z, u) => \E r \in Texts : u = s \o r /\ Onward(r)}
<1>1. 0 \in I
  <2>1. ASSUME NEW z \in Lists, Len(z) = 0, NEW u \in Texts, Spells(x \o z, u)
        PROVE  \E r \in Texts : u = s \o r /\ Onward(r)
    <3>1. z = << >>
      BY <2>1, EmptySeq DEF Lists
    <3>2. x \o z = x
      BY <3>1, ConcatEmptySeq DEF Lists
    <3>3. u = s
      BY <2>1, <3>2, SpellsOne
    <3> QED
      BY <1>0, <3>3
  <2> QED
    BY <2>1
<1>2. ASSUME NEW n \in Nat, n \in I PROVE n + 1 \in I
  <2> SUFFICES ASSUME NEW z \in Lists, NEW u \in Texts, Len(z) = n + 1, Spells(x \o z, u)
               PROVE  \E r \in Texts : u = s \o r /\ Onward(r)
    OBVIOUS
  <2>1. z # << >>
    BY EmptySeq DEF Lists
  <2>2. PICK w \in Lists, e \in Texts : z = Append(w, e)
    BY <2>1, SequenceEmptyOrAppend DEF Lists
  <2>3. Len(w) = n
    <3>1. Len(w) \in Nat /\ Len(z) = Len(w) + 1
      BY <2>2, LenProperties, AppendProperties DEF Lists
    <3> QED
      BY <3>1
  <2>4. PICK xw \in Lists : xw = x \o w
    BY <2>2, ConcatProperties DEF Lists
  <2>5. x \o z = Append(xw, e)
    BY <2>2, <2>4, AppendBehind
  <2>6. PICK a \in Texts : Spells(xw, a) /\ u = a \o (<<Slash>> \o e)
    <3>1. Spells(Append(xw, e), u)
      BY <2>5
    <3> QED
      BY <2>2, <2>4, <3>1, SpellsAppend
  <2>7. PICK b \in Texts : a = s \o b /\ Onward(b)
    BY <1>2, <2>2, <2>3, <2>4, <2>6
  <2>8. PICK v \in Texts : v = sl \o e
    BY <1>a, <2>2, ConcatProperties DEF Texts
  <2>9. PICK r \in Texts : r = b \o v
    BY <2>7, <2>8, ConcatProperties DEF Texts
  <2>10. (s \o b) \o v = s \o (b \o v)
    BY <1>b, <2>7, <2>8
  <2>11. v[1] = Slash /\ Len(v) \in Nat /\ Len(v) >= 1
    BY <1>a, <2>2, <2>8 DEF Texts
  <2>12. r[1] = Slash
    <3>1. Len(b) \in Nat /\ \A i \in 1 .. Len(b) + Len(v) : r[i] = IF i <= Len(b) THEN b[i] ELSE v[i - Len(b)]
      BY <2>7, <2>8, <2>9, ConcatProperties, LenProperties DEF Texts
    <3>2. 1 \in 1 .. Len(b) + Len(v) /\ (Len(b) = 0 => 1 - Len(b) = 1)
      BY <2>11, <3>1
    <3>3. Len(b) # 0 => b # << >> /\ 1 <= Len(b)
      BY <3>1, EmptySeq DEF Texts
    <3>4. Len(b) = 0 => ~(1 <= Len(b))
      OBVIOUS
    <3> QED
      BY <2>7, <2>11, <3>1, <3>2, <3>3, <3>4 DEF Onward
  <2> QED
    BY <1>a, <2>6, <2>7, <2>8, <2>9, <2>10, <2>12 DEF Onward
<1>3. Nat \subseteq I
  <2> HIDE DEF I
  <2> QED
    BY <1>1, <1>2, Induction
<1>4. Len(y) \in I
  BY <1>3, LenProperties DEF Lists
<1> QED
  BY <1>4

\* What is a prefix, and what is left.
LEMMA PrefixIs ==
    ASSUME NEW T, NEW x \in Seq(T), NEW z \in Seq(T)
    PROVE  /\ IsPrefix(x, z) <=> \E y \in Seq(T) : z = x \o y
           /\ \A y \in Seq(T) : z = x \o y => SubSeq(z, Len(x) + 1, Len(z)) = y
           /\ IsPrefix(x, z) => z = x \o SubSeq(z, Len(x) + 1, Len(z))
<1>1. /\ Len(x) \in Nat /\ Len(z) \in Nat
      /\ \A i \in 1 .. Len(x) : x[i] \in T
      /\ \A i \in 1 .. Len(z) : z[i] \in T
  BY LenProperties, ElementOfSeq
<1>2. ASSUME NEW y \in Seq(T), z = x \o y
      PROVE  IsPrefix(x, z) /\ SubSeq(z, Len(x) + 1, Len(z)) = y
  <2>1. /\ Len(y) \in Nat /\ Len(z) = Len(x) + Len(y)
        /\ \A i \in 1 .. Len(x) + Len(y) : z[i] = IF i <= Len(x) THEN x[i] ELSE y[i - Len(x)]
    BY <1>2, ConcatProperties, LenProperties
  <2>2. PICK u \in Seq(T) : /\ u = SubSeq(z, 1, Len(x)) /\ Len(u) = Len(x)
                            /\ \A i \in 1 .. Len(x) : u[i] = z[i]
    <3>1. \A i \in 1 .. Len(x) : z[i] \in T
      BY <1>1, <2>1
    <3>2. /\ SubSeq(z, 1, Len(x)) \in Seq(T)
          /\ Len(SubSeq(z, 1, Len(x))) = IF 1 <= Len(x) THEN Len(x) - 1 + 1 ELSE 0
          /\ \A i \in 1 .. Len(x) - 1 + 1 : SubSeq(z, 1, Len(x))[i] = z[1 + i - 1]
      BY <1>1, <3>1, SubSeqProperties
    <3>3. \A i \in 1 .. Len(x) : i \in 1 .. Len(x) - 1 + 1 /\ 1 + i - 1 = i
      BY <1>1
    <3>4. Len(SubSeq(z, 1, Len(x))) = Len(x)
      BY <1>1, <3>2
    <3>5. \A i \in 1 .. Len(x) : SubSeq(z, 1, Len(x))[i] = z[i]
      BY <3>2, <3>3
    <3> QED
      BY <3>2, <3>4, <3>5
  <2>3. PICK v \in Seq(T) : /\ v = SubSeq(z, Len(x) + 1, Len(z)) /\ Len(v) = Len(y)
                            /\ \A i \in 1 .. Len(y) : v[i] = z[Len(x) + i]
    <3>1. \A i \in Len(x) + 1 .. Len(z) : z[i] \in T
      BY <1>1, <2>1
    <3>2. Len(x) + 1 \in Int /\ Len(z) \in Int /\ Len(z) - (Len(x) + 1) + 1 = Len(y)
      BY <1>1, <2>1
    <3>3. /\ SubSeq(z, Len(x) + 1, Len(z)) \in Seq(T)
          /\ Len(SubSeq(z, Len(x) + 1, Len(z)))
               = IF Len(x) + 1 <= Len(z) THEN Len(z) - (Len(x) + 1) + 1 ELSE 0
          /\ \A i \in 1 .. Len(z) - (Len(x) + 1) + 1 :
                SubSeq(z, Len(x) + 1, Len(z))[i] = z[(Len(x) + 1) + i - 1]
      BY <3>1, <3>2, SubSeqProperties
    <3>4. \A i \in 1 .. Len(y) : (Len(x) + 1) + i - 1 = Len(x) + i
      BY <1>1, <2>1
    <3>5. Len(SubSeq(z, Len(x) + 1, Len(z))) = Len(y)
      BY <1>1, <2>1, <3>2, <3>3
    <3>6. \A i \in 1 .. Len(y) : SubSeq(z, Len(x) + 1, Len(z))[i] = z[Len(x) + i]
      BY <3>2, <3>3, <3>4
    <3> QED
      BY <3>3, <3>5, <3>6
  <2>4. u = x
    <3>1. \A i \in 1 .. Len(u) : u[i] = x[i]
      BY <1>1, <2>1, <2>2
    <3> QED
      BY <2>2, <3>1, SeqEqual
  <2>5. v = y
    <3>1. \A i \in 1 .. Len(v) : v[i] = y[i]
      <4> SUFFICES ASSUME NEW i \in 1 .. Len(y) PROVE v[i] = y[i]
        BY <2>3
      <4>1. Len(x) + i \in 1 .. Len(x) + Len(y) /\ ~(Len(x) + i <= Len(x)) /\ (Len(x) + i) - Len(x) = i
        BY <1>1, <2>1
      <4> QED
        BY <2>1, <2>3, <4>1
    <3> QED
      BY <2>3, <3>1, SeqEqual
  <2>6. Len(x) <= Len(z) /\ SubSeq(x, 1, Len(x)) = x
    BY <1>1, <2>1, SubSeqFull
  <2> QED
    BY <2>2, <2>3, <2>4, <2>5, <2>6 DEF IsPrefix
<1>3. ASSUME IsPrefix(x, z)
      PROVE  /\ SubSeq(z, Len(x) + 1, Len(z)) \in Seq(T)
             /\ z = x \o SubSeq(z, Len(x) + 1, Len(z))
  <2>1. Len(x) <= Len(z) /\ SubSeq(z, 1, Len(x)) = x
    BY <1>3, SubSeqFull DEF IsPrefix
  <2>2. \A i \in Len(x) + 1 .. Len(z) : z[i] \in T
    BY <1>1
  <2>3. Len(x) + 1 \in Int /\ Len(z) \in Int
    BY <1>1
  <2>4. SubSeq(z, Len(x) + 1, Len(z)) \in Seq(T)
    BY <2>2, <2>3, SubSeqProperties
  <2>5. 1 \in 1 .. Len(z) + 1 /\ Len(x) \in 1 - 1 .. Len(z) /\ Len(z) \in Len(x) .. Len(z)
    BY <1>1, <2>1
  <2>6. SubSeq(z, 1, Len(x)) \o SubSeq(z, Len(x) + 1, Len(z)) = SubSeq(z, 1, Len(z))
    BY <2>5, ConcatAdjacentSubSeq
  <2>7. SubSeq(z, 1, Len(z)) = z
    BY SubSeqFull
  <2> QED
    BY <2>1, <2>4, <2>6, <2>7
<1> QED
  BY <1>2, <1>3

LEMMA ListPrefix ==
    ASSUME NEW x \in Lists, NEW z \in Lists
    PROVE  /\ IsPrefix(x, z) <=> \E y \in Lists : z = x \o y
           /\ \A y \in Lists : z = x \o y => SubSeq(z, Len(x) + 1, Len(z)) = y
BY PrefixIs DEF Lists

LEMMA LeftBehind ==
    ASSUME NEW x \in Lists, NEW y \in Lists, NEW z \in Lists, z = x \o y
    PROVE  SubSeq(z, Len(x) + 1, Len(z)) = y
BY ListPrefix

LEMMA TextPrefix ==
    ASSUME NEW x \in Texts, NEW z \in Texts
    PROVE  /\ IsPrefix(x, z) <=> \E y \in Texts : z = x \o y
           /\ \A y \in Texts : z = x \o y => SubSeq(z, Len(x) + 1, Len(z)) = y
BY PrefixIs DEF Texts

\* A path is a prefix of another, up to a slash, if its segments are.
LEMMA PrefixOfCuts ==
    ASSUME NEW p \in Texts, NEW q \in Texts, Onward(p), Onward(q)
    PROVE  IsPrefix(Cuts(p), Cuts(q)) <=> \E r \in Texts : q = p \o r /\ Onward(r)
<1>1. PICK x \in Lists : x = Cuts(p) /\ Spells(x, p)
  BY CutsType, CutsSpells
<1>2. PICK z \in Lists : z = Cuts(q) /\ Spells(z, q)
  BY CutsType, CutsSpells
<1>3. IsPrefix(x, z) <=> \E y \in Lists : z = x \o y
  BY <1>1, <1>2, ListPrefix
<1>4. ASSUME NEW y \in Lists, z = x \o y PROVE \E r \in Texts : q = p \o r /\ Onward(r)
  <2>1. Spells(x \o y, q)
    BY <1>2, <1>4
  <2> QED
    BY <1>1, <2>1, SpellsOnward
<1>5. ASSUME NEW r \in Texts, q = p \o r, Onward(r) PROVE \E y \in Lists : z = x \o y
  <2>1. Cuts(q) = Cuts(p) \o Cuts(r)
    BY <1>5, CutsBehind
  <2>2. Cuts(r) \in Lists
    BY <1>5, CutsType
  <2> QED
    BY <1>1, <1>2, <2>1, <2>2
<1> QED
  BY <1>1, <1>2, <1>3, <1>4, <1>5

\* "/" alone is cut into one segment, that is empty.
LEMMA CutsRoot ==
    /\ RootPath \in Texts /\ Onward(RootPath) /\ RootPath # << >> /\ Cuts(RootPath) = << << >> >>
    /\ \A s \in Texts : Onward(s) /\ Cuts(s) = << << >> >> => s = RootPath
    /\ \A s \in Texts : Onward(s) /\ Cuts(s) = << >> => s = << >>
<1>1. RootPath \in Texts /\ RootPath # << >> /\ RootPath[1] = Slash /\ Len(RootPath) = 1
  BY SlashText DEF RootPath
<1>2. Onward(RootPath)
  BY <1>1 DEF Onward
<1>3. Cuts(RootPath) = << << >> >>
  <2>1. PICK a : Cutting(a, RootPath) /\ Cuts(RootPath) = a[Len(RootPath)]
    BY <1>1, CutsStepwise DEF Texts
  <2>2. a[1] = NextChar(a[1 - 1], RootPath[1]) /\ a[0] = << >>
    BY <1>1, <2>1 DEF Cutting
  <2>3. << >> \in Lists /\ 1 - 1 = 0
    BY EmptySeq DEF Lists
  <2>4. a[1] = Append(<< >>, << >>)
    BY <1>1, <2>2, <2>3, NextCharStarts
  <2>5. Append(<< >>, << >>) = << << >> >>
    OBVIOUS
  <2> QED
    BY <1>1, <2>1, <2>4, <2>5
<1>4. ASSUME NEW s \in Texts, Onward(s), Cuts(s) = << << >> >> PROVE s = RootPath
  <2>1. Spells(Cuts(s), s)
    BY <1>4, CutsSpells
  <2>2. Spells(Cuts(RootPath), RootPath)
    BY <1>1, <1>2, CutsSpells
  <2>3. PICK x \in Lists : x = Cuts(s)
    BY <1>4, CutsType
  <2> QED
    BY <1>1, <1>3, <1>4, <2>1, <2>2, <2>3, SpellsOne
<1>5. ASSUME NEW s \in Texts, Onward(s), Cuts(s) = << >> PROVE s = << >>
  <2>1. Spells(<< >>, s)
    BY <1>5, CutsSpells
  <2>2. << >> \in Lists /\ << >> \in Texts
    BY EmptySeq DEF Lists, Texts
  <2> QED
    BY <2>1, <2>2, SpellsNothing, SpellsOne
<1> QED
  BY <1>1, <1>2, <1>3, <1>4, <1>5

\* normalize_path
Rooted(s) == s \in Texts /\ s # << >> /\ s[1] = Slash

LEMMA Normalizes ==
    ASSUME NEW s \in Texts
    PROVE  Rooted(NormalizePath(s)) /\ (Rooted(s) => NormalizePath(s) = s)
<1>1. CASE s # << >> /\ Head(s) = Slash
  <2>1. Head(s) = s[1]
    BY <1>1 DEF Texts
  <2> QED
    BY <1>1, <2>1 DEF NormalizePath, Rooted
<1>2. CASE ~(s # << >> /\ Head(s) = Slash)
  <2>1. PICK u \in Texts : u = <<Slash>> \o s
    BY SlashText, TextConcat
  <2>2. u # << >> /\ u[1] = Slash
    BY <2>1 DEF Texts
  <2>3. Head(s) = s[1]
    BY DEF Texts
  <2> QED
    BY <1>2, <2>1, <2>2, <2>3 DEF NormalizePath, Rooted
<1> QED
  BY <1>1, <1>2

\* The segments of a normalized path.
SegmentsOf(s) == IF s = RootPath THEN << >> ELSE Cuts(s)

LEMMA SplitIs ==
    ASSUME NEW s \in Texts
    PROVE  Split(s) = SegmentsOf(NormalizePath(s)) /\ Split(s) \in Lists
<1>1. Split(s) = SegmentsOf(NormalizePath(s))
  BY DEF Split, SplitPathSegments, SegmentsOf, Cuts
<1>2. PICK ns \in Texts : ns = NormalizePath(s) /\ Onward(ns)
  BY Normalizes DEF Rooted, Onward
<1>3. SegmentsOf(ns) \in Lists
  BY <1>2, CutsType, EmptySeq DEF SegmentsOf, Lists
<1> QED
  BY <1>1, <1>2, <1>3

\* Segments are joined.
LEMMA JoinBySegments ==
    ASSUME NEW s \in Texts, NEW c \in Texts
    PROVE  Split(JoinPrefix(s, c)) = Split(s) \o Split(c)
<1>1. PICK p \in Texts : p = NormalizePath(s) /\ Rooted(p)
  BY Normalizes DEF Rooted
<1>2. PICK n \in Texts : n = NormalizePath(c) /\ Rooted(n)
  BY Normalizes DEF Rooted
<1>3. /\ Split(s) = SegmentsOf(p) /\ Split(c) = SegmentsOf(n)
      /\ SegmentsOf(p) \in Lists /\ SegmentsOf(n) \in Lists
  BY <1>1, <1>2, SplitIs
<1>4. CASE p = RootPath
  <2>1. JoinPrefix(s, c) = n
    BY <1>1, <1>2, <1>4 DEF JoinPrefix
  <2>2. Split(n) = SegmentsOf(n)
    BY <1>2, SplitIs, Normalizes
  <2>3. << >> \o SegmentsOf(n) = SegmentsOf(n)
    BY <1>3, ConcatEmptySeq DEF Lists
  <2>4. SegmentsOf(p) = << >>
    BY <1>4 DEF SegmentsOf
  <2> QED
    BY <1>3, <2>1, <2>2, <2>3, <2>4
<1>5. CASE p # RootPath /\ n = RootPath
  <2>1. JoinPrefix(s, c) = p
    BY <1>1, <1>2, <1>5 DEF JoinPrefix
  <2>2. Split(p) = SegmentsOf(p)
    BY <1>1, SplitIs, Normalizes
  <2>3. SegmentsOf(p) \o << >> = SegmentsOf(p)
    BY <1>3, ConcatEmptySeq DEF Lists
  <2>4. SegmentsOf(n) = << >>
    BY <1>5 DEF SegmentsOf
  <2> QED
    BY <1>3, <2>1, <2>2, <2>3, <2>4
<1>6. CASE p # RootPath /\ n # RootPath
  <2>1. PICK j \in Texts : j = p \o n
    BY <1>1, <1>2, TextConcat
  <2>2. JoinPrefix(s, c) = j
    BY <1>1, <1>2, <1>6, <2>1 DEF JoinPrefix
  <2>3. Len(p) \in Nat /\ Len(n) \in Nat /\ Len(p) >= 1 /\ Len(n) >= 1
    BY <1>1, <1>2, TextLen DEF Rooted
  <2>4. Len(j) = Len(p) + Len(n) /\ j[1] = Slash
    <3>1. /\ Len(j) = Len(p) + Len(n)
          /\ \A i \in 1 .. Len(p) + Len(n) : j[i] = IF i <= Len(p) THEN p[i] ELSE n[i - Len(p)]
      BY <1>1, <1>2, <2>1, ConcatProperties DEF Texts
    <3>2. 1 \in 1 .. Len(p) + Len(n)
      BY <2>3
    <3> QED
      BY <1>1, <2>3, <3>1, <3>2 DEF Rooted
  <2>5. j # RootPath /\ j # << >>
    <3>1. Len(RootPath) = 1 /\ Len(<< >>) = 0
      BY DEF RootPath
    <3>2. Len(j) >= 2
      BY <2>3, <2>4
    <3> QED
      BY <3>1, <3>2
  <2>6. Rooted(j)
    BY <2>1, <2>4, <2>5 DEF Rooted
  <2>7. Split(j) = Cuts(j)
    BY <2>1, <2>5, <2>6, SplitIs, Normalizes DEF SegmentsOf
  <2>8. Onward(p) /\ Onward(n)
    BY <1>1, <1>2 DEF Rooted, Onward
  <2>9. Cuts(j) = Cuts(p) \o Cuts(n)
    BY <2>1, <2>8, CutsBehind
  <2> QED
    BY <1>3, <1>6, <2>2, <2>7, <2>9 DEF SegmentsOf
<1> QED
  BY <1>4, <1>5, <1>6

\* One text is another, or goes on after it with a slash.
GoesOn(p, s) == \E r \in Texts : s = p \o r /\ Onward(r)

\* What the character after the prefix says.
LEMMA MatchIs ==
    ASSUME NEW s \in Texts, NEW p \in Texts,
           NEW ns \in Texts, ns = NormalizePath(s), NEW np \in Texts, np = NormalizePath(p)
    PROVE  MatchesPrefix(s, p) <=> np = RootPath \/ GoesOn(np, ns)
<1>1. Len(ns) \in Nat /\ Len(np) \in Nat
  BY TextLen
<1>2. IsPrefix(np, ns) <=> \E r \in Texts : ns = np \o r
  BY TextPrefix
<1>3. MatchesPrefix(s, p) <=>
        \/ np = RootPath
        \/ ns = np
        \/ Len(ns) > Len(np) /\ IsPrefix(np, ns) /\ ns[Len(np) + 1] = Slash
  BY DEF MatchesPrefix
<1>4. ASSUME NEW r \in Texts, ns = np \o r
      PROVE  ns = np \/ (Len(ns) > Len(np) /\ ns[Len(np) + 1] = Slash) <=> Onward(r)
  <2>1. /\ Len(r) \in Nat /\ Len(ns) = Len(np) + Len(r)
        /\ \A i \in 1 .. Len(np) + Len(r) : ns[i] = IF i <= Len(np) THEN np[i] ELSE r[i - Len(np)]
    BY <1>4, TextLen, ConcatProperties DEF Texts
  <2>2. CASE r = << >>
    <3>1. np \o << >> = np
      BY ConcatEmptySeq DEF Texts
    <3> QED
      BY <1>4, <2>2, <3>1 DEF Onward
  <2>3. CASE r # << >>
    <3>1. Len(r) >= 1
      BY <2>3, TextLen
    <3>2. Len(np) + 1 \in 1 .. Len(np) + Len(r) /\ ~(Len(np) + 1 <= Len(np)) /\ (Len(np) + 1) - Len(np) = 1
      BY <1>1, <2>1, <3>1
    <3>3. ns[Len(np) + 1] = r[1]
      BY <2>1, <3>2
    <3>4. Len(ns) > Len(np) /\ ns # np
      BY <1>1, <2>1, <3>1
    <3> QED
      BY <2>3, <3>3, <3>4 DEF Onward
  <2> QED
    BY <2>2, <2>3
<1>5. ns = np => IsPrefix(np, ns)
  <2>1. << >> \in Texts /\ np \o << >> = np
    BY EmptySeq, ConcatEmptySeq DEF Texts
  <2> QED
    BY <1>2, <2>1
<1>6. ASSUME NEW r \in Texts, ns = np \o r, Onward(r)
      PROVE  ns = np \/ (Len(ns) > Len(np) /\ IsPrefix(np, ns) /\ ns[Len(np) + 1] = Slash)
  BY <1>2, <1>4, <1>6
<1>7. ASSUME ns = np \/ (Len(ns) > Len(np) /\ IsPrefix(np, ns) /\ ns[Len(np) + 1] = Slash)
      PROVE  \E r \in Texts : ns = np \o r /\ Onward(r)
  <2>1. PICK r \in Texts : ns = np \o r
    BY <1>2, <1>5, <1>7
  <2> QED
    BY <1>4, <1>7, <2>1
<1> QED
  BY <1>3, <1>6, <1>7 DEF GoesOn

\* A path matches a prefix if its segments start with those of the prefix.
LEMMA MatchBySegments ==
    ASSUME NEW s \in Texts, NEW p \in Texts
    PROVE  MatchesPrefix(s, p) <=> IsPrefix(Split(p), Split(s))
<1>1. PICK ns \in Texts : ns = NormalizePath(s) /\ Rooted(ns) /\ Onward(ns)
  BY Normalizes DEF Rooted, Onward
<1>2. PICK np \in Texts : np = NormalizePath(p) /\ Rooted(np) /\ Onward(np)
  BY Normalizes DEF Rooted, Onward
<1>3. Split(s) = SegmentsOf(ns) /\ Split(p) = SegmentsOf(np) /\ Split(s) \in Lists /\ Split(p) \in Lists
  BY <1>1, <1>2, SplitIs
<1>4. MatchesPrefix(s, p) <=> np = RootPath \/ GoesOn(np, ns)
  BY <1>1, <1>2, MatchIs
<1>5. CASE np = RootPath
  <2>1. Split(p) = << >>
    BY <1>3, <1>5 DEF SegmentsOf
  <2>2. IsPrefix(<< >>, Split(s))
    <3>1. << >> \in Lists /\ << >> \o Split(s) = Split(s)
      BY <1>3, EmptySeq, ConcatEmptySeq DEF Lists
    <3> QED
      BY <1>3, <3>1, ListPrefix
  <2> QED
    BY <1>4, <1>5, <2>1, <2>2
<1>6. CASE np # RootPath /\ ns # RootPath
  BY <1>1, <1>2, <1>3, <1>4, <1>6, PrefixOfCuts DEF SegmentsOf, GoesOn
<1>7. CASE np # RootPath /\ ns = RootPath
  <2>1. Cuts(np) # << >> /\ Cuts(np) \in Lists
    BY <1>2, CutsRoot, CutsType DEF Rooted
  <2>2. Split(s) = << >> /\ Split(p) = Cuts(np)
    BY <1>3, <1>7 DEF SegmentsOf
  <2>3. ~IsPrefix(Cuts(np), << >>)
    <3>1. Len(Cuts(np)) \in Nat \ {0} /\ Len(<< >>) = 0
      BY <2>1, EmptySeq DEF Lists
    <3> QED
      BY <3>1 DEF IsPrefix
  <2>4. ASSUME NEW r \in Texts, ns = np \o r PROVE FALSE
    <3>1. Len(np) \in Nat /\ Len(np) >= 1 /\ Len(r) \in Nat /\ Len(ns) = Len(np) + Len(r)
      BY <1>2, <2>4, TextLen, ConcatProperties DEF Rooted, Texts
    <3>2. Len(ns) = 1
      BY <1>7 DEF RootPath
    <3>3. Len(np) = 1 /\ np[1] = Slash /\ Len(RootPath) = 1 /\ RootPath[1] = Slash
      BY <1>2, <3>1, <3>2 DEF Rooted, RootPath
    <3>4. \A i \in 1 .. Len(np) : np[i] = RootPath[i]
      BY <3>3
    <3>5. np = RootPath
      BY <3>3, <3>4, CutsRoot, SeqEqual DEF Texts
    <3> QED
      BY <1>7, <3>5
  <2> QED
    BY <1>4, <1>7, <2>2, <2>3, <2>4 DEF GoesOn
<1> QED
  BY <1>5, <1>6, <1>7

\* The relative path has the segments behind those of the prefix.
LEMMA RelativeBySegments ==
    ASSUME NEW s \in Texts, NEW p \in Texts, MatchesPrefix(s, p)
    PROVE  /\ RelativePathFor(s, p) # << >> /\ Head(RelativePathFor(s, p)) = Slash
           /\ Split(RelativePathFor(s, p)) = Segmented!RelativePath(Split(s), Split(p))
<1>1. PICK ns \in Texts : ns = NormalizePath(s) /\ Rooted(ns) /\ Onward(ns)
  BY Normalizes DEF Rooted, Onward
<1>2. PICK np \in Texts : np = NormalizePath(p) /\ Rooted(np) /\ Onward(np)
  BY Normalizes DEF Rooted, Onward
<1>3. Split(s) = SegmentsOf(ns) /\ Split(p) = SegmentsOf(np) /\ Split(s) \in Lists /\ Split(p) \in Lists
  BY <1>1, <1>2, SplitIs
<1>4. np = RootPath \/ GoesOn(np, ns)
  BY <1>1, <1>2, MatchIs
<1>5. PICK rel : rel = RelativePathFor(s, p)
  OBVIOUS
<1>6. rel = IF np = RootPath THEN ns ELSE IF ns = np THEN RootPath ELSE SubSeq(ns, Len(np) + 1, Len(ns))
  BY <1>1, <1>2, <1>5 DEF RelativePathFor
<1>7. PICK rest : rest = SubSeq(Split(s), Len(Split(p)) + 1, Len(Split(s)))
  OBVIOUS
<1>8. Segmented!RelativePath(Split(s), Split(p)) = IF rest = << << >> >> THEN << >> ELSE rest
  <2>1. Segmented!MatchesPrefix(Split(s), Split(p))
    <3>1. IsPrefix(Split(p), Split(s))
      BY MatchBySegments
    <3> QED
      BY <3>1 DEF Segmented!MatchesPrefix, Segmented!IsPrefix, IsPrefix
  <2> QED
    BY <1>7, <2>1 DEF Segmented!RelativePath, Segmented!NormalizePath
<1>9. SegmentsOf(ns) # << << >> >>
  <2>1. ns # RootPath => Cuts(ns) # << << >> >>
    BY <1>1, CutsRoot
  <2>2. << >> # << << >> >>
    OBVIOUS
  <2> QED
    BY <2>1, <2>2 DEF SegmentsOf
<1>10. rel \in Texts /\ Rooted(rel) /\ Split(rel) = IF rest = << << >> >> THEN << >> ELSE rest
  <2>1. CASE np = RootPath
    <3>1. rel = ns /\ Split(ns) = SegmentsOf(ns)
      BY <1>1, <1>6, <2>1, SplitIs, Normalizes
    <3>2. Split(p) = << >>
      BY <1>3, <2>1 DEF SegmentsOf
    <3>3. << >> \in Lists /\ << >> \o Split(s) = Split(s)
      BY <1>3, EmptySeq, ConcatEmptySeq DEF Lists
    <3>4. rest = Split(s)
      BY <1>3, <1>7, <3>2, <3>3, ListPrefix
    <3> QED
      BY <1>1, <1>3, <1>9, <3>1, <3>4
  <2>2. CASE np # RootPath /\ ns = np
    <3>1. rel = RootPath /\ Rooted(RootPath)
      BY <1>6, <2>2, CutsRoot DEF Rooted, Onward
    <3>2. Split(RootPath) = << >>
      BY <3>1, CutsRoot, SplitIs, Normalizes DEF SegmentsOf
    <3>3. << >> \in Lists /\ Split(s) \o << >> = Split(s)
      BY <1>3, EmptySeq, ConcatEmptySeq DEF Lists
    <3>4. Split(s) = Split(p)
      BY <1>3, <2>2
    <3>5. rest = << >>
      BY <1>3, <1>7, <3>3, <3>4, ListPrefix
    <3> QED
      BY <3>1, <3>2, <3>5, CutsRoot
  <2>3. CASE np # RootPath /\ ns # np
    <3>1. PICK r \in Texts : ns = np \o r /\ Onward(r)
      BY <1>4, <2>3 DEF GoesOn
    <3>2. rel = r
      BY <1>6, <2>3, <3>1, TextPrefix
    <3>3. r # << >>
      <4>1. np \o << >> = np
        BY ConcatEmptySeq DEF Texts
      <4> QED
        BY <2>3, <3>1, <4>1
    <3>4. Rooted(r)
      BY <3>1, <3>3 DEF Rooted, Onward
    <3>5. Split(r) = SegmentsOf(r)
      BY <3>1, <3>4, SplitIs, Normalizes
    <3>6. Cuts(ns) = Cuts(np) \o Cuts(r) /\ Cuts(r) \in Lists
      BY <1>2, <3>1, CutsBehind, CutsType
    <3>7. ns # RootPath
      <4>1. Len(np) \in Nat /\ Len(r) \in Nat /\ Len(np) >= 1 /\ Len(r) >= 1 /\ Len(ns) = Len(np) + Len(r)
        BY <1>2, <3>1, <3>3, TextLen, ConcatProperties DEF Rooted, Texts
      <4>2. Len(RootPath) = 1
        BY DEF RootPath
      <4>3. Len(ns) # 1
        BY <4>1
      <4> QED
        BY <4>2, <4>3
    <3>8. Split(s) = Cuts(ns) /\ Split(p) = Cuts(np)
      BY <1>3, <2>3, <3>7 DEF SegmentsOf
    <3>9. rest = Cuts(r)
      <4>1. Split(s) = Split(p) \o Cuts(r)
        BY <3>6, <3>8
      <4> QED
        BY <1>3, <1>7, <3>6, <4>1, LeftBehind
    <3>10. Cuts(r) = << << >> >> <=> r = RootPath
      BY <3>1, CutsRoot
    <3> QED
      BY <3>1, <3>2, <3>4, <3>5, <3>9, <3>10 DEF SegmentsOf
  <2> QED
    BY <2>1, <2>2, <2>3
<1>11. rel # << >> /\ Head(rel) = Slash
  <2>1. rel # << >> /\ rel[1] = Slash
    BY <1>10 DEF Rooted
  <2>2. Head(rel) = rel[1]
    BY <1>10 DEF Texts
  <2> QED
    BY <2>1, <2>2
<1> QED
  BY <1>5, <1>8, <1>10, <1>11

\* Whatever is built is a text.
BuiltInv == path \in Texts /\ prefix \in Texts /\ child \in Texts

LEMMA StringsBuilt == PathsSpec => []BuiltInv
<1>1. InitPaths => BuiltInv
  BY EmptySeq DEF InitPaths, BuiltInv, Texts
<1>2. BuiltInv /\ [Extend]_pathVars => BuiltInv'
  BY TextAppend DEF BuiltInv, Extend, pathVars
<1> QED
  BY <1>1, <1>2, PTL DEF PathsSpec

\* Prefixes are joined, and paths matched against them, by segments and never in
\* the middle of a name: join_prefix, matches_prefix and split_path_segments on any
\* texts of any length.
THEOREM MatchesBySegments == PathsSpec => []MatchIsBySegments
<1>1. ASSUME BuiltInv PROVE MatchIsBySegments
  <2>1. path \in Texts /\ prefix \in Texts /\ child \in Texts
    BY <1>1 DEF BuiltInv
  <2>2. Split(JoinPrefix(prefix, child)) = Segmented!JoinPrefix(Split(prefix), Split(child))
    <3>1. Split(JoinPrefix(prefix, child)) = Split(prefix) \o Split(child)
      BY <2>1, JoinBySegments
    <3> QED
      BY <3>1 DEF Segmented!JoinPrefix
  <2>3. MatchesPrefix(path, prefix) <=> Segmented!MatchesPrefix(Split(path), Split(prefix))
    <3>1. MatchesPrefix(path, prefix) <=> IsPrefix(Split(prefix), Split(path))
      BY <2>1, MatchBySegments
    <3> QED
      BY <3>1 DEF Segmented!MatchesPrefix, Segmented!IsPrefix, IsPrefix
  <2> QED
    BY <2>2, <2>3 DEF MatchIsBySegments
<1> QED
  BY <1>1, StringsBuilt, PTL

\* relative_path_for cuts off the segments of the prefix, and no other character:
\* what is left begins with a slash.
THEOREM RelativeHasTheRest == PathsSpec => []RelativeIsTheRest
<1>1. BuiltInv => RelativeIsTheRest
  BY RelativeBySegments DEF BuiltInv, RelativeIsTheRest
<1> QED
  BY <1>1, StringsBuilt, PTL

-----------------------------------------------------------------------------
(* The texts of RequestText. *)

\* The least and the greatest of some positions.
LEMMA LeastOf ==
    ASSUME NEW n \in Nat, NEW S \in SUBSET (1 .. n), S # {}
    PROVE  Min(S) \in S /\ \A y \in S : Min(S) <= y
<1> DEFINE I == {m \in Nat : m <= n => \E x \in S : \A y \in S : y < m => x <= y}
<1>1. 0 \in I
  <2>1. \A y \in S : ~(y < 0)
    OBVIOUS
  <2> QED
    BY <2>1
<1>2. ASSUME NEW m \in Nat, m \in I PROVE m + 1 \in I
  <2> SUFFICES ASSUME m + 1 <= n PROVE \E x \in S : \A y \in S : y < m + 1 => x <= y
    OBVIOUS
  <2>1. PICK x \in S : \A y \in S : y < m => x <= y
    BY <1>2
  <2>2. CASE m \in S /\ m < x
    <3>1. ASSUME NEW y \in S, y < m + 1 PROVE m <= y
      BY <2>1, <2>2, <3>1
    <3> QED
      BY <2>2, <3>1
  <2>3. CASE ~(m \in S /\ m < x)
    <3>1. ASSUME NEW y \in S, y < m + 1 PROVE x <= y
      <4>1. y \in Nat /\ x \in Nat /\ (y < m \/ y = m)
        BY <3>1
      <4> QED
        BY <2>1, <2>3, <4>1
    <3> QED
      BY <3>1
  <2> QED
    BY <2>2, <2>3
<1>3. Nat \subseteq I
  <2> HIDE DEF I
  <2> QED
    BY <1>1, <1>2, Induction
<1>4. PICK x \in S : \A y \in S : y < n => x <= y
  BY <1>3
<1>5. \A y \in S : x <= y \/ (y = n /\ n <= x)
  <2>1. \A y \in S : y \in Nat /\ y <= n /\ (y < n \/ y = n)
    OBVIOUS
  <2> QED
    BY <1>4, <2>1
<1>6. \E z \in S : \A y \in S : z <= y
  <2>1. \A y \in S : y \in Nat /\ y <= n
    OBVIOUS
  <2> QED
    BY <1>4, <1>5, <2>1
<1> QED
  BY <1>6 DEF Min

LEMMA GreatestOf ==
    ASSUME NEW n \in Nat, NEW S \in SUBSET (1 .. n), S # {}
    PROVE  Max(S) \in S /\ \A y \in S : y <= Max(S)
<1> DEFINE T == {x \in 1 .. n : (n + 1) - x \in S}
<1>1. T # {} /\ T \in SUBSET (1 .. n)
  <2>1. PICK y \in S : y \in 1 .. n
    OBVIOUS
  <2>2. (n + 1) - y \in 1 .. n /\ (n + 1) - ((n + 1) - y) = y
    BY <2>1
  <2>3. (n + 1) - y \in T
    BY <2>1, <2>2
  <2> QED
    BY <2>3
<1>2. Min(T) \in T /\ \A y \in T : Min(T) <= y
  <2> HIDE DEF T
  <2> QED
    BY <1>1, LeastOf
<1>3. PICK z \in S : z = (n + 1) - Min(T)
  BY <1>2
<1>4. ASSUME NEW y \in S PROVE z >= y
  <2>1. y \in 1 .. n /\ (n + 1) - y \in 1 .. n /\ (n + 1) - ((n + 1) - y) = y
    OBVIOUS
  <2>2. (n + 1) - y \in T
    BY <2>1
  <2>3. Min(T) <= (n + 1) - y /\ Min(T) \in 1 .. n
    BY <1>2, <2>2
  <2> QED
    BY <1>3, <2>1, <2>3
<1>5. Max(S) \in S /\ \A y \in S : Max(S) >= y
  BY <1>4 DEF Max
<1> QED
  BY <1>5

\* find
LEMMA FindIs ==
    ASSUME NEW T, NEW s \in Seq(T), NEW ch
    PROVE  /\ Find(s, ch) \in 1 .. Len(s) + 1
           /\ \A i \in 1 .. Find(s, ch) - 1 : s[i] # ch
           /\ Find(s, ch) <= Len(s) => s[Find(s, ch)] = ch
<1> DEFINE at == {i \in DOMAIN s : s[i] = ch}
<1>1. Len(s) \in Nat /\ DOMAIN s = 1 .. Len(s)
  BY LenProperties
<1>2. CASE at = {}
  <2>1. Find(s, ch) = Len(s) + 1
    BY <1>2 DEF Find
  <2>2. \A i \in 1 .. Len(s) : s[i] # ch
    BY <1>1, <1>2
  <2> QED
    BY <1>1, <2>1, <2>2
<1>3. CASE at # {}
  <2>1. Find(s, ch) = Min(at)
    BY <1>3 DEF Find
  <2>2. at \in SUBSET (1 .. Len(s))
    BY <1>1
  <2>3. Min(at) \in at /\ \A y \in at : Min(at) <= y
    <3> HIDE DEF at
    <3> QED
      BY <1>1, <1>3, <2>2, LeastOf
  <2>4. PICK f \in 1 .. Len(s) : f = Min(at) /\ s[f] = ch
    BY <1>1, <2>3
  <2>5. ASSUME NEW i \in 1 .. f - 1 PROVE s[i] # ch
    <3>1. i \in 1 .. Len(s) /\ ~(f <= i)
      BY <1>1
    <3> QED
      BY <1>1, <2>3, <2>4, <3>1
  <2> QED
    BY <1>1, <2>1, <2>4, <2>5
<1> QED
  BY <1>2, <1>3

-----------------------------------------------------------------------------
(* Headers. *)

FieldValues == Seq(FieldChars)
HeaderLines == [name : Spellings, value : FieldValues]

\* The headers after some lines, and the values of the last of them.
Read(map, s, i) ==
    /\ DOMAIN map = {s[j].name : j \in 1 .. i}
    /\ \A j \in 1 .. i : (\A k \in 1 .. i : s[k].name = s[j].name => k <= j)
                        => map[s[j].name] = s[j].value

LEMMA HeaderMapIs ==
    ASSUME lines \in Seq(HeaderLines)
    PROVE  Read(HeaderMap, lines, Len(lines))
<1> DEFINE n == Len(lines)
<1>0. n \in Nat /\ DOMAIN lines = 1 .. n
  BY LenProperties
<1> HIDE DEF n
<1> DEFINE Solves(f) ==
             f = [x \in SUBSET (1 .. n) |->
                     IF x = {} THEN NoEntries ELSE PutLine(f[x \ {Max(x)}], lines[Max(x)])]
<1>1. \A d, y : FoldStep("header", lines, d, y) = PutLine(d, y)
  BY DEF FoldStep
<1>2. \A f : Folds(f, "header", lines, NoEntries, lines, n) <=> Solves(f)
  BY <1>1 DEF Folds
<1>3. \E f : Solves(f)
  <2> HIDE DEF Solves
  <2> QED
    BY <1>0, <1>2, FoldsExist
<1> DEFINE iter == CHOOSE f : Solves(f)
<1>4. HeaderMap = iter[1 .. n]
  BY <1>0 DEF HeaderMap, FoldLeft, MapThenFoldSet
<1>5. Solves(iter)
  <2> HIDE DEF Solves
  <2> QED
    BY <1>3
<1> HIDE DEF Solves, iter
<1>6. Folds(iter, "header", lines, NoEntries, lines, n)
  BY <1>2, <1>5
<1>7. PICK a : Along(a, "header", lines, NoEntries, lines, n) /\ a[n] = iter[1 .. n]
  BY <1>0, <1>6, FoldsStepwise
<1> DEFINE I == {i \in Nat : i <= n => Read(a[i], lines, i)}
<1>8. 0 \in I
  <2>1. a[0] = << >> /\ 1 .. 0 = {} /\ DOMAIN << >> = {}
    BY <1>7 DEF Along, NoEntries
  <2> QED
    BY <2>1 DEF Read
<1>9. ASSUME NEW i \in Nat, i \in I PROVE i + 1 \in I
  <2> SUFFICES ASSUME i + 1 <= n PROVE Read(a[i + 1], lines, i + 1)
    OBVIOUS
  <2>1. i + 1 \in 1 .. n /\ (i + 1) - 1 = i /\ i <= n
    BY <1>0
  <2>2. PICK line : line = lines[i + 1]
    OBVIOUS
  <2>3. a[i + 1] = Put(a[i], line.name, line.value)
    <3>1. a[i + 1] = FoldStep("header", lines, a[(i + 1) - 1], lines[i + 1])
      BY <1>7, <2>1 DEF Along
    <3> QED
      BY <1>1, <2>1, <2>2, <3>1 DEF PutLine
  <2>10. /\ DOMAIN a[i + 1] = DOMAIN a[i] \cup {line.name}
        /\ a[i + 1][line.name] = line.value
        /\ \A k \in DOMAIN a[i] : k # line.name => a[i + 1][k] = a[i][k]
    <3>1. /\ DOMAIN Put(a[i], line.name, line.value) = DOMAIN a[i] \cup {line.name}
          /\ Put(a[i], line.name, line.value)[line.name] = line.value
          /\ \A k \in DOMAIN a[i] : k # line.name => Put(a[i], line.name, line.value)[k] = a[i][k]
      BY DEF Put
    <3> QED
      BY <2>3, <3>1
  <2>4. Read(a[i], lines, i)
    BY <1>9, <2>1
  <2>5. \A j \in 1 .. i + 1 : j \in 1 .. i \/ j = i + 1
    OBVIOUS
  <2>6. i + 1 \in 1 .. i + 1 /\ \A j \in 1 .. i : j \in 1 .. i + 1 /\ ~(i + 1 <= j)
    OBVIOUS
  <2>7. DOMAIN a[i + 1] = {lines[j].name : j \in 1 .. i + 1}
    <3>1. DOMAIN a[i + 1] = DOMAIN a[i] \cup {line.name}
      BY <2>10
    <3>2. {lines[j].name : j \in 1 .. i + 1} = {lines[j].name : j \in 1 .. i} \cup {line.name}
      BY <2>2, <2>5, <2>6
    <3> QED
      BY <2>4, <3>1, <3>2 DEF Read
  <2>8. ASSUME NEW j \in 1 .. i + 1, \A k \in 1 .. i + 1 : lines[k].name = lines[j].name => k <= j
        PROVE  a[i + 1][lines[j].name] = lines[j].value
    <3>1. CASE j = i + 1
      BY <2>2, <2>10, <3>1
    <3>2. CASE j \in 1 .. i
      <4>1. lines[j].name # line.name
        BY <2>2, <2>6, <2>8, <3>2
      <4>2. a[i][lines[j].name] = lines[j].value /\ lines[j].name \in DOMAIN a[i]
        BY <2>4, <2>6, <2>8, <3>2 DEF Read
      <4> QED
        BY <2>10, <4>1, <4>2
    <3> QED
      BY <2>5, <3>1, <3>2
  <2> QED
    BY <2>7, <2>8 DEF Read
<1>10. Nat \subseteq I
  <2> HIDE DEF I
  <2> QED
    BY <1>8, <1>9, Induction
<1> QED
  BY <1>0, <1>4, <1>7, <1>10 DEF n

\* Each name of a line has the value of the last one with that name.
NamesSent == {lines[i].name : i \in DOMAIN lines}

LEMMA HeaderMapHas ==
    ASSUME lines \in Seq(HeaderLines)
    PROVE  /\ DOMAIN HeaderMap = NamesSent
           /\ \A name \in NamesSent : HeaderMap[name] = LastLine(name) /\ LastLine(name) \in FieldValues
<1>1. Len(lines) \in Nat /\ DOMAIN lines = 1 .. Len(lines)
      /\ \A i \in 1 .. Len(lines) : lines[i] \in HeaderLines
  BY LenProperties, ElementOfSeq
<1>2. DOMAIN HeaderMap = NamesSent
  BY <1>1, HeaderMapIs DEF Read, NamesSent
<1>3. ASSUME NEW name \in NamesSent
      PROVE  HeaderMap[name] = LastLine(name) /\ LastLine(name) \in FieldValues
  <2> DEFINE at == {i \in DOMAIN lines : lines[i].name = name}
  <2>1. at # {} /\ at \in SUBSET (1 .. Len(lines))
    BY <1>1 DEF NamesSent
  <2>2. Max(at) \in at /\ \A y \in at : y <= Max(at)
    <3> HIDE DEF at
    <3> QED
      BY <1>1, <2>1, GreatestOf
  <2>3. PICK j \in 1 .. Len(lines) :
          j = Max(at) /\ lines[j].name = name /\ \A k \in 1 .. Len(lines) : lines[k].name = name => k <= j
    BY <1>1, <2>2
  <2>4. LastLine(name) = lines[j].value
    BY <2>3 DEF LastLine
  <2>5. lines[j].value \in FieldValues
    <3>1. lines[j] \in HeaderLines
      BY <1>1
    <3> QED
      BY <3>1 DEF HeaderLines
  <2>6. HeaderMap[lines[j].name] = lines[j].value
    BY <2>3, HeaderMapIs DEF Read
  <2> QED
    BY <2>3, <2>4, <2>5, <2>6
<1> QED
  BY <1>2, <1>3

\* What is left of a text without the blanks around it.
LEMMA TrimIs ==
    ASSUME NEW T, NEW s \in Seq(T)
    PROVE  IF \E i \in 1 .. Len(s) : s[i] # Space
           THEN \E i \in 1 .. Len(s) : \E j \in i .. Len(s) :
                   /\ Trim(s) = SubSeq(s, i, j)
                   /\ s[i] # Space /\ s[j] # Space
                   /\ \A x \in 1 .. i - 1 : s[x] = Space
                   /\ \A x \in j + 1 .. Len(s) : s[x] = Space
           ELSE Trim(s) = << >>
<1> DEFINE dark == {i \in DOMAIN s : s[i] # Space}
<1>1. Len(s) \in Nat /\ DOMAIN s = 1 .. Len(s)
  BY LenProperties
<1>2. CASE dark = {}
  <2>1. Trim(s) = << >>
    BY <1>2 DEF Trim
  <2>2. ~\E i \in 1 .. Len(s) : s[i] # Space
    BY <1>1, <1>2
  <2> QED
    BY <2>1, <2>2
<1>3. CASE dark # {}
  <2>1. dark \in SUBSET (1 .. Len(s))
    BY <1>1
  <2>2. /\ Min(dark) \in dark /\ \A y \in dark : Min(dark) <= y
        /\ Max(dark) \in dark /\ \A y \in dark : y <= Max(dark)
    <3> HIDE DEF dark
    <3> QED
      BY <1>1, <1>3, <2>1, LeastOf, GreatestOf
  <2>3. PICK i \in 1 .. Len(s), j \in 1 .. Len(s) : i = Min(dark) /\ j = Max(dark)
    BY <2>1, <2>2
  <2>4. Trim(s) = SubSeq(s, i, j)
    BY <1>3, <2>3 DEF Trim
  <2>5. s[i] # Space /\ s[j] # Space /\ i <= j
    BY <2>2, <2>3
  <2>6. \A x \in 1 .. Len(s) : s[x] # Space => i <= x /\ x <= j
    BY <1>1, <2>2, <2>3
  <2>7. \A x \in 1 .. i - 1 : s[x] = Space
    <3>1. \A x \in 1 .. i - 1 : x \in 1 .. Len(s) /\ ~(i <= x)
      BY <1>1, <2>3
    <3> QED
      BY <2>6, <3>1
  <2>8. \A x \in j + 1 .. Len(s) : s[x] = Space
    <3>1. \A x \in j + 1 .. Len(s) : x \in 1 .. Len(s) /\ ~(x <= j)
      BY <1>1, <2>3
    <3> QED
      BY <2>6, <3>1
  <2>9. j \in i .. Len(s)
    BY <1>1, <2>3, <2>5
  <2>10. \E x \in 1 .. Len(s) : s[x] # Space
    BY <2>3, <2>5
  <2> QED
    BY <2>3, <2>4, <2>5, <2>7, <2>8, <2>9, <2>10
<1> QED
  BY <1>2, <1>3

\* The first hop of a header value.
Hop(value) == Trim(SubSeq(value, 1, Find(value, ",") - 1))

LEMMA HopIs ==
    ASSUME NEW value \in FieldValues
    PROVE  /\ Hop(value) = << >> => ~HasHop(value)
           /\ Hop(value) # << >> => IsHop(Hop(value), value)
<1>1. PICK f \in 1 .. Len(value) + 1 :
        /\ f = Find(value, ",") /\ (\A i \in 1 .. f - 1 : value[i] # ",")
        /\ f <= Len(value) => value[f] = ","
  BY FindIs DEF FieldValues
<1>2. Len(value) \in Nat /\ DOMAIN value = 1 .. Len(value)
      /\ \A i \in 1 .. Len(value) : value[i] \in FieldChars
  BY LenProperties, ElementOfSeq DEF FieldValues
<1>3. PICK w : w = SubSeq(value, 1, f - 1)
  OBVIOUS
<1>4. w \in Seq(FieldChars) /\ Len(w) = f - 1 /\ \A i \in 1 .. f - 1 : w[i] = value[i]
  <2>1. 1 \in Int /\ f - 1 \in Int /\ \A i \in 1 .. f - 1 : value[i] \in FieldChars
    BY <1>2
  <2>2. /\ w \in Seq(FieldChars) /\ Len(w) = (IF 1 <= f - 1 THEN (f - 1) - 1 + 1 ELSE 0)
        /\ \A i \in 1 .. (f - 1) - 1 + 1 : w[i] = value[1 + i - 1]
    BY <1>3, <2>1, SubSeqProperties
  <2>3. f \in Nat /\ f >= 1
    BY <1>2
  <2>4. Len(w) = f - 1
    BY <2>2, <2>3
  <2>5. \A i \in 1 .. f - 1 : i \in 1 .. (f - 1) - 1 + 1 /\ 1 + i - 1 = i
    BY <2>3
  <2> QED
    BY <2>2, <2>4, <2>5
<1>5. Hop(value) = Trim(w)
  BY <1>1, <1>3 DEF Hop
<1>6. CASE ~\E i \in 1 .. f - 1 : w[i] # Space
  <2>1. Trim(w) = << >>
    BY <1>4, <1>6, TrimIs
  <2>2. ASSUME NEW i \in 1 .. Len(value), value[i] # Space, \A x \in 1 .. i : value[x] # "," PROVE FALSE
    <3>1. f <= i => f \in 1 .. i /\ f <= Len(value)
      BY <1>2
    <3>2. ~(f <= i)
      BY <1>1, <2>2, <3>1
    <3>3. i \in 1 .. f - 1
      BY <1>2, <3>2
    <3> QED
      BY <1>4, <1>6, <2>2, <3>3
  <2> QED
    BY <1>2, <1>5, <2>1, <2>2 DEF HasHop
<1>7. CASE \E i \in 1 .. f - 1 : w[i] # Space
  <2>1. PICK i \in 1 .. f - 1 : \E j \in i .. f - 1 :
          /\ Trim(w) = SubSeq(w, i, j)
          /\ w[i] # Space /\ w[j] # Space
          /\ \A x \in 1 .. i - 1 : w[x] = Space
          /\ \A x \in j + 1 .. f - 1 : w[x] = Space
    BY <1>4, <1>7, TrimIs
  <2>2. PICK j \in i .. f - 1 :
          /\ Trim(w) = SubSeq(w, i, j)
          /\ w[i] # Space /\ w[j] # Space
          /\ \A x \in 1 .. i - 1 : w[x] = Space
          /\ \A x \in j + 1 .. f - 1 : w[x] = Space
    BY <2>1
  <2>3. /\ i \in 1 .. Len(value) /\ j \in i .. Len(value) /\ i \in 1 .. f - 1 /\ j \in 1 .. f - 1
        /\ f \in j + 1 .. Len(value) + 1
    BY <1>2
  <2>4. SubSeq(value, i, j) = Trim(w)
    <3>1. \A x \in i .. j : value[x] \in FieldChars /\ w[x] \in FieldChars /\ w[x] = value[x]
      BY <1>2, <1>4, <2>3
    <3>2. i \in Int /\ j \in Int /\ i <= j
      BY <2>3
    <3>3. PICK u : u = SubSeq(value, i, j)
      OBVIOUS
    <3>4. PICK v : v = SubSeq(w, i, j)
      OBVIOUS
    <3>5. /\ u \in Seq(FieldChars) /\ Len(u) = j - i + 1
          /\ \A x \in 1 .. j - i + 1 : u[x] = value[i + x - 1]
      BY <3>1, <3>2, <3>3, SubSeqProperties
    <3>6. /\ v \in Seq(FieldChars) /\ Len(v) = j - i + 1
          /\ \A x \in 1 .. j - i + 1 : v[x] = w[i + x - 1]
      BY <3>1, <3>2, <3>4, SubSeqProperties
    <3>7. \A x \in 1 .. j - i + 1 : i + x - 1 \in i .. j
      BY <3>2
    <3>8. u = v
      BY <3>1, <3>5, <3>6, <3>7, SeqEqual
    <3> QED
      BY <2>2, <3>3, <3>4, <3>8
  <2>5. /\ value[i] # Space /\ value[j] # Space
        /\ \A x \in 1 .. i - 1 : value[x] = Space
        /\ \A x \in i .. j : value[x] # ","
        /\ \A x \in j + 1 .. f - 1 : value[x] = Space
    <3>1. (\A x \in 1 .. i - 1 : x \in 1 .. f - 1) /\ (\A x \in i .. j : x \in 1 .. f - 1)
          /\ (\A x \in j + 1 .. f - 1 : x \in 1 .. f - 1)
      BY <2>3
    <3> QED
      BY <1>1, <1>4, <2>2, <2>3, <3>1
  <2>6. IsHop(Trim(w), value)
    BY <1>1, <1>2, <2>3, <2>4, <2>5 DEF IsHop
  <2>7. Trim(w) # << >>
    <3>1. \A x \in i .. j : w[x] \in FieldChars
      BY <1>2, <1>4, <2>3
    <3>2. Len(SubSeq(w, i, j)) = j - i + 1
      BY <2>3, <3>1, SubSeqProperties
    <3>3. j - i + 1 # 0 /\ Len(<< >>) = 0
      BY <2>3
    <3>4. Trim(w) = SubSeq(w, i, j)
      BY <2>2
    <3> QED
      BY <3>2, <3>3, <3>4
  <2> QED
    BY <1>5, <2>6, <2>7
<1> QED
  BY <1>6, <1>7

\* What the handlers see of the headers is what was sent.
LEMMA HeadersFound ==
    ASSUME lines \in Seq(HeaderLines)
    PROVE  HeadersAsSent
<1> DEFINE names == {lines[i].name : i \in DOMAIN lines}
<1>1. DOMAIN HeaderMap = names /\ \A n \in names : HeaderMap[n] = LastLine(n) /\ LastLine(n) \in FieldValues
  BY HeaderMapHas DEF NamesSent
<1> HIDE DEF names
<1>2. ReadHeader = {LastLine(n) : n \in names}
  BY <1>1 DEF ReadHeader
<1>3. ASSUME NEW key \in Spellings, key \in names PROVE GetHeader(key) = {LastLine(key)}
  BY <1>1, <1>3 DEF GetHeader
<1>4. ASSUME NEW key \in Spellings \ names PROVE GetHeader(key) = {LastLine(n) : n \in names}
  BY <1>1, <1>2, <1>4 DEF GetHeader
<1>5. ASSUME NEW remote \in {<< >>, <<"peer">>}, NEW ip \in ClientIp(remote)
      PROVE  /\ ip # << >>
             /\ \/ /\ ip = PeerAddress(remote)
                   /\ names = {} \/ \E n \in names : ~HasHop(LastLine(n))
                \/ \E n \in names : IsHop(ip, LastLine(n))
  <2>1. PeerAddress(remote) # << >>
    BY DEF PeerAddress
  <2>2. CASE ReadHeader = {}
    <3>1. ip = PeerAddress(remote)
      BY <1>5, <2>2 DEF ClientIp
    <3>2. names = {}
      BY <1>2, <2>2
    <3> QED
      BY <2>1, <3>1, <3>2
  <2>3. CASE ReadHeader # {}
    <3>1. PICK value \in ReadHeader : ip = IF Hop(value) = << >> THEN PeerAddress(remote) ELSE Hop(value)
      BY <1>5, <2>3 DEF ClientIp, Hop
    <3>2. PICK n \in names : value = LastLine(n) /\ value \in FieldValues
      BY <1>1, <1>2, <3>1
    <3>3. (Hop(value) = << >> => ~HasHop(value)) /\ (Hop(value) # << >> => IsHop(Hop(value), value))
      BY <3>2, HopIs
    <3> QED
      BY <2>1, <3>1, <3>2, <3>3
  <2> QED
    BY <2>2, <2>3
<1> QED
  BY <1>3, <1>4, <1>5 DEF HeadersAsSent, names

\* Texts are made of their characters.
TextTypes ==
    /\ target \in Seq(TargetChars)
    /\ lines \in Seq(HeaderLines)

LEMMA TextTypesHold == TextSpec => []TextTypes
<1>1. InitText => TextTypes
  BY DEF InitText, TextTypes
<1>2. TextTypes /\ [GrowTarget \/ GrowLines]_textVars => TextTypes'
  <2> SUFFICES ASSUME TextTypes, [GrowTarget \/ GrowLines]_textVars PROVE TextTypes'
    OBVIOUS
  <2>1. CASE GrowTarget
    <3>1. PICK ch \in TargetChars : target' = Append(target, ch) /\ lines' = lines
      BY <2>1 DEF GrowTarget
    <3> QED
      BY <3>1, AppendProperties DEF TextTypes
  <2>2. CASE GrowLines
    <3>1. CASE \E name \in Spellings : lines' = Append(lines, [name |-> name, value |-> << >>])
      <4>1. PICK name \in Spellings : lines' = Append(lines, [name |-> name, value |-> << >>])
        BY <3>1
      <4>2. [name |-> name, value |-> << >>] \in HeaderLines
        BY DEF HeaderLines, FieldValues
      <4> QED
        BY <2>2, <4>1, <4>2, AppendProperties DEF TextTypes, GrowLines
    <3>2. CASE /\ lines # << >>
               /\ \E ch \in FieldChars : lines' = [lines EXCEPT ![Len(lines)].value = Append(@, ch)]
      <4>1. PICK ch \in FieldChars : lines' = [lines EXCEPT ![Len(lines)].value = Append(@, ch)]
        BY <3>2
      <4>2. lines \in Seq(HeaderLines) /\ Len(lines) \in Nat /\ DOMAIN lines = 1 .. Len(lines) /\ Len(lines) # 0
        BY <3>2, LenProperties, EmptySeq DEF TextTypes
      <4>3. PICK line \in HeaderLines : line = lines[Len(lines)]
        BY <4>2, ElementOfSeq
      <4>4. [line EXCEPT !.value = Append(@, ch)] \in HeaderLines
        <5>1. Append(line.value, ch) \in FieldValues
          BY AppendProperties DEF HeaderLines, FieldValues
        <5> QED
          BY <5>1 DEF HeaderLines
      <4>5. lines' = [lines EXCEPT ![Len(lines)] = [line EXCEPT !.value = Append(@, ch)]]
        BY <4>1, <4>3
      <4>6. lines' \in Seq(HeaderLines)
        BY <4>2, <4>4, <4>5, ExceptSeq
      <4> QED
        BY <2>2, <4>6 DEF TextTypes, GrowLines
    <3> QED
      BY <2>2, <3>1, <3>2 DEF GrowLines
  <2>3. CASE UNCHANGED textVars
    BY <2>3 DEF TextTypes, textVars
  <2> QED
    BY <2>1, <2>2, <2>3
<1> QED
  BY <1>1, <1>2, PTL DEF TextSpec

\* Whatever header lines arrive, in whatever spellings, the map that
\* beast_executor::handle_request fills from them, read_header and get_header of
\* the request find what was sent last in some spelling, and get_client_ip of the
\* logger returns the first hop without blanks, or the peer where there is none.
THEOREM HeadersAreFound == TextSpec => []HeadersAsSent
<1>1. TextTypes => HeadersAsSent
  BY HeadersFound DEF TextTypes
<1> QED
  BY <1>1, TextTypesHold, PTL

-----------------------------------------------------------------------------
(* The target. *)

\* A part of a part.
LEMMA PartOfPart ==
    ASSUME NEW T, NEW s \in Seq(T), NEW b \in Nat, b >= 1, NEW i \in Nat, i <= Len(s), b <= i + 1,
           NEW x \in Nat, x >= 1, NEW y \in Nat, y <= i - b + 1
    PROVE  /\ SubSeq(s, b, i) \in Seq(T) /\ Len(SubSeq(s, b, i)) = i - b + 1
           /\ \A k \in 1 .. i - b + 1 : SubSeq(s, b, i)[k] = s[b + k - 1]
           /\ SubSeq(SubSeq(s, b, i), x, y) = SubSeq(s, b + x - 1, b + y - 1)
<1>1. Len(s) \in Nat /\ \A k \in 1 .. Len(s) : s[k] \in T
  BY LenProperties, ElementOfSeq
<1>2. PICK v : v = SubSeq(s, b, i)
  OBVIOUS
<1>3. v \in Seq(T) /\ Len(v) = i - b + 1 /\ \A k \in 1 .. i - b + 1 : v[k] = s[b + k - 1]
  <2>1. b \in Int /\ i \in Int /\ \A k \in b .. i : s[k] \in T
    BY <1>1
  <2>2. v \in Seq(T) /\ Len(v) = (IF b <= i THEN i - b + 1 ELSE 0)
        /\ \A k \in 1 .. i - b + 1 : v[k] = s[b + k - 1]
    BY <1>2, <2>1, SubSeqProperties
  <2> QED
    BY <2>2
<1>4. \A k \in 1 .. i - b + 1 : v[k] \in T
  BY <1>1, <1>3
<1>5. PICK w : w = SubSeq(v, x, y)
  OBVIOUS
<1>6. PICK r : r = SubSeq(s, b + x - 1, b + y - 1)
  OBVIOUS
<1>7. /\ w \in Seq(T) /\ Len(w) = (IF x <= y THEN y - x + 1 ELSE 0)
      /\ \A k \in 1 .. y - x + 1 : w[k] = v[x + k - 1]
  <2>1. x \in Int /\ y \in Int /\ \A k \in x .. y : v[k] \in T
    BY <1>4
  <2> QED
    BY <1>5, <2>1, SubSeqProperties
<1>8. /\ r \in Seq(T) /\ Len(r) = (IF x <= y THEN y - x + 1 ELSE 0)
      /\ \A k \in 1 .. y - x + 1 : r[k] = s[b + x - 1 + k - 1]
  <2>1. b + x - 1 \in Int /\ b + y - 1 \in Int /\ \A k \in b + x - 1 .. b + y - 1 : s[k] \in T
    BY <1>1
  <2>2. /\ r \in Seq(T)
        /\ Len(r) = (IF b + x - 1 <= b + y - 1 THEN (b + y - 1) - (b + x - 1) + 1 ELSE 0)
        /\ \A k \in 1 .. (b + y - 1) - (b + x - 1) + 1 : r[k] = s[b + x - 1 + k - 1]
    BY <1>6, <2>1, SubSeqProperties
  <2>3. (b + y - 1) - (b + x - 1) + 1 = y - x + 1 /\ (b + x - 1 <= b + y - 1 <=> x <= y)
    OBVIOUS
  <2> QED
    BY <2>2, <2>3
<1>9. \A k \in 1 .. y - x + 1 : x + k - 1 \in 1 .. i - b + 1 /\ b + (x + k - 1) - 1 = b + x - 1 + k - 1
  OBVIOUS
<1>10. \A k \in 1 .. y - x + 1 : w[k] = r[k]
  BY <1>3, <1>7, <1>8, <1>9
<1>11. w = r
  <2>1. \A k \in 1 .. Len(w) : w[k] = r[k]
    BY <1>7, <1>10
  <2>2. Len(w) = Len(r)
    BY <1>7, <1>8
  <2> QED
    BY <1>7, <1>8, <2>1, <2>2, SeqEqual
<1> QED
  BY <1>2, <1>3, <1>5, <1>6, <1>11

\* A stretch from b to i between two ampersands, whose first "=" or whose end is e,
\* is the only one that ends there, if it has a name, and none before begins later.
LEMMA NamedEnding ==
    ASSUME NEW T, NEW s \in Seq(T), NEW i \in Nat, i <= Len(s), NEW b \in 1 .. i + 1, NEW e \in b .. i + 1,
           b = 1 \/ s[b - 1] = "&", \A x \in b .. i : s[x] # "&", i = Len(s) \/ s[i + 1] = "&",
           \A x \in b .. e - 1 : s[x] # "=", e <= i => s[e] = "="
    PROVE  /\ \A p \in Named(s) : p[3] = i => p = <<b, e, i>> /\ b < e
           /\ b < e => <<b, e, i>> \in Named(s)
           /\ \A p \in Named(s) : p[3] < i => p[1] <= b
<1>0. b \in Nat /\ e \in Nat /\ b >= 1 /\ b <= i + 1 /\ b <= e /\ e <= i + 1
  OBVIOUS
<1>1. PICK n \in Nat : n = Len(s) /\ DOMAIN s = 1 .. n /\ i <= n
  BY LenProperties
<1>2. ASSUME NEW p \in Named(s) PROVE
        /\ p[1] \in 1 .. n /\ p[2] \in 1 .. n + 1 /\ p[3] \in 1 .. n
        /\ p = <<p[1], p[2], p[3]>> /\ HasName(s, p[1], p[2], p[3])
  <2>1. p \in (1 .. n) \X (1 .. n + 1) \X (1 .. n)
    BY <1>1 DEF Named
  <2>2. HasName(s, p[1], p[2], p[3])
    BY DEF Named
  <2>3. p = <<p[1], p[2], p[3]>>
    BY <2>1
  <2> QED
    BY <2>1, <2>2, <2>3
<1>3. ASSUME NEW p \in Named(s), p[3] = i PROVE p = <<b, e, i>> /\ b < e
  <2>1. PICK c \in 1 .. n, d \in 1 .. n + 1 : p = <<c, d, i>> /\ HasName(s, c, d, i)
    BY <1>2, <1>3
  <2>2. /\ c < d /\ d <= i + 1 /\ (c = 1 \/ s[c - 1] = "&")
        /\ \A x \in c .. i : s[x] # "&" /\ (x < d => s[x] # "=")
        /\ d <= i => s[d] = "="
    BY <2>1 DEF HasName
  <2>3. c <= i /\ b \in Nat /\ e \in Nat /\ c \in Nat /\ d \in Nat
    <3>1. c \in Nat /\ d \in Nat
      <4>1. \A y \in 1 .. n : y \in Nat
        BY <1>1
      <4>2. \A y \in 1 .. n + 1 : y \in Nat
        BY <1>1
      <4> QED
        BY <2>1, <4>1, <4>2
    <3>2. c < d /\ d <= i + 1
      BY <2>2
    <3> QED
      BY <1>0, <3>1, <3>2
  <2>4. ~(c < b)
    <3>1. c < b => b - 1 \in c .. i /\ b # 1
      BY <2>3
    <3> QED
      BY <2>2, <3>1
  <2>5. ~(b < c)
    <3>1. b < c => c - 1 \in b .. i /\ c # 1
      BY <2>3
    <3> QED
      BY <2>2, <3>1
  <2>6. c = b
    BY <2>3, <2>4, <2>5
  <2>7. ~(d < e)
    <3>1. d < e => d \in b .. e - 1 /\ d <= i
      BY <2>2, <2>3, <2>6
    <3> QED
      BY <2>2, <3>1
  <2>8. ~(e < d)
    <3>1. e < d => e \in c .. i /\ e <= i
      BY <2>2, <2>3, <2>6
    <3> QED
      BY <2>2, <3>1
  <2>9. d = e
    BY <2>3, <2>7, <2>8
  <2> QED
    BY <2>1, <2>2, <2>6, <2>9
<1>4. ASSUME b < e PROVE <<b, e, i>> \in Named(s)
  <2>1. b \in 1 .. n /\ e \in 1 .. n + 1 /\ i \in 1 .. n
    <3>1. b <= n /\ 1 <= i
      BY <1>0, <1>1, <1>4
    <3>2. 1 <= e /\ e <= n + 1
      BY <1>0, <1>1
    <3> QED
      BY <1>0, <1>1, <3>1, <3>2
  <2>2. \A x \in b .. i : x < e => x \in b .. e - 1
    OBVIOUS
  <2>3. HasName(s, b, e, i)
    BY <1>4, <2>2 DEF HasName
  <2> QED
    BY <1>1, <2>1, <2>3 DEF Named
<1>5. ASSUME NEW p \in Named(s), p[3] < i PROVE p[1] <= b
  <2>1. PICK c \in 1 .. n, d \in 1 .. n + 1, j \in 1 .. n :
          c = p[1] /\ j < i /\ HasName(s, c, d, j)
    BY <1>2, <1>5
  <2>2. c < d /\ d <= j + 1 /\ (c = 1 \/ s[c - 1] = "&")
    BY <2>1 DEF HasName
  <2>3. b < c => c - 1 \in b .. i /\ c # 1
    BY <2>1, <2>2
  <2> QED
    BY <2>1, <2>2, <2>3
<1> QED
  BY <1>3, <1>4, <1>5

-----------------------------------------------------------------------------
(* The parts of a query that have ended before position i, their names, and *)
(* what the loop of parse_query has then read.                              *)
NameOf(s, p) == SubSeq(s, p[1], p[2] - 1)

Ended(s, i) == {p \in Named(s) : p[3] < i}

Latest(s, parts, p) == \A q \in parts : NameOf(s, q) = NameOf(s, p) => q[1] <= p[1]

GivenLast(s, parts, map, k) ==
    \E p \in parts : NameOf(s, p) = k /\ Latest(s, parts, p) /\ map[k] = SubSeq(s, p[2] + 1, p[3])

LastGiven(s, parts, map) ==
    /\ DOMAIN map = {NameOf(s, p) : p \in parts}
    /\ \A k \in DOMAIN map : GivenLast(s, parts, map, k)

\* One part after the others.
LEMMA PartGiven ==
    ASSUME NEW s, NEW parts, NEW map, LastGiven(s, parts, map), NEW r, \A q \in parts : q[1] <= r[1],
           r[1] \in Nat
    PROVE  LastGiven(s, parts \cup {r}, Put(map, NameOf(s, r), SubSeq(s, r[2] + 1, r[3])))
<1> DEFINE all == parts \cup {r}
<1> DEFINE new == Put(map, NameOf(s, r), SubSeq(s, r[2] + 1, r[3]))
<1>1. /\ DOMAIN new = DOMAIN map \cup {NameOf(s, r)}
      /\ new[NameOf(s, r)] = SubSeq(s, r[2] + 1, r[3])
      /\ \A k \in DOMAIN map : k # NameOf(s, r) => new[k] = map[k]
  BY DEF Put
<1>2. DOMAIN map = {NameOf(s, p) : p \in parts} /\ \A k \in DOMAIN map : GivenLast(s, parts, map, k)
  BY DEF LastGiven
<1> HIDE DEF new
<1>3. DOMAIN new = {NameOf(s, p) : p \in all}
  BY <1>1, <1>2
<1>4. GivenLast(s, all, new, NameOf(s, r))
  <2>1. Latest(s, all, r)
    BY DEF Latest
  <2> QED
    BY <1>1, <2>1 DEF GivenLast
<1>5. ASSUME NEW k \in DOMAIN map, k # NameOf(s, r) PROVE GivenLast(s, all, new, k)
  <2>1. PICK p \in parts : NameOf(s, p) = k /\ Latest(s, parts, p) /\ map[k] = SubSeq(s, p[2] + 1, p[3])
    BY <1>2 DEF GivenLast
  <2>2. Latest(s, all, p)
    BY <1>5, <2>1 DEF Latest
  <2> QED
    BY <1>1, <1>5, <2>1, <2>2 DEF GivenLast
<1> QED
  BY <1>1, <1>3, <1>4, <1>5 DEF LastGiven, new

\* The loop of parse_query over the text of a query and an ampersand, before i + 1.
Queried(s, text, loop, i) ==
    /\ loop.begin \in 1 .. i + 1
    /\ loop.begin = 1 \/ text[loop.begin - 1] = "&"
    /\ \A x \in loop.begin .. i : text[x] # "&"
    /\ LastGiven(s, Ended(s, i), loop.out)

\* No stretch ends before another character.
LEMMA EndedBy ==
    ASSUME NEW T, NEW s \in Seq(T), NEW i \in Nat, i < Len(s), s[i + 1] # "&"
    PROVE  Ended(s, i + 1) = Ended(s, i)
<1>1. PICK n \in Nat : n = Len(s) /\ DOMAIN s = 1 .. n
  BY LenProperties
<1>2. ASSUME NEW p \in Named(s), p[3] < i + 1 PROVE p[3] < i
  <2>1. p \in (1 .. n) \X (1 .. n + 1) \X (1 .. n) /\ HasName(s, p[1], p[2], p[3])
    BY <1>1 DEF Named
  <2>2. PICK j \in 1 .. n : j = p[3] /\ (j = n \/ s[j + 1] = "&")
    BY <1>1, <2>1 DEF HasName
  <2>3. j # i
    BY <1>1, <2>2
  <2>4. j < i + 1 /\ j \in Nat
    BY <1>1, <1>2, <2>2
  <2> QED
    BY <2>2, <2>3, <2>4
<1>3. ASSUME NEW p \in Named(s), p[3] < i PROVE p[3] < i + 1
  <2>1. p \in (1 .. n) \X (1 .. n + 1) \X (1 .. n)
    BY <1>1 DEF Named
  <2>2. p[3] \in Nat
    BY <1>1, <2>1
  <2> QED
    BY <1>3, <2>2
<1> QED
  BY <1>2, <1>3 DEF Ended

\* One character of the loop.
LEMMA QueriedOn ==
    ASSUME NEW T, NEW s \in Seq(T), NEW text, NEW i \in Nat, i <= Len(s),
           \A x \in 1 .. Len(s) : text[x] = s[x], text[Len(s) + 1] = "&",
           \A x \in Nat : \A y \in Nat : x >= 1 /\ y <= Len(s) => SubSeq(text, x, y) = SubSeq(s, x, y),
           NEW loop, Queried(s, text, loop, i)
    PROVE  Queried(s, text, EndPart(text, loop, i + 1), i + 1)
<1>1. PICK n \in Nat : n = Len(s) /\ DOMAIN s = 1 .. n /\ i <= n
  BY LenProperties
<1>2. PICK b \in 1 .. i + 1 : b = loop.begin
  BY DEF Queried
<1>3. (b = 1 \/ text[b - 1] = "&") /\ (\A x \in b .. i : text[x] # "&") /\ LastGiven(s, Ended(s, i), loop.out)
  BY <1>2 DEF Queried
<1>4. CASE text[i + 1] # "&"
  <2>1. EndPart(text, loop, i + 1) = loop
    BY <1>4 DEF EndPart
  <2>2. i # n /\ i + 1 \in 1 .. n
    BY <1>1, <1>4
  <2>3. s[i + 1] # "&"
    BY <1>1, <1>4, <2>2
  <2>4. Ended(s, i + 1) = Ended(s, i)
    BY <1>1, <2>2, <2>3, EndedBy
  <2>5. \A x \in b .. i + 1 : x \in b .. i \/ x = i + 1
    OBVIOUS
  <2>6. \A x \in b .. i + 1 : text[x] # "&"
    BY <1>3, <1>4, <2>5
  <2>7. b \in 1 .. (i + 1) + 1
    BY <1>2
  <2> QED
    BY <1>2, <1>3, <2>1, <2>4, <2>6, <2>7 DEF Queried
<1>5. CASE text[i + 1] = "&"
  <2>1. PICK part : part = SubSeq(s, b, i)
    OBVIOUS
  <2>2. part \in Seq(T) /\ Len(part) = i - b + 1 /\ \A k \in 1 .. i - b + 1 : part[k] = s[b + k - 1]
    BY <1>1, <2>1, PartOfPart
  <2>3. PICK eq \in 1 .. i - b + 2 :
          /\ eq = Find(part, "=")
          /\ \A k \in 1 .. eq - 1 : part[k] # "="
          /\ eq <= i - b + 1 => part[eq] = "="
    <3>1. Len(part) + 1 = i - b + 2
      BY <2>2
    <3>2. PICK m : m = Find(part, "=")
      OBVIOUS
    <3>3. /\ m \in 1 .. Len(part) + 1
          /\ \A k \in 1 .. m - 1 : part[k] # "="
          /\ m <= Len(part) => part[m] = "="
      BY <2>2, <3>2, FindIs
    <3>4. m \in 1 .. i - b + 2 /\ (m <= i - b + 1 => part[m] = "=")
      BY <2>2, <3>1, <3>3
    <3> QED
      BY <3>2, <3>3, <3>4
  <2>4. PICK e \in b .. i + 1 : e = b + eq - 1
    OBVIOUS
  <2>5. /\ \A x \in b .. e - 1 : s[x] # "="
        /\ e <= i => s[e] = "="
    <3>1. \A x \in b .. e - 1 : x - b + 1 \in 1 .. eq - 1 /\ x - b + 1 \in 1 .. i - b + 1 /\ b + (x - b + 1) - 1 = x
      BY <2>3, <2>4
    <3>2. ASSUME NEW x \in b .. e - 1 PROVE s[x] # "="
      <4>1. PICK k : k = x - b + 1 /\ k \in 1 .. eq - 1 /\ k \in 1 .. i - b + 1 /\ b + k - 1 = x
        BY <3>1
      <4>2. part[k] # "=" /\ part[k] = s[b + k - 1]
        BY <2>2, <2>3, <4>1
      <4> QED
        BY <4>1, <4>2
    <3>3. ASSUME e <= i PROVE s[e] = "="
      <4>1. eq <= i - b + 1 /\ eq \in 1 .. i - b + 1
        BY <2>3, <2>4, <3>3
      <4> QED
        BY <2>2, <2>3, <2>4, <4>1
    <3> QED
      BY <3>2, <3>3
  <2>6. /\ b = 1 \/ s[b - 1] = "&"
        /\ \A x \in b .. i : s[x] # "&"
        /\ i = n \/ s[i + 1] = "&"
    <3>1. (b # 1 => b - 1 \in 1 .. n) /\ (\A x \in b .. i : x \in 1 .. n) /\ (i # n => i + 1 \in 1 .. n)
      BY <1>1
    <3> QED
      BY <1>1, <1>3, <1>5, <3>1
  <2>7. /\ \A p \in Named(s) : p[3] = i => p = <<b, e, i>> /\ b < e
        /\ b < e => <<b, e, i>> \in Named(s)
        /\ \A p \in Named(s) : p[3] < i => p[1] <= b
    BY <1>1, <2>5, <2>6, NamedEnding
  <2>8. EndPart(text, loop, i + 1) = [begin |-> i + 2, out |-> Store(loop.out, part)]
    <3>1. (i + 1) - 1 = i /\ (i + 1) + 1 = i + 2 /\ b \in Nat /\ b >= 1
      OBVIOUS
    <3>2. SubSeq(text, b, i) = part
      BY <1>1, <2>1, <3>1
    <3> QED
      BY <1>2, <1>5, <3>1, <3>2 DEF EndPart
  <2>9. \A p \in Named(s) : p[3] < i + 1 <=> p[3] < i \/ p[3] = i
    <3>1. ASSUME NEW p \in Named(s) PROVE p[3] \in Nat
      <4>1. p \in (1 .. n) \X (1 .. n + 1) \X (1 .. n)
        BY <1>1 DEF Named
      <4>2. p[3] \in 1 .. n
        BY <4>1
      <4> QED
        BY <4>2
    <3> QED
      BY <3>1
  <2>10. SubSeq(part, 1, eq - 1) = SubSeq(s, b, e - 1) /\ Len(SubSeq(part, 1, eq - 1)) = eq - 1
    <3>1. eq - 1 \in Nat /\ eq - 1 <= i - b + 1 /\ b + 1 - 1 = b /\ b + (eq - 1) - 1 = e - 1
      BY <2>3, <2>4
    <3>2. SubSeq(part, 1, eq - 1) = SubSeq(s, b, e - 1)
      BY <1>1, <2>1, <3>1, PartOfPart
    <3>3. \A k \in 1 .. eq - 1 : part[k] \in T
      <4>1. \A k \in 1 .. eq - 1 : k \in 1 .. Len(part)
        BY <2>2, <3>1
      <4> QED
        BY <2>2, <4>1, ElementOfSeq
    <3>4. 1 \in Int /\ eq - 1 \in Int
      BY <3>1
    <3>5. Len(SubSeq(part, 1, eq - 1)) = IF 1 <= eq - 1 THEN (eq - 1) - 1 + 1 ELSE 0
      BY <3>3, <3>4, SubSeqProperties
    <3> QED
      BY <3>1, <3>2, <3>5
  <2>11. LastGiven(s, Ended(s, i + 1), Store(loop.out, part))
    <3>1. CASE eq = 1
      <4>1. SubSeq(part, 1, eq - 1) = << >>
        BY <3>1, SubSeqEmpty
      <4>2. Store(loop.out, part) = loop.out
        BY <2>3, <4>1 DEF Store
      <4>3. Ended(s, i + 1) = Ended(s, i)
        <5>1. e = b /\ ~(b < e)
          BY <2>4, <3>1
        <5> QED
          BY <2>7, <2>9, <5>1 DEF Ended
      <4> QED
        BY <1>3, <4>2, <4>3
    <3>2. CASE eq # 1
      <4>1. b < e /\ eq - 1 # 0
        <5>1. eq \in Nat /\ eq >= 1 /\ b \in Nat
          BY <2>3
        <5> QED
          BY <2>4, <3>2, <5>1
      <4>2. SubSeq(part, 1, eq - 1) # << >>
        <5>1. Len(<< >>) = 0
          OBVIOUS
        <5> QED
          BY <2>10, <4>1, <5>1
      <4>3. SubSeq(part, eq + 1, Len(part)) = SubSeq(s, e + 1, i)
        <5>1. /\ eq + 1 \in Nat /\ eq + 1 >= 1 /\ i - b + 1 \in Nat
              /\ b + (eq + 1) - 1 = e + 1 /\ b + (i - b + 1) - 1 = i
          BY <2>3, <2>4
        <5>2. SubSeq(part, eq + 1, i - b + 1) = SubSeq(s, b + (eq + 1) - 1, b + (i - b + 1) - 1)
          BY <1>1, <2>1, <5>1, PartOfPart
        <5> QED
          BY <2>2, <5>1, <5>2
      <4> DEFINE r == <<b, e, i>>
      <4>4. Store(loop.out, part) = Put(loop.out, NameOf(s, r), SubSeq(s, r[2] + 1, r[3]))
        BY <2>3, <2>10, <4>2, <4>3 DEF Store, NameOf
      <4>5. r[1] \in Nat /\ \A q \in Ended(s, i) : q[1] <= r[1]
        BY <2>7 DEF Ended
      <4>6. Ended(s, i + 1) = Ended(s, i) \cup {r}
        BY <2>7, <2>9, <4>1 DEF Ended
      <4> HIDE DEF r
      <4>7. PICK map, parts : map = loop.out /\ parts = Ended(s, i)
        OBVIOUS
      <4>8. LastGiven(s, parts, map) /\ r[1] \in Nat /\ \A q \in parts : q[1] <= r[1]
        BY <1>3, <4>5, <4>7
      <4>9. LastGiven(s, parts \cup {r}, Put(map, NameOf(s, r), SubSeq(s, r[2] + 1, r[3])))
        BY <4>8, PartGiven
      <4> QED
        BY <4>4, <4>6, <4>7, <4>9
    <3> QED
      BY <3>1, <3>2
  <2>12. i + 2 \in 1 .. (i + 1) + 1 /\ (i + 2) - 1 = i + 1 /\ \A x \in i + 2 .. i + 1 : FALSE
    OBVIOUS
  <2> QED
    BY <1>5, <2>8, <2>11, <2>12 DEF Queried
<1> QED
  BY <1>4, <1>5

\* What parse_query reads.
LEMMA QueryRead ==
    ASSUME NEW T, NEW s \in Seq(T)
    PROVE  LastGiven(s, Named(s), ParseQuery(s))
<1> DEFINE text == Append(s, "&")
<1> DEFINE base == [begin |-> 1, out |-> NoEntries]
<1>1. PICK n \in Nat : n = Len(s) /\ DOMAIN s = 1 .. n
  BY LenProperties
<1>2. text \in Seq(T \cup {"&"}) /\ Len(text) = n + 1 /\ text[n + 1] = "&" /\ \A x \in 1 .. n : text[x] = s[x]
  <2>1. PICK U : U = T \cup {"&"}
    OBVIOUS
  <2>2. \A x \in 1 .. n : s[x] \in U
    BY <1>1, <2>1, ElementOfSeq
  <2>3. s \in Seq(U)
    BY <1>1, <2>2, <2>1
  <2>4. "&" \in U
    BY <2>1
  <2> QED
    BY <1>1, <2>1, <2>3, <2>4, AppendProperties
<1>3. DOMAIN text = 1 .. n + 1
  BY <1>2, LenProperties
<1>4. ASSUME NEW x \in Nat, NEW y \in Nat, x >= 1, y <= Len(s) PROVE SubSeq(text, x, y) = SubSeq(s, x, y)
  <2> HIDE DEF text
  <2>1. \A z \in x .. y : z \in 1 .. n /\ s[z] \in T /\ text[z] = s[z]
    BY <1>1, <1>2, <1>4, ElementOfSeq
  <2>2. PICK u : u = SubSeq(s, x, y)
    OBVIOUS
  <2>3. PICK v : v = SubSeq(text, x, y)
    OBVIOUS
  <2>4. x \in Int /\ y \in Int
    OBVIOUS
  <2>5. /\ u \in Seq(T) /\ Len(u) = (IF x <= y THEN y - x + 1 ELSE 0)
        /\ \A z \in 1 .. y - x + 1 : u[z] = s[x + z - 1]
    BY <2>1, <2>2, <2>4, SubSeqProperties
  <2>6. /\ v \in Seq(T) /\ Len(v) = (IF x <= y THEN y - x + 1 ELSE 0)
        /\ \A z \in 1 .. y - x + 1 : v[z] = text[x + z - 1]
    BY <2>1, <2>3, <2>4, SubSeqProperties
  <2>7. \A z \in 1 .. y - x + 1 : x + z - 1 \in x .. y
    OBVIOUS
  <2>8. \A z \in 1 .. Len(u) : u[z] = v[z]
    BY <2>1, <2>5, <2>6, <2>7
  <2>9. u = v
    BY <2>5, <2>6, <2>8, SeqEqual
  <2> QED
    BY <2>2, <2>3, <2>9
<1> HIDE DEF text
<1> DEFINE places == [i \in DOMAIN text |-> i]
<1> DEFINE Solves(f) ==
             f = [x \in SUBSET (DOMAIN places) |->
                     IF x = {} THEN base ELSE EndPart(text, f[x \ {Max(x)}], places[Max(x)])]
<1>5. \A d, y : FoldStep("query", text, d, y) = EndPart(text, d, y)
  BY DEF FoldStep
<1>6. \A f : Folds(f, "query", text, base, places, n + 1) <=> Solves(f)
  <2>1. DOMAIN places = 1 .. n + 1
    BY <1>3
  <2> HIDE DEF base, places
  <2> QED
    BY <1>5, <2>1 DEF Folds
<1>7. \E f : Solves(f)
  <2>1. n + 1 \in Nat
    OBVIOUS
  <2> HIDE DEF Solves, base, places
  <2> QED
    BY <1>6, <2>1, FoldsExist
<1> DEFINE iter == CHOOSE f : Solves(f)
<1>8. ParseQuery(s) = iter[1 .. n + 1].out
  <2>1. ParseQuery(s) = iter[DOMAIN places].out
    BY DEF ParseQuery, FoldLeftDomain, FoldLeft, MapThenFoldSet, text
  <2>2. DOMAIN places = 1 .. n + 1
    BY <1>3
  <2> QED
    BY <2>1, <2>2
<1>9. Solves(iter)
  <2> HIDE DEF Solves
  <2> QED
    BY <1>7
<1> HIDE DEF Solves, iter
<1>10. Folds(iter, "query", text, base, places, n + 1)
  BY <1>6, <1>9
<1>11. PICK a : Along(a, "query", text, base, places, n + 1) /\ a[n + 1] = iter[1 .. n + 1]
  <2>1. n + 1 \in Nat
    OBVIOUS
  <2> HIDE DEF base, places
  <2> QED
    BY <1>10, <2>1, FoldsStepwise
<1> DEFINE I == {i \in Nat : i <= n + 1 => Queried(s, text, a[i], i)}
<1>12. 0 \in I
  <2>1. a[0] = base
    BY <1>11 DEF Along
  <2>2. base.begin = 1 /\ base.out = << >> /\ DOMAIN << >> = {}
    BY DEF NoEntries
  <2>3. Ended(s, 0) = {}
    <3>1. ASSUME NEW p \in Named(s) PROVE ~(p[3] < 0)
      <4>1. p \in (1 .. n) \X (1 .. n + 1) \X (1 .. n)
        BY <1>1 DEF Named
      <4>2. p[3] \in 1 .. n
        BY <4>1
      <4> QED
        BY <4>2
    <3> QED
      BY <3>1 DEF Ended
  <2>4. LastGiven(s, {}, << >>)
    BY <2>2 DEF LastGiven
  <2> HIDE DEF base
  <2>5. PICK loop : loop = a[0]
    OBVIOUS
  <2>6. loop.begin = 1 /\ LastGiven(s, Ended(s, 0), loop.out)
    BY <2>1, <2>2, <2>3, <2>4, <2>5
  <2>7. loop.begin \in 1 .. 0 + 1 /\ \A x \in loop.begin .. 0 : FALSE
    BY <2>6
  <2>8. Queried(s, text, loop, 0)
    BY <2>6, <2>7 DEF Queried
  <2> QED
    BY <2>5, <2>8
<1>13. ASSUME NEW i \in Nat, i \in I PROVE i + 1 \in I
  <2> SUFFICES ASSUME i + 1 <= n + 1 PROVE Queried(s, text, a[i + 1], i + 1)
    OBVIOUS
  <2>1. i + 1 \in 1 .. n + 1 /\ (i + 1) - 1 = i /\ i <= n /\ i <= n + 1
    BY <1>1
  <2>2. a[i + 1] = EndPart(text, a[i], i + 1)
    <3>1. a[i + 1] = FoldStep("query", text, a[(i + 1) - 1], places[i + 1])
      BY <1>11, <2>1 DEF Along
    <3>2. places[i + 1] = i + 1
      BY <1>3, <2>1
    <3> QED
      BY <1>5, <2>1, <3>1, <3>2
  <2>3. PICK loop : loop = a[i]
    OBVIOUS
  <2>4. Queried(s, text, loop, i)
    BY <1>13, <2>1, <2>3
  <2>5. Queried(s, text, EndPart(text, loop, i + 1), i + 1)
    BY <1>1, <1>2, <1>4, <2>1, <2>4, QueriedOn
  <2> QED
    BY <2>2, <2>3, <2>5
<1>14. Nat \subseteq I
  <2> HIDE DEF I
  <2> QED
    BY <1>12, <1>13, Induction
<1>15. Queried(s, text, a[n + 1], n + 1)
  BY <1>14
<1>16. Ended(s, n + 1) = Named(s)
  <2>1. ASSUME NEW p \in Named(s) PROVE p[3] < n + 1
    <3>1. p \in (1 .. n) \X (1 .. n + 1) \X (1 .. n)
      BY <1>1 DEF Named
    <3>2. p[3] \in 1 .. n
      BY <3>1
    <3> QED
      BY <3>2
  <2> QED
    BY <2>1 DEF Ended
<1> QED
  BY <1>8, <1>11, <1>15, <1>16 DEF Queried

\* What is before the first question mark, and what is behind it.
LEMMA TargetRead ==
    ASSUME target \in Seq(TargetChars)
    PROVE  TargetAsWritten
<1> DEFINE parsed == ParseTarget(target)
<1> DEFINE taken == IF target # << >> /\ Head(target) # "?" THEN parsed.path ELSE << >>
<1>1. PICK n \in Nat : n = Len(target) /\ DOMAIN target = 1 .. n /\ \A i \in 1 .. n : target[i] \in TargetChars
  BY LenProperties, ElementOfSeq
<1>2. PICK q \in 1 .. n + 1 :
        /\ q = Find(target, "?") /\ (\A i \in 1 .. q - 1 : target[i] # "?")
        /\ q <= n => target[q] = "?"
  BY <1>1, FindIs
<1>3. PICK before : before = SubSeq(target, 1, q - 1)
  OBVIOUS
<1>4. /\ before \in Seq(TargetChars) /\ Len(before) = q - 1 /\ DOMAIN before = 1 .. q - 1
      /\ \A i \in 1 .. q - 1 : before[i] = target[i]
  <2>1. 1 \in Int /\ q - 1 \in Int /\ \A i \in 1 .. q - 1 : target[i] \in TargetChars
    BY <1>1, <1>2
  <2>2. /\ before \in Seq(TargetChars) /\ Len(before) = (IF 1 <= q - 1 THEN (q - 1) - 1 + 1 ELSE 0)
        /\ \A i \in 1 .. (q - 1) - 1 + 1 : before[i] = target[1 + i - 1]
    BY <1>3, <2>1, SubSeqProperties
  <2>3. q \in Nat /\ q >= 1
    BY <1>2
  <2>4. Len(before) = q - 1
    BY <2>2, <2>3
  <2>5. \A i \in 1 .. q - 1 : i \in 1 .. (q - 1) - 1 + 1 /\ 1 + i - 1 = i
    BY <2>3
  <2> QED
    BY <2>2, <2>4, <2>5, LenProperties
<1>5. PICK text : text = SubSeq(target, q + 1, n)
  OBVIOUS
<1>6. text \in Seq(TargetChars)
  <2>1. q + 1 \in Int /\ n \in Int /\ \A i \in q + 1 .. n : target[i] \in TargetChars
    BY <1>1, <1>2
  <2> QED
    BY <1>5, <2>1, SubSeqProperties
<1>7. parsed.path = (IF q = 1 THEN <<"/">> ELSE before) /\ parsed.query = ParseQuery(text)
  BY <1>1, <1>2, <1>3, <1>5 DEF ParseTarget
<1>8. taken = before
  <2>1. CASE q = 1
    <3>1. before = << >>
      BY <1>3, <2>1, SubSeqEmpty
    <3>2. target # << >> => n # 0 /\ Head(target) = target[1]
      BY <1>1, EmptySeq
    <3>3. target # << >> => Head(target) = "?"
      BY <1>1, <1>2, <2>1, <3>2
    <3> QED
      BY <3>1, <3>3
  <2>2. CASE q # 1
    <3>1. q - 1 >= 1 /\ 1 \in 1 .. q - 1 /\ n # 0
      BY <1>1, <1>2, <2>2
    <3>2. target[1] # "?" /\ target # << >>
      BY <1>1, <1>2, <3>1
    <3>3. Head(target) = target[1]
      BY <1>1, <3>2
    <3> QED
      BY <1>7, <2>2, <3>2, <3>3
  <2> QED
    BY <2>1, <2>2
<1>9. parsed.path # << >> /\ "?" \notin ToSet(parsed.path)
  <2>1. CASE q = 1
    <3>1. parsed.path = <<"/">>
      BY <1>7, <2>1
    <3>2. <<"/">> # << >> /\ "?" \notin ToSet(<<"/">>)
      BY DEF ToSet
    <3> QED
      BY <3>1, <3>2
  <2>2. CASE q # 1
    <3>1. parsed.path = before /\ Len(before) # 0
      BY <1>2, <1>4, <1>7, <2>2
    <3>2. before # << >>
      <4>1. Len(<< >>) = 0
        OBVIOUS
      <4> QED
        BY <3>1, <4>1
    <3>3. "?" \notin ToSet(before)
      BY <1>2, <1>4 DEF ToSet
    <3> QED
      BY <3>1, <3>2, <3>3
  <2> QED
    BY <2>1, <2>2
<1> DEFINE rest == SubSeq(target, Len(taken) + 2, Len(target))
<1> HIDE DEF parsed, taken, rest
<1>10. IsPrefix(before, target)
  <2>1. Len(before) <= Len(target)
    BY <1>1, <1>2, <1>4
  <2>2. SubSeq(before, 1, q - 1) = before
    <3>1. 1 \in Int /\ q - 1 \in Int /\ \A i \in 1 .. q - 1 : before[i] \in TargetChars
      BY <1>2, <1>4, ElementOfSeq
    <3>2. PICK u : u = SubSeq(before, 1, q - 1)
      OBVIOUS
    <3>3. /\ u \in Seq(TargetChars) /\ Len(u) = (IF 1 <= q - 1 THEN (q - 1) - 1 + 1 ELSE 0)
          /\ \A i \in 1 .. (q - 1) - 1 + 1 : u[i] = before[1 + i - 1]
      BY <3>1, <3>2, SubSeqProperties
    <3>4. q \in Nat /\ q >= 1
      BY <1>2
    <3>5. Len(u) = q - 1
      BY <3>3, <3>4
    <3>6. \A i \in 1 .. q - 1 : i \in 1 .. (q - 1) - 1 + 1 /\ 1 + i - 1 = i
      BY <3>4
    <3>7. u = before
      BY <1>4, <3>3, <3>5, <3>6, SeqEqual
    <3> QED
      BY <3>2, <3>7
  <2> QED
    BY <1>3, <1>4, <2>1, <2>2 DEF IsPrefix
<1>11. Len(before) < Len(target) => target[Len(before) + 1] = "?"
  <2>1. Len(before) < Len(target) => q <= n /\ Len(before) + 1 = q
    BY <1>1, <1>2, <1>4
  <2> QED
    BY <1>2, <2>1
<1>12. rest = text
  <2>1. Len(before) + 2 = q + 1
    BY <1>2, <1>4
  <2> QED
    BY <1>1, <1>5, <1>8, <2>1 DEF rest
<1>13. LastGiven(rest, Named(rest), parsed.query)
  BY <1>6, <1>7, <1>12, QueryRead
<1>14. DOMAIN parsed.query = {SubSeq(rest, p[1], p[2] - 1) : p \in Named(rest)}
  BY <1>13 DEF LastGiven, NameOf
<1>15. ASSUME NEW k \in DOMAIN parsed.query
       PROVE  \E p \in {x \in Named(rest) : SubSeq(rest, x[1], x[2] - 1) = k} :
                 /\ \A r \in {x \in Named(rest) : SubSeq(rest, x[1], x[2] - 1) = k} : r[1] <= p[1]
                 /\ parsed.query[k] = SubSeq(rest, p[2] + 1, p[3])
  <2>1. GivenLast(rest, Named(rest), parsed.query, k)
    BY <1>13 DEF LastGiven
  <2>2. PICK p \in Named(rest) : /\ NameOf(rest, p) = k /\ Latest(rest, Named(rest), p)
                                 /\ parsed.query[k] = SubSeq(rest, p[2] + 1, p[3])
    BY <2>1 DEF GivenLast
  <2> QED
    BY <2>2 DEF Latest, NameOf
<1>16. IsPrefix(taken, target) /\ (Len(taken) < Len(target) => target[Len(taken) + 1] = "?")
  BY <1>8, <1>10, <1>11
<1> QED
  BY <1>9, <1>14, <1>15, <1>16 DEF TargetAsWritten, parsed, taken, rest

\* However a request target is written, the path that parse_target takes from it is
\* not empty and has no question mark, path and query are all of it, and parse_query
\* finds under each name, and under no other, the value that was given last.
THEOREM TargetsAreRead == TextSpec => []TargetAsWritten
<1>1. TextTypes => TargetAsWritten
  BY TargetRead DEF TextTypes
<1> QED
  BY <1>1, TextTypesHold, PTL
=============================================================================
