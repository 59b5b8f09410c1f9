-------------------------- MODULE MCRouterDispatch ---------------------------
(* Instances of RouterDispatch for TLC. *)
EXTENDS RouterDispatch

CONSTANTS root, api, v1

Order == <<"GET", "POST">>

UpperCase(m) == IF m = "get" THEN "GET" ELSE m

\* The name of a parameter: the segment itself stands for it.
NameOfSegment(p) == p

Route(p, ms) == [path |-> p, methods |-> ms]

Table(pipeline, static, dynamic, hasFallback) ==
    [pipeline |-> pipeline, static |-> static, dynamic |-> dynamic, fallback |-> hasFallback]

\* An application whose child api at /a has a child v1 at /a/a, with middlewares
\* before the mounts; the routes of v1 compete with those of the others.
Nested ==
    {[r \in Routers |->
        CASE r = root -> Table(<<Middleware, Mount(<<"a">>, api)>>,
                               {Route(<<"a", "a", "b">>, {"POST"})}, << >>, rootFalls)
          [] r = api  -> Table(IF guarded THEN <<Middleware, Mount(<<"a">>, v1)>>
                                          ELSE <<Mount(<<"a">>, v1)>>,
                               {}, <<Route(<<"a", "{id}">>, {"GET"})>>, apiFalls)
          [] r = v1   -> Table(<< >>, static, dynamic, v1Falls)] :
        rootFalls \in BOOLEAN, guarded \in BOOLEAN, apiFalls \in BOOLEAN, v1Falls \in BOOLEAN,
        static \in {{}, {Route(<< >>, {"GET"})}, {Route(<<"b">>, {"GET"})}},
        dynamic \in {<< >>, <<Route(<<"{id}">>, {"POST"})>>}}

NestedPaths == {<< >>, <<"a", "a">>, <<"a", "a", "">>, <<"a", "b">>, <<"a", "a", "b">>,
                <<"a", "a", "a", "b">>}

\* An application without mounts, whose static and dynamic routes overlap.
Patterns == {<<"a", "{id}">>, <<"{id}", "b">>, <<"{id}", "{n}">>, <<"{n}", "b">>, <<"{id}", "{id}">>}

Overlapping ==
    {[r \in Routers |->
        IF r = root
        THEN Table(<<Middleware>>, static,
                   <<Route(p, {"GET"}), Route(q, {"POST"}), Route(<<"{id}">>, {"GET", "POST"})>>, f)
        ELSE Table(<< >>, {}, << >>, FALSE)] :
        static \in {{}, {Route(<<"a", "b">>, {"POST"})}},
        p \in Patterns, q \in Patterns, f \in BOOLEAN}

OverlappingPaths == {<<x, y>> : x \in {"a", "b"}, y \in {"a", "b", ""}} \cup {<<"a">>, <<"b">>, << >>}

\* Characters of a segment, and what is left without some of them.
SizeOf(s) == CASE s = "" -> 0 [] s = "aa" -> 2 [] OTHER -> 1

DroppedFrom(s, k) == IF k = 0 THEN s ELSE IF s = "aa" /\ k = 1 THEN "a" ELSE ""

\* Of api at /a, what is left of these is out of range, nothing, /a/b, a/b cut out of
\* /aa/b, and /aa; of v1 at /a/a it is out of range (twice), /b, b and a cut out of aa.
NewPaths == {<< >>, <<"b">>, <<"b", "a", "b">>, <<"aa", "b">>, <<"b", "aa">>}

AllTables == Nested \cup Overlapping
AllPaths == NestedPaths \cup OverlappingPaths
==============================================================================
