---------------------------- MODULE RouterPaths -----------------------------
(***************************************************************************)
(* The pure functions of echo::middlewares::router on paths, mount         *)
(* prefixes and route patterns (src/middlewares/router.cpp).               *)
(*                                                                         *)
(* A normalised path is the sequence of its segments: "/" is << >>, "/a/b" *)
(* is <<"a", "b">> and "/a/" is <<"a", "">>.  Every function of the source *)
(* normalises its arguments first, and no path is <<"">>.                  *)
(***************************************************************************)
EXTENDS Naturals, Sequences, FiniteSets, SequencesExt

CONSTANTS
    Segments,       \* what stands between two slashes
    Blank,          \* the empty one among them
    Size(_),        \* Size(s): how many characters a segment has
    Dropped(_, _),  \* Dropped(s, k): what is left of it without the first k of them
    Params,         \* "{name}" segments of route patterns
    NameOf(_)       \* NameOf(p): the name a parameter binds

ASSUME SegmentsAssumption == Blank \in Segments /\ Params \cap Segments = {}

ASSUME CharactersAssumption ==
    \A s \in Segments : Size(s) \in Nat /\ \A k \in 0..Size(s) : Dropped(s, k) \in Segments

\* normalize_path as far as it shows here: "/" has no segment.
NormalizePath(s) == IF s = <<Blank>> THEN << >> ELSE s

\* join_prefix
JoinPrefix(parent, child) == parent \o child

\* The path is the prefix, or goes on after it with a slash.
MatchesPrefix(path, prefix) == IsPrefix(prefix, path)

\* The characters of a path: of each segment its slash (0) and its own.
Characters(path) == UNION {{i} \X (0..Size(path[i])) : i \in DOMAIN path}

Length(path) == Cardinality(Characters(path))

\* How many segments end within the first n characters, and how many characters
\* of the next one, its slash included, are still among these n.
Within(path, n) == Max({i \in 0..Len(path) : Length(SubSeq(path, 1, i)) <= n})

Into(path, n) == n - Length(SubSeq(path, 1, Within(path, n)))

\* relative_path_for: the segments behind a prefix the path has.  From any other
\* path it cuts off as many characters as the prefix is long, between two segments
\* or in one, whose end is then taken for a segment.
RelativePath(path, prefix) ==
    LET n == Length(prefix)
        i == Within(path, n)
    IN  IF MatchesPrefix(path, prefix)
        THEN NormalizePath(SubSeq(path, Len(prefix) + 1, Len(path)))
        ELSE IF Into(path, n) = 0
        THEN NormalizePath(SubSeq(path, i + 1, Len(path)))
        ELSE <<Dropped(path[i + 1], Into(path, n) - 1)>> \o SubSeq(path, i + 2, Len(path))

\* parse_dynamic_route: a pattern is dynamic if it has a parameter, and as
\* specific as it has literal segments.
IsDynamic(pattern) == \E i \in DOMAIN pattern : pattern[i] \in Params

LiteralCount(pattern) == Cardinality({i \in DOMAIN pattern : pattern[i] \notin Params})

\* match_dynamic_route
MatchesPattern(pattern, path) ==
    /\ Len(path) = Len(pattern)
    /\ \A i \in DOMAIN pattern : pattern[i] \in Params \/ pattern[i] = path[i]

\* Mutant: the n-th parameter gets the n-th segment.
BindingsCounted(pattern, path) ==
    LET bound == {i \in DOMAIN pattern : pattern[i] \in Params}
        names == {NameOf(pattern[i]) : i \in bound}
        nth(n) == CHOOSE k \in 1..Cardinality(bound) : \E i \in bound :
                     NameOf(pattern[i]) = n /\ k = Cardinality({j \in bound : j <= i})
    IN  [n \in names |-> path[nth(n)]]

\* The params of a match; of two parameters with one name the last one counts.
Bindings(pattern, path) ==
    LET bound   == {i \in DOMAIN pattern : pattern[i] \in Params}
        names   == {NameOf(pattern[i]) : i \in bound}
        last(n) == CHOOSE i \in bound :
                      /\ NameOf(pattern[i]) = n
                      /\ \A j \in bound : NameOf(pattern[j]) = n => j <= i
    IN  [n \in names |-> path[last(n)]]

\* Mutant: >= for >.
BestDynamicLast(patterns, path) ==
    FoldLeftDomain(
        LAMBDA best, i :
            IF /\ MatchesPattern(patterns[i], path)
               /\ best # 0 => LiteralCount(patterns[i]) >= LiteralCount(patterns[best])
            THEN i ELSE best,
        0, patterns)

\* The loop of route_tail_for over dynamic_routes: a later match replaces an
\* earlier one only if it has more literal segments.  0 if nothing matches.
BestDynamic(patterns, path) ==
    FoldLeftDomain(
        LAMBDA best, i :
            IF /\ MatchesPattern(patterns[i], path)
               /\ best # 0 => LiteralCount(patterns[i]) > LiteralCount(patterns[best])
            THEN i ELSE best,
        0, patterns)
=============================================================================
