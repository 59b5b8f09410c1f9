---------------------------- MODULE RouterStrings ---------------------------
(***************************************************************************)
(* The string functions of echo::middlewares::router on paths, character   *)
(* by character (src/middlewares/router.cpp).  RouterPaths has them on     *)
(* segments; here each is compared with its counterpart there, for every   *)
(* text a caller may pass, with and without leading, trailing and repeated *)
(* slashes.                                                                *)
(***************************************************************************)
EXTENDS Naturals, Sequences, SequencesExt

CONSTANTS
    Letters,        \* characters other than the slash
    MaxPath,        \* bound: length of a request path
    MaxPrefix,      \* bound: length of a mount prefix
    MaxChild        \* bound: length of the prefix of a mount inside it

Slash == "/"

ASSUME LettersAssumption == Slash \notin Letters

Chars == Letters \cup {Slash}

VARIABLES path, prefix, child

pathVars == <<path, prefix, child>>

-----------------------------------------------------------------------------
(* The functions. *)

\* normalize_path: a leading slash if there is none.
NormalizePath(s) == IF s # << >> /\ Head(s) = Slash THEN s ELSE <<Slash>> \o s

RootPath == <<Slash>>

\* join_prefix
JoinPrefix(parent, c) ==
    LET p == NormalizePath(parent)
        n == NormalizePath(c)
    IN  IF p = RootPath THEN n ELSE IF n = RootPath THEN p ELSE p \o n

\* Mutant: starts_with alone.
StartsWith(s, p) == IsPrefix(NormalizePath(p), NormalizePath(s))

\* matches_prefix; the character looked at is the one after the prefix.
MatchesPrefix(s, p) ==
    LET ns == NormalizePath(s)
        np == NormalizePath(p)
    IN  \/ np = RootPath
        \/ ns = np
        \/ /\ Len(ns) > Len(np)
           /\ IsPrefix(np, ns)
           /\ ns[Len(np) + 1] = Slash

\* Mutant: one character too many is cut off.
RelativeWithoutSlash(s, p) == SubSeq(NormalizePath(s), Len(NormalizePath(p)) + 2, Len(NormalizePath(s)))

\* relative_path_for
RelativePathFor(s, p) ==
    LET ns == NormalizePath(s)
        np == NormalizePath(p)
    IN  IF np = RootPath THEN ns
        ELSE IF ns = np THEN RootPath
        ELSE SubSeq(ns, Len(np) + 1, Len(ns))

\* A slash starts a segment, any other character goes on with it.
NextChar(segments, ch) ==
    IF ch = Slash THEN Append(segments, << >>)
    ELSE [segments EXCEPT ![Len(segments)] = Append(@, ch)]

\* split_path_segments: "/" has none, a slash at the end starts an empty one.
SplitPathSegments(s) ==
    LET ns == NormalizePath(s)
    IN  IF ns = RootPath THEN << >> ELSE FoldLeft(NextChar, << >>, ns)

-----------------------------------------------------------------------------
(* Texts grow by a character at a time. *)

InitPaths == path = << >> /\ prefix = << >> /\ child = << >>

Extend ==
    \E ch \in Chars :
        \/ /\ Len(path) < MaxPath /\ path' = Append(path, ch)
           /\ UNCHANGED <<prefix, child>>
        \/ /\ Len(prefix) < MaxPrefix /\ prefix' = Append(prefix, ch)
           /\ UNCHANGED <<path, child>>
        \/ /\ Len(child) < MaxChild /\ child' = Append(child, ch)
           /\ UNCHANGED <<path, prefix>>

PathsSpec == InitPaths /\ [][Extend]_pathVars

-----------------------------------------------------------------------------
(* Properties. *)

\* RouterPaths on the segments, which are texts themselves.
Segmented == INSTANCE RouterPaths WITH
    Segments <- Seq(Chars), Params <- {}, Blank <- << >>, NameOf <- LAMBDA p : p,
    Size <- LAMBDA s : Len(s), Dropped <- LAMBDA s, k : SubSeq(s, k + 1, Len(s))

Split(s) == SplitPathSegments(s)

\* Joining prefixes joins their segments, no empty segment appears or goes, and a
\* path matches a prefix if its segments start with those of the prefix, never in
\* the middle of a name.
MatchIsBySegments ==
    /\ Split(JoinPrefix(prefix, child)) = Segmented!JoinPrefix(Split(prefix), Split(child))
    /\ MatchesPrefix(path, prefix) <=> Segmented!MatchesPrefix(Split(path), Split(prefix))

\* The relative path has the other segments, and begins with a slash, so that
\* no substr is out of range and the routes of a child can be found.
RelativeIsTheRest ==
    MatchesPrefix(path, prefix) =>
        LET rel == RelativePathFor(path, prefix)
        IN  /\ rel # << >> /\ Head(rel) = Slash
            /\ Split(rel) = Segmented!RelativePath(Split(path), Split(prefix))

\* A path that a middleware has changed need not match: substr is then out of range
\* exactly if the path has fewer characters than the prefix, leaves nothing if it
\* has as many, and otherwise the rest by characters, which begins with a slash
\* exactly if no segment was cut, and whose first segment may be the end of one.
CutByCharacters ==
    ~MatchesPrefix(path, prefix) =>
        LET ns  == NormalizePath(path)
            np  == NormalizePath(prefix)
            rel == RelativePathFor(path, prefix)
            m   == Segmented!Length(Split(path))
            n   == Segmented!Length(Split(prefix))
        IN  /\ Len(np) > Len(ns) <=> n > m
            /\ Len(np) = Len(ns) <=> n = m
            /\ m > n => /\ rel # << >>
                        /\ Head(rel) = Slash <=> Segmented!Into(Split(path), n) = 0
                        /\ Split(rel) = Segmented!RelativePath(Split(path), Split(prefix))
=============================================================================
