----------------------------- MODULE RequestText -----------------------------
(***************************************************************************)
(* What handle_request and the logger make of the text of a request,       *)
(* character by character: the target split into path and query            *)
(* (utils/parse.hpp), header lines put into a map (serve.cpp) and looked   *)
(* up in it without regard to case (types/request.hpp), and the address of *)
(* the client (middlewares/logger.cpp).                                    *)
(***************************************************************************)
EXTENDS Naturals, Sequences, SequencesExt

CONSTANTS
    TargetChars, MaxTarget,     \* what targets are made of; bound on their length
    FieldChars, MaxField,       \* what field values are made of; bound on their length
    MaxLines,                   \* bound: lines of one header
    Spellings                   \* the spellings of its name

VARIABLES
    target,                     \* the request target
    lines                       \* the lines of the header X-Forwarded-For, in order

textVars == <<target, lines>>

Space == " "

-----------------------------------------------------------------------------
(* The target. *)

\* find(ch), one past the end if there is none
Find(s, ch) ==
    LET at == {i \in DOMAIN s : s[i] = ch} IN IF at = {} THEN Len(s) + 1 ELSE Min(at)

\* map[key] = value
Put(map, key, value) == [k \in DOMAIN map \cup {key} |-> IF k = key THEN value ELSE map[k]]

NoEntries == << >>

\* Mutant: the first part of a name counts.
StoreFirst(map, part) ==
    LET eq  == Find(part, "=")
        key == SubSeq(part, 1, eq - 1)
    IN  IF key = << >> \/ key \in DOMAIN map THEN map ELSE Put(map, key, SubSeq(part, eq + 1, Len(part)))

\* The name of a part goes up to its first "="; a part without a name is dropped.
Store(map, part) ==
    LET eq  == Find(part, "=")
        key == SubSeq(part, 1, eq - 1)
    IN  IF key = << >> THEN map ELSE Put(map, key, SubSeq(part, eq + 1, Len(part)))

\* The loop of parse_query: a part goes from begin to before the next "&".
EndPart(text, loop, amp) ==
    IF text[amp] = "&"
    THEN [begin |-> amp + 1, out |-> Store(loop.out, SubSeq(text, loop.begin, amp - 1))]
    ELSE loop

\* The end of the query ends its last part, as an "&" would.
ParseQuery(query) ==
    LET text == Append(query, "&")
    IN  FoldLeftDomain(LAMBDA loop, amp : EndPart(text, loop, amp),
                       [begin |-> 1, out |-> NoEntries], text).out

\* The first "?" ends the path, which is "/" if there is none.
ParseTarget(t) ==
    LET q == Find(t, "?")
    IN  [path  |-> IF q = 1 THEN <<"/">> ELSE SubSeq(t, 1, q - 1),
         query |-> ParseQuery(SubSeq(t, q + 1, Len(t)))]

-----------------------------------------------------------------------------
(* Headers. *)

\* in->headers[name] = value for one line after the other
PutLine(map, line) == Put(map, line.name, line.value)

HeaderMap == FoldLeft(PutLine, NoEntries, lines)

\* read_header: the first entry of an unordered map whose name agrees but for case.
ReadHeader == {HeaderMap[name] : name \in DOMAIN HeaderMap}

\* get_header: the exact name first.
GetHeader(key) == IF key \in DOMAIN HeaderMap THEN {HeaderMap[key]} ELSE ReadHeader

\* Mutant: only the front is trimmed.
TrimFront(s) ==
    LET dark == {i \in DOMAIN s : s[i] # Space}
    IN  IF dark = {} THEN << >> ELSE SubSeq(s, Min(dark), Len(s))

Trim(s) ==
    LET dark == {i \in DOMAIN s : s[i] # Space}
    IN  IF dark = {} THEN << >> ELSE SubSeq(s, Min(dark), Max(dark))

\* The address of the peer, if the socket has told it.
PeerAddress(remote) == IF remote # << >> THEN remote ELSE <<"unknown">>

\* get_client_ip: the first hop, or else the peer.
ClientIp(remote) ==
    LET hop(value) == Trim(SubSeq(value, 1, Find(value, ",") - 1))
        ip(value)  == IF hop(value) = << >> THEN PeerAddress(remote) ELSE hop(value)
    IN  IF ReadHeader = {} THEN {PeerAddress(remote)} ELSE {ip(value) : value \in ReadHeader}

-----------------------------------------------------------------------------
(* Texts grow by a character at a time. *)

InitText == target = << >> /\ lines = << >>

GrowTarget ==
    /\ Len(target) < MaxTarget
    /\ \E ch \in TargetChars : target' = Append(target, ch)
    /\ UNCHANGED lines

GrowLines ==
    /\ \/ /\ Len(lines) < MaxLines
          /\ \E name \in Spellings : lines' = Append(lines, [name |-> name, value |-> << >>])
       \/ /\ lines # << >> /\ Len(Last(lines).value) < MaxField
          /\ \E ch \in FieldChars : lines' = [lines EXCEPT ![Len(lines)].value = Append(@, ch)]
    /\ UNCHANGED target

TextSpec == InitText /\ [][GrowTarget \/ GrowLines]_textVars

-----------------------------------------------------------------------------
(* Properties. *)

\* A stretch of a text, from i to j, between two ampersands, that has a name,
\* which ends before e.
HasName(s, i, e, j) ==
    /\ i < e /\ e <= j + 1
    /\ i = 1 \/ s[i - 1] = "&"
    /\ j = Len(s) \/ s[j + 1] = "&"
    /\ \A x \in i .. j : s[x] # "&" /\ (x < e => s[x] # "=")
    /\ e <= j => s[e] = "="

Named(s) ==
    {p \in (DOMAIN s) \X (1 .. Len(s) + 1) \X (DOMAIN s) : HasName(s, p[1], p[2], p[3])}

\* However a target is written, its path is not empty and has no "?", path and
\* query together are the target, and a query parameter has the value that was
\* given last under its name: nothing else is in the query.
TargetAsWritten ==
    LET parsed == ParseTarget(target)
        path   == IF target # << >> /\ Head(target) # "?" THEN parsed.path ELSE << >>
        text   == SubSeq(target, Len(path) + 2, Len(target))
        named(k) == {p \in Named(text) : SubSeq(text, p[1], p[2] - 1) = k}
    IN  /\ parsed.path # << >> /\ "?" \notin ToSet(parsed.path)
        /\ IsPrefix(path, target)
        /\ Len(path) < Len(target) => target[Len(path) + 1] = "?"
        /\ DOMAIN parsed.query = {SubSeq(text, p[1], p[2] - 1) : p \in Named(text)}
        /\ \A k \in DOMAIN parsed.query :
              \E p \in named(k) :
                 /\ \A q \in named(k) : q[1] <= p[1]
                 /\ parsed.query[k] = SubSeq(text, p[2] + 1, p[3])

\* The last line with a given spelling of the name.
LastLine(name) ==
    LET at == {i \in DOMAIN lines : lines[i].name = name} IN lines[Max(at)].value

\* There is more than blanks before the first comma.
HasHop(value) ==
    \E i \in DOMAIN value :
        value[i] # Space /\ \A x \in 1 .. i : value[x] # ","

\* ip is what stands before the first comma, up to blanks around it.
IsHop(ip, value) ==
    \E i \in DOMAIN value : \E j \in i .. Len(value) :
        /\ SubSeq(value, i, j) = ip
        /\ value[i] # Space /\ value[j] # Space
        /\ \A x \in 1 .. i - 1 : value[x] = Space
        /\ \A x \in i .. j : value[x] # ","
        /\ \E k \in j + 1 .. Len(value) + 1 :
              /\ k <= Len(value) => value[k] = ","
              /\ \A x \in j + 1 .. k - 1 : value[x] = Space

\* Whoever looks a header up, in whatever spelling, finds what was sent last in
\* some spelling, and all find the same if one spelling was used.  The address of
\* the client is the first hop of such a line, without blanks, and the peer's only
\* if a line has no first hop or there is none.
HeadersAsSent ==
    LET names == {lines[i].name : i \in DOMAIN lines}
    IN  /\ \A key \in Spellings : key \in names => GetHeader(key) = {LastLine(key)}
        /\ \A key \in Spellings \ names : GetHeader(key) = {LastLine(n) : n \in names}
        /\ \A remote \in {<< >>, <<"peer">>} : \A ip \in ClientIp(remote) :
              /\ ip # << >>
              /\ \/ /\ ip = PeerAddress(remote)
                    /\ names = {} \/ \E n \in names : ~HasHop(LastLine(n))
                 \/ \E n \in names : IsHop(ip, LastLine(n))
=============================================================================
