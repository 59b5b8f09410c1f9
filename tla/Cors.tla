-------------------------------- MODULE Cors --------------------------------
(***************************************************************************)
(* echo::middlewares::cors (src/middlewares/cors.cpp): the policy object   *)
(* with its builder calls, and handle() deciding about one request at a    *)
(* time.  The object is shared, and handle() reads the policy after the    *)
(* co_await on the rest of the chain, so a builder call may fall between   *)
(* the arrival of a request and its answer.                                *)
(*                                                                         *)
(* Lists are sets (their order only shows in the text of a header), header *)
(* names stand for their case-insensitive class, and max_age is present or *)
(* not.  Wildcards, mirroring and lists are kept by kind of value.         *)
(***************************************************************************)
EXTENDS Naturals

CONSTANTS
    Origins,        \* non-empty values of an Origin header
    Methods,        \* values of Access-Control-Request-Method
    Enumerated,     \* the methods allow_method can name (subset of Methods)
    Headers,        \* header names
    OtherVary       \* Vary tokens the rest of the chain may set

Star   == "*"
Absent == "absent"      \* no such header
Empty  == "empty"       \* the header with an empty value

ASSUME MethodsAssumption == Enumerated \subseteq Methods
ASSUME ValuesAssumption  ==
    /\ Origins \cap {Star, Absent, Empty} = {}
    /\ Methods \cap {Absent, Empty} = {}
    /\ "origin" \notin OtherVary

Kinds == {"origin", "method", "header", "exposed"}

Values(kind) ==
    CASE kind = "origin" -> Origins
      [] kind = "method" -> Enumerated
      [] OTHER           -> Headers

VARIABLES
    policy,         \* the fields of the cors object
    refused,        \* the last builder call threw
    exchange        \* the request handle() is working on

vars == <<policy, refused, exchange>>

-----------------------------------------------------------------------------
(* The policy and its builder. *)

Policies ==
    [any         : SUBSET Kinds,                \* any_origin_, any_method_, ...
     mirror      : SUBSET Kinds,                \* mirror_origin_, ...
     allowed     : [Kinds -> SUBSET (Origins \cup Enumerated \cup Headers)],
     credentials : BOOLEAN,
     maxAge      : BOOLEAN]

Nothing == [k \in Kinds |-> {}]

Preset(any, mirror, credentials) ==
    [any |-> any, mirror |-> mirror, allowed |-> Nothing,
     credentials |-> credentials, maxAge |-> FALSE]

Strict      == Preset({}, {}, FALSE)
Permissive  == Preset(Kinds, {}, FALSE)
Development == Preset({}, {"origin", "method", "header"}, TRUE)

\* allow_origin("*"), allow_header("*"), expose_header("*")
WithWildcard(p, kind) ==
    [p EXCEPT !.any = @ \cup {kind}, !.mirror = @ \ {kind}, !.allowed[kind] = {}]

\* A named value turns the wildcard and the mirroring of its kind off.
WithValues(p, kind, S) ==
    [p EXCEPT !.any = @ \ {kind}, !.mirror = @ \ {kind}, !.allowed[kind] = @ \cup S]

\* The call throws before it assigns anything.
Refuse == refused' = TRUE /\ UNCHANGED policy

Becomes(p) == refused' = FALSE /\ policy' = p

\* Mutant: the flag is set before the check that throws.
WildcardBeforeCheck(kind) ==
    /\ refused' = policy.credentials
    /\ policy' = WithWildcard(policy, kind)

\* The single calls with "*", and the bulk calls whose list contains "*".
AllowWildcard(kind) ==
    IF policy.credentials THEN Refuse ELSE Becomes(WithWildcard(policy, kind))

\* allow_origin, allow_header and expose_header, one by one or in bulk; a bulk
\* call with an empty list does nothing.
AllowValues(kind, S) ==
    IF S = {} THEN Becomes(policy) ELSE Becomes(WithValues(policy, kind, S))

\* allow_method and allow_methods.  An enumerator without a name makes the call
\* throw half-way: the flags are off and the methods before it are in.
AllowMethods(S, invalid) ==
    IF invalid
    THEN refused' = TRUE /\ policy' = WithValues(policy, "method", S)
    ELSE AllowValues("method", S)

\* Mutant: only a wildcard origin is looked for.
CredentialsCheckOrigin(enabled) ==
    IF enabled /\ "origin" \in policy.any
    THEN Refuse
    ELSE Becomes([policy EXCEPT !.credentials = enabled])

AllowCredentials(enabled) ==
    IF enabled /\ policy.any # {}
    THEN Refuse
    ELSE Becomes([policy EXCEPT !.credentials = enabled])

MaxAge == Becomes([policy EXCEPT !.maxAge = TRUE])

-----------------------------------------------------------------------------
(* cors::handle *)

RequestSet ==
    [options : BOOLEAN,                             \* req->method = "OPTIONS"
     origin  : Origins \cup {Absent, Empty},
     method  : Methods \cup {Absent, Empty},        \* Access-Control-Request-Method
     headers : SUBSET Headers]                      \* Access-Control-Request-Headers

IsPreflight(r) == r.options /\ r.origin # Absent /\ r.method \notin {Absent, Empty}

\* A response without any of the headers the middleware sets.
Plain(status, vary) ==
    [status |-> status, origin |-> Absent, credentials |-> Absent, exposed |-> {},
     methods |-> {}, headers |-> {}, maxAge |-> FALSE, vary |-> vary]

\* any_* or mirror_* accept every value of the kind.
Open(p, kind) == kind \in p.any \cup p.mirror

\* Access-Control-Allow-Origin and -Credentials; credentials go with either.
WithOrigin(p, r, res) ==
    [res EXCEPT !.origin = IF "origin" \in p.any /\ "origin" \notin p.mirror
                           THEN Star ELSE r.origin,
                !.credentials = IF p.credentials THEN "true" ELSE @]

\* Mutant: what the chain put in Vary is overwritten.
SimpleAnswerOverwritesVary(p, r, res) ==
    LET granted == WithOrigin(p, r, res)
    IN  [granted EXCEPT
            !.exposed = IF "exposed" \in p.any THEN {Star}
                        ELSE IF p.allowed["exposed"] = {} THEN @
                        ELSE p.allowed["exposed"],
            !.vary = IF granted.origin = Star THEN @ ELSE {"origin"}]

SimpleAnswer(p, r, res) ==
    LET granted == WithOrigin(p, r, res)
    IN  [granted EXCEPT
            !.exposed = IF "exposed" \in p.any THEN {Star}
                        ELSE IF p.allowed["exposed"] = {} THEN @
                        ELSE p.allowed["exposed"],
            !.vary = IF granted.origin = Star THEN @ ELSE @ \cup {"origin"}]

\* Mutant: only a wildcard opens the methods.
MethodWithoutMirror(p, r) == "method" \in p.any \/ r.method \in p.allowed["method"]

\* method_allowed
PreflightMethod(p, r) == Open(p, "method") \/ r.method \in p.allowed["method"]

\* headers_allowed; no requested header is always allowed.
PreflightHeaders(p, r) == Open(p, "header") \/ r.headers \subseteq p.allowed["header"]

PreflightAnswer(p, r, res) ==
    IF PreflightMethod(p, r) /\ PreflightHeaders(p, r)
    THEN [WithOrigin(p, r, res) EXCEPT
            !.methods = IF Open(p, "method") THEN {r.method} ELSE p.allowed["method"],
            !.headers = IF Open(p, "header") /\ r.headers # {}
                        THEN r.headers ELSE p.allowed["header"],
            !.maxAge  = p.maxAge,
            !.vary    = @ \cup {"origin", "request-method", "request-headers"}]
    ELSE res

\* What follows the co_await: the response of the chain gets its CORS headers.
Decorate(p, r, res) ==
    IF \/ r.origin \in {Absent, Empty}
       \/ ~(Open(p, "origin") \/ r.origin \in p.allowed["origin"])
    THEN res
    ELSE IF IsPreflight(r) THEN PreflightAnswer(p, r, res) ELSE SimpleAnswer(p, r, res)

Stages == {"idle", "pending", "answered", "failed"}

NoRequest == [options |-> FALSE, origin |-> Absent, method |-> Absent, headers |-> {}]

\* The request, the response of the chain (or of handle() itself) as it was
\* before the headers were set, and the answer.
Idle == [stage |-> "idle", req |-> NoRequest, chain |-> Plain(200, {}), res |-> Plain(200, {})]

Answer(r, res) ==
    exchange' = [stage |-> "answered", req |-> r, chain |-> res, res |-> Decorate(policy, r, res)]

\* handle() up to its first suspension.  A preflight is answered at once, a
\* request without a continuation is a 404, any other awaits the chain.
Arrive(r, hasNext) ==
    /\ exchange.stage = "idle"
    /\ \/ IsPreflight(r) /\ Answer(r, Plain(200, {}))
       \/ ~IsPreflight(r) /\ ~hasNext /\ Answer(r, Plain(404, {}))
       \/ /\ ~IsPreflight(r) /\ hasNext
          /\ exchange' = [exchange EXCEPT !.stage = "pending", !.req = r]
    /\ UNCHANGED <<policy, refused>>

\* The rest of the chain returns.
Resume(vary) ==
    /\ exchange.stage = "pending"
    /\ Answer(exchange.req, Plain(200, vary))
    /\ UNCHANGED <<policy, refused>>

\* It throws, and nothing here catches: the 500 of the session has no CORS header.
ChainThrows ==
    /\ exchange.stage = "pending"
    /\ exchange' = [exchange EXCEPT !.stage = "failed"]
    /\ UNCHANGED <<policy, refused>>

\* The answer is on its way and the next request may come.
Leave ==
    /\ exchange.stage \in {"answered", "failed"}
    /\ exchange' = Idle
    /\ UNCHANGED <<policy, refused>>

-----------------------------------------------------------------------------

Init ==
    /\ policy \in {Strict, Permissive, Development}
    /\ refused = FALSE
    /\ exchange = Idle

\* A builder call; an answer has left before one can follow it.
Configure ==
    /\ exchange.stage \in {"idle", "pending"}
    /\ \/ \E kind \in Kinds \ {"method"} : AllowWildcard(kind)
       \/ \E kind \in Kinds \ {"method"} : \E S \in SUBSET Values(kind) : AllowValues(kind, S)
       \/ \E S \in SUBSET Enumerated, invalid \in BOOLEAN : AllowMethods(S, invalid)
       \/ \E enabled \in BOOLEAN : AllowCredentials(enabled)
       \/ MaxAge
    /\ UNCHANGED exchange

Handle ==
    \/ \E r \in RequestSet, hasNext \in BOOLEAN : Arrive(r, hasNext)
    \/ \E vary \in SUBSET (OtherVary \cup {"origin"}) : Resume(vary)
    \/ ChainThrows
    \/ Leave

Next == Configure \/ Handle

Spec == Init /\ [][Next]_vars

-----------------------------------------------------------------------------
(* Properties. *)

\* Every variable has its type; an answer is decided about a request.
TypeOK ==
    /\ policy \in Policies
    /\ refused \in BOOLEAN
    /\ exchange.stage \in Stages
    /\ exchange.req \in RequestSet

\* No sequence of builder calls, failed ones included, leads to a policy that
\* sends credentials and has a wildcard anywhere.
NoCredentialedWildcard == policy.credentials => policy.any = {}

\* At most one of wildcard, mirroring and a list is in force for a kind, so
\* that the last call made about a kind decides, whatever came before it.
OneRuleByKind ==
    \A kind \in Kinds :
        /\ kind \in policy.any => kind \notin policy.mirror /\ policy.allowed[kind] = {}
        /\ kind \in policy.mirror => policy.allowed[kind] = {}

\* What the policy promises, read off its fields.
Accepted(kind, all) == IF Open(policy, kind) THEN all ELSE policy.allowed[kind]

PermitsMethods(r, credentialed, methods) ==
    /\ r.origin \in Accepted("origin", Origins)
    /\ IsPreflight(r) =>
          r.method \in methods /\ r.headers \subseteq Accepted("header", Headers)
    /\ credentialed => policy.credentials

Permits(r, credentialed) == PermitsMethods(r, credentialed, Accepted("method", Methods))

\* A builder call that throws is felt by preflights alone, and by them only in
\* their methods.  allow_methods is the one call that throws half-way: the
\* methods before the invalid one are granted by then, and a wildcard or the
\* mirroring of methods is gone.  Every other request is answered as before,
\* and a preflight is permitted afterwards only if it was before or asks for a
\* method that allow_method can name.
RefusalIsContained ==
    [][refused' => \A r \in RequestSet :
          /\ ~IsPreflight(r) =>
                Decorate(policy', r, Plain(200, {})) = Decorate(policy, r, Plain(200, {}))
          /\ \A credentialed \in BOOLEAN :
                Permits(r, credentialed)' =>
                    PermitsMethods(r, credentialed, Accepted("method", Methods) \cup Enumerated)]_policy

\* What a browser makes of the answer (the CORS check of the Fetch standard).
BrowserAccepts(r, res, credentialed) ==
    /\ res.origin = r.origin \/ (res.origin = Star /\ ~credentialed)
    /\ credentialed => res.credentials = "true"
    /\ IsPreflight(r) => r.method \in res.methods /\ r.headers \subseteq res.headers

Answered == exchange.stage = "answered"

\* A browser accepts the answer to a cross-origin request exactly when the
\* policy in force when it was answered permits the request: even if the policy
\* changed while the chain was awaited, and with or without credentials.
BrowserAgrees ==
    (Answered /\ exchange.req.origin \in Origins) =>
        \A credentialed \in BOOLEAN :
            BrowserAccepts(exchange.req, exchange.res, credentialed)
                <=> Permits(exchange.req, credentialed)

\* No answer combines Access-Control-Allow-Origin: * with credentials, which
\* browsers reject.
NeverStarWithCredentials ==
    Answered => ~(exchange.res.origin = Star /\ exchange.res.credentials = "true")

\* A cache may give an answer to other origins unless Vary names Origin.  What
\* the chain put in Vary is kept; an answer made out to one origin says so; one
\* that does not name Origin in Vary, yet grants, serves every origin as the
\* policy wants; and without an origin that the policy accepts the response of
\* the chain leaves as it is.
CachesMayReuse ==
    Answered =>
        LET r == exchange.req  res == exchange.res IN
        /\ exchange.chain.vary \subseteq res.vary
        /\ res.origin \in Origins => res.origin = r.origin /\ "origin" \in res.vary
        /\ (res.origin # Absent /\ "origin" \notin res.vary) =>
              \A o \in Origins, credentialed \in BOOLEAN :
                  BrowserAccepts([r EXCEPT !.origin = o], res, credentialed)
                      <=> Permits([r EXCEPT !.origin = o], credentialed)
        /\ (r.origin \notin Origins \/ r.origin \notin Accepted("origin", Origins)) =>
              res = exchange.chain
=============================================================================
