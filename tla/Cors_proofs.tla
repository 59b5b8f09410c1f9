----------------------------- MODULE Cors_proofs ----------------------------
(***************************************************************************)
(* Theorems about Cors, for any origins, methods and header names: what no *)
(* sequence of builder calls can lead to, and what every answer is worth.  *)
(***************************************************************************)
EXTENDS Cors, TLAPS

AllValues == Origins \cup Enumerated \cup Headers

OneRule(p) ==
    \A kind \in Kinds :
        /\ kind \in p.any => kind \notin p.mirror /\ p.allowed[kind] = {}
        /\ kind \in p.mirror => p.allowed[kind] = {}

\* What holds of the policy after any builder calls.
PolicyInv(p) ==
    /\ p \in Policies
    /\ p.credentials => p.any = {}
    /\ OneRule(p)

-----------------------------------------------------------------------------
(* The builder. *)

\* The values of a list are values of the policy.
LEMMA KindValues ==
    ASSUME NEW kind \in Kinds PROVE Values(kind) \in SUBSET AllValues
BY DEF Kinds, Values, AllValues

\* The presets are consistent policies.
LEMMA PresetInv == PolicyInv(Strict) /\ PolicyInv(Permissive) /\ PolicyInv(Development)
BY DEF PolicyInv, OneRule, Strict, Permissive, Development, Preset, Nothing, Policies, Kinds

\* A wildcard is only set without credentials, and replaces what was there.
LEMMA WildcardInv ==
    ASSUME NEW p, PolicyInv(p), ~p.credentials, NEW kind \in Kinds
    PROVE  PolicyInv(WithWildcard(p, kind))
<1> DEFINE q == WithWildcard(p, kind)
<1>1. /\ p.any \in SUBSET Kinds /\ p.mirror \in SUBSET Kinds /\ p.credentials \in BOOLEAN
      /\ p.allowed \in [Kinds -> SUBSET AllValues] /\ p.maxAge \in BOOLEAN
  BY DEF PolicyInv, Policies, AllValues
<1>2. /\ q.any = p.any \cup {kind} /\ q.mirror = p.mirror \ {kind}
      /\ q.allowed = [p.allowed EXCEPT ![kind] = {}]
      /\ q.credentials = p.credentials /\ q.maxAge = p.maxAge
  BY DEF WithWildcard, PolicyInv, Policies
<1>3. q \in Policies
  BY <1>1 DEF WithWildcard, PolicyInv, Policies, AllValues
<1>4. OneRule(q)
  BY <1>1, <1>2 DEF OneRule, PolicyInv
<1> QED BY <1>2, <1>3, <1>4 DEF PolicyInv

\* Named values turn the other rules of their kind off.
LEMMA ValuesInv ==
    ASSUME NEW p, PolicyInv(p), NEW kind \in Kinds, NEW S \in SUBSET AllValues
    PROVE  PolicyInv(WithValues(p, kind, S))
<1> DEFINE q == WithValues(p, kind, S)
<1>1. /\ p.any \in SUBSET Kinds /\ p.mirror \in SUBSET Kinds /\ p.credentials \in BOOLEAN
      /\ p.allowed \in [Kinds -> SUBSET AllValues] /\ p.maxAge \in BOOLEAN
  BY DEF PolicyInv, Policies, AllValues
<1>2. /\ q.any = p.any \ {kind} /\ q.mirror = p.mirror \ {kind}
      /\ q.allowed = [p.allowed EXCEPT ![kind] = @ \cup S]
      /\ q.credentials = p.credentials /\ q.maxAge = p.maxAge
  BY DEF WithValues, PolicyInv, Policies
<1>3. q \in Policies
  BY <1>1 DEF WithValues, PolicyInv, Policies, AllValues
<1>4. OneRule(q)
  BY <1>1, <1>2 DEF OneRule, PolicyInv
<1>5. q.credentials => q.any = {}
  BY <1>2 DEF PolicyInv
<1> QED BY <1>3, <1>4, <1>5 DEF PolicyInv

\* The calls that set a field of their own.
LEMMA FieldInv ==
    ASSUME NEW p, PolicyInv(p)
    PROVE  /\ PolicyInv([p EXCEPT !.maxAge = TRUE])
           /\ PolicyInv([p EXCEPT !.credentials = FALSE])
           /\ p.any = {} => PolicyInv([p EXCEPT !.credentials = TRUE])
BY DEF PolicyInv, OneRule, Policies

\* A consistent policy stays consistent when it is configured.
LEMMA ConfigureInv ==
    ASSUME PolicyInv(policy), Configure
    PROVE  PolicyInv(policy')
<1>1. CASE \E kind \in Kinds \ {"method"} : AllowWildcard(kind)
  BY <1>1, WildcardInv DEF AllowWildcard, Refuse, Becomes, PolicyInv, Policies
<1>2. CASE \E kind \in Kinds \ {"method"} : \E S \in SUBSET Values(kind) : AllowValues(kind, S)
  BY <1>2, ValuesInv, KindValues DEF AllowValues, Becomes
<1>3. CASE \E S \in SUBSET Enumerated, invalid \in BOOLEAN : AllowMethods(S, invalid)
  <2>1. Enumerated \subseteq AllValues /\ "method" \in Kinds
    BY DEF AllValues, Kinds
  <2> QED BY <1>3, <2>1, ValuesInv DEF AllowMethods, AllowValues, Becomes
<1>4. CASE \E enabled \in BOOLEAN : AllowCredentials(enabled)
  BY <1>4, FieldInv DEF AllowCredentials, Refuse, Becomes
<1>5. CASE MaxAge
  BY <1>5, FieldInv DEF MaxAge, Becomes
<1> QED BY <1>1, <1>2, <1>3, <1>4, <1>5 DEF Configure

-----------------------------------------------------------------------------
(* The exchange. *)

\* What the rest of the chain may put in Vary.
Varies == SUBSET (OtherVary \cup {"origin"})

\* An answer is the policy's decoration of a response of the chain.
ExchangeInv ==
    /\ exchange = [stage |-> exchange.stage, req |-> exchange.req,
                   chain |-> exchange.chain, res |-> exchange.res]
    /\ exchange.stage \in Stages
    /\ exchange.req \in RequestSet
    /\ Answered => \E s \in {200, 404}, v \in Varies :
                       /\ exchange.chain = Plain(s, v)
                       /\ exchange.res = Decorate(policy, exchange.req, Plain(s, v))

\* The inductive invariant.
IInv == PolicyInv(policy) /\ refused \in BOOLEAN /\ ExchangeInv

\* The inductive invariant holds of a new middleware.
LEMMA InitIInv == Init => IInv
<1> SUFFICES ASSUME Init PROVE IInv
  OBVIOUS
<1>1. PolicyInv(policy)
  BY PresetInv DEF Init
<1>2. NoRequest \in RequestSet
  BY DEF NoRequest, RequestSet
<1>3. ExchangeInv
  BY <1>2 DEF Init, Idle, ExchangeInv, Stages, Answered
<1> QED BY <1>1, <1>3 DEF Init, IInv

\* What the middleware answers itself agrees with its policy.
LEMMA AnswerInv ==
    ASSUME NEW r \in RequestSet, NEW s \in {200, 404}, NEW v \in Varies,
           Answer(r, Plain(s, v)), UNCHANGED policy
    PROVE  ExchangeInv'
BY DEF Answer, ExchangeInv, Answered, Stages

\* What leaves the middleware agrees with its policy.
LEMMA HandleInv ==
    ASSUME ExchangeInv, Handle, UNCHANGED policy
    PROVE  ExchangeInv'
<1>1. ASSUME NEW r \in RequestSet, NEW hasNext \in BOOLEAN, Arrive(r, hasNext)
      PROVE  ExchangeInv'
  <2>1. CASE Answer(r, Plain(200, {})) \/ Answer(r, Plain(404, {}))
    BY <2>1, AnswerInv DEF Varies
  <2>2. CASE exchange' = [exchange EXCEPT !.stage = "pending", !.req = r]
    <3>1. exchange' = [stage |-> "pending", req |-> r, chain |-> exchange.chain, res |-> exchange.res]
      BY <2>2 DEF ExchangeInv
    <3> QED BY <3>1 DEF ExchangeInv, Answered, Stages
  <2> QED BY <1>1, <2>1, <2>2 DEF Arrive
<1>2. ASSUME NEW v \in Varies, Resume(v) PROVE ExchangeInv'
  BY <1>2, AnswerInv DEF Resume, ExchangeInv
<1>3. CASE ChainThrows
  <2>1. exchange' = [stage |-> "failed", req |-> exchange.req,
                    chain |-> exchange.chain, res |-> exchange.res]
    BY <1>3 DEF ChainThrows, ExchangeInv
  <2> QED BY <2>1 DEF ExchangeInv, Answered, Stages
<1>4. CASE Leave
  <2>1. NoRequest \in RequestSet
    BY DEF NoRequest, RequestSet
  <2> QED BY <1>4, <2>1 DEF Leave, Idle, ExchangeInv, Answered, Stages
<1> QED BY <1>1, <1>2, <1>3, <1>4 DEF Handle, Varies

\* Every step keeps the inductive invariant.
LEMMA StepIInv == IInv /\ [Next]_vars => IInv'
<1> SUFFICES ASSUME IInv, [Next]_vars PROVE IInv'
  OBVIOUS
<1>1. CASE Configure
  <2>1. PolicyInv(policy')
    BY <1>1, ConfigureInv DEF IInv
  <2>2. refused' \in BOOLEAN
    BY <1>1 DEF Configure, AllowWildcard, AllowValues, AllowMethods, AllowCredentials,
                MaxAge, Refuse, Becomes
  <2>3. ExchangeInv'
    BY <1>1 DEF IInv, Configure, ExchangeInv, Answered
  <2> QED BY <2>1, <2>2, <2>3 DEF IInv
<1>2. CASE Handle
  <2>1. UNCHANGED <<policy, refused>>
    BY <1>2 DEF Handle, Arrive, Resume, ChainThrows, Leave
  <2> QED BY <1>2, <2>1, HandleInv DEF IInv
<1>3. CASE UNCHANGED vars
  BY <1>3 DEF vars, IInv, ExchangeInv, Answered
<1> QED BY <1>1, <1>2, <1>3 DEF Next

\* The inductive invariant, for any policy and any requests.
LEMMA Invariance == Spec => []IInv
BY InitIInv, StepIInv, PTL DEF Spec

\* Every variable of the model keeps its type.
THEOREM TypeCorrect == Spec => []TypeOK
<1>1. IInv => TypeOK
  BY DEF IInv, PolicyInv, ExchangeInv, TypeOK
<1> QED BY Invariance, <1>1, PTL

\* Whatever the builder calls, and whichever of them throw, the object never
\* holds credentials and a wildcard together.
THEOREM CredentialsExcludeWildcards == Spec => []NoCredentialedWildcard
<1>1. IInv => NoCredentialedWildcard
  BY DEF IInv, PolicyInv, NoCredentialedWildcard
<1> QED BY Invariance, <1>1, PTL

\* The last call about a kind of value decides alone.
THEOREM OneRuleInForce == Spec => []OneRuleByKind
<1>1. IInv => OneRuleByKind
  BY DEF IInv, PolicyInv, OneRule, OneRuleByKind
<1> QED BY Invariance, <1>1, PTL

-----------------------------------------------------------------------------
(* What an answer is worth. *)

\* The facts about a policy and a request that decide an answer.
LEMMA PolicyShape ==
    ASSUME NEW p, PolicyInv(p)
    PROVE  /\ p.any \in SUBSET Kinds /\ p.mirror \in SUBSET Kinds
           /\ p.credentials \in BOOLEAN /\ p.maxAge \in BOOLEAN
           /\ p.allowed \in [Kinds -> SUBSET AllValues]
           /\ p.credentials => p.any = {}
           /\ "origin" \in p.any => "origin" \notin p.mirror
           /\ "origin" \in p.any \cup p.mirror => p.allowed["origin"] = {}
BY DEF PolicyInv, Policies, OneRule, Kinds, AllValues

\* The origin shown in an answer that grants the request.
Shown(p, r) == IF "origin" \in p.any /\ "origin" \notin p.mirror THEN Star ELSE r.origin

\* Both ways of granting show that origin, credentials only if the policy has
\* them, and Vary.
LEMMA SimpleFields ==
    ASSUME NEW p, NEW r, NEW s, NEW v
    PROVE  LET res == SimpleAnswer(p, r, Plain(s, v))
           IN  /\ res.origin = Shown(p, r)
               /\ res.credentials = "true" <=> p.credentials
               /\ Shown(p, r) # Star => "origin" \in res.vary
               /\ v \subseteq res.vary
<1> USE DEF SimpleAnswer, WithOrigin, Plain
<1> DEFINE res == SimpleAnswer(p, r, Plain(s, v))
<1>1. res.origin = Shown(p, r)
  BY DEF Shown
<1>2. res.credentials = "true" <=> p.credentials
  BY DEF Absent
<1>3. Shown(p, r) # Star => "origin" \in res.vary
  BY DEF Shown
<1>4. v \subseteq res.vary
  OBVIOUS
<1> HIDE DEF SimpleAnswer, WithOrigin, Plain
<1> QED BY <1>1, <1>2, <1>3, <1>4

\* What the answer to a preflight that is granted has in its fields.
LEMMA PreflightFields ==
    ASSUME NEW p, NEW r, NEW s, NEW v,
           PreflightAnswer(p, r, Plain(s, v)) # Plain(s, v)
    PROVE  LET res == PreflightAnswer(p, r, Plain(s, v))
           IN  /\ res.origin = Shown(p, r)
               /\ res.credentials = "true" <=> p.credentials
               /\ "origin" \in res.vary /\ v \subseteq res.vary
               /\ PreflightMethod(p, r)
               /\ PreflightHeaders(p, r)
               /\ r.method \in res.methods
               /\ \/ Open(p, "header") /\ r.headers = {}
                  \/ r.headers \subseteq res.headers
<1> DEFINE res == PreflightAnswer(p, r, Plain(s, v))
<1>0. PreflightMethod(p, r) /\ PreflightHeaders(p, r)
  BY DEF PreflightAnswer
<1> USE DEF PreflightAnswer, WithOrigin, Plain
<1>1. res.origin = Shown(p, r)
  BY <1>0 DEF Shown
<1>2. res.credentials = "true" <=> p.credentials
  BY <1>0 DEF Absent
<1>3. "origin" \in res.vary /\ v \subseteq res.vary
  BY <1>0
<1>4. r.method \in res.methods
  BY <1>0 DEF PreflightMethod
<1>5. (Open(p, "header") /\ r.headers = {}) \/ r.headers \subseteq res.headers
  BY <1>0 DEF PreflightHeaders
<1> HIDE DEF PreflightAnswer, WithOrigin, Plain
<1> QED BY <1>0, <1>1, <1>2, <1>3, <1>4, <1>5

\* Credentials go only with an answer made out to the request's own origin.
LEMMA DecorateOrigin ==
    ASSUME NEW p, PolicyInv(p), NEW r \in RequestSet, NEW s, NEW v
    PROVE  LET res == Decorate(p, r, Plain(s, v))
           IN  /\ ~(res.origin = Star /\ res.credentials = "true")
               /\ res.origin \in Origins => res.origin = r.origin /\ "origin" \in res.vary
               /\ v \subseteq res.vary
               /\ res.origin # Absent /\ "origin" \notin res.vary =>
                     /\ ~IsPreflight(r) /\ Shown(p, r) = Star /\ res.origin = Star
                     /\ r.origin \in Origins
               /\ ~(Open(p, "origin") \/ r.origin \in p.allowed["origin"]) \/ r.origin \notin Origins =>
                     res = Plain(s, v)
<1> DEFINE res == Decorate(p, r, Plain(s, v))
<1>1. CASE res = Plain(s, v)
  <2>0. res = Plain(s, v)
    BY <1>1
  <2> HIDE DEF res
  <2>1. /\ res.origin = Absent /\ Absent # Star /\ Absent \notin Origins
        /\ v \subseteq res.vary /\ res = Plain(s, v)
    BY <2>0, ValuesAssumption DEF Plain, Star, Absent
  <2> QED BY <2>1 DEF res
<1>2. CASE res # Plain(s, v)
  <2>1. /\ r.origin \in Origins /\ Star \notin Origins
        /\ Open(p, "origin") \/ r.origin \in p.allowed["origin"]
    BY <1>2, ValuesAssumption DEF Decorate, RequestSet, Star
  <2>2. p.credentials \in BOOLEAN /\ (Shown(p, r) = Star => ~p.credentials)
    BY <2>1, PolicyShape DEF Shown
  <2>3. /\ res.origin = Shown(p, r)
        /\ res.credentials = "true" <=> p.credentials
        /\ Shown(p, r) # Star \/ IsPreflight(r) => "origin" \in res.vary
        /\ v \subseteq res.vary
    <3>1. CASE res = SimpleAnswer(p, r, Plain(s, v)) /\ ~IsPreflight(r)
      BY <3>1, SimpleFields
    <3>2. CASE res = PreflightAnswer(p, r, Plain(s, v))
      BY <1>2, <3>2, PreflightFields
    <3> QED BY <1>2, <3>1, <3>2 DEF Decorate
  <2>4. Shown(p, r) \in {Star, r.origin}
    BY DEF Shown
  <2> HIDE DEF res
  <2>5. ~(res.origin = Star /\ res.credentials = "true")
    BY <2>2, <2>3
  <2>6. res.origin \in Origins => res.origin = r.origin /\ "origin" \in res.vary
    BY <2>1, <2>3, <2>4
  <2>7. res.origin # Absent /\ "origin" \notin res.vary =>
            ~IsPreflight(r) /\ Shown(p, r) = Star /\ res.origin = Star
    BY <2>3, <2>4
  <2> QED BY <2>1, <2>3, <2>5, <2>6, <2>7 DEF res
<1> QED BY <1>1, <1>2

\* No answer combines Access-Control-Allow-Origin: * with credentials.
THEOREM StarExcludesCredentials == Spec => []NeverStarWithCredentials
<1>1. IInv => NeverStarWithCredentials
  BY DecorateOrigin DEF IInv, ExchangeInv, NeverStarWithCredentials
<1> QED BY Invariance, <1>1, PTL

\* The wildcard says that the policy permits every origin, without credentials.
LEMMA StarServesAll ==
    ASSUME PolicyInv(policy), NEW r \in RequestSet, ~IsPreflight(r), Shown(policy, r) = Star,
           r.origin \in Origins, NEW res, res.origin = Star,
           NEW o \in Origins, NEW credentialed \in BOOLEAN
    PROVE  BrowserAccepts([r EXCEPT !.origin = o], res, credentialed)
               <=> Permits([r EXCEPT !.origin = o], credentialed)
<1> DEFINE q == [r EXCEPT !.origin = o]
<1>1. /\ q.origin = o /\ q.options = r.options /\ q.method = r.method
      /\ o # Absent /\ Star # o
  BY ValuesAssumption DEF RequestSet, Absent, Star
<1>2. "origin" \in policy.any /\ ~policy.credentials
  BY <1>1, ValuesAssumption, PolicyShape DEF Shown
<1>3. ~IsPreflight(q)
  BY <1>1, ValuesAssumption DEF IsPreflight
<1> HIDE DEF q
<1>4. BrowserAccepts(q, res, credentialed) <=> ~credentialed
  BY <1>1, <1>3 DEF BrowserAccepts
<1>5. Permits(q, credentialed) <=> ~credentialed
  BY <1>1, <1>2, <1>3 DEF Permits, PermitsMethods, Accepted, Open
<1> QED BY <1>4, <1>5 DEF q

\* The answer a request gets is one a browser accepts exactly if the policy
\* permits the request.
LEMMA DecorateAgrees ==
    ASSUME PolicyInv(policy), NEW r \in RequestSet, r.origin \in Origins,
           NEW s, NEW v, NEW credentialed \in BOOLEAN
    PROVE  BrowserAccepts(r, Decorate(policy, r, Plain(s, v)), credentialed)
               <=> Permits(r, credentialed)
<1> DEFINE p == policy
           plain == Plain(s, v)
           res == Decorate(p, r, plain)
           known == Open(p, "origin") \/ r.origin \in p.allowed["origin"]
<1>1. /\ Star \notin Origins /\ Absent \notin Origins /\ Empty \notin Origins
      /\ Absent # Star /\ plain.origin = Absent
  BY ValuesAssumption DEF Plain, Star, Absent, Empty
<1>2. known <=> r.origin \in Accepted("origin", Origins)
  BY DEF Accepted
<1>3. Shown(p, r) \in {Star, r.origin} /\ (Shown(p, r) = Star => ~p.credentials)
  BY <1>1, PolicyShape DEF Shown
<1>4. CASE ~known
  <2>1. res = plain
    BY <1>4 DEF Decorate
  <2> QED BY <1>1, <1>2, <1>4, <2>1 DEF BrowserAccepts, Permits, PermitsMethods
<1>5. CASE known /\ ~IsPreflight(r)
  <2>1. res = SimpleAnswer(p, r, plain)
    BY <1>1, <1>5 DEF Decorate
  <2>2. res.origin = Shown(p, r) /\ (res.credentials = "true" <=> p.credentials)
    BY <2>1, SimpleFields
  <2> HIDE DEF res
  <2>3. BrowserAccepts(r, res, credentialed) <=> (credentialed => p.credentials)
    BY <1>1, <1>3, <1>5, <2>2 DEF BrowserAccepts
  <2> QED BY <1>2, <1>5, <2>3 DEF Permits, PermitsMethods, res
<1>6. CASE known /\ IsPreflight(r)
  <2>1. res = PreflightAnswer(p, r, plain)
    BY <1>1, <1>6 DEF Decorate
  <2>2. /\ r.method \in Methods /\ r.headers \subseteq Headers
    BY <1>6 DEF IsPreflight, RequestSet
  <2> DEFINE asked == PreflightMethod(p, r) /\ PreflightHeaders(p, r)
  <2>3. asked <=> /\ r.method \in Accepted("method", Methods)
                  /\ r.headers \subseteq Accepted("header", Headers)
    BY <2>2 DEF Accepted, PreflightMethod, PreflightHeaders
  <2>4. CASE ~asked
    <3>1. res = plain
      BY <2>1, <2>4 DEF PreflightAnswer
    <3> QED BY <1>1, <1>6, <2>3, <2>4, <3>1 DEF BrowserAccepts, Permits, PermitsMethods
  <2>5. CASE asked
    <3>1. res # plain
      <4>1. res.origin = Shown(p, r)
        BY <2>1, <2>5 DEF PreflightAnswer, WithOrigin, Plain, Shown
      <4> HIDE DEF res
      <4>2. res.origin # plain.origin
        BY <1>1, <1>3, <4>1
      <4> QED BY <4>2 DEF res
    <3>2. /\ res.origin = Shown(p, r) /\ (res.credentials = "true" <=> p.credentials)
          /\ r.method \in res.methods /\ r.headers \subseteq res.headers
      BY <2>1, <3>1, PreflightFields
    <3> HIDE DEF res
    <3>3. BrowserAccepts(r, res, credentialed) <=> (credentialed => p.credentials)
      BY <1>1, <1>3, <3>2 DEF BrowserAccepts
    <3> QED BY <1>2, <1>6, <2>3, <2>5, <3>3 DEF Permits, PermitsMethods, res
  <2> QED BY <2>4, <2>5
<1> QED BY <1>4, <1>5, <1>6

\* Whatever the policy was when a request came, the answer it gets lets a
\* browser through exactly if the policy in force when it is given permits it.
THEOREM PolicyIsEnforced == Spec => []BrowserAgrees
<1>1. IInv => BrowserAgrees
  BY DecorateAgrees DEF IInv, ExchangeInv, BrowserAgrees
<1> QED BY Invariance, <1>1, PTL

\* Whatever a cache may do with an answer, by its Vary, agrees with the policy.
THEOREM CachesAreTold == Spec => []CachesMayReuse
<1>1. ASSUME IInv, Answered PROVE CachesMayReuse
  <2> DEFINE r == exchange.req
             res == exchange.res
             known == Open(policy, "origin") \/ r.origin \in policy.allowed["origin"]
  <2>1. PICK s \in {200, 404}, v \in Varies :
            exchange.chain = Plain(s, v) /\ res = Decorate(policy, r, Plain(s, v))
    BY <1>1 DEF IInv, ExchangeInv
  <2>2. PolicyInv(policy) /\ r \in RequestSet
    BY <1>1 DEF IInv, ExchangeInv
  <2>3. exchange.chain.vary = v
    BY <2>1 DEF Plain
  <2>4. /\ v \subseteq res.vary
        /\ res.origin \in Origins => res.origin = r.origin /\ "origin" \in res.vary
        /\ res.origin # Absent /\ "origin" \notin res.vary =>
              /\ ~IsPreflight(r) /\ Shown(policy, r) = Star /\ res.origin = Star
              /\ r.origin \in Origins
        /\ ~known \/ r.origin \notin Origins => res = exchange.chain
    BY <2>1, <2>2, DecorateOrigin
  <2>6. r.origin \notin Origins \/ r.origin \notin Accepted("origin", Origins) =>
            ~known \/ r.origin \notin Origins
    BY DEF Accepted
  <2> HIDE DEF r, res, known
  <2>7. ASSUME res.origin # Absent, "origin" \notin res.vary,
               NEW o \in Origins, NEW credentialed \in BOOLEAN
        PROVE  BrowserAccepts([r EXCEPT !.origin = o], res, credentialed)
                   <=> Permits([r EXCEPT !.origin = o], credentialed)
    BY <2>2, <2>4, <2>7, StarServesAll
  <2> QED BY <2>3, <2>4, <2>6, <2>7 DEF CachesMayReuse, r, res
<1>2. IInv => CachesMayReuse
  BY <1>1 DEF CachesMayReuse
<1> QED BY Invariance, <1>2, PTL

-----------------------------------------------------------------------------
(* Calls that throw. *)

\* allow_methods touches the rule about methods alone.
LEMMA MethodsAlone ==
    ASSUME NEW p \in Policies, NEW S \in SUBSET Enumerated
    PROVE  LET q == WithValues(p, "method", S)
           IN  /\ q.credentials = p.credentials
               /\ q.allowed["method"] = p.allowed["method"] \cup S
               /\ \A kind \in Kinds \ {"method"} :
                     /\ kind \in q.any <=> kind \in p.any
                     /\ kind \in q.mirror <=> kind \in p.mirror
                     /\ q.allowed[kind] = p.allowed[kind]
               /\ "method" \notin q.any \cup q.mirror
BY DEF WithValues, Policies, Kinds

\* An answer to a request that is no preflight does not depend on that rule.
LEMMA SimpleIgnoresMethods ==
    ASSUME NEW p, NEW q, NEW r, ~IsPreflight(r), NEW res,
           q.credentials = p.credentials,
           \A kind \in {"origin", "exposed"} :
               /\ kind \in q.any <=> kind \in p.any
               /\ kind \in q.mirror <=> kind \in p.mirror
               /\ q.allowed[kind] = p.allowed[kind]
    PROVE  Decorate(q, r, res) = Decorate(p, r, res)
<1>1. Open(q, "origin") <=> Open(p, "origin")
  BY DEF Open
<1>2. WithOrigin(q, r, res) = WithOrigin(p, r, res)
  BY DEF WithOrigin
<1>3. SimpleAnswer(q, r, res) = SimpleAnswer(p, r, res)
  BY <1>2 DEF SimpleAnswer
<1> QED BY <1>1, <1>3 DEF Decorate

\* A builder call that throws is felt by preflights alone, and only in the
\* methods they ask for.
THEOREM RefusalStaysContained == Spec => RefusalIsContained
<1> DEFINE Contained ==
        \A r \in RequestSet :
          /\ ~IsPreflight(r) =>
                Decorate(policy', r, Plain(200, {})) = Decorate(policy, r, Plain(200, {}))
          /\ \A credentialed \in BOOLEAN :
                Permits(r, credentialed)' =>
                    PermitsMethods(r, credentialed, Accepted("method", Methods) \cup Enumerated)
<1>1. ASSUME IInv, [Next]_vars, refused', policy' # policy
      PROVE  Contained
  <2>1. PICK S \in SUBSET Enumerated : policy' = WithValues(policy, "method", S)
    BY <1>1 DEF Next, Configure, AllowWildcard, AllowValues, AllowMethods, AllowCredentials,
                MaxAge, Refuse, Becomes, Handle, Arrive, Resume, ChainThrows, Leave, vars
  <2>2. policy \in Policies
    BY <1>1 DEF IInv, PolicyInv
  <2>3. /\ policy'.credentials = policy.credentials
        /\ policy'.allowed["method"] = policy.allowed["method"] \cup S
        /\ \A kind \in Kinds \ {"method"} :
              /\ kind \in policy'.any <=> kind \in policy.any
              /\ kind \in policy'.mirror <=> kind \in policy.mirror
              /\ policy'.allowed[kind] = policy.allowed[kind]
        /\ "method" \notin policy'.any \cup policy'.mirror
    BY <2>1, <2>2, MethodsAlone
  <2>4. ASSUME NEW r \in RequestSet, ~IsPreflight(r)
        PROVE  Decorate(policy', r, Plain(200, {})) = Decorate(policy, r, Plain(200, {}))
    BY <2>3, <2>4, SimpleIgnoresMethods DEF Kinds
  <2>5. /\ Accepted("origin", Origins)' = Accepted("origin", Origins)
        /\ Accepted("header", Headers)' = Accepted("header", Headers)
    BY <2>3 DEF Accepted, Open, Kinds
  <2>7. Accepted("method", Methods)' \subseteq Accepted("method", Methods) \cup Enumerated
    <3>1. Accepted("method", Methods)' = policy.allowed["method"] \cup S
      BY <2>3 DEF Accepted, Open
    <3>2. policy.allowed["method"] \subseteq Accepted("method", Methods)
      BY <1>1 DEF IInv, PolicyInv, OneRule, Open, Kinds, Accepted
    <3> QED BY <3>1, <3>2
  <2>6. ASSUME NEW r \in RequestSet, NEW credentialed \in BOOLEAN, Permits(r, credentialed)'
        PROVE  PermitsMethods(r, credentialed, Accepted("method", Methods) \cup Enumerated)
    BY <2>3, <2>5, <2>6, <2>7 DEF Permits, PermitsMethods
  <2> QED BY <2>4, <2>6
<1>2. IInv /\ [Next]_vars => [refused' => Contained]_policy
  BY <1>1
<1> QED BY Invariance, <1>2, PTL DEF Spec, RefusalIsContained
=============================================================================
