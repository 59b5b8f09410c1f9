# EchoNexus in TLA+

EchoNexus is a small C++ web framework on coroutines (Boost.Asio and
Boost.Beast), with a benchmark runner in TypeScript that launches, measures and
stops servers of several frameworks. The modules here model the request path of
the library, from the sockets to the routes, and the runner's handling of
processes and results. TLC checks them on small instances; TLAPS proves the
properties that matter most for every value of the constants.

Paths are relative to the repository. `PROJECT.json` maps each definition to the
lines it models and lists the runs, their mutants, the findings, the hazards and
the theorems.

## Inventory

| Component | Source | State | Operations | What is hard | What makes it correct |
| --- | --- | --- | --- | --- | --- |
| executor | `src/serve.cpp` | the handler, the acceptor, a socket, a buffer and a response for each session | `serve`, `session`, `handle_request`, `to_beast_response` | sessions interleave; requests are pipelined; handlers throw; clients leave at any time | one request at a time, answered in order, nothing after a closing answer, no session left over |
| handler | `src/handler.cpp` | a chain, a fallback | `use` (three overloads), `fallback`, `handle`, `dispatch` | recursion through composed handlers; `next` awaited never, once, again, after an exception | an application behaves like the list of its layers |
| nexus | `src/serve.cpp` | an executor and a handler | `use`, `fallback`, `serve` | the composition: layers throw, catch and answer for others, while requests are pipelined | a client gets the answers an HTTP server owes it, all of them and told apart; what reaches the logger is logged once |
| cors | `src/middlewares/cors.cpp` | the policy | presets, nine families of builder calls, `handle` | exclusions that must hold in any order of calls, and after a call that throws | browsers accept what the policy permits and nothing else, and caches reuse what suits others |
| router, tables | `src/middlewares/router.cpp` | `routes`, `dynamic_routes`, builders with a selection | `route`, `get` ... `trace`, `on`, `layer` | builders that are copied and interleaved on one path | the tables hold what the calls say |
| router, requests | `src/middlewares/router.cpp` | the pipeline, and the mount prefix and parameters in the request's context | `nest`, `layer`, `fallback`, `handle`, `mounted_child::handle`, `route_tail_for` | a context shared by nested routers and put back on every way out | the most specific route answers under its own prefix, and no trace stays |
| logger | `src/middlewares/logger.cpp` | two entries of the context | one middleware; `read_header`, `get_client_ip` | what is printed when the rest throws; header lines that repeat | one line for each request that comes back to it, with the status and the address it has |
| response | `include/types/response.hpp` | status, body, headers | constructors, `set_header`, `set_body`, builders | the body is public, its length is a header | head and body agree on the wire |
| request, target parsing | `include/types/request.hpp`, `include/utils/parse.hpp` | path, query, headers | `get_header`, `parse_target`, `parse_query` | any text | what was sent is found, and nothing else |
| benchmark session | `benchmarks/src/cli.ts`, `preflight.ts`, `runtime.ts`, `cases.ts`, `skip-results.ts`, `health.ts`, `sampler/index.ts` | frameworks left, the case, the sampler, the results | preflight, setup, launch, health check, load, sampler, teardown, report | processes of a target fork and die by themselves; every step may fail | one target at a time, each case reported once, nothing left running |
| process tree | `benchmarks/src/cli.ts`, `sampler/common.ts` | a table of processes, a list of ids | `listUnixProcessTree`, `stopProcessTree`, `aggregateProcessTree` | `ps` is not atomic | the tree, all of it and nothing else |
| options, report, probing | `benchmarks/src` otherwise | none | flags, formatting | - | - |

How they interact. `nexus::serve` gives its handler to the executor, which calls
it for each request that a session has read. The handler's `dispatch` calls
middlewares, which await `next`; `cors` and `router` are such middlewares. A
router is a handler (its pipeline) with its routes behind it, and a nested router
is an entry in the pipeline of its parent. The response goes back up through the
same layers and is framed by `to_beast_response`. All routers on the way of a request
share its context. The tables are filled before `serve` is called, as the example
and the tests do it. The runner's session calls the process tree to stop and to
sample a target.

## Modules

### Executor: `HttpExchange`, `BeastExecutor`, `BeastExecutor_proofs`

`HttpExchange` is what an HTTP/1.1 connection promises: requests are handled in
order, each is answered before the next is taken, and after an answer that closes
nothing follows. `BeastExecutor` is `serve.cpp`. The process counter `pc[c]` of a
connection is the suspension point of its `session` coroutine: `Read` and
`ReadFails` are the two completions of `async_read`, `HandlerReturns` and
`HandlerThrows` those of the handler, `Write` and `WriteFails` those of
`async_write`; `Shutdown` is what follows the loop. `Serve` and `RunOrThrow` are
the start-up, which may fail at every step and be called again; `Accept` and
`AcceptFails` the accept loop. `Connect`, `Send` and `Leave` are the clients, who
pipeline, half-close and reset when they like. A request is its HTTP version, its
Connection header and whether it parses; a response is its status and whether it
keeps the connection, with the rule of `to_beast_response`.

### The whole service: `Service`, `Service_proofs`

`Service` is what `nexus::serve` puts together. It has the state of
`BeastExecutor` and uses its actions as conjuncts: each step of a session is a
step there and what application or wire do at that time. Between `Read` and
`Respond` or `Fail` a request goes down a list of layers (`PassOn`, `Preflight`,
`Endpoint`) and comes back as a response (`Return`) or an exception (`Unwind`);
that an application is such a list is what `Dispatch` shows of `Onion`. The layers
are the logger, `cors`, and one of the user's that catches. Responses are made as
`response.hpp` makes them, with the public `body` and the Content-Length header
that `set_body` writes, and framed as `to_beast_response` does. On the wire are
message heads and units of bodies; a client (`Take`) finds the end of an answer
from its head, as RFC 9112 tells it to, and gives up where a head should be and is
not.

`InSync` says when it never has to: as long as no answer is `Misframed`. Such are a
body that was assigned after `set_body`, one that is sent where a client expects none
(to HEAD, or with 204 or 304: the library does not drop it), and an answer with a 1xx
status, behind which a client waits for another. A response of the model has no
Transfer-Encoding header, which the library would pass on as any other.
`ClientsExchange` is `HttpExchange` again, now seen by the client through all of this, and `EveryRequestAnswered` that nothing gets lost.
`LoggedOnce` and `GrantedUnlessThrown` relate what the layers did, in any order of
them, to what the client got. No request is logged twice, and one that comes back to
the logger is logged with the status that its client gets; none of the layers here
changes the status of a response that passes it. One that throws through the logger is
in no log, which `EveryRequestLogged` refutes the documentation with (finding 4), and
one that throws through `cors` has no CORS headers.

### Text: `RequestText`

What `handle_request` and the logger make of text, on characters: `ParseTarget`
and `ParseQuery` (`utils/parse.hpp`), `HeaderMap` (the loop over the header lines,
which overwrites a line with the next of the same spelling), `GetHeader` and
`ReadHeader` (lookups without regard to case, whose choice among several spellings
is that of an unordered map: a set of outcomes), `ClientIp`. The properties state
the result by positions in the text, without the parser's loops. Their proofs are in
`RouterRegistry_proofs`, beside those about the other texts.

### Chain: `Onion`, `Dispatch`, `Dispatch_proofs`

`Onion` says what composition promises: one list of layers, which a request goes
down and comes back up through. `Dispatch` is `handler.cpp`: a `next` function is
a sequence of positions, as `dispatch` binds an index and a tail that is again a
`next` function. Middlewares are user code and may do all it can: await `next` up
to a bound, return, throw, catch. `ImplementsOnion` maps the chains, with composed
handlers in their places and fallbacks behind them, to the list of layers. Handlers are composed
without a cycle (`NoCycleAssumption`): in one, `dispatch` would recurse for ever
before it calls anything.

### CORS: `Cors`, `Cors_proofs`

The builder calls with their checks, in the order in which they check and assign,
and `handle` with its suspension: the policy is read after the rest of the chain
was awaited. `Permits` reads the promise off the policy, `BrowserAccepts` is the
CORS check of a browser on the answer; `BrowserAgrees` says they coincide.
`CachesMayReuse` looks at an answer as a cache does, which gives it to others unless
its Vary tells them apart: what the chain put in Vary is still there, an answer made
out to one origin names Origin, and one that grants without naming it is what every
origin is to get. `RefusalIsContained` is about calls that throw. All of them check
before they assign, but `allow_methods` is a loop over `allow_method` and may throw
half-way: the methods before the invalid one stay, and that is all that stays.

### Router: `RouterPaths`, `RouterStrings`, `RouterDispatch`, `RouterDispatch_proofs`, `RouterRegistry`, `RouterRegistry_proofs`

`RouterPaths` has the functions on paths as sequences of segments;
`RouterStrings` has the code's functions on characters, and shows that they do on
segments what `RouterPaths` says; that is proved in `RouterRegistry_proofs`.
`RouterDispatch` is one request in nested
routers, with its context. `DispatchMount`, `LeaveChild` and `LeaveMount` are the
three places of `mounted_child::handle` that set or restore the prefix;
`DispatchRoute` is `route_tail_for` and `Leave` its `restore_params`. A middleware
may once change the request before it awaits `next` (`AwaitNext`). What it puts
under "params" itself is what the routes have to put back. A changed path need not
have the prefix of the mount it is in, but `relative_path_for` cuts off as many
characters as that prefix has: if there are fewer, `substr` throws in `route_tail_for`
(`OutOfRange`), if there are as many, "" is the path of no route, and otherwise the
cut is between two segments or in the middle of one (`Length`, `Within`, `Into`), whose
end then is a segment for dynamic routes. `ParamsInScope` has it as it is: a parameter
is a segment of the path, or the end of one if it is the first of a changed path.
`CutByCharacters` compares all this with the code's functions on characters.
`Resolution` says which routes answer a request without prefixes, loops or next
functions, and `AnsweredAsResolved` compares. `RouterRegistry` is the other half:
`register_endpoint` and the builders. `ChainsAsWritten` recomputes the tables from
the log of calls alone.

### Benchmark runner: `ProcessTree`, `ProcessTree_proofs`, `BenchSession`, `BenchSession_proofs`

`ProcessTree` puts the walk over the process table beside a host whose processes
fork, exit and are adopted while `ps` reads one after the other. `BenchSession` is
a session, one action for each step that may fail, beside the targets' processes:
frameworks serve in one process, by a cluster whose workers hold the target's
pipes and exit without their primary (`apps/koa`), by workers that hold the pipes and
stay without their leader (`apps/fastapi`), or by workers that listen for
themselves with SO_REUSEPORT and without pipes (`apps/elysia`). That the workers of
`uvicorn --workers` inherit the pipes and stay is an assumption: uvicorn is not part
of the repository. `stopProcessTree` kills whom it has listed and is still there; a
worker that is started anew is another process (`Gone`).

The `MC` modules give constants to the runs; `MCRouterRegistry` puts
`RouterRegistry`, `RouterStrings` and `RequestText` into one, in which calls are made
or a text grows. Definitions with `\* Mutant` above
them are plausible bugs; each is used to show that a property sees it.

## Runs

| Run | Instance | Shows |
| --- | --- | --- |
| `BeastExecutor` | two connections, two requests each, one kind that parses and one that does not, one failed accept, fair | order, silence after a close, matching answers, refinement of `HttpExchange`; sessions end |
| `Service` | one connection, two requests of three kinds with three methods, six lists of layers, nine responses, fair | framing, log, CORS headers, refinement of `HttpExchange` by what the client gets; every request is answered |
| `Dispatch` | three handlers, two levels, four entries and three fallbacks, two middlewares, two awaits each | refinement of `Onion`; every request ends |
| `Cors` | two origins, two methods of which one can be named, one header | the policy, the browser's and a cache's view of it, calls that throw |
| `RouterDispatch` | 96 configurations of three nested routers and 100 of one with overlapping routes, 12 paths, five changes of a path, parameters that a middleware sets, three methods, one of them in small letters and one unknown | context, scope, resolution |
| `RouterRetry` | as `RouterDispatch`, nested routers only | finding 1 |
| `RouterRegistry` | two builders, two methods, two patterns, four calls; paths of up to 5 characters of `/`, `a`, `b`, prefixes of up to 3 and 2; targets of up to 6 of `a`, `/`, `?`, `&`, `=`; two header lines of up to 4 of `a`, `,` and a blank, in two spellings | tables against the log; functions on strings against functions on segments, for paths without the prefix too; targets and headers as they were sent |
| `ProcessTree` | four processes, both uses | the list is the tree; both calls end |
| `BenchSession` | three frameworks, one of them twice, with one and two workers | results, one target at a time, the session ends unless workers hold the pipes |
| `BenchOrphans` | a framework with shared ports and another | finding 2 |
| `BenchSamplers` | two cases | finding 3 |
| `ServiceLog` | one request, the logger around the endpoint | finding 4 |

Why these bounds are enough.

- Connections share nothing but the handler and the acceptor, so two show all
  interleavings of a pair. Two requests are one that is in progress and one
  behind it; the proofs cover the rest. The request of the run keeps a connection
  of HTTP/1.0, so that every Connection header of a response makes a difference;
  the other versions are in `Service`.
- In `Service` connections are independent of each other, and two requests are
  the least for which an answer can be taken for a part of another. Bodies of up to
  two units have a length that is right, too small and too large. The lists of
  layers have the catching one outside, inside and between the others, and logger
  and `cors` either way round; one is empty.
- `dispatch` treats an entry by what it is and by whether it is the last. Two
  entries, two levels of composition and a handler reachable on two ways have all
  combinations of these with a tail of any depth up to two. Two awaits are a first
  call and a retry. One request is enough: requests share only the chains, which
  do not change once one is served.
- In the router three levels have a parent and a child on both sides of a mount.
  Both the prefix of a mount and a routed segment may repeat, so that a wrong
  prefix can match by accident. The changed paths are, behind the prefix of one
  nested router, out of range, empty, the path of a route that is not theirs, and cut
  at the beginning and in the middle of a segment, whose end is a literal of a route
  in one case and a parameter in another.
- Six characters of a target hold a path and a parameter, or a parameter that is
  given twice with different values, or two of them; two lines of a
  header are one that overwrites and one that competes.
- In the same run `RouterStrings` reaches every combination of leading, trailing and doubled
  slashes at the places where prefix and path meet.
- `RouterRegistry` needs four calls for the shortest group of interest: register,
  layer, register, layer. Static paths go through the same functions and are in
  the theorems; the run has patterns, whose order matters too.
- Four processes are the root, a child, a grandchild and one more that is forked
  or adopted meanwhile. The root's id is between the others, so that a child can
  be read before or after it.
- `BenchSession` has no shared ports in use, since with them `OneTarget` fails
  (`BenchOrphans`): on the platform of the run such a case is skipped, which is
  the fourth way into the report.

Deadlock is not checked where the system really stops: requests end, sessions
close, a runner exits.

## Fairness

- `BeastExecutor`: weak fairness of each session's steps and of the accept of
  each pending connection. Asio resumes a coroutine whose operation has completed
  and the kernel hands out connections. It assumes that handlers end and that
  clients read what is written; the code has no timeout, so a client who neither
  sends nor leaves keeps its session, and nothing is claimed of it. Clients are
  not fair, nor is the start-up.
- `Service`: the same, and a client takes an answer that has arrived.
- `Dispatch`: weak fairness of each request's steps, once it has arrived: no
  middleware waits for ever, and the number of its awaits is bounded.
- `ProcessTree`: weak fairness of the runner's own steps. Processes are not fair:
  they may ignore SIGTERM and fork on.
- `BenchSession`: weak fairness of the runner's steps (its commands end, and the
  health check has a deadline) and of `OrphansExit`, for the workers of a cluster
  alone (`node:cluster` ends them when the primary has disconnected). Targets need not
  do anything else, and the workers of the other kinds need not end: `SessionFinishes`
  therefore has the exception `HeldUp`: with `uvicorn --workers` whose leader exits
  before the teardown, `cli.ts:549-555` waits for the pipes for ever and no report is
  written. It is no finding here, since what uvicorn does is an assumption.

## Proofs

Eight modules hold theorems: `BeastExecutor_proofs`, `Service_proofs`,
`Dispatch_proofs`, `Cors_proofs`, `RouterDispatch_proofs`,
`RouterRegistry_proofs`, `ProcessTree_proofs` and `BenchSession_proofs`. They hold
for all values of the constants that satisfy the named assumptions of the modules;
nothing else is assumed. A theorem about a property that a run checks states the
same definition. What a run checks and no theorem states is listed at the end.

- `BeastExecutor`. The inductive invariant adds to the types, for each
  connection, how many requests were consumed and answered at each `pc`
  (`OneInFlight`), that a closing answer is the last one, and that the response in
  hand and all answers given match their requests; and that a session exists only
  once `serve` has stored a handler. `SerialPerConnection`, `SilentAfterClose`,
  `AnswersMatch` and `NeverUnconfigured` follow. Each step then is a step of
  `HttpExchange` or a stutter (`Implements`). Neither property is inductive alone:
  that the k-th answer matches needs to know which request the response in hand
  was made for. `SessionIsBounded` is the half of `NoSessionLeak` that needs no
  fairness: a measure for each connection that its own steps lower, that no other
  connection, the acceptor or `serve` can change, and that only a request that
  arrives makes higher, which a client that has gone does not send.
- `Service`. `RunsTheExecutor`: each of its steps is a step of `BeastExecutor` or
  leaves the executor's variables alone, so that what is proved of the executor
  holds here (`KeepsTheExecutor`). The invariant of the rest has four parts for
  each connection. `Flow`: how deep the request in progress is, and how many frames,
  lines and thrown requests there are by now. `Bookkeeping`: for every request that was consumed, which of the
  layers it has come back through, by return or by exception, and hence the
  lines in the log and the headers on the response. `Framing`: where the
  messages lie on the wire, that their units follow their heads, and how far the
  client has taken them. `Promised`: what each response promises follows from its
  request and the layers. A client that meets a head at each place where one
  should be has read the bodies of all answers before (`StaysInSync`), unless one
  of them was `Misframed`; `LogsOnce` and `GrantsUnlessThrown` read off the books
  what was written. `ClientsExchangeHolds` maps a step of the client to one of
  `HttpExchange` as long as it trusts what it reads (`Trusted`), and needs the
  framing to know that the answer it has taken is the one the session gave.
- `Dispatch`. Along the stack of a request the invariant says what a middleware's
  next function leads to: the layers passed so far and those ahead of it make up
  all layers of the application (`InOrder`). `LeadsToTheRest` is this for the
  layers ahead, and `IsAnOnion` follows step by step, since entering a composed
  handler, or leaving a chain for the tail behind it, changes neither list. The
  layers of an application are a function that is defined by recursion along the
  composition; that it exists, and what it is for a handler from those of its
  entries, is proved from the well-foundedness that `NoCycleAssumption` states.
- `Cors`. `PolicyInv` (credentials exclude wildcards, one rule for each kind) is
  inductive over the builder calls, and `ExchangeInv` says of an answer that it is
  `Decorate` of the policy in force. The policy may change while a request is
  pending but not between an answer and its departure, so `BrowserAgrees` is a
  fact about one policy, proved by cases on how it opens a kind. So is
  `CachesAreTold`: without Origin in Vary the answer is the one for the wildcard, which
  serves all origins alike (`StarServesAll`). `RefusalStaysContained` is about two
  policies: a call that throws leaves the second like the first but for the rule for
  methods, which answers to other than preflights do not read (`SimpleIgnoresMethods`).
- `RouterDispatch`. A next function is a sequence of what is still to run: the rest
  of a pipeline, then the routes of its router, then the way back to the parent,
  which puts in force the prefix that the parent's routes are relative to
  (`Linked`); the prefixes of all routes in it are prefixes of the path, unless a
  middleware has changed the path (`Under`); outside of mounts there is no way back
  (`RootLevel`). That holds for every coroutine on the stack and what it may still
  await (`StackInv`). The prefix in the context is that of the routes that the next
  function leads to first (`ScopeInv`). A retry inside a mount breaks `Linked` and
  `ScopeInv`, as finding 1 says, so both are for stacks without one. The outermost
  mount has saved the context of the application and a route's endpoint the
  parameters from outside of it (`ParamsInv`; that these are segments of the path
  needs where the characters of a prefix end in a path, `EndsWithin` and `LeftOver`),
  which is why nothing is left in the
  context when the stack is empty (`RestoresTheContext`), with retries or without.
  `AnswersAsResolved` compares a request with `Resolution`, which knows no next
  functions. The answers that a next function leads to are given along its elements,
  from the last to the first (`Ahead`): the answers of the rest of a pipeline, then
  those of the routes, then those of what comes behind. `AnswersInv` says, for the
  call in progress and for each middleware on the stack, that the resolution is one
  fallback for each that was passed on the way, followed by just these answers
  (`Leads`). A step down the pipeline, into a mount or past routes that do not match
  changes neither; a route or a fallback that runs is the first of them. It needs
  that a static path has one entry (a map in the code), that the methods of the 405
  answer have an order, and that no router is mounted in itself at "/"
  (`MountsAssumption`: there the code would recurse until the stack overflows, and
  there is no resolution). The tables, routers, paths and the number of calls are
  arbitrary.
- `RouterRegistry`. `NoBareEndpoint` needs that the methods a builder has selected
  are registered in the bucket of its path, for every builder and copy, and that
  calls never take a method away (`BucketsGrow`). `PatternsAreUnique` needs that a
  pattern that is not found is not there. `ChainsAreWritten` is about a log that
  grows: what a builder has selected are the methods of the group of calls in its
  own past (`StateOK`), so a call to `layer` adds to the layers of just those
  endpoints, and a registration is its endpoint's last one and empties them.
  `PatternsAreInOrder`: the patterns with an entry are those with a first use, and
  a new entry's first use is the latest call.
- `RouterStrings`, in `RouterRegistry_proofs`. A path spells its segments, each
  after a slash (`Spells`), and since a segment is not empty and has no slash no
  other segments spell it. What `SplitPathSegments` has split off after each
  character is an invariant of its fold, shown by induction along the text; joining,
  matching and cutting then are the like of two spellings, one of which may be the
  beginning of the other. `MatchesBySegments` and `RelativeHasTheRest` hold for
  texts of any length, with slashes in any places.
- `RequestText`, in the same module. `TargetsAreRead` rests on an invariant of the
  loop of `parse_query` (`Queried`): the parts that have ended before a character,
  where the present one began, and that the map holds under each name the value of
  the last of these parts with that name. For `HeadersAreFound` it is what the
  header lines read so far have left in the map (`Read`); trimming and the first hop
  are least and greatest positions of a kind. Texts, lines and spellings are
  arbitrary.
- `ProcessTree`. The processes below the target in the table that was read are the
  least set that is closed under children (`Below`). What is visited or queued is
  in it, and of the tree of the host (`WithinInv`); its children are not missing
  (`ClosedInv`), so that when the queue is empty the list is all of it, each once.
  Everyone was found below one who was on the list before (`FoundInv`), and what is
  still to be signalled is the beginning of the list (`SignalInv`), whence `SignalsChildrenFirst`.
  While `ps` reads, a process whose ancestors have not exited is in the table it
  reads where it was at the start (`StartInv`), whence `LetsNoneEscape`.
  `CallIsBounded` is the half of `Returns` that needs no fairness: a sample or a
  stop takes at most four steps for each process and five more, each of the runner's
  steps is one less, and no fork or exit changes that, since the walk takes each row
  it has read once and the list is not read again.
- `BenchSession`. `PassedIfMeasured`: a run's number is in `results` only once the
  run is over, and `outcome` says whether it is in `measured`. `OneTarget`, for
  selections without shared ports: from the launch on all processes belong to the
  case, because the teardown waits for the end of the pipes, which every process
  of the case holds; it needs that between cases there are none. `ReportsEachOnce`
  counts, for every case: how often it was selected is how often it is in the
  results, in the frameworks that are left and in the cases of the present one
  that are left (`Balanced`). Each way of skipping a case moves it from one of
  these to another. A session that was told to set up only reports nothing.
  `SessionIsBounded` is the half of `SessionFinishes` that needs no fairness: every
  step of the session lowers a measure of the frameworks, cases and stages that are
  left, whatever fails, and the targets' processes do not touch it. That the steps
  which wait for a process do come is what the run checks.

Induction is used in two forms that the provers can instantiate: for sets of
natural numbers, from the well-foundedness of their order, and for the least
elements of a set of handlers or processes. A fold over a text is reasoned about by
its intermediate results, one for each character.

Some theorems have no run of their own: `AlwaysConfigured` (no session without a
handler), `RunsTheExecutor`, `KeepsTheExecutor`, the inductive invariants,
`StarExcludesCredentials`, `NothingIsUnregistered` (`BucketsGrow`, which
`ChainsAsWritten` implies on its instance), `OneRuleInForce`, `OneEntryEach`, which
`PatternsInOrder` implies on its instance, type correctness except the
executor's and that of `RouterDispatch`, and the bounds `SessionIsBounded` (of the
executor and of the benchmark session) and `CallIsBounded`, which are the proved
part of properties that runs check.

Only model-checked: liveness (`NoSessionLeak`, `EveryRequestAnswered`, `Ends`,
`Returns`, `SessionFinishes`), which needs ENABLED and is out of the prover's reach.
`CutByCharacters` compares functions on strings and is checked up to the length of the
run. Every other invariant and every action property of the passing runs, and every
refinement, is a theorem. The four runs that refute a sentence of the documentation
do so on one instance each, which is all that takes.

## Findings

1. `router.cpp:63`: a middleware of a nested router that awaits `next` again after
   the first call fell through runs the rest of its router under the parent's
   prefix. `ScopeFollows` and `AnsweredAsResolved` therefore exclude retries inside
   a mount (`RetryInsideMount`), and hold for all others.
2. `cli.ts:540`: a multi-worker Elysia target whose leader exits by itself, or
   whose tree cannot be listed, leaves its workers beside the next target, against
   `benchmarks/GUIDE.md:16`.
3. `cli.ts:497`: a load that fails after the sampler was started leaves the
   sampler's loop running, against `README.md:200`.
4. `logger.cpp:83`: a request whose chain throws through the logger is answered and
   not logged, against `README.md:86` ("Log every request").

## Not modelled

- Status phrases, the text of JSON, the text of the logger's line, and what the
  logger puts into the context, which nothing here reads.
- `nexus` with an executor that is null, and a second `serve` on one executor.
- The example's own routes: its endpoints are instances of what `Service` has.
- Options, probing of the host, formatting of the report, load generation and the
  averages of samples: sequential code on text and numbers.
- `taskkill` and PowerShell on Windows; the applications of third-party frameworks
  beyond how they serve.
- A cache that keeps an answer to an origin which is not allowed: the code gives it no
  Vary (`cors.cpp:271`), and `CachesMayReuse` speaks of reuse for answers that grant.
- Process ids that are used again: `ProcessTree` uses each once, and the code has
  no protection against it.
- Changes of chains, routes or the handler while requests are in flight: the code
  has no lock and makes no promise. A policy of `cors` may change, and does.
- Time.

## Plan

The order was chosen by weight: executor, chain, CORS, requests in the router, its
tables, the runner, then their composition and the text of requests; then the
proofs, in the same order. All of that is in place. What could be added:

1. A bound for `Ends` of `Dispatch` and for a request in `RouterDispatch`, as the
   executor's session has one: middlewares that retry at several levels multiply, so
   it is a product along the stack.
2. A second `serve` on one executor, once the code says what it should do.
