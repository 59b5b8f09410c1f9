---------------------------- MODULE BenchSession ----------------------------
(***************************************************************************)
(* A session of the benchmark runner (src/benchmarks/src/cli.ts): which    *)
(* frameworks it can use, and for each case a target that is launched,     *)
(* measured and stopped, beside the targets' own processes, which fork,    *)
(* listen on the one port and die when they like.                          *)
(*                                                                         *)
(* Time, the load and the figures are left out: a command of the runner    *)
(* succeeds or fails.  Of the options the frameworks and the workers are   *)
(* kept; workloads and concurrency only repeat a case.                     *)
(***************************************************************************)
EXTENDS Naturals, FiniteSets, Sequences, SequencesExt

CONSTANTS
    Selected,       \* options.frameworks: a sequence, in which one may occur twice
    Workers,        \* options.workers: a sequence of numbers
    MultiKinds,     \* MultiKinds[f]: how framework f serves with several workers:
                    \*   "single"  in one process
                    \*   "cluster" by workers that hold the target's pipes and exit when
                    \*             their leader is gone (apps/koa: node:cluster)
                    \*   "prefork" by workers that hold the target's pipes and stay
                    \*             (apps/fastapi: uvicorn --workers)
                    \*   "shared"  by workers that listen for themselves with
                    \*             SO_REUSEPORT, without pipes, and stay (apps/elysia)
    Platforms,      \* the platforms the runner may be on
    None

Frameworks == ToSet(Selected)
Cases == [framework : Frameworks, workers : ToSet(Workers)]
Kinds == {"single", "cluster", "prefork", "shared"}

ASSUME OptionsAssumption ==
    /\ Selected \in Seq(Frameworks)
    /\ Workers \in Seq(Nat \ {0}) \ {<< >>}
    /\ MultiKinds \in [Frameworks -> Kinds]
    /\ Platforms \subseteq {"linux", "darwin", "windows"}

Kind(c) == IF c.workers = 1 THEN "single" ELSE MultiKinds[c.framework]

VARIABLES
    platform,       \* the host
    missing,        \* frameworks whose commands are missing on it
    oha,            \* is oha there
    setupOnly,      \* options.setupOnly
    pc,             \* where the runner is
    todo,           \* the frameworks a loop has still to look at
    usable,         \* availableFrameworks
    skipped,        \* skippedFrameworks
    cases,          \* the cases to run
    now,            \* the case it is at, and the name of its processes
    procs,          \* the processes of the targets
    listed,         \* the processes on stopProcessTree's list that are still there
    sampler,        \* of this case: "none", "running" or "broken"
    loops,          \* the cases whose sampler's loop runs
    outcome,        \* of this case: None, "passed" or "failed"
    results,        \* what goes into the report
    measured        \* history: the cases oha gave figures of

vars == <<platform, missing, oha, setupOnly, pc, todo, usable, skipped, cases, now,
          procs, listed, sampler, loops, outcome, results, measured>>

given   == <<platform, missing, oha, setupOnly>>
choice  == <<todo, usable, skipped>>
target  == <<procs, listed>>
figures == <<sampler, loops, outcome>>
report  == <<results, measured>>

\* framework by framework, each with all the numbers of workers
BuildCases(frameworks) ==
    [n \in 1 .. Len(frameworks) * Len(Workers) |->
        [framework |-> frameworks[((n - 1) \div Len(Workers)) + 1],
         workers   |-> Workers[((n - 1) % Len(Workers)) + 1]]]

SkipResult(c) == [case |-> c, status |-> "skipped", run |-> 0]
SkipResults(frameworks) ==
    [i \in DOMAIN BuildCases(frameworks) |-> SkipResult(BuildCases(frameworks)[i])]

Init ==
    /\ platform \in Platforms
    /\ missing \in SUBSET Frameworks
    /\ oha \in BOOLEAN /\ setupOnly \in BOOLEAN
    /\ pc = "preflight"
    /\ todo = Selected /\ usable = << >> /\ skipped = << >>
    /\ cases = << >> /\ now = 0
    /\ procs = {} /\ listed = {}
    /\ sampler = "none" /\ loops = {} /\ outcome = None
    /\ results = << >> /\ measured = {}

-----------------------------------------------------------------------------
(* Which frameworks can be used. *)

\* preflightFrameworks: one framework.
Preflight ==
    /\ pc = "preflight" /\ todo # << >>
    /\ todo' = Tail(todo)
    /\ IF Head(todo) \in missing
       THEN skipped' = Append(skipped, Head(todo)) /\ UNCHANGED usable
       ELSE usable' = Append(usable, Head(todo)) /\ UNCHANGED skipped
    /\ UNCHANGED <<given, pc, cases, now, target, figures, report>>

\* Setup only: no results.  Otherwise those of the frameworks without commands,
\* and oha is looked for if any other is left.
PreflightEnds ==
    /\ pc = "preflight" /\ todo = << >>
    /\ IF setupOnly THEN pc' = "prepare" /\ UNCHANGED results
       ELSE /\ results' = SkipResults(skipped)
            /\ pc' = IF usable # << >> /\ ~oha THEN "noOha" ELSE "prepare"
    /\ todo' = usable /\ usable' = << >> /\ skipped' = << >>
    /\ UNCHANGED <<given, cases, now, target, figures, measured>>

\* Mutant: the frameworks that were skipped before are skipped again.
SkipSessionAll ==
    /\ pc = "noOha"
    /\ results' = results \o SkipResults(Selected)
    /\ pc' = "reported"
    /\ UNCHANGED <<given, choice, cases, now, target, figures, measured>>

\* Without oha every case that is left is skipped: those of the selected frameworks
\* that preflight did not skip (buildGlobalCommandSkipResults).
SkipSession ==
    /\ pc = "noOha"
    /\ results' = results \o SkipResults(todo)
    /\ pc' = "reported"
    /\ UNCHANGED <<given, choice, cases, now, target, figures, measured>>

\* prepareFrameworksWithSkips: the setup of one framework, which may fail.
Prepare ==
    /\ pc = "prepare" /\ todo # << >>
    /\ todo' = Tail(todo)
    /\ \/ usable' = Append(usable, Head(todo)) /\ UNCHANGED skipped
       \/ skipped' = Append(skipped, Head(todo)) /\ UNCHANGED usable
    /\ UNCHANGED <<given, pc, cases, now, target, figures, report>>

PrepareEnds ==
    /\ pc = "prepare" /\ todo = << >>
    /\ IF setupOnly
       THEN pc' = "reported" /\ UNCHANGED <<results, cases>>
       ELSE /\ results' = results \o SkipResults(skipped)
            /\ cases' = BuildCases(usable)
            /\ pc' = "next"
    /\ UNCHANGED <<given, choice, now, target, figures, measured>>

-----------------------------------------------------------------------------
(* The processes of the targets. *)

Process(i, r, up) == [case |-> i, role |-> r, up |-> up]

Leader(i) == Process(i, 0, FALSE)
Worker(i, w) == Process(i, w, FALSE)

KindOf(p) == Kind(cases[p.case])

LeaderAlive(i) == \E p \in procs : p.case = i /\ p.role = 0

\* Who serves: the workers, or the leader if it has none.
Serves(p) == p.role = 0 <=> KindOf(p) = "single"

Listening == {p \in procs : p.up}

\* May p listen on the port beside those who do?
Bindable(p) ==
    \A q \in Listening :
        \/ q.case = p.case /\ KindOf(p) # "single"
        \/ KindOf(p) = "shared" /\ KindOf(q) = "shared"

Runner == <<given, pc, choice, cases, now, figures, report>>

\* Those who go leave the list as well: it is one of process ids, and whoever comes
\* after them in the same role is another process.
Gone(P) ==
    /\ procs' = procs \ P
    /\ listed' = listed \ {<<p.case, p.role>> : p \in P}
    /\ UNCHANGED Runner

\* A leader starts a worker, anew if one has gone.
StartWorker(i, w) ==
    /\ LeaderAlive(i)
    /\ Kind(cases[i]) # "single" /\ w \in 1 .. cases[i].workers
    /\ ~\E p \in procs : p.case = i /\ p.role = w
    /\ procs' = procs \cup {Worker(i, w)}
    /\ UNCHANGED <<Runner, listed>>

Listen(p) ==
    /\ ~p.up /\ Serves(p) /\ Bindable(p)
    /\ procs' = (procs \ {p}) \cup {Process(p.case, p.role, TRUE)}
    /\ UNCHANGED <<Runner, listed>>

\* A process exits: of itself, because it cannot listen, or on the TERM of stopProcessTree.
Exit(p) == Gone({p})

\* The worker of a cluster whose leader is gone: node disconnects it.  The other
\* kinds of workers notice nothing.
Orphan(p) == p.role # 0 /\ KindOf(p) = "cluster" /\ ~LeaderAlive(p.case)

OrphansExit ==
    /\ \E p \in procs : Orphan(p)
    /\ Gone({p \in procs : Orphan(p)})

Targets ==
    \/ \E i \in DOMAIN cases, w \in 1 .. 2 : StartWorker(i, w)
    \/ \E p \in procs : Listen(p) \/ Exit(p)

-----------------------------------------------------------------------------
(* One case. *)

Supported(c) == Kind(c) = "shared" => platform = "linux"

\* framework.supportsWorkers: an unsupported case is skipped.
SkipCase ==
    /\ pc = "next" /\ now < Len(cases)
    /\ ~Supported(cases[now + 1])
    /\ now' = now + 1
    /\ results' = Append(results, SkipResult(cases[now + 1]))
    /\ UNCHANGED <<given, pc, choice, cases, target, figures, measured>>

Launch ==
    /\ pc = "next" /\ now < Len(cases)
    /\ Supported(cases[now + 1])
    /\ now' = now + 1
    /\ procs' = procs \cup {Leader(now + 1)}
    /\ sampler' = "none" /\ outcome' = None
    /\ pc' = "health"
    /\ UNCHANGED <<given, choice, cases, listed, loops, report>>

\* The target cannot be spawned: there is nothing to stop.
LaunchFails ==
    /\ pc = "next" /\ now < Len(cases)
    /\ Supported(cases[now + 1])
    /\ now' = now + 1
    /\ sampler' = "none" /\ outcome' = "failed"
    /\ pc' = "push"
    /\ UNCHANGED <<given, choice, cases, target, loops, report>>

\* waitForHealth: somebody answers on the port.
Healthy ==
    /\ pc = "health" /\ Listening # {}
    /\ pc' = "warmup"
    /\ UNCHANGED <<given, choice, cases, now, target, figures, report>>

\* The try block is left for the finally block.
Fail ==
    /\ outcome' = "failed"
    /\ pc' = "finally"
    /\ UNCHANGED <<given, choice, cases, now, target, sampler, loops, report>>

Unhealthy == pc = "health" /\ Fail

Warmup ==
    /\ pc = "warmup"
    /\ pc' = "startSampler"
    /\ UNCHANGED <<given, choice, cases, now, target, figures, report>>

WarmupFails == pc = "warmup" /\ Fail

\* startSampler takes a first sample; if it throws, only a note remains.
StartSampler ==
    /\ pc = "startSampler"
    /\ \/ sampler' = "running" /\ loops' = loops \cup {now}
       \/ UNCHANGED <<sampler, loops>>
    /\ pc' = "measure"
    /\ UNCHANGED <<given, choice, cases, now, target, outcome, report>>

\* A sample in the loop throws, and the loop ends; stop() will throw its error.
LoopBreaks(i) ==
    /\ i \in loops
    /\ loops' = loops \ {i}
    /\ sampler' = IF i = now /\ sampler = "running" THEN "broken" ELSE sampler
    /\ UNCHANGED <<given, pc, choice, cases, now, target, outcome, report>>

\* oha gives figures.
Measure ==
    /\ pc = "measure"
    /\ measured' = measured \cup {now}
    /\ pc' = "stopSampler"
    /\ UNCHANGED <<given, choice, cases, now, target, figures, results>>

\* oha fails or has no figures: sampler.stop() is not reached.
MeasureFails == pc = "measure" /\ Fail

\* Mutant: an error of the sampler is one of the case.
StopSamplerThrows ==
    /\ pc = "stopSampler"
    /\ loops' = loops \ {now}
    /\ outcome' = IF sampler = "broken" THEN "failed" ELSE "passed"
    /\ pc' = "finally"
    /\ UNCHANGED <<given, choice, cases, now, target, sampler, report>>

\* sampler.stop() waits for the loop; if it throws, only a note remains.
StopSampler ==
    /\ pc = "stopSampler"
    /\ loops' = loops \ {now}
    /\ outcome' = "passed"
    /\ pc' = "finally"
    /\ UNCHANGED <<given, choice, cases, now, target, sampler, report>>

\* The race of app.exited and a pause: a target that has exited is not stopped.
Race ==
    /\ pc = "finally"
    /\ pc' = IF LeaderAlive(now) THEN "list" ELSE "drain"
    /\ UNCHANGED <<given, choice, cases, now, target, figures, report>>

\* stopProcessTree lists the tree below the leader (ProcessTree): the leader alone
\* if it has exited meanwhile, or if ps fails.
ListTree ==
    /\ pc = "list"
    /\ \/ listed' = {<<now, 0>>}
       \/ LeaderAlive(now) /\ listed' = {<<p.case, p.role>> : p \in {q \in procs : q.case = now}}
    /\ pc' = "kill"
    /\ UNCHANGED <<given, choice, cases, now, procs, figures, report>>

\* Mutant: an error of ps ends the stop.
KillNothing ==
    /\ pc = "kill"
    /\ pc' = "await"
    /\ UNCHANGED <<given, choice, cases, now, target, figures, report>>

\* ... and kills those it has listed.
KillTree ==
    /\ pc = "kill"
    /\ procs' = {p \in procs : <<p.case, p.role>> \notin listed}
    /\ listed' = {}
    /\ pc' = "await"
    /\ UNCHANGED <<given, choice, cases, now, figures, report>>

\* await app.exited
AwaitExit ==
    /\ pc = "await" /\ ~LeaderAlive(now)
    /\ pc' = "drain"
    /\ UNCHANGED <<given, choice, cases, now, target, figures, report>>

\* Mutant: the streams are not waited for.
DrainNothing ==
    /\ pc = "drain"
    /\ pc' = "push"
    /\ UNCHANGED <<given, choice, cases, now, target, figures, report>>

HoldsPipes(p) == p.role = 0 \/ KindOf(p) \in {"cluster", "prefork"}

\* stdout and stderr end when nobody holds them any more.
Drain ==
    /\ pc = "drain"
    /\ ~\E p \in procs : p.case = now /\ HoldsPipes(p)
    /\ pc' = "push"
    /\ UNCHANGED <<given, choice, cases, now, target, figures, report>>

\* The result of the case, and the pause after it.
Push ==
    /\ pc = "push"
    /\ results' = Append(results, [case   |-> cases[now],
                                   status |-> IF outcome = "passed" THEN "passed" ELSE "skipped",
                                   run    |-> now])
    /\ pc' = "next"
    /\ UNCHANGED <<given, choice, cases, now, target, figures, measured>>

\* writeReportFiles
Report ==
    /\ pc = "next" /\ now = Len(cases)
    /\ pc' = "reported"
    /\ UNCHANGED <<given, choice, cases, now, target, figures, report>>

\* The runner is a script: it exits when nothing is left to run.
RunnerExits ==
    /\ pc = "reported" /\ loops = {}
    /\ pc' = "exited"
    /\ UNCHANGED <<given, choice, cases, now, target, figures, report>>

Step ==
    \/ Preflight \/ PreflightEnds \/ SkipSession \/ Prepare \/ PrepareEnds
    \/ SkipCase \/ Launch \/ LaunchFails \/ Healthy \/ Unhealthy \/ Warmup \/ WarmupFails
    \/ StartSampler \/ Measure \/ MeasureFails \/ StopSampler
    \/ Race \/ ListTree \/ KillTree \/ AwaitExit \/ Drain \/ Push \/ Report \/ RunnerExits

Next ==
    \/ Step
    \/ \E i \in DOMAIN cases : LoopBreaks(i)
    \/ Targets
    \/ OrphansExit

Spec == Init /\ [][Next]_vars

\* Every command of the runner ends, and so do the workers of a cluster that have
\* lost their leader.  Targets need not do anything.
FairSpec == Spec /\ WF_vars(Step) /\ WF_vars(OrphansExit)

-----------------------------------------------------------------------------
(* Properties. *)

Running == {"health", "warmup", "startSampler", "measure", "stopSampler", "finally",
            "list", "kill", "await", "drain", "push"}

Processes == [case : Nat, role : Nat, up : BOOLEAN]
Results == [case : Cases, status : {"passed", "skipped"}, run : Nat]

\* Every variable has its type, and processes belong to cases that were launched.
TypeOK ==
    /\ platform \in Platforms /\ missing \subseteq Frameworks
    /\ oha \in BOOLEAN /\ setupOnly \in BOOLEAN
    /\ pc \in Running \cup {"preflight", "noOha", "prepare", "next", "reported", "exited"}
    /\ todo \in Seq(Frameworks) /\ usable \in Seq(Frameworks) /\ skipped \in Seq(Frameworks)
    /\ cases \in Seq(Cases) /\ now \in 0 .. Len(cases)
    /\ pc \in Running => now # 0
    /\ procs \subseteq Processes /\ \A p \in procs : p.case \in 1 .. now
    /\ listed \subseteq Nat \X Nat
    /\ sampler \in {"none", "running", "broken"} /\ loops \subseteq 1 .. now
    /\ outcome \in {None, "passed", "failed"}
    /\ results \in Seq(Results) /\ measured \subseteq 1 .. now

Count(s, c) == Cardinality({i \in DOMAIN s : s[i] = c})

\* Whatever is missing or fails on the way, the report has every selected case,
\* once for each time it was selected.
ReportedOnce ==
    pc \in {"reported", "exited"} /\ ~setupOnly =>
        \A c \in Cases :
            Count([i \in DOMAIN results |-> results[i].case], c) = Count(BuildCases(Selected), c)

\* A case is passed exactly if oha gave figures of it, whatever becomes of its
\* resource samples and of the target afterwards (GUIDE.md:143, 206).
PassedIfMeasured ==
    \A i \in DOMAIN results : results[i].status = "passed" <=> results[i].run \in measured

\* One target runs at a time (GUIDE.md:16): the processes of two cases never run
\* beside each other, though processes fork and exit at any time.
OneTarget == \A p, q \in procs : p.case = q.case

\* Workers keep the pipes of a target that has lost its leader.
HeldUp ==
    /\ pc = "drain"
    /\ \E p \in procs : p.case = now /\ p.role # 0 /\ KindOf(p) = "prefork"

\* Every session comes to its report: a command that fails, a target that does not
\* start, or listens and dies, or leaves a cluster's workers behind, does not hold
\* it up.  Only workers do that hold the pipes and do not exit without their leader.
SessionFinishes == <>(pc = "reported") \/ <>[]HeldUp

\* When a case is over nothing of it is left to run in the runner ("The runner
\* handles setup, build, and teardown for each framework", README.md:200).  It
\* does not hold: see the run.
TornDown == pc \in {"next", "reported"} => loops = {}
=============================================================================
