------------------------ MODULE BenchSession_proofs -------------------------
(***************************************************************************)
(* Theorems about BenchSession, for any frameworks, any numbers of workers *)
(* and any behaviour of the targets.                                       *)
(***************************************************************************)
EXTENDS BenchSession, SequenceTheorems, FiniteSetTheorems, TLAPS

Early == {"preflight", "noOha", "prepare"}

\* Before the first case there is none.
NoneYet == pc \in Early => now = 0

\* What the results so far, and the case at hand, have to do with measured.
RunsAreOver ==
    \A i \in DOMAIN results :
        results[i].run \in 0 .. now /\ (pc \in Running => results[i].run # now)
Unmeasured == pc \in {"health", "warmup", "startSampler", "measure"} => now \notin measured
Measured == pc = "stopSampler" => now \in measured
OutcomeIsMeasured ==
    pc \in {"finally", "list", "kill", "await", "drain", "push"} =>
        (outcome = "passed" <=> now \in measured)

IInv ==
    /\ TypeOK /\ NoneYet
    /\ RunsAreOver /\ PassedIfMeasured /\ Unmeasured /\ Measured /\ OutcomeIsMeasured

-----------------------------------------------------------------------------
\* The n-th case is one of the product.
LEMMA Division ==
    ASSUME NEW F \in Nat, NEW L \in Nat \ {0}, NEW n \in 1 .. F * L
    PROVE  /\ ((n - 1) \div L) + 1 \in 1 .. F
           /\ ((n - 1) % L) + 1 \in 1 .. L
<1> DEFINE x == n - 1
           q == x \div L
           r == x % L
<1>1. x \in Nat /\ x < F * L
  OBVIOUS
<1>2. q \in Nat /\ r \in 0 .. L - 1 /\ x = L * q + r
  BY <1>1
<1>3. q < F
  <2>1. SUFFICES ASSUME q >= F PROVE FALSE
    BY <1>2
  <2>2. L * q >= L * F
    BY <1>2, <2>1
  <2>3. L * F = F * L
    OBVIOUS
  <2> QED BY <1>1, <1>2, <2>2, <2>3
<1> QED BY <1>2, <1>3

\* The cases a session is built from are cases of its frameworks.
LEMMA BuildCasesType ==
    ASSUME NEW fs \in Seq(Frameworks)
    PROVE  BuildCases(fs) \in Seq(Cases)
<1>1. Len(Workers) \in Nat \ {0}
  BY OptionsAssumption, EmptySeq, LenProperties
<1>2. Len(fs) \in Nat
  OBVIOUS
<1>3. ASSUME NEW n \in 1 .. Len(fs) * Len(Workers)
      PROVE  [framework |-> fs[((n - 1) \div Len(Workers)) + 1],
              workers   |-> Workers[((n - 1) % Len(Workers)) + 1]] \in Cases
  <2>1. ((n - 1) \div Len(Workers)) + 1 \in 1 .. Len(fs)
    BY <1>1, <1>2, <1>3, Division
  <2>2. ((n - 1) % Len(Workers)) + 1 \in 1 .. Len(Workers)
    BY <1>1, <1>2, <1>3, Division
  <2>3. fs[((n - 1) \div Len(Workers)) + 1] \in Frameworks
    BY <2>1
  <2>4. Workers[((n - 1) % Len(Workers)) + 1] \in ToSet(Workers)
    <3>1. ((n - 1) % Len(Workers)) + 1 \in DOMAIN Workers
      BY <2>2, OptionsAssumption
    <3> QED BY <3>1 DEF ToSet
  <2> QED BY <2>3, <2>4 DEF Cases
<1>4. Len(fs) * Len(Workers) \in Nat
  BY <1>1, <1>2
<1> QED BY <1>3, <1>4 DEF BuildCases

\* A skipped case is reported as skipped, and as never run.
LEMMA SkipResultsType ==
    ASSUME NEW fs \in Seq(Frameworks)
    PROVE  /\ SkipResults(fs) \in Seq(Results)
           /\ \A i \in DOMAIN SkipResults(fs) :
                 SkipResults(fs)[i].run = 0 /\ SkipResults(fs)[i].status = "skipped"
<1> DEFINE bc == BuildCases(fs)
<1>1. bc \in Seq(Cases)
  BY BuildCasesType
<1>2. SkipResults(fs) = [i \in 1 .. Len(bc) |-> SkipResult(bc[i])]
  BY <1>1 DEF SkipResults
<1>3. \A i \in 1 .. Len(bc) : SkipResult(bc[i]) \in Results
  BY <1>1 DEF SkipResult, Results
<1> HIDE DEF bc
<1> QED BY <1>1, <1>2, <1>3 DEF SkipResult

\* The inductive invariant holds before a session chooses its cases.
LEMMA InitIInv == Init => IInv
<1> SUFFICES ASSUME Init PROVE IInv
  OBVIOUS
<1> USE DEF Init
<1>1. Selected \in Seq(Frameworks)
  BY OptionsAssumption
<1>2. TypeOK
  BY <1>1 DEF TypeOK, Running
<1>3. RunsAreOver /\ PassedIfMeasured
  BY DEF RunsAreOver, PassedIfMeasured
<1> QED BY <1>2, <1>3 DEF IInv, NoneYet, Unmeasured, Measured, OutcomeIsMeasured

-----------------------------------------------------------------------------
\* The results after those of rs, which are all of skipped cases, were added.
Appended(rs) ==
    /\ results' \in Seq(Results)
    /\ \A i \in DOMAIN results' :
          \/ i \in DOMAIN results /\ results'[i] = results[i]
          \/ results'[i].run = 0 /\ results'[i].status = "skipped"
    /\ rs \in Seq(Results)

\* Reporting what is skipped only adds such results.
LEMMA SkipResultsAppended ==
    ASSUME NEW fs \in Seq(Frameworks), results \in Seq(Results),
           results' = results \o SkipResults(fs)
    PROVE  Appended(SkipResults(fs))
<1> DEFINE rs == SkipResults(fs)
<1>1. /\ rs \in Seq(Results)
      /\ \A i \in DOMAIN rs : rs[i].run = 0 /\ rs[i].status = "skipped"
  BY SkipResultsType
<1> HIDE DEF rs
<1>2. results' = results \o rs
  BY DEF rs
<1>3. results' \in Seq(Results) /\ Len(results') = Len(results) + Len(rs)
  BY <1>1, <1>2
<1>4. ASSUME NEW i \in DOMAIN results'
      PROVE  \/ i \in DOMAIN results /\ results'[i] = results[i]
             \/ results'[i].run = 0 /\ results'[i].status = "skipped"
  <2>1. i \in 1 .. Len(results) + Len(rs)
    BY <1>3, <1>4
  <2>2. CASE i <= Len(results)
    BY <2>1, <2>2, <1>1, <1>2
  <2>3. CASE i > Len(results)
    <3>1. i - Len(results) \in DOMAIN rs
      BY <2>1, <2>3, <1>1
    <3>2. results'[i] = rs[i - Len(results)]
      BY <2>1, <2>3, <1>1, <1>2
    <3> QED BY <3>1, <3>2, <1>1
  <2> QED BY <2>1, <2>2, <2>3
<1> QED BY <1>1, <1>3, <1>4 DEF Appended, rs

-----------------------------------------------------------------------------
(* The steps, in groups that change the same things. *)

\* The steps that choose and prepare the frameworks keep the invariant.
LEMMA ChoiceStep ==
    ASSUME IInv, Preflight \/ PreflightEnds \/ SkipSession \/ Prepare \/ PrepareEnds
    PROVE  IInv'
<1> USE DEF IInv
<1>t. TypeOK
  OBVIOUS
<1>0. /\ \A s \in Seq(Frameworks) : s # << >> => Tail(s) \in Seq(Frameworks) /\ Head(s) \in Frameworks
      /\ \A s \in Seq(Frameworks) : \A f \in Frameworks : Append(s, f) \in Seq(Frameworks)
      /\ << >> \in Seq(Frameworks)
  OBVIOUS
<1>1. CASE Preflight
  <2>1. TypeOK'
    BY <1>t, <1>0, <1>1 DEF Preflight, TypeOK, Running, given, target, figures, report
  <2> QED
    BY <1>1, <2>1 DEF Preflight, NoneYet, RunsAreOver, PassedIfMeasured, Unmeasured, Measured,
                      OutcomeIsMeasured, Early, Running, given, target, figures, report
<1>2. CASE PreflightEnds
  <2>1. results' \in {results, SkipResults(skipped)}
    BY <1>2 DEF PreflightEnds
  <2>2. /\ SkipResults(skipped) \in Seq(Results)
        /\ \A i \in DOMAIN SkipResults(skipped) :
              SkipResults(skipped)[i].run = 0 /\ SkipResults(skipped)[i].status = "skipped"
    BY <1>t, SkipResultsType DEF TypeOK
  <2>3. TypeOK'
    BY <1>t, <1>0, <1>2, <2>1, <2>2 DEF PreflightEnds, TypeOK, Running, given, target, figures
  <2>4. now = 0 /\ measured = {} /\ pc' \in Early
    BY <1>t, <1>2 DEF PreflightEnds, NoneYet, Early, TypeOK
  <2>5. (RunsAreOver /\ PassedIfMeasured)'
    <3>1. CASE results' = results
      BY <3>1, <2>4, <1>2 DEF PreflightEnds, RunsAreOver, PassedIfMeasured, Early, Running
    <3>2. CASE results' = SkipResults(skipped)
      BY <3>2, <2>2, <2>4, <1>2 DEF PreflightEnds, RunsAreOver, PassedIfMeasured, Early, Running
    <3> QED BY <3>1, <3>2, <2>1
  <2> QED
    BY <1>2, <2>3, <2>4, <2>5 DEF PreflightEnds, NoneYet, Unmeasured, Measured, OutcomeIsMeasured, Early
<1>3. CASE SkipSession
  <2>1. Appended(SkipResults(todo))
    BY <1>3, <1>t, SkipResultsAppended DEF SkipSession, TypeOK
  <2>2. TypeOK'
    BY <1>t, <1>3, <2>1 DEF SkipSession, TypeOK, Running, given, choice, target, figures, Appended
  <2>3. now = 0 /\ now' = now /\ measured' = measured /\ 0 \notin measured /\ pc' = "reported"
    BY <1>t, <1>3 DEF SkipSession, NoneYet, Early, TypeOK
  <2>4. (RunsAreOver /\ PassedIfMeasured)'
    BY <2>1, <2>3 DEF RunsAreOver, PassedIfMeasured, Running, Appended
  <2> QED
    BY <2>2, <2>3, <2>4 DEF NoneYet, Unmeasured, Measured, OutcomeIsMeasured, Early
<1>4. CASE Prepare
  <2>1. TypeOK'
    BY <1>t, <1>0, <1>4 DEF Prepare, TypeOK, Running, given, target, figures, report
  <2> QED
    BY <1>4, <2>1 DEF Prepare, NoneYet, RunsAreOver, PassedIfMeasured, Unmeasured, Measured,
                      OutcomeIsMeasured, Early, Running, given, target, figures, report
<1>5. CASE PrepareEnds
  <2>1. now = 0 /\ now' = now /\ measured' = measured /\ 0 \notin measured
        /\ pc' \in {"reported", "next"}
    BY <1>t, <1>5 DEF PrepareEnds, NoneYet, Early, TypeOK
  <2>2. setupOnly \/ Appended(SkipResults(skipped))
    BY <1>5, <1>t, SkipResultsAppended DEF PrepareEnds, TypeOK
  <2>3. BuildCases(usable) \in Seq(Cases)
    BY <1>t, BuildCasesType DEF TypeOK
  <2>4. TypeOK'
    <3>1. results' \in Seq(Results)
      BY <1>t, <1>5, <2>2 DEF PrepareEnds, Appended, TypeOK
    <3>2. cases' \in Seq(Cases)
      BY <1>t, <1>5, <2>3 DEF PrepareEnds, TypeOK
    <3>3. now' \in 0 .. Len(cases')
      BY <3>2, <2>1
    <3> QED
      BY <1>t, <1>5, <2>1, <3>1, <3>2, <3>3
      DEF PrepareEnds, TypeOK, Running, given, choice, target, figures
  <2>5. (RunsAreOver /\ PassedIfMeasured)'
    <3>1. CASE setupOnly
      BY <3>1, <1>5, <2>1 DEF PrepareEnds, RunsAreOver, PassedIfMeasured, Running
    <3>2. CASE Appended(SkipResults(skipped))
      BY <3>2, <2>1 DEF RunsAreOver, PassedIfMeasured, Running, Appended
    <3> QED BY <3>1, <3>2, <2>2
  <2> QED
    BY <2>1, <2>4, <2>5 DEF NoneYet, Unmeasured, Measured, OutcomeIsMeasured, Early
<1> QED BY <1>1, <1>2, <1>3, <1>4, <1>5

\* Targets change nothing but their processes.
LEMMA TargetStep ==
    ASSUME IInv, Targets \/ OrphansExit
    PROVE  IInv'
<1> USE DEF IInv
<1>1. UNCHANGED Runner
  BY DEF Targets, StartWorker, Listen, Exit, OrphansExit, Gone, Runner
<1>2. procs' \subseteq Processes /\ \A p \in procs' : p.case \in 1 .. now
  <2>1. procs \subseteq Processes /\ \A p \in procs : p.case \in 1 .. now
    BY DEF TypeOK
  <2>2. ASSUME NEW i \in DOMAIN cases, NEW w \in 1 .. 2, StartWorker(i, w)
        PROVE  /\ procs' \subseteq Processes
               /\ \A p \in procs' : p.case \in 1 .. now
    <3>1. i \in 1 .. now
      BY <2>1, <2>2 DEF StartWorker, LeaderAlive
    <3>2. Worker(i, w) \in Processes /\ Worker(i, w).case = i
      BY <3>1 DEF Worker, Process, Processes, TypeOK
    <3> QED BY <2>1, <2>2, <3>1, <3>2 DEF StartWorker
  <2>3. ASSUME NEW p \in procs, Listen(p)
        PROVE  procs' \subseteq Processes /\ \A q \in procs' : q.case \in 1 .. now
    <3>1. p \in Processes /\ p.case \in 1 .. now
      BY <2>1
    <3>2. Process(p.case, p.role, TRUE) \in Processes /\ Process(p.case, p.role, TRUE).case = p.case
      BY <3>1 DEF Processes, Process
    <3> QED BY <2>1, <2>3, <3>1, <3>2 DEF Listen, Processes
  <2>4. ASSUME NEW p \in procs, Exit(p)
        PROVE  procs' \subseteq procs
    BY <2>4 DEF Exit, Gone
  <2>5. CASE OrphansExit
    BY <2>1, <2>5 DEF OrphansExit, Gone
  <2> QED BY <2>1, <2>2, <2>3, <2>4, <2>5 DEF Targets
<1>3. listed' \subseteq listed
  BY DEF Targets, StartWorker, Listen, Exit, OrphansExit, Gone
<1>4. TypeOK'
  BY <1>1, <1>2, <1>3 DEF TypeOK, Running, Runner, given, choice, figures, report
<1> QED
  BY <1>1, <1>4 DEF Runner, given, choice, figures, report,
                    NoneYet, RunsAreOver, PassedIfMeasured, Unmeasured, Measured, OutcomeIsMeasured, Early, Running

\* The next case is taken.
LEMMA NextCaseStep ==
    ASSUME IInv, SkipCase \/ Launch \/ LaunchFails
    PROVE  IInv'
<1> USE DEF IInv
<1>0. /\ now \in Nat /\ now' = now + 1 /\ now' \in 1 .. Len(cases) /\ cases' = cases
      /\ cases[now + 1] \in Cases
      /\ measured' = measured /\ measured \subseteq 1 .. now /\ 0 \notin measured
  BY DEF TypeOK, SkipCase, Launch, LaunchFails, report
<1>1. CASE SkipCase
  <2>1. SkipResult(cases[now + 1]) \in Results
    BY <1>0 DEF SkipResult, Results
  <2>2. TypeOK'
    BY <1>0, <1>1, <2>1 DEF SkipCase, TypeOK, Running, given, choice, target, figures
  <2>3. (RunsAreOver /\ PassedIfMeasured)'
    <3> DEFINE r == SkipResult(cases[now + 1])
    <3>1. /\ results \in Seq(Results) /\ results' = Append(results, r) /\ pc' = "next"
          /\ r.run = 0 /\ r.status = "skipped" /\ RunsAreOver /\ PassedIfMeasured
      BY <1>1 DEF SkipCase, SkipResult, TypeOK
    <3> HIDE DEF r
    <3>2. ASSUME NEW i \in DOMAIN results'
          PROVE  \/ i \in DOMAIN results /\ results'[i] = results[i]
                 \/ results'[i] = r
      BY <3>1
    <3> QED BY <1>0, <3>1, <3>2 DEF RunsAreOver, PassedIfMeasured, Running
  <2> QED
    BY <1>0, <1>1, <2>2, <2>3
    DEF SkipCase, NoneYet, Unmeasured, Measured, OutcomeIsMeasured, Early
<1>2. CASE Launch
  <2>1. Leader(now + 1) \in Processes /\ Leader(now + 1).case = now + 1
    BY <1>0 DEF Leader, Process, Processes
  <2>2. TypeOK'
    BY <1>0, <1>2, <2>1 DEF Launch, TypeOK, Running, given, choice, report
  <2>3. (RunsAreOver /\ PassedIfMeasured)'
    BY <1>0, <1>2 DEF Launch, RunsAreOver, PassedIfMeasured, TypeOK, report
  <2> QED
    BY <1>0, <1>2, <2>2, <2>3
    DEF Launch, NoneYet, Unmeasured, Measured, OutcomeIsMeasured, Early
<1>3. CASE LaunchFails
  <2>1. TypeOK'
    BY <1>0, <1>3 DEF LaunchFails, TypeOK, Running, given, choice, target, report
  <2>2. (RunsAreOver /\ PassedIfMeasured)'
    BY <1>0, <1>3 DEF LaunchFails, RunsAreOver, PassedIfMeasured, TypeOK, report
  <2> QED
    BY <1>0, <1>3, <2>1, <2>2
    DEF LaunchFails, NoneYet, Unmeasured, Measured, OutcomeIsMeasured, Early
<1> QED BY <1>1, <1>2, <1>3

\* From the health check to the figures.
LEMMA RunStep ==
    ASSUME IInv, Healthy \/ Unhealthy \/ Warmup \/ WarmupFails \/ StartSampler \/ Measure \/ MeasureFails \/ StopSampler
    PROVE  IInv'
<1> USE DEF IInv
<1>1. CASE Healthy
  <2>1. TypeOK'
    BY <1>1 DEF Healthy, TypeOK, Running, given, choice, target, figures, report
  <2> QED
    BY <1>1, <2>1 DEF Healthy, given, choice, target, figures, report, TypeOK,
                     NoneYet, RunsAreOver, PassedIfMeasured, Unmeasured, Measured, OutcomeIsMeasured, Early, Running
<1>2. CASE Unhealthy
  <2>1. TypeOK'
    BY <1>2 DEF Unhealthy, Fail, TypeOK, Running, given, choice, target, figures, report
  <2> QED
    BY <1>2, <2>1 DEF Unhealthy, Fail, given, choice, target, figures, report, TypeOK,
                     NoneYet, RunsAreOver, PassedIfMeasured, Unmeasured, Measured, OutcomeIsMeasured, Early, Running
<1>3. CASE Warmup
  <2>1. TypeOK'
    BY <1>3 DEF Warmup, TypeOK, Running, given, choice, target, figures, report
  <2> QED
    BY <1>3, <2>1 DEF Warmup, given, choice, target, figures, report, TypeOK,
                     NoneYet, RunsAreOver, PassedIfMeasured, Unmeasured, Measured, OutcomeIsMeasured, Early, Running
<1>4. CASE WarmupFails
  <2>1. TypeOK'
    BY <1>4 DEF WarmupFails, Fail, TypeOK, Running, given, choice, target, figures, report
  <2> QED
    BY <1>4, <2>1 DEF WarmupFails, Fail, given, choice, target, figures, report, TypeOK,
                     NoneYet, RunsAreOver, PassedIfMeasured, Unmeasured, Measured, OutcomeIsMeasured, Early, Running
<1>5. CASE StartSampler
  <2>0. loops' \subseteq 1 .. now /\ sampler' \in {"none", "running", "broken"}
    <3>1. now \in 1 .. now
      BY <1>5 DEF StartSampler, TypeOK, Running
    <3> QED BY <1>5, <3>1 DEF StartSampler, TypeOK
  <2>1. TypeOK'
    BY <1>5, <2>0 DEF StartSampler, TypeOK, Running, given, choice, target, figures, report
  <2> QED
    BY <1>5, <2>1 DEF StartSampler, given, choice, target, figures, report, TypeOK,
                     NoneYet, RunsAreOver, PassedIfMeasured, Unmeasured, Measured, OutcomeIsMeasured, Early, Running
<1>6. CASE Measure
  <2>1. TypeOK'
    BY <1>6 DEF Measure, TypeOK, Running, given, choice, target, figures, report
  <2> QED
    BY <1>6, <2>1 DEF Measure, given, choice, target, figures, report, TypeOK,
                     NoneYet, RunsAreOver, PassedIfMeasured, Unmeasured, Measured, OutcomeIsMeasured, Early, Running
<1>7. CASE MeasureFails
  <2>1. TypeOK'
    BY <1>7 DEF MeasureFails, Fail, TypeOK, Running, given, choice, target, figures, report
  <2> QED
    BY <1>7, <2>1 DEF MeasureFails, Fail, given, choice, target, figures, report, TypeOK,
                     NoneYet, RunsAreOver, PassedIfMeasured, Unmeasured, Measured, OutcomeIsMeasured, Early, Running
<1>8. CASE StopSampler
  <2>1. TypeOK'
    BY <1>8 DEF StopSampler, TypeOK, Running, given, choice, target, figures, report
  <2> QED
    BY <1>8, <2>1 DEF StopSampler, given, choice, target, figures, report, TypeOK,
                     NoneYet, RunsAreOver, PassedIfMeasured, Unmeasured, Measured, OutcomeIsMeasured, Early, Running
<1> QED BY <1>1, <1>2, <1>3, <1>4, <1>5, <1>6, <1>7, <1>8

\* From there to the report.
LEMMA StopStep ==
    ASSUME IInv, Race \/ ListTree \/ KillTree \/ AwaitExit \/ Drain \/ Push \/ Report \/ RunnerExits
    PROVE  IInv'
<1> USE DEF IInv
<1>1. CASE Race
  <2>1. TypeOK'
    BY <1>1 DEF Race, TypeOK, Running, given, choice, target, figures, report
  <2> QED
    BY <1>1, <2>1 DEF Race, given, choice, target, figures, report, TypeOK,
                     NoneYet, RunsAreOver, PassedIfMeasured, Unmeasured, Measured, OutcomeIsMeasured, Early, Running
<1>2. CASE ListTree
  <2>0. listed' \subseteq Nat \X Nat
    <3>1. now \in Nat /\ \A p \in procs : p.case \in Nat /\ p.role \in Nat
      BY DEF TypeOK, Processes
    <3>2. {<<now, 0>>} \subseteq Nat \X Nat
      BY <3>1
    <3>3. {<<p.case, p.role>> : p \in {q \in procs : q.case = now}} \subseteq Nat \X Nat
      BY <3>1
    <3> QED BY <1>2, <3>2, <3>3 DEF ListTree
  <2>1. TypeOK'
    BY <1>2, <2>0 DEF ListTree, TypeOK, Running, given, choice, target, figures, report
  <2> QED
    BY <1>2, <2>1 DEF ListTree, given, choice, target, figures, report, TypeOK,
                     NoneYet, RunsAreOver, PassedIfMeasured, Unmeasured, Measured, OutcomeIsMeasured, Early, Running
<1>3. CASE KillTree
  <2>1. TypeOK'
    BY <1>3 DEF KillTree, TypeOK, Running, given, choice, target, figures, report
  <2> QED
    BY <1>3, <2>1 DEF KillTree, given, choice, target, figures, report, TypeOK,
                     NoneYet, RunsAreOver, PassedIfMeasured, Unmeasured, Measured, OutcomeIsMeasured, Early, Running
<1>4. CASE AwaitExit
  <2>1. TypeOK'
    BY <1>4 DEF AwaitExit, TypeOK, Running, given, choice, target, figures, report
  <2> QED
    BY <1>4, <2>1 DEF AwaitExit, given, choice, target, figures, report, TypeOK,
                     NoneYet, RunsAreOver, PassedIfMeasured, Unmeasured, Measured, OutcomeIsMeasured, Early, Running
<1>5. CASE Drain
  <2>1. TypeOK'
    BY <1>5 DEF Drain, TypeOK, Running, given, choice, target, figures, report
  <2> QED
    BY <1>5, <2>1 DEF Drain, given, choice, target, figures, report, TypeOK,
                     NoneYet, RunsAreOver, PassedIfMeasured, Unmeasured, Measured, OutcomeIsMeasured, Early, Running
<1>6. CASE Push
  <2>0. results' \in Seq(Results)
    <3> DEFINE status == IF outcome = "passed" THEN "passed" ELSE "skipped"
               r == [case |-> cases[now], status |-> status, run |-> now]
    <3>1. cases[now] \in Cases /\ now \in Nat
      BY <1>6 DEF Push, TypeOK, Running
    <3>2. status \in {"passed", "skipped"}
      OBVIOUS
    <3> HIDE DEF status
    <3>3. r \in Results
      BY <3>1, <3>2 DEF Results
    <3>4. results' = Append(results, r)
      BY <1>6 DEF Push, status
    <3> HIDE DEF r
    <3> QED BY <3>3, <3>4 DEF TypeOK
  <2>1. TypeOK'
    BY <1>6, <2>0 DEF Push, TypeOK, Running, given, choice, target, figures, report
  <2> QED
    BY <1>6, <2>1 DEF Push, given, choice, target, figures, report, TypeOK,
                     NoneYet, RunsAreOver, PassedIfMeasured, Unmeasured, Measured, OutcomeIsMeasured, Early, Running
<1>7. CASE Report
  <2>1. TypeOK'
    BY <1>7 DEF Report, TypeOK, Running, given, choice, target, figures, report
  <2> QED
    BY <1>7, <2>1 DEF Report, given, choice, target, figures, report, TypeOK,
                     NoneYet, RunsAreOver, PassedIfMeasured, Unmeasured, Measured, OutcomeIsMeasured, Early, Running
<1>8. CASE RunnerExits
  <2>1. TypeOK'
    BY <1>8 DEF RunnerExits, TypeOK, Running, given, choice, target, figures, report
  <2> QED
    BY <1>8, <2>1 DEF RunnerExits, given, choice, target, figures, report, TypeOK,
                     NoneYet, RunsAreOver, PassedIfMeasured, Unmeasured, Measured, OutcomeIsMeasured, Early, Running
<1> QED BY <1>1, <1>2, <1>3, <1>4, <1>5, <1>6, <1>7, <1>8

\* The steps that run one case keep the invariant.
LEMMA LoopStep ==
    ASSUME IInv, NEW i \in DOMAIN cases, LoopBreaks(i)
    PROVE  IInv'
<1> USE DEF IInv
<1>1. TypeOK'
  BY DEF LoopBreaks, TypeOK, Running, given, choice, target, report
<1> QED
  BY <1>1 DEF LoopBreaks, given, choice, target, report,
              NoneYet, RunsAreOver, PassedIfMeasured, Unmeasured, Measured, OutcomeIsMeasured, Early, Running

\* Every step keeps the inductive invariant.
LEMMA NextIInv == IInv /\ [Next]_vars => IInv'
<1> SUFFICES ASSUME IInv, [Next]_vars PROVE IInv'
  OBVIOUS
<1>1. CASE Step
  BY <1>1, ChoiceStep, NextCaseStep, RunStep, StopStep DEF Step
<1>2. CASE \E i \in DOMAIN cases : LoopBreaks(i)
  BY <1>2, LoopStep
<1>3. CASE Targets \/ OrphansExit
  BY <1>3, TargetStep
<1>4. CASE UNCHANGED vars
  BY <1>4 DEF vars, IInv, TypeOK, NoneYet, RunsAreOver, PassedIfMeasured, Unmeasured, Measured, OutcomeIsMeasured, Early, Running
<1> QED BY <1>1, <1>2, <1>3, <1>4 DEF Next

-----------------------------------------------------------------------------

\* The inductive invariant, for any frameworks and any behaviour of the targets.
THEOREM Invariant == Spec => []IInv
BY InitIInv, NextIInv, PTL DEF Spec

\* Every variable has its type, for any selection and any number of workers.
THEOREM TypeCorrect == Spec => []TypeOK
<1>1. IInv => TypeOK
  BY DEF IInv
<1> QED BY <1>1, Invariant, PTL

\* A result is passed exactly if oha gave figures of its case, whatever fails
\* before and after (cli.ts:519, 526, 557).
THEOREM PassedIsMeasured == Spec => []PassedIfMeasured
<1>1. IInv => PassedIfMeasured
  BY DEF IInv
<1> QED BY <1>1, Invariant, PTL

-----------------------------------------------------------------------------
(* One target at a time, if no framework has workers that outlive it. *)

\* No selected framework has workers with ports of their own.
NoneShared == \A f \in Frameworks : MultiKinds[f] # "shared"

Idle == Early \cup {"push", "next", "reported", "exited"}

\* All processes are of the case at hand, only leaders with workers have workers,
\* and between the cases there is none.
OnlyNow ==
    /\ \A p \in procs : p.case = now /\ (p.role # 0 => KindOf(p) # "single")
    /\ pc \in Idle => procs = {}

\* Whoever is left of the case at hand holds its pipes.
LEMMA AllHoldPipes ==
    ASSUME NoneShared, TypeOK, OnlyNow, NEW p \in procs
    PROVE  p.case = now /\ HoldsPipes(p)
<1>1. p.case \in DOMAIN cases
  BY DEF TypeOK
<1>2. cases[p.case] \in Cases
  BY <1>1 DEF TypeOK
<1>3. KindOf(p) \in {"single", "cluster", "prefork"}
  BY <1>2, OptionsAssumption DEF KindOf, Kind, Cases, NoneShared, Kinds
<1> QED BY <1>3 DEF OnlyNow, HoldsPipes

\* While no process changes, neither does what is said of them.
LEMMA OnlyNowStays ==
    ASSUME OnlyNow, procs' \subseteq procs, cases' = cases, now' = now,
           pc' \in Idle => pc \in Idle \/ procs' = {}
    PROVE  OnlyNow'
<1>1. \A p : KindOf(p)' = KindOf(p)
  BY DEF KindOf, Kind
<1> QED BY <1>1 DEF OnlyNow

\* What a target does by itself leaves it the only one.
LEMMA TargetsOnlyNow ==
    ASSUME IInv, OnlyNow, Targets \/ OrphansExit
    PROVE  OnlyNow'
<1>1. cases' = cases /\ now' = now /\ pc' = pc
  BY DEF Targets, StartWorker, Listen, Exit, OrphansExit, Gone, Runner
<1>2. \A p : KindOf(p)' = KindOf(p)
  BY <1>1 DEF KindOf, Kind
<1>3. ASSUME NEW i \in DOMAIN cases, NEW w \in 1 .. 2, StartWorker(i, w)
      PROVE  OnlyNow'
  <2>1. i = now /\ procs # {}
    BY <1>3 DEF StartWorker, LeaderAlive, OnlyNow
  <2>2. Worker(i, w).case = now /\ KindOf(Worker(i, w)) # "single"
    BY <2>1, <1>3 DEF StartWorker, Worker, Process, KindOf
  <2> QED BY <1>1, <1>2, <1>3, <2>1, <2>2 DEF StartWorker, OnlyNow
<1>4. ASSUME NEW p \in procs, Listen(p)
      PROVE  OnlyNow'
  <2> DEFINE u == Process(p.case, p.role, TRUE)
  <2>1. u.case = p.case /\ u.role = p.role /\ KindOf(u) = KindOf(p)
    BY DEF Process, KindOf
  <2> HIDE DEF u
  <2>2. procs' = (procs \ {p}) \cup {u}
    BY <1>4 DEF Listen, u
  <2> QED BY <1>1, <1>2, <2>1, <2>2 DEF OnlyNow
<1>5. CASE (\E p \in procs : Exit(p)) \/ OrphansExit
  <2>1. procs' \subseteq procs
    BY <1>5 DEF Exit, OrphansExit, Gone
  <2> QED BY <1>1, <2>1, OnlyNowStays
<1> QED BY <1>3, <1>4, <1>5 DEF Targets

\* Where no framework shares its multi target, only the case at hand has targets.
LEMMA NextOnlyNow ==
    ASSUME NoneShared, IInv, OnlyNow, [Next]_vars
    PROVE  OnlyNow'
<1>1. TypeOK
  BY DEF IInv
<1>2. CASE Targets \/ OrphansExit
  BY <1>2, TargetsOnlyNow
<1>3. CASE Preflight \/ PreflightEnds \/ SkipSession \/ Prepare \/ PrepareEnds
  <2>1. procs = {} /\ procs' = {}
    BY <1>3 DEF Preflight, PreflightEnds, SkipSession, Prepare, PrepareEnds, target,
                OnlyNow, Idle, Early
  <2> QED BY <2>1 DEF OnlyNow
<1>4. CASE SkipCase \/ LaunchFails
  <2>1. procs = {} /\ procs' = {}
    BY <1>4 DEF SkipCase, LaunchFails, target, OnlyNow, Idle
  <2> QED BY <2>1 DEF OnlyNow
<1>5. CASE Launch
  <2>1. procs' = {Leader(now + 1)} /\ now' = now + 1 /\ pc' = "health"
    BY <1>5 DEF Launch, OnlyNow, Idle
  <2>2. Leader(now + 1).case = now + 1 /\ Leader(now + 1).role = 0
    BY DEF Leader, Process
  <2> QED BY <2>1, <2>2 DEF OnlyNow, Idle, Early
<1>6. CASE Healthy \/ Unhealthy \/ Warmup \/ WarmupFails \/ StartSampler \/ Measure
           \/ MeasureFails \/ StopSampler
  <2>1. procs' = procs /\ cases' = cases /\ now' = now
    BY <1>6 DEF Healthy, Unhealthy, Warmup, WarmupFails, Fail, StartSampler, Measure,
                MeasureFails, StopSampler, target
  <2>2. pc' \notin Idle
    BY <1>6 DEF Healthy, Unhealthy, Warmup, WarmupFails, Fail, StartSampler, Measure,
                MeasureFails, StopSampler, Idle, Early
  <2> QED BY <2>1, <2>2, OnlyNowStays
<1>7. CASE Race \/ ListTree \/ KillTree \/ AwaitExit
  <2>1. procs' \subseteq procs /\ cases' = cases /\ now' = now
    BY <1>7 DEF Race, ListTree, KillTree, AwaitExit, target
  <2>2. pc' \notin Idle
    BY <1>7 DEF Race, ListTree, KillTree, AwaitExit, Idle, Early
  <2> QED BY <2>1, <2>2, OnlyNowStays
<1>8. CASE Drain
  <2>1. procs = {}
    BY <1>1, <1>8, AllHoldPipes DEF Drain
  <2>2. procs' = procs /\ cases' = cases /\ now' = now
    BY <1>8 DEF Drain, target
  <2> QED BY <2>1, <2>2, OnlyNowStays
<1>9. CASE Push \/ Report \/ RunnerExits
  <2>1. procs' = procs /\ cases' = cases /\ now' = now
    BY <1>9 DEF Push, Report, RunnerExits, target
  <2>2. pc \in Idle
    BY <1>9 DEF Push, Report, RunnerExits, Idle
  <2> QED BY <2>1, <2>2, OnlyNowStays
<1>10. CASE (\E i \in DOMAIN cases : LoopBreaks(i)) \/ UNCHANGED vars
  <2>1. procs' = procs /\ cases' = cases /\ now' = now /\ pc' = pc
    BY <1>10 DEF LoopBreaks, target, vars
  <2> QED BY <2>1, OnlyNowStays
<1> QED BY <1>2, <1>3, <1>4, <1>5, <1>6, <1>7, <1>8, <1>9, <1>10 DEF Next, Step

\* One target runs at a time (GUIDE.md:16) if no framework has workers that outlive
\* their leader without its pipes: the runner waits for the end of the pipes
\* (cli.ts:549), and so for the last process, whoever has been killed before.
THEOREM OneTargetAtATime == NoneShared => (Spec => []OneTarget)
<1> SUFFICES ASSUME NoneShared PROVE Spec => []OneTarget
  OBVIOUS
<1>1. Init => OnlyNow
  BY DEF Init, OnlyNow
<1>2. IInv /\ OnlyNow /\ [Next]_vars => OnlyNow'
  BY NextOnlyNow
<1>3. OnlyNow => OneTarget
  BY DEF OnlyNow, OneTarget
<1> QED BY <1>1, <1>2, <1>3, Invariant, PTL DEF Spec

-----------------------------------------------------------------------------
(* Each selected case is reported once.  First, counting in sequences. *)

Places(s, c) == {i \in DOMAIN s : s[i] = c}
One(x, c) == IF x = c THEN 1 ELSE 0

\* A member of a sequence occurs a finite number of times.
LEMMA CountType ==
    ASSUME NEW S, NEW s \in Seq(S), NEW c
    PROVE  IsFiniteSet(Places(s, c)) /\ Count(s, c) \in Nat /\ Count(s, c) = Cardinality(Places(s, c))
<1>1. Places(s, c) \in SUBSET (1 .. Len(s)) /\ Len(s) \in Nat
  BY DEF Places
<1>2. IsFiniteSet(1 .. Len(s))
  BY <1>1, FS_Interval
<1>3. IsFiniteSet(Places(s, c))
  BY <1>1, <1>2, FS_Subset
<1>4. Count(s, c) = Cardinality(Places(s, c))
  BY DEF Count, Places
<1> QED BY <1>3, <1>4, FS_CardinalityType

\* Nothing occurs in the empty sequence, and in a sequence of one that one.
LEMMA CountSmall ==
    ASSUME NEW x, NEW c
    PROVE  Count(<< >>, c) = 0 /\ Count(<<x>>, c) = One(x, c)
<1>1. Places(<< >>, c) = {}
  BY DEF Places
<1>2. Places(<<x>>, c) = IF x = c THEN {1} ELSE {}
  BY DEF Places
<1>3. Cardinality({}) = 0 /\ Cardinality({1}) = 1
  BY FS_EmptySet, FS_Singleton
<1>4. Count(<< >>, c) = Cardinality(Places(<< >>, c)) /\ Count(<<x>>, c) = Cardinality(Places(<<x>>, c))
  BY DEF Count, Places
<1> QED BY <1>1, <1>2, <1>3, <1>4 DEF One

\* What occurs in two sequences occurs in their concatenation.
LEMMA CountConcat ==
    ASSUME NEW S, NEW s \in Seq(S), NEW t \in Seq(S), NEW c
    PROVE  Count(s \o t, c) = Count(s, c) + Count(t, c)
<1> DEFINE A == Places(s, c)
           T == Places(t, c)
           B == {Len(s) + i : i \in T}
           f == [i \in T |-> Len(s) + i]
<1>1. /\ Len(s) \in Nat /\ Len(t) \in Nat
      /\ A \subseteq 1 .. Len(s) /\ T \subseteq 1 .. Len(t)
  BY DEF Places
<1>2. IsFiniteSet(A) /\ IsFiniteSet(T)
  BY CountType
<1>3. f \in Bijection(T, B)
  <2>1. \A i, j \in T : f[i] = f[j] => i = j
    BY <1>1
  <2>2. f \in [T -> B]
    OBVIOUS
  <2>3. \A y \in B : \E i \in T : f[i] = y
    OBVIOUS
  <2> HIDE DEF f, B, T
  <2> QED BY <2>1, <2>2, <2>3 DEF Bijection, Injection, Surjection, IsInjective
<1>4. IsFiniteSet(B) /\ Cardinality(B) = Cardinality(T)
  <2> HIDE DEF f, B, T
  <2>1. ExistsBijection(T, B)
    BY <1>3 DEF ExistsBijection
  <2> QED BY <1>2, <2>1, FS_Bijection
<1>5. A \cap B = {}
  BY <1>1
<1>6. Places(s \o t, c) = A \cup B
  <2>1. ASSUME NEW i \in Places(s \o t, c) PROVE i \in A \cup B
    <3>1. i \in 1 .. Len(s) + Len(t) /\ (s \o t)[i] = c
      BY <2>1 DEF Places
    <3>2. CASE i <= Len(s)
      <4>1. i \in DOMAIN s /\ s[i] = c
        BY <3>1, <3>2
      <4> QED BY <4>1 DEF Places
    <3>3. CASE i > Len(s)
      <4>1. i - Len(s) \in DOMAIN t /\ t[i - Len(s)] = c
        BY <3>1, <3>3
      <4>2. i - Len(s) \in T
        BY <4>1 DEF Places
      <4>3. i = Len(s) + (i - Len(s))
        BY <3>1, <1>1
      <4> HIDE DEF T
      <4> QED BY <4>2, <4>3
    <3> QED BY <3>1, <3>2, <3>3, <1>1
  <2>2. ASSUME NEW i \in A PROVE i \in Places(s \o t, c)
    <3>1. i \in DOMAIN s /\ s[i] = c
      BY <2>2 DEF Places
    <3>2. i \in DOMAIN (s \o t) /\ (s \o t)[i] = c
      BY <3>1
    <3> QED BY <3>2 DEF Places
  <2>3. ASSUME NEW i \in T PROVE Len(s) + i \in Places(s \o t, c)
    <3>1. i \in DOMAIN t /\ t[i] = c
      BY <2>3 DEF Places
    <3>2. Len(s) + i \in DOMAIN (s \o t) /\ (s \o t)[Len(s) + i] = c
      BY <3>1
    <3> QED BY <3>2 DEF Places
  <2> HIDE DEF A, T
  <2> QED BY <2>1, <2>2, <2>3
<1>7. Cardinality(A) \in Nat /\ Cardinality(T) \in Nat
  BY <1>2, FS_CardinalityType
<1>8. Cardinality(A \cup B) = Cardinality(A) + Cardinality(T)
  <2> HIDE DEF A, B, T
  <2>1. Cardinality(A \cup B) = Cardinality(A) + Cardinality(B) - Cardinality(A \cap B)
    BY <1>2, <1>4, FS_Union
  <2>2. Cardinality(A \cap B) = 0
    BY <1>5, FS_EmptySet
  <2> QED BY <2>1, <2>2, <1>4, <1>7
<1>9. /\ Count(s, c) = Cardinality(A) /\ Count(t, c) = Cardinality(T)
      /\ Count(s \o t, c) = Cardinality(Places(s \o t, c))
  BY DEF Count, Places
<1> QED BY <1>6, <1>8, <1>9

\* Division by L of what is F whole L's further on.
LEMMA DivisionShift ==
    ASSUME NEW F \in Nat, NEW L \in Nat \ {0}, NEW x \in Nat
    PROVE  /\ (F * L + x) \div L = F + (x \div L)
           /\ (F * L + x) % L = x % L
<1> DEFINE y == F * L + x
           q == x \div L
           r == x % L
           qq == y \div L
           rr == y % L
<1>1. y \in Nat /\ y = L * F + x
  OBVIOUS
<1>2. q \in Nat /\ r \in 0 .. L - 1 /\ x = L * q + r
  OBVIOUS
<1>3. qq \in Nat /\ rr \in 0 .. L - 1 /\ y = L * qq + rr
  BY <1>1
<1> HIDE DEF y, q, r, qq, rr
<1> DEFINE d == qq - (F + q)
<1>4. d \in Int /\ qq = F + q + d
  BY <1>2, <1>3
<1>5. L * qq = L * F + L * q + L * d
  BY <1>2, <1>4
<1>6. L * d = r - rr
  <2>1. L * F \in Int /\ L * q \in Int /\ L * d \in Int /\ L * qq \in Int
    BY <1>2, <1>3, <1>4
  <2> QED BY <1>1, <1>2, <1>3, <1>5, <2>1
<1> HIDE DEF d
<1>7. ~(d >= 1)
  <2>1. SUFFICES ASSUME d >= 1 PROVE FALSE
    OBVIOUS
  <2>2. L * d >= L
    BY <2>1, <1>4
  <2> QED BY <2>2, <1>2, <1>3, <1>6
<1>8. ~(d <= -1)
  <2>1. SUFFICES ASSUME d <= -1 PROVE FALSE
    OBVIOUS
  <2>2. L * d <= -L
    BY <2>1, <1>4
  <2> QED BY <2>2, <1>2, <1>3, <1>6
<1>9. d = 0
  BY <1>4, <1>7, <1>8
<1>10. qq = F + q /\ rr = r
  <2>1. L * d = 0
    BY <1>9
  <2> QED BY <1>2, <1>3, <1>4, <1>6, <1>9, <2>1
<1> QED BY <1>10 DEF y, q, r, qq, rr

\* The cases of more frameworks come behind those of fewer.
LEMMA BuildCasesConcat ==
    ASSUME NEW fs \in Seq(Frameworks), NEW gs \in Seq(Frameworks)
    PROVE  BuildCases(fs \o gs) = BuildCases(fs) \o BuildCases(gs)
<1> DEFINE L == Len(Workers)
           F == Len(fs)
           G == Len(gs)
           all == BuildCases(fs \o gs)
           one == BuildCases(fs)
           two == BuildCases(gs)
<1>1. L \in Nat \ {0}
  BY OptionsAssumption, EmptySeq, LenProperties
<1>2. F \in Nat /\ G \in Nat /\ Len(fs \o gs) = F + G /\ fs \o gs \in Seq(Frameworks)
  OBVIOUS
<1>3. F * L \in Nat /\ G * L \in Nat /\ (F + G) * L = F * L + G * L
  BY <1>1, <1>2
<1>4. /\ all \in Seq(Cases) /\ Len(all) = F * L + G * L
      /\ one \in Seq(Cases) /\ Len(one) = F * L
      /\ two \in Seq(Cases) /\ Len(two) = G * L
  <2>1. \A hs \in Seq(Frameworks) : DOMAIN BuildCases(hs) = 1 .. Len(hs) * L
    BY DEF BuildCases
  <2>2. all \in Seq(Cases) /\ one \in Seq(Cases) /\ two \in Seq(Cases)
    BY <1>2, BuildCasesType
  <2>3. DOMAIN all = 1 .. (F * L + G * L) /\ DOMAIN one = 1 .. F * L /\ DOMAIN two = 1 .. G * L
    BY <1>2, <1>3, <2>1
  <2> HIDE DEF all, one, two
  <2> QED BY <1>3, <2>2, <2>3
<1>5. \A n \in 1 .. F * L + G * L :
        all[n] = [framework |-> (fs \o gs)[((n - 1) \div L) + 1], workers |-> Workers[((n - 1) % L) + 1]]
  <2>1. all = [n \in 1 .. F * L + G * L |->
                 [framework |-> (fs \o gs)[((n - 1) \div L) + 1], workers |-> Workers[((n - 1) % L) + 1]]]
    BY <1>2, <1>3 DEF BuildCases
  <2> HIDE DEF all
  <2> QED BY <2>1
<1>6. \A n \in 1 .. F * L :
        one[n] = [framework |-> fs[((n - 1) \div L) + 1], workers |-> Workers[((n - 1) % L) + 1]]
  BY DEF BuildCases
<1>7. \A n \in 1 .. G * L :
        two[n] = [framework |-> gs[((n - 1) \div L) + 1], workers |-> Workers[((n - 1) % L) + 1]]
  BY DEF BuildCases
<1>8. ASSUME NEW n \in 1 .. F * L PROVE all[n] = one[n]
  <2>1. ((n - 1) \div L) + 1 \in 1 .. F
    BY <1>1, <1>2, Division
  <2>2. (fs \o gs)[((n - 1) \div L) + 1] = fs[((n - 1) \div L) + 1]
    BY <2>1
  <2>3. n \in 1 .. F * L + G * L
    BY <1>3
  <2> HIDE DEF all, one, two, F, G, L
  <2> QED BY <1>5, <1>6, <2>2, <2>3
<1>9. ASSUME NEW n \in 1 .. G * L PROVE all[F * L + n] = two[n]
  <2>1. ((n - 1) \div L) + 1 \in 1 .. G /\ n - 1 \in Nat
    BY <1>1, <1>2, <1>3, Division
  <2>2. /\ (F * L + (n - 1)) \div L = F + ((n - 1) \div L)
        /\ (F * L + (n - 1)) % L = (n - 1) % L
    BY <1>1, <1>2, <2>1, DivisionShift
  <2>3. F * L + (n - 1) = (F * L + n) - 1 /\ F * L + n \in 1 .. F * L + G * L
    BY <1>3
  <2> DEFINE k == ((n - 1) \div L) + 1
  <2>4. k \in 1 .. G
    BY <2>1
  <2>5. ((F * L + n) - 1) \div L + 1 = F + k
    <3>1. (n - 1) \div L \in Int
      BY <1>1, <2>1
    <3> QED BY <1>2, <2>2, <2>3, <3>1
  <2>6. (fs \o gs)[F + k] = gs[k]
    <3> HIDE DEF k
    <3> QED BY <2>4
  <2>7. all[F * L + n] = [framework |-> (fs \o gs)[F + k], workers |-> Workers[((n - 1) % L) + 1]]
    <3> HIDE DEF all, F, G, L
    <3> QED BY <1>5, <2>2, <2>3, <2>5
  <2> HIDE DEF all, two, F, G, L
  <2> QED BY <1>7, <2>6, <2>7
<1> DEFINE p == F * L
           q == G * L
<1>10. /\ p \in Nat /\ q \in Nat
       /\ all \in Seq(Cases) /\ Len(all) = p + q
       /\ one \in Seq(Cases) /\ Len(one) = p
       /\ two \in Seq(Cases) /\ Len(two) = q
       /\ \A n \in 1 .. p : all[n] = one[n]
       /\ \A n \in 1 .. q : all[p + n] = two[n]
  BY <1>3, <1>4, <1>8, <1>9
<1> HIDE DEF all, one, two, F, G, L, p, q
<1>11. all = one \o two
  <2>1. /\ one \o two \in Seq(Cases) /\ Len(one \o two) = Len(one) + Len(two)
        /\ \A n \in 1 .. Len(one) + Len(two) :
              (one \o two)[n] = IF n <= Len(one) THEN one[n] ELSE two[n - Len(one)]
    BY <1>10, ConcatProperties
  <2>2. ASSUME NEW n \in 1 .. p + q PROVE all[n] = (one \o two)[n]
    <3>1. CASE n <= p
      BY <1>10, <2>1, <3>1
    <3>2. CASE n > p
      <4>1. PICK m \in 1 .. q : n = p + m
        <5>1. n - p \in 1 .. q /\ n = p + (n - p)
          BY <1>10, <3>2
        <5> QED BY <5>1
      <4>2. all[n] = two[m]
        BY <1>10, <4>1
      <4>3. ~(n <= p) /\ n - p = m
        BY <1>10, <3>2, <4>1
      <4> QED BY <1>10, <2>1, <4>2, <4>3
    <3> QED BY <1>10, <3>1, <3>2
  <2> QED BY <1>10, <2>1, <2>2, SeqEqual
<1> QED BY <1>11 DEF all, one, two

\* How many of the cases of fs are c, and how many of the reported ones.
Asked(fs, c) == Count(BuildCases(fs), c)
CasesOf(rs) == [i \in DOMAIN rs |-> rs[i].case]
Said(rs, c) == Count(CasesOf(rs), c)

\* The cases behind the k-th that are c.
LeftPlaces(k, cs, c) == {i \in k + 1 .. Len(cs) : cs[i] = c}
Left(k, cs, c) == Cardinality(LeftPlaces(k, cs, c))

\* What is asked for by no framework, by one more, and by all but the first.
LEMMA AskedSteps ==
    ASSUME NEW fs \in Seq(Frameworks), NEW f \in Frameworks, NEW c
    PROVE  /\ Asked(fs, c) \in Nat
           /\ Asked(<< >>, c) = 0
           /\ Asked(Append(fs, f), c) = Asked(fs, c) + Asked(<<f>>, c)
           /\ fs # << >> => Asked(fs, c) = Asked(<<Head(fs)>>, c) + Asked(Tail(fs), c)
<1>1. \A gs \in Seq(Frameworks) : BuildCases(gs) \in Seq(Cases)
  BY BuildCasesType
<1>2. \A gs \in Seq(Frameworks) : Asked(gs, c) \in Nat
  BY <1>1, CountType DEF Asked
<1>3. ASSUME NEW gs \in Seq(Frameworks), NEW hs \in Seq(Frameworks)
      PROVE  Asked(gs \o hs, c) = Asked(gs, c) + Asked(hs, c)
  <2>1. BuildCases(gs) \in Seq(Cases) /\ BuildCases(hs) \in Seq(Cases)
    BY <1>1
  <2>2. Count(BuildCases(gs) \o BuildCases(hs), c) = Count(BuildCases(gs), c) + Count(BuildCases(hs), c)
    BY <2>1, CountConcat
  <2>3. BuildCases(gs \o hs) = BuildCases(gs) \o BuildCases(hs)
    BY BuildCasesConcat
  <2> QED BY <2>2, <2>3 DEF Asked
<1>4. << >> \in Seq(Frameworks) /\ <<f>> \in Seq(Frameworks) /\ Append(fs, f) = fs \o <<f>>
  BY AppendProperties, ConcatProperties
<1>5. Asked(<< >>, c) = 0
  <2>1. Len(Workers) \in Nat
    BY OptionsAssumption
  <2>2. BuildCases(<< >>) = << >>
    BY <2>1 DEF BuildCases
  <2> QED BY <2>2, CountSmall DEF Asked
<1>6. ASSUME fs # << >>
      PROVE  /\ <<Head(fs)>> \in Seq(Frameworks) /\ Tail(fs) \in Seq(Frameworks)
             /\ fs = <<Head(fs)>> \o Tail(fs)
  <2> DEFINE h == Head(fs)
             t == Tail(fs)
  <2>1. /\ h \in Frameworks /\ h = fs[1] /\ t \in Seq(Frameworks) /\ Len(t) = Len(fs) - 1
        /\ \A i \in 1 .. Len(t) : t[i] = fs[i + 1]
        /\ Len(fs) \in Nat /\ Len(fs) >= 1
    BY <1>6, HeadTailProperties, EmptySeq
  <2> HIDE DEF h, t
  <2>2. /\ <<h>> \in Seq(Frameworks) /\ Len(<<h>>) = 1 /\ <<h>>[1] = h
    BY <2>1
  <2>3. /\ <<h>> \o t \in Seq(Frameworks) /\ Len(<<h>> \o t) = Len(fs)
        /\ \A i \in 1 .. Len(fs) : (<<h>> \o t)[i] = IF i <= 1 THEN <<h>>[i] ELSE t[i - 1]
    BY <2>1, <2>2, ConcatProperties
  <2>4. ASSUME NEW i \in 1 .. Len(fs) PROVE fs[i] = (<<h>> \o t)[i]
    <3>1. CASE i = 1
      BY <2>1, <2>2, <2>3, <3>1
    <3>2. CASE i # 1
      <4>1. i - 1 \in 1 .. Len(t) /\ (i - 1) + 1 = i /\ ~(i <= 1)
        BY <2>1, <3>2
      <4>2. t[i - 1] = fs[(i - 1) + 1]
        BY <2>1, <4>1
      <4> QED BY <2>3, <4>1, <4>2
    <3> QED BY <3>1, <3>2
  <2>5. fs = <<h>> \o t
    BY <2>3, <2>4, SeqEqual
  <2> QED BY <2>1, <2>2, <2>5 DEF h, t
<1> QED BY <1>2, <1>3, <1>4, <1>5, <1>6

\* What is said by no results, by one more, and by those that skip fs.
LEMMA SaidSteps ==
    ASSUME NEW rs \in Seq(Results), NEW c
    PROVE  /\ Said(rs, c) \in Nat
           /\ Said(<< >>, c) = 0
           /\ \A r \in Results : Said(Append(rs, r), c) = Said(rs, c) + One(r.case, c)
           /\ \A fs \in Seq(Frameworks) :
                 /\ Said(SkipResults(fs), c) = Asked(fs, c)
                 /\ Said(rs \o SkipResults(fs), c) = Said(rs, c) + Asked(fs, c)
<1>1. ASSUME NEW ts \in Seq(Results)
      PROVE  CasesOf(ts) \in Seq(Cases) /\ Len(CasesOf(ts)) = Len(ts)
             /\ \A i \in 1 .. Len(ts) : CasesOf(ts)[i] = ts[i].case
  <2>1. ASSUME NEW i \in 1 .. Len(ts) PROVE ts[i].case \in Cases
    <3>1. ts[i] \in Results
      OBVIOUS
    <3> QED BY <3>1 DEF Results
  <2>2. CasesOf(ts) = [i \in 1 .. Len(ts) |-> ts[i].case] /\ Len(ts) \in Nat
    BY DEF CasesOf
  <2> QED BY <2>1, <2>2
<1>2. ASSUME NEW ts \in Seq(Results) PROVE Said(ts, c) \in Nat
  BY <1>1, CountType DEF Said
<1>3. CasesOf(<< >>) = << >>
  BY DEF CasesOf
<1>4. ASSUME NEW ts \in Seq(Results)
      PROVE  Said(rs \o ts, c) = Said(rs, c) + Said(ts, c)
  <2>1. rs \o ts \in Seq(Results) /\ Len(rs \o ts) = Len(rs) + Len(ts)
    BY ConcatProperties
  <2> DEFINE a == CasesOf(rs)
             b == CasesOf(ts)
             d == CasesOf(rs \o ts)
  <2>2. /\ a \in Seq(Cases) /\ Len(a) = Len(rs)
        /\ b \in Seq(Cases) /\ Len(b) = Len(ts)
        /\ d \in Seq(Cases) /\ Len(d) = Len(rs) + Len(ts)
    BY <1>1, <2>1
  <2>3. ASSUME NEW i \in 1 .. Len(rs) + Len(ts)
        PROVE  d[i] = IF i <= Len(rs) THEN a[i] ELSE b[i - Len(rs)]
    <3>1. d[i] = (rs \o ts)[i].case
      BY <1>1, <2>1
    <3>2. CASE i <= Len(rs)
      BY <1>1, <3>1, <3>2
    <3>3. CASE i > Len(rs)
      <4>1. i - Len(rs) \in 1 .. Len(ts) /\ (rs \o ts)[i] = ts[i - Len(rs)]
        BY <3>3
      <4>2. b[i - Len(rs)] = ts[i - Len(rs)].case
        BY <1>1, <4>1
      <4> HIDE DEF b, d
      <4> QED BY <3>1, <3>3, <4>1, <4>2
    <3> QED BY <3>2, <3>3
  <2> HIDE DEF a, b, d
  <2>4. d = a \o b
    <3>1. /\ a \o b \in Seq(Cases) /\ Len(a \o b) = Len(a) + Len(b)
          /\ \A i \in 1 .. Len(a) + Len(b) :
                (a \o b)[i] = IF i <= Len(a) THEN a[i] ELSE b[i - Len(a)]
      <4>1. a \in Seq(Cases) /\ b \in Seq(Cases)
        BY <2>2
      <4> QED BY <4>1, ConcatProperties
    <3>2. \A i \in 1 .. Len(d) : d[i] = (a \o b)[i]
      BY <2>2, <2>3, <3>1
    <3> QED BY <2>2, <3>1, <3>2, SeqEqual
  <2>5. Count(a \o b, c) = Count(a, c) + Count(b, c)
    BY <2>2, CountConcat
  <2> QED BY <2>4, <2>5 DEF Said, a, b, d
<1>5. ASSUME NEW r \in Results
      PROVE  Said(<<r>>, c) = One(r.case, c) /\ <<r>> \in Seq(Results) /\ Append(rs, r) = rs \o <<r>>
  <2>1. CasesOf(<<r>>) = <<r.case>>
    BY DEF CasesOf
  <2> QED BY <2>1, CountSmall, AppendProperties DEF Said
<1>6. ASSUME NEW fs \in Seq(Frameworks)
      PROVE  Said(SkipResults(fs), c) = Asked(fs, c) /\ SkipResults(fs) \in Seq(Results)
  <2>1. BuildCases(fs) \in Seq(Cases)
    BY BuildCasesType
  <2>2. CasesOf(SkipResults(fs)) = BuildCases(fs)
    <3> DEFINE bc == BuildCases(fs)
    <3>1. SkipResults(fs) = [i \in 1 .. Len(bc) |-> SkipResult(bc[i])]
      BY <2>1 DEF SkipResults
    <3>2. bc = [i \in 1 .. Len(bc) |-> bc[i]]
      BY <2>1
    <3> HIDE DEF bc
    <3>3. CasesOf(SkipResults(fs)) = [i \in 1 .. Len(bc) |-> bc[i]]
      BY <3>1 DEF CasesOf, SkipResult
    <3> QED BY <3>2, <3>3 DEF bc
  <2> QED BY <2>2, SkipResultsType DEF Said, Asked
<1>7. Said(<< >>, c) = 0
  BY <1>3, CountSmall DEF Said
<1> QED BY <1>2, <1>4, <1>5, <1>6, <1>7

\* All cases are left at the beginning, none in the end, and one less after each.
LEMMA LeftSteps ==
    ASSUME NEW cs \in Seq(Cases), NEW k \in 0 .. Len(cs), NEW c
    PROVE  /\ Left(k, cs, c) \in Nat
           /\ Left(0, cs, c) = Count(cs, c)
           /\ Left(Len(cs), cs, c) = 0
           /\ k # 0 => Left(k - 1, cs, c) = Left(k, cs, c) + One(cs[k], c)
<1>1. Len(cs) \in Nat /\ k \in Nat
  OBVIOUS
<1>2. ASSUME NEW j \in Nat
      PROVE  IsFiniteSet(LeftPlaces(j, cs, c)) /\ Left(j, cs, c) \in Nat
  <2>1. LeftPlaces(j, cs, c) \in SUBSET (j + 1 .. Len(cs))
    BY DEF LeftPlaces
  <2>2. IsFiniteSet(j + 1 .. Len(cs))
    BY <1>1, FS_Interval
  <2> QED BY <2>1, <2>2, FS_Subset, FS_CardinalityType DEF Left
<1>3. Left(0, cs, c) = Count(cs, c)
  <2>1. LeftPlaces(0, cs, c) = Places(cs, c)
    BY DEF LeftPlaces, Places
  <2> QED BY <2>1, CountType DEF Left
<1>4. Left(Len(cs), cs, c) = 0
  <2>1. LeftPlaces(Len(cs), cs, c) = {}
    BY <1>1 DEF LeftPlaces
  <2> QED BY <2>1, FS_EmptySet DEF Left
<1>5. ASSUME k # 0
      PROVE  Left(k - 1, cs, c) = Left(k, cs, c) + One(cs[k], c)
  <2> DEFINE S == LeftPlaces(k, cs, c)
  <2>1. k \notin S /\ IsFiniteSet(S) /\ Cardinality(S) \in Nat
    BY <1>1, <1>2 DEF LeftPlaces, Left
  <2>2. LeftPlaces(k - 1, cs, c) = IF cs[k] = c THEN S \cup {k} ELSE S
    <3>1. (k - 1) + 1 .. Len(cs) = (k + 1 .. Len(cs)) \cup {k}
      BY <1>1, <1>5
    <3> QED BY <3>1 DEF LeftPlaces
  <2> HIDE DEF S
  <2>3. Cardinality(S \cup {k}) = Cardinality(S) + 1
    BY <2>1, FS_AddElement
  <2>4. Left(k, cs, c) = Cardinality(S)
    BY DEF Left, S
  <2> QED BY <2>1, <2>2, <2>3, <2>4 DEF Left, One
<1> QED BY <1>1, <1>2, <1>3, <1>4, <1>5

-----------------------------------------------------------------------------
\* What is reported of c, and what is still to come, is what was selected.  In
\* Early phases frameworks are to come, then cases, the one at hand included.
Due(c) == Asked(Selected, c)
ToCome(c) == Asked(todo, c) + Asked(usable, c) + Asked(skipped, c)
Balanced(c) ==
    /\ pc \in Early => Said(results, c) + ToCome(c) = Due(c)
    /\ pc = "next" => Said(results, c) + Left(now, cases, c) = Due(c)
    /\ pc \in Running => Said(results, c) + Left(now - 1, cases, c) = Due(c)
    /\ pc \in {"reported", "exited"} => Said(results, c) = Due(c)

\* When nothing is reported yet, and when no framework was sorted yet.
NoneSorted ==
    /\ pc = "preflight" => results = << >>
    /\ pc = "noOha" => usable = << >> /\ skipped = << >>

Accounted == NoneSorted /\ (~setupOnly => \A c \in Cases : Balanced(c))

\* A session starts with all that was selected to come.
LEMMA InitAccounted == Init => Accounted
<1> SUFFICES ASSUME Init PROVE Accounted
  OBVIOUS
<1>1. pc = "preflight" /\ results = << >> /\ todo = Selected /\ usable = << >> /\ skipped = << >>
  BY DEF Init
<1>2. Selected \in Seq(Frameworks)
  BY OptionsAssumption
<1>3. ASSUME NEW c \in Cases PROVE Balanced(c)
  <2>1. Asked(Selected, c) \in Nat /\ Asked(<< >>, c) = 0
    <3>1. c.framework \in Frameworks
      BY DEF Cases
    <3> QED BY <1>2, <3>1, AskedSteps
  <2>2. Said(<< >>, c) = 0
    <3>1. CasesOf(<< >>) = << >>
      BY DEF CasesOf
    <3> QED BY <3>1, CountSmall DEF Said
  <2> QED BY <1>1, <2>1, <2>2 DEF Balanced, ToCome, Due, Running
<1> QED BY <1>1, <1>3 DEF Accounted, NoneSorted

\* Sorting one framework.
LEMMA SortAccounted ==
    ASSUME IInv, Accounted, Preflight \/ Prepare
    PROVE  Accounted'
<1>0. /\ TypeOK /\ pc' = pc /\ pc \in {"preflight", "prepare"} /\ results' = results
      /\ setupOnly' = setupOnly /\ todo # << >> /\ todo' = Tail(todo)
      /\ \/ skipped' = Append(skipped, Head(todo)) /\ usable' = usable
         \/ usable' = Append(usable, Head(todo)) /\ skipped' = skipped
  BY DEF IInv, Preflight, Prepare, given, report
<1>1. todo \in Seq(Frameworks) /\ usable \in Seq(Frameworks) /\ skipped \in Seq(Frameworks)
  BY <1>0 DEF TypeOK
<1>2. Head(todo) \in Frameworks /\ Tail(todo) \in Seq(Frameworks)
  BY <1>0, <1>1, HeadTailProperties
<1>3. ASSUME NEW c \in Cases, Balanced(c) PROVE Balanced(c)'
  <2> DEFINE f == Head(todo)
  <2>1. Said(results, c) + ToCome(c) = Due(c)
    BY <1>0, <1>3 DEF Balanced, Early
  <2>2. /\ Asked(todo, c) \in Nat /\ Asked(usable, c) \in Nat /\ Asked(skipped, c) \in Nat
        /\ Asked(<<f>>, c) \in Nat /\ Asked(Tail(todo), c) \in Nat
    <3>1. <<f>> \in Seq(Frameworks)
      BY <1>2
    <3> QED BY <1>1, <1>2, <3>1, AskedSteps
  <2>3. Asked(todo, c) = Asked(<<f>>, c) + Asked(Tail(todo), c)
    BY <1>0, <1>1, <1>2, AskedSteps
  <2>4. /\ Asked(Append(skipped, f), c) = Asked(skipped, c) + Asked(<<f>>, c)
        /\ Asked(Append(usable, f), c) = Asked(usable, c) + Asked(<<f>>, c)
    BY <1>1, <1>2, AskedSteps
  <2>5. ToCome(c)' = ToCome(c)
    <3> HIDE DEF f
    <3>1. CASE skipped' = Append(skipped, f) /\ usable' = usable
      BY <1>0, <2>2, <2>3, <2>4, <3>1 DEF ToCome
    <3>2. CASE usable' = Append(usable, f) /\ skipped' = skipped
      BY <1>0, <2>2, <2>3, <2>4, <3>2 DEF ToCome
    <3> QED BY <1>0, <3>1, <3>2 DEF f
  <2> QED BY <1>0, <2>1, <2>5 DEF Balanced, Due, Early, Running
<1> QED BY <1>0, <1>3 DEF Accounted, NoneSorted

\* Reporting what was sorted out, and choosing the cases.
LEMMA ChooseAccounted ==
    ASSUME IInv, Accounted, PreflightEnds \/ SkipSession \/ PrepareEnds
    PROVE  Accounted'
<1>0. TypeOK /\ NoneYet /\ setupOnly' = setupOnly
  BY DEF IInv, PreflightEnds, SkipSession, PrepareEnds, given
<1>1. /\ todo \in Seq(Frameworks) /\ usable \in Seq(Frameworks) /\ skipped \in Seq(Frameworks)
      /\ results \in Seq(Results)
  BY <1>0 DEF TypeOK
<1>2. NoneSorted'
  BY DEF Accounted, NoneSorted, PreflightEnds, SkipSession, PrepareEnds, choice
<1>3. ASSUME NEW c \in Cases, ~setupOnly PROVE Balanced(c)'
  <2>0. Balanced(c) /\ NoneSorted
    BY <1>3 DEF Accounted
  <2>1. /\ Asked(todo, c) \in Nat /\ Asked(usable, c) \in Nat /\ Asked(skipped, c) \in Nat
        /\ Asked(<< >>, c) = 0
    <3>1. c.framework \in Frameworks
      BY DEF Cases
    <3> QED BY <1>1, <3>1, AskedSteps
  <2>2. Said(results, c) \in Nat
    BY <1>1, SaidSteps
  <2>3. ASSUME NEW fs \in Seq(Frameworks)
        PROVE  /\ Said(<< >>, c) = 0
               /\ Said(SkipResults(fs), c) = Asked(fs, c)
               /\ Said(results \o SkipResults(fs), c) = Said(results, c) + Asked(fs, c)
    BY <1>1, SaidSteps
  <2>4. CASE PreflightEnds
    <3>1. /\ results = << >> /\ todo = << >> /\ Said(results, c) + ToCome(c) = Due(c)
      BY <2>0, <2>4 DEF PreflightEnds, NoneSorted, Balanced, Early
    <3>2. /\ pc' \in {"noOha", "prepare"} /\ results' = SkipResults(skipped)
          /\ todo' = usable /\ usable' = << >> /\ skipped' = << >>
      BY <1>3, <2>4 DEF PreflightEnds
    <3>3. Asked(usable, c) + Asked(skipped, c) = Due(c)
      BY <1>1, <2>1, <2>3, <3>1 DEF ToCome
    <3>4. Said(results', c) = Asked(skipped, c) /\ ToCome(c)' = Asked(usable, c)
      BY <1>1, <2>1, <2>3, <3>2 DEF ToCome
    <3>5. Said(results', c) + ToCome(c)' = Due(c)
      BY <2>1, <3>3, <3>4
    <3> QED BY <3>2, <3>5 DEF Balanced, Due, Early, Running
  <2>5. CASE SkipSession
    <3>1. /\ usable = << >> /\ skipped = << >> /\ Said(results, c) + ToCome(c) = Due(c)
      BY <2>0, <2>5 DEF SkipSession, NoneSorted, Balanced, Early
    <3>2. pc' = "reported" /\ results' = results \o SkipResults(todo)
      BY <2>5 DEF SkipSession
    <3>3. Said(results', c) = Due(c)
      BY <1>1, <2>1, <2>2, <2>3, <3>1, <3>2 DEF ToCome
    <3> QED BY <3>2, <3>3 DEF Balanced, Due, Early, Running
  <2>6. CASE PrepareEnds
    <3>1. todo = << >> /\ now = 0 /\ Said(results, c) + ToCome(c) = Due(c)
      BY <1>0, <2>0, <2>6 DEF PrepareEnds, Balanced, Early, NoneYet
    <3>2. /\ pc' = "next" /\ results' = results \o SkipResults(skipped)
          /\ cases' = BuildCases(usable) /\ now' = now
      BY <1>3, <2>6 DEF PrepareEnds
    <3>3. Left(0, BuildCases(usable), c) = Asked(usable, c)
      <4>1. BuildCases(usable) \in Seq(Cases)
        BY <1>1, BuildCasesType
      <4>2. 0 \in 0 .. Len(BuildCases(usable))
        BY <4>1
      <4> QED BY <4>1, <4>2, LeftSteps DEF Asked
    <3>4. Said(results', c) = Said(results, c) + Asked(skipped, c)
      BY <1>1, <2>3, <3>2
    <3>5. Said(results, c) + Asked(usable, c) + Asked(skipped, c) = Due(c)
      BY <2>1, <2>2, <3>1 DEF ToCome
    <3>6. Said(results', c) + Left(now', cases', c) = Due(c)
      BY <2>1, <2>2, <3>1, <3>2, <3>3, <3>4, <3>5
    <3> QED BY <3>2, <3>6 DEF Balanced, Due, Early, Running
  <2> QED BY <2>4, <2>5, <2>6
<1> QED BY <1>0, <1>2, <1>3 DEF Accounted

\* A case that is taken, skipped or reported.
LEMMA CaseAccounted ==
    ASSUME IInv, Accounted, SkipCase \/ Launch \/ LaunchFails \/ Push \/ Report
    PROVE  Accounted'
<1>0. TypeOK /\ TypeOK' /\ setupOnly' = setupOnly /\ cases' = cases
  <2>1. IInv'
    BY NextCaseStep, StopStep
  <2> QED BY <2>1 DEF IInv, SkipCase, Launch, LaunchFails, Push, Report, given
<1>1. cases \in Seq(Cases) /\ results \in Seq(Results) /\ now \in 0 .. Len(cases) /\ now' \in 0 .. Len(cases)
  BY <1>0 DEF TypeOK
<1>2. NoneSorted'
  BY DEF NoneSorted, SkipCase, Launch, LaunchFails, Push, Report
<1>3. ASSUME NEW c \in Cases, Balanced(c) PROVE Balanced(c)'
  <2>1. Said(results, c) \in Nat
    BY <1>1, SaidSteps
  <2>2. ASSUME NEW k \in 0 .. Len(cases)
        PROVE  /\ Left(k, cases, c) \in Nat
               /\ Left(Len(cases), cases, c) = 0
               /\ k # 0 => Left(k - 1, cases, c) = Left(k, cases, c) + One(cases[k], c)
    BY <1>1, LeftSteps
  <2>3. CASE SkipCase
    <3>1. /\ pc = "next" /\ pc' = "next" /\ now' = now + 1 /\ now' # 0 /\ now' - 1 = now
          /\ results' = Append(results, SkipResult(cases[now']))
      BY <1>1, <2>3 DEF SkipCase
    <3>2. cases[now'] \in Cases
      BY <1>1, <3>1
    <3>3. SkipResult(cases[now']) \in Results /\ SkipResult(cases[now']).case = cases[now']
      BY <3>2 DEF SkipResult, Results
    <3>4. Said(results', c) = Said(results, c) + One(cases[now'], c)
      BY <1>1, <3>1, <3>3, SaidSteps
    <3>5. Left(now, cases, c) = Left(now', cases, c) + One(cases[now'], c)
      BY <1>1, <2>2, <3>1
    <3>6. Said(results, c) + Left(now, cases, c) = Due(c)
      BY <1>3, <3>1 DEF Balanced
    <3>7. One(cases[now'], c) \in Nat /\ Left(now', cases, c) \in Nat
      BY <1>1, <2>2 DEF One
    <3>8. Said(results', c) + Left(now', cases, c) = Due(c)
      BY <2>1, <3>4, <3>5, <3>6, <3>7
    <3> QED BY <1>0, <3>1, <3>8 DEF Balanced, Due, Early, Running
  <2>4. CASE Launch \/ LaunchFails
    <3>0. now' = now + 1 /\ now \in Nat
      BY <1>1, <2>4 DEF Launch, LaunchFails
    <3>1. /\ pc = "next" /\ pc' \in {"health", "push"} /\ now' - 1 = now /\ results' = results
      BY <2>4, <3>0 DEF Launch, LaunchFails, report
    <3>2. Said(results', c) + Left(now' - 1, cases', c) = Due(c)
      BY <1>0, <1>3, <3>1 DEF Balanced
    <3> QED BY <3>1, <3>2 DEF Balanced, Due, Early, Running
  <2>5. CASE Push
    <3> DEFINE r == [case |-> cases[now], status |-> IF outcome = "passed" THEN "passed" ELSE "skipped", run |-> now]
    <3>1. /\ pc = "push" /\ pc' = "next" /\ now' = now /\ now # 0 /\ results' = Append(results, r)
      BY <1>0, <2>5 DEF Push, TypeOK, Running
    <3>2. cases[now] \in Cases /\ now \in Nat
      BY <1>1, <3>1
    <3>3. r \in Results /\ r.case = cases[now]
      BY <3>2 DEF Results
    <3> HIDE DEF r
    <3>4. Said(results', c) = Said(results, c) + One(cases[now], c)
      BY <1>1, <3>1, <3>3, SaidSteps
    <3>5. Left(now - 1, cases, c) = Left(now, cases, c) + One(cases[now], c)
      BY <1>1, <2>2, <3>1
    <3>6. Said(results, c) + Left(now - 1, cases, c) = Due(c)
      BY <1>3, <3>1 DEF Balanced, Running
    <3>7. One(cases[now], c) \in Nat /\ Left(now, cases, c) \in Nat
      BY <1>1, <2>2 DEF One
    <3>8. Said(results', c) + Left(now', cases, c) = Due(c)
      BY <2>1, <3>1, <3>4, <3>5, <3>6, <3>7
    <3> QED BY <1>0, <3>1, <3>8 DEF Balanced, Due, Early, Running
  <2>6. CASE Report
    <3>1. pc = "next" /\ pc' = "reported" /\ now = Len(cases) /\ results' = results
      BY <2>6 DEF Report, report
    <3>2. Left(now, cases, c) = 0
      BY <1>1, <2>2, <3>1
    <3>3. Said(results', c) = Due(c)
      BY <1>3, <2>1, <3>1, <3>2 DEF Balanced
    <3> QED BY <3>1, <3>3 DEF Balanced, Due, Early, Running
  <2> QED BY <2>3, <2>4, <2>5, <2>6
<1> QED BY <1>0, <1>2, <1>3 DEF Accounted

\* What leaves the report and the case at hand alone.
LEMMA RestAccounted ==
    ASSUME Accounted, setupOnly' = setupOnly, UNCHANGED <<choice, cases, now, results>>,
           \/ pc' = pc
           \/ pc \in Running /\ pc' \in Running
           \/ pc = "reported" /\ pc' = "exited"
    PROVE  Accounted'
<1>1. /\ todo' = todo /\ usable' = usable /\ skipped' = skipped
      /\ cases' = cases /\ now' = now /\ results' = results
  BY DEF choice
<1>2. NoneSorted'
  BY <1>1 DEF Accounted, NoneSorted, Running
<1>3. ASSUME NEW c \in Cases, Balanced(c) PROVE Balanced(c)'
  <2>1. /\ Said(results, c)' = Said(results, c) /\ ToCome(c)' = ToCome(c) /\ Due(c)' = Due(c)
        /\ Left(now, cases, c)' = Left(now, cases, c)
        /\ Left(now - 1, cases, c)' = Left(now - 1, cases, c)
    BY <1>1 DEF ToCome, Due
  <2> QED BY <1>3, <2>1 DEF Balanced, Early, Running
<1> QED BY <1>2, <1>3 DEF Accounted

\* Every step leaves each selected case reported or still to come.
LEMMA NextAccounted == IInv /\ Accounted /\ [Next]_vars => Accounted'
<1> SUFFICES ASSUME IInv, Accounted, [Next]_vars PROVE Accounted'
  OBVIOUS
<1>1. CASE Preflight \/ Prepare
  BY <1>1, SortAccounted
<1>2. CASE PreflightEnds \/ SkipSession \/ PrepareEnds
  BY <1>2, ChooseAccounted
<1>3. CASE SkipCase \/ Launch \/ LaunchFails \/ Push \/ Report
  BY <1>3, CaseAccounted
<1>4. CASE Healthy \/ Unhealthy \/ Warmup \/ WarmupFails \/ StartSampler \/ Measure \/ MeasureFails \/ StopSampler
  BY <1>4, RestAccounted
  DEF Healthy, Unhealthy, Warmup, WarmupFails, Fail, StartSampler, Measure, MeasureFails, StopSampler,
      Running, given, report
<1>5. CASE Race \/ ListTree \/ KillTree \/ AwaitExit \/ Drain \/ RunnerExits
  BY <1>5, RestAccounted
  DEF Race, ListTree, KillTree, AwaitExit, Drain, RunnerExits, Running, given, report
<1>6. CASE \E i \in DOMAIN cases : LoopBreaks(i)
  BY <1>6, RestAccounted DEF LoopBreaks, given, report
<1>7. CASE Targets \/ OrphansExit
  BY <1>7, RestAccounted DEF Targets, StartWorker, Listen, Exit, OrphansExit, Gone, Runner, given, report
<1>8. CASE UNCHANGED vars
  BY <1>8, RestAccounted DEF vars, choice
<1> QED BY <1>1, <1>2, <1>3, <1>4, <1>5, <1>6, <1>7, <1>8 DEF Next, Step

\* Whatever is missing or fails on the way, the report has every selected case, once
\* for each time it was selected (cli.ts:448, skip-results.ts), for any
\* selection, with frameworks and numbers of workers that repeat.
THEOREM ReportsEachOnce == Spec => []ReportedOnce
<1>1. Accounted => ReportedOnce
  BY DEF Accounted, Balanced, ReportedOnce, Said, CasesOf, Due, Asked
<1> QED BY <1>1, InitAccounted, NextAccounted, Invariant, PTL DEF Spec

-----------------------------------------------------------------------------
(* How long a session takes. *)

\* The steps from a place in a case to the next case, and from the end of the last
\* case to the runner's exit.
ToGo ==
    CASE pc = "health" -> 13 [] pc = "warmup" -> 12 [] pc = "startSampler" -> 11
      [] pc = "measure" -> 10 [] pc = "stopSampler" -> 9 [] pc = "finally" -> 8
      [] pc = "list" -> 7 [] pc = "kill" -> 6 [] pc = "await" -> 5 [] pc = "drain" -> 4
      [] pc = "push" -> 3 [] pc = "next" -> 2 [] pc = "reported" -> 1 [] pc = "exited" -> 0
      [] pc = "noOha" -> 2 [] pc = "prepare" -> 3 [] pc = "preflight" -> 4

\* Cases that are still to come, at most.
CasesToGo ==
    CASE pc \in {"preflight", "prepare"} -> (Len(todo) + Len(usable)) * Len(Workers)
      [] pc \in Running \cup {"next"} -> Len(cases) - now
      [] OTHER -> 0

\* Frameworks that are still to be looked at, or to be set up.
LooksToGo ==
    CASE pc = "preflight" -> 2 * Len(todo) + Len(usable)
      [] pc = "prepare" -> Len(todo)
      [] OTHER -> 0

StepsToGo == 12 * CasesToGo + LooksToGo + ToGo

\* What a step of the session does to it.
Shorter ==
    /\ Step => StepsToGo' < StepsToGo
    /\ ~Step => StepsToGo' = StepsToGo

SessionShrinks == [][Shorter]_vars

LEMMA Sizes ==
    ASSUME IInv
    PROVE  /\ Len(todo) \in Nat /\ Len(usable) \in Nat /\ Len(Workers) \in Nat
           /\ (Len(todo) + Len(usable)) * Len(Workers) \in Nat
           /\ Len(cases) - now \in Nat
<1>1. Len(todo) \in Nat /\ Len(usable) \in Nat /\ Len(Workers) \in Nat /\ Len(cases) \in Nat
  BY OptionsAssumption, LenProperties DEF IInv, TypeOK
<1>2. now \in 0 .. Len(cases)
  BY DEF IInv, TypeOK
<1>3. Len(cases) - now \in Nat
  BY <1>1, <1>2
<1> QED
  BY <1>1, <1>3

LEMMA ToGoIs ==
    ASSUME IInv
    PROVE  ToGo \in 0 .. 13 /\ CasesToGo \in Nat /\ LooksToGo \in Nat /\ StepsToGo \in Nat
<1>1. ToGo \in 0 .. 13
  BY DEF IInv, TypeOK, Running, ToGo
<1>2. CasesToGo \in Nat
  BY Sizes DEF CasesToGo
<1>3. LooksToGo \in Nat
  BY Sizes DEF LooksToGo
<1>4. StepsToGo \in Nat
  BY <1>1, <1>2, <1>3 DEF StepsToGo
<1> QED
  BY <1>1, <1>2, <1>3, <1>4

\* One framework after the other.
LEMMA LooksShrink ==
    ASSUME IInv, IInv', Preflight \/ Prepare
    PROVE  StepsToGo' < StepsToGo
<1>1. Len(todo) \in Nat /\ Len(usable) \in Nat /\ Len(Workers) \in Nat
  BY Sizes
<1>2. /\ pc \in {"preflight", "prepare"} /\ pc' = pc
      /\ todo # << >> /\ todo' = Tail(todo) /\ (usable' = usable \/ usable' = Append(usable, Head(todo)))
  BY DEF Preflight, Prepare
<1>3. todo \in Seq(Frameworks) /\ usable \in Seq(Frameworks) /\ Head(todo) \in Frameworks
  BY <1>2, HeadTailProperties DEF IInv, TypeOK
<1>4. Len(todo') = Len(todo) - 1
  BY <1>2, <1>3, HeadTailProperties
<1>5. Len(usable') = Len(usable) \/ Len(usable') = Len(usable) + 1
  BY <1>2, <1>3, AppendProperties
<1>6. PICK a \in Nat, b \in Nat : a = Len(todo) + Len(usable) /\ b = Len(todo') + Len(usable')
  <2>1. Len(todo') \in Nat /\ Len(usable') \in Nat
    BY Sizes, <1>1, <1>3, <1>4, <1>5, LenProperties DEF IInv, TypeOK
  <2> QED
    BY <1>1, <2>1
<1>7. b <= a
  BY <1>1, <1>4, <1>5, <1>6
<1>8. b * Len(Workers) <= a * Len(Workers) /\ b * Len(Workers) \in Nat /\ a * Len(Workers) \in Nat
  <2>1. PICK d \in Nat : a = b + d
    <3>1. a - b \in Nat /\ a = b + (a - b)
      BY <1>7
    <3> QED
      BY <3>1
  <2>2. a * Len(Workers) = b * Len(Workers) + d * Len(Workers)
    BY <1>1, <2>1
  <2>3. d * Len(Workers) \in Nat /\ b * Len(Workers) \in Nat
    BY <1>1
  <2> QED
    BY <2>2, <2>3
<1>9. CasesToGo = a * Len(Workers) /\ CasesToGo' = b * Len(Workers)
  BY <1>2, <1>6 DEF CasesToGo, Running
<1>10. ToGo' = ToGo
  BY <1>2 DEF ToGo
<1>11. LooksToGo' < LooksToGo /\ LooksToGo \in Nat /\ LooksToGo' \in Nat
  <2>1. LooksToGo \in Nat /\ LooksToGo' \in Nat
    BY <1>1, <1>2, <1>4, <1>5 DEF LooksToGo
  <2>2. LooksToGo' < LooksToGo
    BY <1>1, <1>2, <1>4, <1>5 DEF LooksToGo
  <2> QED
    BY <2>1, <2>2
<1>12. ToGo \in 0 .. 13
  BY ToGoIs
<1> QED
  BY <1>8, <1>9, <1>10, <1>11, <1>12 DEF StepsToGo

\* From one loop to the next.
LEMMA LoopsShrink ==
    ASSUME IInv, IInv', PreflightEnds \/ SkipSession \/ PrepareEnds
    PROVE  StepsToGo' < StepsToGo
<1>0. /\ Len(todo) \in Nat /\ Len(usable) \in Nat /\ Len(Workers) \in Nat /\ Len(<< >>) = 0
      /\ Len(usable) * Len(Workers) \in Nat
  BY Sizes
<1>1. CASE PreflightEnds
  <2>1. /\ pc = "preflight" /\ todo = << >> /\ todo' = usable /\ usable' = << >>
        /\ pc' = "noOha" \/ pc' = "prepare"
    BY <1>1 DEF PreflightEnds
  <2>2. CasesToGo = Len(usable) * Len(Workers) /\ LooksToGo = Len(usable) /\ ToGo = 4
    BY <1>0, <2>1 DEF CasesToGo, LooksToGo, ToGo, Running
  <2>3. CASE pc' = "noOha"
    <3>1. CasesToGo' = 0 /\ LooksToGo' = 0 /\ ToGo' = 2
      BY <2>3 DEF CasesToGo, LooksToGo, ToGo, Running
    <3> QED
      BY <1>0, <2>2, <3>1 DEF StepsToGo
  <2>4. CASE pc' = "prepare"
    <3>1. CasesToGo' = Len(usable) * Len(Workers) /\ LooksToGo' = Len(usable) /\ ToGo' = 3
      BY <1>0, <2>1, <2>4 DEF CasesToGo, LooksToGo, ToGo, Running
    <3> QED
      BY <1>0, <2>2, <3>1 DEF StepsToGo
  <2> QED
    BY <2>1, <2>3, <2>4
<1>2. CASE SkipSession
  <2>1. CasesToGo = 0 /\ LooksToGo = 0 /\ ToGo = 2 /\ CasesToGo' = 0 /\ LooksToGo' = 0 /\ ToGo' = 1
    BY <1>2 DEF SkipSession, CasesToGo, LooksToGo, ToGo, Running
  <2> QED
    BY <2>1 DEF StepsToGo
<1>3. CASE PrepareEnds
  <2>1. pc = "prepare" /\ todo = << >>
    BY <1>3 DEF PrepareEnds
  <2>2. CasesToGo = Len(usable) * Len(Workers) /\ LooksToGo = 0 /\ ToGo = 3
    BY <1>0, <2>1 DEF CasesToGo, LooksToGo, ToGo, Running
  <2>3. CASE setupOnly
    <3>1. pc' = "reported"
      BY <1>3, <2>3 DEF PrepareEnds
    <3>2. CasesToGo' = 0 /\ LooksToGo' = 0 /\ ToGo' = 1
      BY <3>1 DEF CasesToGo, LooksToGo, ToGo, Running
    <3> QED
      BY <1>0, <2>2, <3>2 DEF StepsToGo
  <2>4. CASE ~setupOnly
    <3>1. pc' = "next" /\ cases' = BuildCases(usable) /\ now' = now
      BY <1>3, <2>4 DEF PrepareEnds
    <3>2. Len(cases') = Len(usable) * Len(Workers)
      BY <1>0, <3>1 DEF BuildCases
    <3>3. now' = 0
      BY <2>1, <3>1 DEF IInv, NoneYet, Early
    <3>4. CasesToGo' = Len(usable) * Len(Workers) /\ LooksToGo' = 0 /\ ToGo' = 2
      BY <1>0, <3>1, <3>2, <3>3 DEF CasesToGo, LooksToGo, ToGo
    <3> QED
      BY <1>0, <2>2, <3>4 DEF StepsToGo
  <2> QED
    BY <2>3, <2>4
<1> QED
  BY <1>1, <1>2, <1>3

\* A step within a case, and the last ones.
LEMMA CaseShrinks ==
    ASSUME IInv, Healthy \/ Unhealthy \/ Warmup \/ WarmupFails \/ StartSampler \/ Measure \/ MeasureFails
                 \/ StopSampler \/ Race \/ ListTree \/ KillTree \/ AwaitExit \/ Drain \/ Push
    PROVE  StepsToGo' < StepsToGo
<1>1. /\ pc \in Running /\ pc' \in Running \cup {"next"} /\ cases' = cases /\ now' = now
      /\ ToGo' < ToGo
  BY DEF Healthy, Unhealthy, Warmup, WarmupFails, StartSampler, Measure, MeasureFails, Fail,
         StopSampler, Race, ListTree, KillTree, AwaitExit, Drain, Push, Running, ToGo
<1>2. CasesToGo' = CasesToGo /\ LooksToGo' = 0 /\ LooksToGo = 0
  BY <1>1 DEF CasesToGo, LooksToGo, Running
<1>3. ToGo \in 0 .. 13 /\ CasesToGo \in Nat
  BY ToGoIs
<1>4. ToGo' \in 0 .. 13
  BY <1>1 DEF ToGo, Running
<1>5. StepsToGo = 12 * CasesToGo + ToGo /\ StepsToGo' = 12 * CasesToGo + ToGo'
  BY <1>2, <1>3, <1>4 DEF StepsToGo
<1>6. \A c \in Nat, x \in 0 .. 13, y \in 0 .. 13 : y < x => 12 * c + y < 12 * c + x
  OBVIOUS
<1> QED
  BY <1>1, <1>3, <1>4, <1>5, <1>6

\* The next case, and the end.
LEMMA NextShrinks ==
    ASSUME IInv, SkipCase \/ Launch \/ LaunchFails \/ Report \/ RunnerExits
    PROVE  StepsToGo' < StepsToGo
<1>1. Len(cases) - now \in Nat /\ now \in Nat /\ Len(cases) \in Nat
  BY Sizes, LenProperties DEF IInv, TypeOK
<1>2. CASE SkipCase \/ Launch \/ LaunchFails
  <2>1. pc = "next" /\ now' = now + 1 /\ cases' = cases /\ pc' \in {"next", "health", "push"}
    BY <1>2 DEF SkipCase, Launch, LaunchFails
  <2>2. CasesToGo = Len(cases) - now /\ CasesToGo' = Len(cases) - (now + 1)
    BY <2>1 DEF CasesToGo, Running
  <2>3. LooksToGo = 0 /\ LooksToGo' = 0 /\ ToGo = 2 /\ ToGo' \in 2 .. 13
    BY <2>1 DEF LooksToGo, ToGo
  <2> QED
    BY <1>1, <2>2, <2>3 DEF StepsToGo
<1>3. CASE Report \/ RunnerExits
  <2>1. (pc = "next" /\ pc' = "reported") \/ (pc = "reported" /\ pc' = "exited")
    BY <1>3 DEF Report, RunnerExits
  <2>2. CasesToGo' = 0 /\ LooksToGo' = 0 /\ LooksToGo = 0 /\ ToGo \in 0 .. 13 /\ ToGo' \in 0 .. 13 /\ ToGo' < ToGo
    BY <2>1 DEF CasesToGo, LooksToGo, ToGo, Running
  <2>3. CasesToGo \in Nat
    BY ToGoIs
  <2>4. StepsToGo = 12 * CasesToGo + ToGo
    BY <2>2, <2>3 DEF StepsToGo
  <2>5. StepsToGo' = ToGo'
    <3>1. StepsToGo' = 12 * 0 + 0 + ToGo'
      BY <2>2 DEF StepsToGo
    <3>2. \A y \in 0 .. 13 : 12 * 0 + 0 + y = y
      OBVIOUS
    <3> QED
      BY <2>2, <3>1, <3>2
  <2>6. \A c \in Nat, x \in 0 .. 13, y \in 0 .. 13 : y < x => y < 12 * c + x
    OBVIOUS
  <2> QED
    BY <2>2, <2>3, <2>4, <2>5, <2>6
<1> QED
  BY <1>2, <1>3

\* A session has so many steps left at most, and each of its own is one less: it has
\* no loop that a framework, a load or a target could keep it in, whatever fails and
\* whatever the targets' processes do meanwhile (cli.ts: runBenchmarks).
THEOREM SessionIsBounded == Spec => [](StepsToGo \in Nat) /\ SessionShrinks
<1>1. IInv => StepsToGo \in Nat
  BY ToGoIs
<1>2. IInv /\ IInv' /\ [Next]_vars => [Shorter]_vars
  <2> SUFFICES ASSUME IInv, IInv', Next PROVE Shorter
    OBVIOUS
  <2>1. ASSUME Step PROVE StepsToGo' < StepsToGo
    BY <2>1, LooksShrink, LoopsShrink, CaseShrinks, NextShrinks DEF Step
  <2>2. ASSUME ~Step PROVE StepsToGo' = StepsToGo
    <3>1. UNCHANGED <<pc, todo, usable, cases, now>>
      BY <2>2 DEF Next, LoopBreaks, Targets, StartWorker, Listen, Exit, OrphansExit, Gone, Runner, choice
    <3> QED
      BY <3>1 DEF StepsToGo, CasesToGo, LooksToGo, ToGo
  <2> QED
    BY <2>1, <2>2 DEF Shorter
<1> QED
  BY <1>1, <1>2, Invariant, PTL DEF Spec, SessionShrinks
=============================================================================
