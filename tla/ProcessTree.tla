---------------------------- MODULE ProcessTree ----------------------------
(***************************************************************************)
(* How the benchmark runner stops a target and measures it                 *)
(* (src/benchmarks/src/cli.ts: listUnixProcessTree, stopProcessTree;       *)
(* src/benchmarks/src/sampler/common.ts: aggregateProcessTree).            *)
(*                                                                         *)
(* Both take a table of the host's processes with ps and walk it from the  *)
(* root.  ps is not atomic: it reads one process after the other while     *)
(* they fork and exit, so that a row may name a parent that is gone or     *)
(* that the table does not have.  The ids are read in ascending order, a   *)
(* new process may get any id, and no id is used twice (ASSUMED: kill takes*)
(* an id, and would hit a stranger that was given it in between).          *)
(***************************************************************************)
EXTENDS Naturals, FiniteSets, Sequences, SequencesExt

CONSTANTS
    N,          \* bound: processes there ever are
    Root,       \* the process that was launched
    Unborn,     \* not started yet
    Dead,       \* has exited
    Modes       \* "stop": stopProcessTree, "sample": one sample

Pids == 1 .. N

ASSUME ProcessAssumption ==
    /\ N \in Nat
    /\ Root \in Pids
    /\ Unborn # Dead
    /\ Unborn \notin 0 .. N
    /\ Dead \notin 0 .. N

ASSUME ModesAssumption == Modes \subseteq {"stop", "sample"}

Host == 0       \* every process that is neither the root nor started below it
                \* may be the parent of others, and adopts orphans

VARIABLES
    table,      \* table[p]: the parent of p, Host, Unborn or Dead
    mode,       \* what is asked for
    phase,      \* "idle", "ps", "walk", "TERM", "KILL" or "done"
    cursor,     \* the next process ps reads
    rows,       \* what ps has read: rows[p] is the parent of p, or Dead if there is no row
    queue,      \* ids still to visit
    visited,    \* ids visited, in order
    rss,        \* the sum over the visited rows, each process counting for 1
    todo,       \* ids still to signal, last first
    tree,       \* history: the root and all that was ever started below it
    start,      \* history: the table when the call began
    exits       \* history: who has exited between then and the end of ps

vars == <<table, mode, phase, cursor, rows, queue, visited, rss, todo, tree, start, exits>>

host == <<table, tree>>
history == <<start, exits>>

Alive(p) == table[p] \notin {Unborn, Dead}

Init ==
    /\ table = [p \in Pids |-> IF p = Root THEN Host ELSE Unborn]
    /\ mode \in Modes
    /\ phase = "idle"
    /\ cursor = 1
    /\ rows = [p \in Pids |-> Dead]
    /\ queue = << >> /\ visited = << >> /\ rss = 0 /\ todo = << >>
    /\ tree = {Root}
    /\ start = table
    /\ exits = {}

-----------------------------------------------------------------------------
(* The host. *)

Fork(p, c) ==
    /\ p # Host => Alive(p)
    /\ table[c] = Unborn
    /\ table' = [table EXCEPT ![c] = p]
    /\ tree' = IF p \in tree THEN tree \cup {c} ELSE tree
    /\ UNCHANGED <<mode, phase, cursor, rows, queue, visited, rss, todo, history>>

\* The table without p: the host adopts its children.
Without(p) ==
    [q \in Pids |-> IF q = p THEN Dead ELSE IF table[q] = p THEN Host ELSE table[q]]

Exit(p) ==
    /\ Alive(p)
    /\ table' = Without(p)
    /\ exits' = IF phase = "ps" THEN exits \cup {p} ELSE exits
    /\ UNCHANGED <<mode, phase, cursor, rows, queue, visited, rss, todo, tree, start>>

-----------------------------------------------------------------------------
(* listUnixProcessTree and aggregateProcessTree. *)

Begin ==
    /\ phase = "idle"
    /\ phase' = "ps"
    /\ start' = table
    /\ UNCHANGED <<host, mode, cursor, rows, queue, visited, rss, todo, exits>>

\* ps reads the next process.
ReadProcess ==
    /\ phase = "ps" /\ cursor <= N
    /\ cursor' = cursor + 1
    /\ rows' = [rows EXCEPT ![cursor] = IF Alive(cursor) THEN table[cursor] ELSE Dead]
    /\ UNCHANGED <<host, mode, phase, queue, visited, rss, todo, history>>

PsReturns ==
    /\ phase = "ps" /\ cursor > N
    /\ phase' = "walk"
    /\ queue' = <<Root>>
    /\ UNCHANGED <<host, mode, cursor, rows, visited, rss, todo, history>>

\* ps fails and its output is dropped: the sample throws, and the stop goes on with
\* the root alone.
PsFails ==
    /\ phase = "ps"
    /\ cursor' = 1 /\ rows' = [p \in Pids |-> Dead]
    /\ IF mode = "stop"
       THEN phase' = "TERM" /\ visited' = <<Root>> /\ todo' = <<Root>>
       ELSE phase' = "failed" /\ UNCHANGED <<visited, todo>>
    /\ UNCHANGED <<host, mode, queue, rss, history>>

HasRow(p) == rows[p] # Dead

\* The ids in a set, in the order of the rows.
InOrder(ids) ==
    CHOOSE s \in [1 .. Cardinality(ids) -> ids] :
        \A i, j \in DOMAIN s : i < j => s[i] < s[j]

\* Mutant: what the host has adopted counts for the root.
ChildrenAndOrphans(p) ==
    InOrder({q \in Pids : rows[q] = p \/ (p = Root /\ q # Root /\ rows[q] = Host)})

\* Mutant: only the children of the root are looked for.
ChildrenOfRoot(p) == IF p = Root THEN InOrder({q \in Pids : rows[q] = p}) ELSE << >>

\* The children of p.
ChildrenOf(p) == InOrder({q \in Pids : rows[q] = p})

\* The children that a visit of p adds: a sample passes over an id without a row.
Found(p) == IF mode = "sample" /\ ~HasRow(p) THEN << >> ELSE ChildrenOf(p)

Visit ==
    /\ phase = "walk" /\ queue # << >>
    /\ LET p == Head(queue)
       IN  IF p \in ToSet(visited)
           THEN queue' = Tail(queue) /\ UNCHANGED <<visited, rss>>
           ELSE /\ visited' = Append(visited, p)
                /\ queue' = Tail(queue) \o Found(p)
                /\ rss' = IF HasRow(p) THEN rss + 1 ELSE rss
    /\ UNCHANGED <<host, mode, phase, cursor, rows, todo, history>>

\* Mutant: the list is not reversed.
WalkEndsForward ==
    /\ phase = "walk" /\ queue = << >>
    /\ IF mode = "stop"
       THEN phase' = "TERM" /\ todo' = Reverse(visited)
       ELSE phase' = "done" /\ UNCHANGED todo
    /\ UNCHANGED <<host, mode, cursor, rows, queue, visited, rss, history>>

WalkEnds ==
    /\ phase = "walk" /\ queue = << >>
    /\ IF mode = "stop"
       THEN phase' = "TERM" /\ todo' = visited
       ELSE phase' = "done" /\ UNCHANGED todo
    /\ UNCHANGED <<host, mode, cursor, rows, queue, visited, rss, history>>

-----------------------------------------------------------------------------
(* stopProcessTree. *)

\* kill -TERM: the process exits when it likes to, or never.
Term ==
    /\ phase = "TERM" /\ todo # << >>
    /\ todo' = Front(todo)
    /\ UNCHANGED <<host, mode, phase, cursor, rows, queue, visited, rss, history>>

\* kill -KILL, which fails if the process is gone.
Kill ==
    /\ phase = "KILL" /\ todo # << >>
    /\ LET p == Last(todo)
       IN  table' = IF Alive(p) THEN Without(p) ELSE table
    /\ todo' = Front(todo)
    /\ UNCHANGED <<mode, phase, cursor, rows, queue, visited, rss, tree, history>>

\* Mutant: nobody is killed who was asked to go.
NextSignalSoftly ==
    /\ phase \in {"TERM", "KILL"} /\ todo = << >>
    /\ phase' = "done"
    /\ UNCHANGED <<host, mode, cursor, rows, queue, visited, rss, todo, history>>

\* Mutant: who was asked to go is waited for.
NextSignalWaits ==
    /\ phase \in {"TERM", "KILL"} /\ todo = << >>
    /\ \A p \in ToSet(visited) : ~Alive(p)
    /\ IF phase = "TERM"
       THEN phase' = "KILL" /\ todo' = visited
       ELSE phase' = "done" /\ UNCHANGED todo
    /\ UNCHANGED <<host, mode, cursor, rows, queue, visited, rss, history>>

\* The pause after the last process has got its signal.
NextSignal ==
    /\ phase \in {"TERM", "KILL"} /\ todo = << >>
    /\ IF phase = "TERM"
       THEN phase' = "KILL" /\ todo' = visited
       ELSE phase' = "done" /\ UNCHANGED todo
    /\ UNCHANGED <<host, mode, cursor, rows, queue, visited, rss, history>>

Tool == ReadProcess \/ PsReturns \/ PsFails \/ Visit \/ WalkEnds \/ Term \/ Kill \/ NextSignal

Next ==
    \/ \E p \in Pids \cup {Host}, c \in Pids : Fork(p, c)
    \/ \E p \in Pids : Exit(p)
    \/ Begin
    \/ Tool

Spec == Init /\ [][Next]_vars

FairSpec == Spec /\ WF_vars(Tool)

-----------------------------------------------------------------------------
(* Properties. *)

Parents == 0 .. N \cup {Unborn, Dead}
Phases == {"idle", "ps", "walk", "TERM", "KILL", "failed", "done"}

\* Every variable has its type, and no process is visited twice.
TypeOK ==
    /\ table \in [Pids -> Parents] /\ start \in [Pids -> Parents]
    /\ rows \in [Pids -> 0 .. N \cup {Dead}]
    /\ mode \in Modes /\ phase \in Phases /\ cursor \in 1 .. N + 1
    /\ queue \in Seq(Pids) /\ visited \in Seq(Pids) /\ todo \in Seq(Pids)
    /\ IsInjective(visited)
    /\ rss \in 0 .. N
    /\ tree \subseteq Pids /\ exits \subseteq Pids

\* Who is below r in a table t of parents, r included.
Below(t, r) ==
    LET grow[n \in 0 .. N] ==
          IF n = 0 THEN {r}
          ELSE grow[n - 1] \cup {q \in Pids : t[q] \in grow[n - 1]}
    IN  grow[N]

\* Whatever the processes do while ps reads them, only the root and what was
\* started below it is on the list, and thus signalled.
OnlyTreeSignalled == ToSet(visited) \cup ToSet(todo) \subseteq tree

\* stopProcessTree signals a process only after those that the table has below
\* it: a parent that goes first would leave orphans to the host.
ChildrenFirst ==
    phase \in {"TERM", "KILL"} =>
        \A p, q \in ToSet(visited) :
            rows[p] = q /\ p \in ToSet(todo) => q \in ToSet(todo)

\* When stopProcessTree returns, what was below the root when it was called is
\* dead, except for a process that lost an ancestor before ps had read the table
\* (it has been adopted by the host, and its id is not looked for), or if ps failed.
\* And whoever is on the list is dead.
NoneEscapes ==
    phase = "done" /\ mode = "stop" =>
        /\ \A p \in ToSet(visited) : ~Alive(p)
        /\ cursor > N =>
             \A p \in Below(start, Root) :
                Alive(p) => \E a \in exits \ {p} : p \in Below(start, a)

\* A sample sums up every process below the root in the table once; without a
\* row of the root it is zero, even if there are rows of its children.
SampleIsTheTree ==
    phase = "done" /\ mode = "sample" =>
        LET counted == IF HasRow(Root) THEN Below(rows, Root) ELSE {}
        IN  /\ rss = Cardinality(counted)
            /\ ToSet(visited) = counted \cup {Root}

\* The call returns, whatever the processes do meanwhile: the walk is over a
\* finite table, and the list does not grow while it is signalled.
Returns == phase = "ps" ~> phase \in {"done", "failed"}
=============================================================================
