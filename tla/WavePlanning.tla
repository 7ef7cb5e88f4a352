---------------------------- MODULE WavePlanning ----------------------------
(***************************************************************************)
(* compileExecutionPlan (src/lib/execution-plan-compiler-v16-17.mjs) and   *)
(* the planners it composes: validatePlan and computeSafeWaves             *)
(* (task-graph.mjs) order the tasks, classifyPair                          *)
(* (execution-conflict-graph-v16-15.mjs) decides which may share a wave,   *)
(* buildDelegationWaves (delegation-safety.mjs) packs a wave into rows and *)
(* decideParallelExecution (parallel-execution-policy-v16-15.mjs) says     *)
(* whether the rows may overlap.  One step is one turn of a planning loop. *)
(* A declaration keeps what the rules read: the files a task writes, reads *)
(* and generates, its services, whether its commands have external effects *)
(* or are destructive, and what its prose hints at.                        *)
(***************************************************************************)
EXTENDS Integers, Sequences, FiniteSets, SequencesExt

CONSTANTS
  Task,         \* the tasks; their order is that of their ids
  File, Service,
  Family,       \* sets of configuration files with shared state
  Lockfile, Manifest, Shared,  \* kinds of files (LOCKFILE_RE, MANIFEST_RE, SHARED_SURFACE_RE)
  Nobody,       \* a dependency that names no task
  Plans,        \* the plans: a declaration and dependencies for each task
  Contexts      \* what the controller tells the compiler

Hint == {"destructive", "external", "service"}
Declaration ==
  [writes : SUBSET File, reads : SUBSET File, generates : SUBSET File,
   services : SUBSET Service, external : BOOLEAN, destructive : BOOLEAN,
   prose : SUBSET Hint, high : BOOLEAN]

ASSUME PlanningAssumption ==
  /\ Task \subseteq Nat
  /\ IsFiniteSet(Task) /\ Task # {} /\ Nobody \notin Task
  /\ Family \subseteq SUBSET File
  /\ {Lockfile, Manifest, Shared} \subseteq SUBSET File
  /\ Plans \subseteq [decl : [Task -> Declaration],
                      deps : [Task -> SUBSET (Task \cup {Nobody})]]
  /\ Contexts \subseteq [width : 1..3, research : BOOLEAN, release : BOOLEAN,
                         pressure : {"high", "elevated", "other"}]

VARIABLES
  plan, ctx,    \* the input
  phase,
  remaining,    \* computeSafeWaves: the tasks without a wave
  candidates,   \* the ready tasks it has not looked at
  selected,     \* the wave it fills
  waves,        \* the waves it has filled
  serialized,   \* the pairs <<task, conflictsWith>> it reports
  rest, unseen, \* buildDelegationWaves: the tasks without a row, and those not probed
  row, rows,    \* the row it fills, and those it has filled
  compiled      \* the waves of the execution plan

input == <<plan, ctx>>
order == <<remaining, candidates, selected, waves, serialized>>
packing == <<rest, unseen, row, rows>>
vars == <<input, phase, order, packing, compiled>>

Of(t) == plan.decl[t]
Silent(t) == Of(t).writes = {} /\ Of(t).reads = {}

Decision == {"SERIAL", "PARALLEL", "PARENT_DIRECT"}

TypeOK ==
  /\ plan \in Plans /\ ctx \in Contexts
  /\ phase \in {"validate", "ready", "select", "compile", "done", "refused", "stuck"}
  /\ remaining \subseteq Task /\ candidates \subseteq remaining
  /\ selected \in Seq(remaining)
  /\ waves \in Seq(Seq(Task))
  /\ serialized \subseteq Task \X Task
  /\ {rest, unseen, row} \subseteq Seq(Task) /\ rows \in Seq(Seq(Task))
  /\ compiled \in Seq([tasks : Seq(Task), decision : Decision, concurrency : Nat,
                       rows : Seq(Seq(Task)), worktrees : BOOLEAN])

-----------------------------------------------------------------------------
(* Scopes (normalizeScope) and the verdict on a pair of them.              *)

Scope(t, writer, writes, reads, prose) ==
  [writer |-> writer, writes |-> writes, reads |-> reads,
   generates |-> Of(t).generates, services |-> Of(t).services,
   unknown |-> writer /\ writes = {},
   destructive |-> Of(t).destructive \/ "destructive" \in prose,
   external |-> Of(t).external \/ "external" \in prose,
   mutable |-> Of(t).services # {} \/ "service" \in prose]

\* taskConflictScope: a task that declares no file is a writer of unknown scope.
OrderScope(t) ==
  Scope(t, Of(t).writes # {} \/ Of(t).reads = {}, Of(t).writes, Of(t).reads, {})

\* buildExecutionScopes: here it is a reader; the prose counts.
PolicyScope(t) ==
  Scope(t, Of(t).writes # {}, Of(t).writes, Of(t).reads, Of(t).prose)

\* classifyScope: whatever a writer declares, it writes.
DelegationScope(t) ==
  LET files == Of(t).writes \cup Of(t).reads
      writer == Of(t).writes # {}
  IN  Scope(t, writer, IF writer THEN files ELSE {}, IF writer THEN {} ELSE files,
            Of(t).prose)

Meets(S, T) == S \cap T # {}

Uses(a, b) == Meets(a.reads \cup a.generates, b.writes)

Conflict(a, b) ==
  \/ a.unknown \/ b.unknown
  \/ a.destructive \/ b.destructive
  \/ a.external /\ b.external
  \/ Meets(a.services, b.services)
  \/ a.mutable /\ b.mutable /\ a.writer /\ b.writer
  \/ Meets(a.writes, b.writes)
  \/ Uses(a, b) \/ Uses(b, a)
  \/ \E family \in Family : Meets(a.writes, family) /\ Meets(b.writes, family)
  \/ Meets(a.writes, Lockfile) /\ Meets(b.writes, Manifest)
  \/ Meets(b.writes, Lockfile) /\ Meets(a.writes, Manifest)

-----------------------------------------------------------------------------
(* The order: validatePlan and computeSafeWaves.                           *)

Acyclic ==
  \A S \in SUBSET Task : (\A t \in S : Meets(plan.deps[t], S)) => S = {}

\* A mutant: cycles are not looked for.
ValidUnordered == \A t \in Task : plan.deps[t] \subseteq Task

Valid == (\A t \in Task : plan.deps[t] \subseteq Task) /\ Acyclic

Init ==
  /\ plan \in Plans /\ ctx \in Contexts
  /\ phase = "validate"
  /\ remaining = Task /\ candidates = {} /\ selected = <<>>
  /\ waves = <<>> /\ serialized = {} /\ compiled = <<>>
  /\ rest = <<>> /\ unseen = <<>> /\ row = <<>> /\ rows = <<>>

Validate ==
  /\ phase = "validate"
  /\ phase' = IF Valid THEN "ready" ELSE "refused"
  /\ UNCHANGED <<input, order, packing, compiled>>

\* A mutant: one finished dependency is enough.
ReadySome ==
  {t \in remaining : plan.deps[t] = {} \/ Meets(plan.deps[t], Task \ remaining)}

ReadyTasks == {t \in remaining : plan.deps[t] \subseteq Task \ remaining}

CollectReady ==
  /\ phase = "ready" /\ remaining # {}
  /\ candidates' = ReadyTasks /\ selected' = <<>>
  /\ phase' = IF ReadyTasks = {} THEN "stuck" ELSE "select"
  /\ UNCHANGED <<input, remaining, waves, serialized, packing, compiled>>

\* A mutant: only the task selected last is compared.
AgainstLast(t) ==
  {k \in {Len(selected)} \ {0} : Conflict(OrderScope(t), OrderScope(selected[k]))}

Against(t) ==
  {k \in 1..Len(selected) : Conflict(OrderScope(t), OrderScope(selected[k]))}

Consider(t) ==
  /\ phase = "select"
  /\ t \in candidates /\ \A other \in candidates : t <= other
  /\ candidates' = candidates \ {t}
  /\ \/ /\ Against(t) = {}
        /\ selected' = Append(selected, t)
        /\ UNCHANGED serialized
     \/ /\ \E k \in Against(t) : /\ \A j \in Against(t) : k <= j
                                 /\ serialized' = serialized \cup {<<t, selected[k]>>}
        /\ UNCHANGED selected
  /\ UNCHANGED <<input, phase, remaining, waves, packing, compiled>>

\* The first ready task is always selected.
CloseWave ==
  /\ phase = "select" /\ candidates = {}
  /\ waves' = Append(waves, selected) /\ selected' = <<>>
  /\ remaining' = remaining \ Range(selected)
  /\ phase' = IF remaining' = {} THEN "compile" ELSE "ready"
  /\ rest' = IF remaining' = {} THEN waves'[1] ELSE <<>>
  /\ UNCHANGED <<input, candidates, serialized, unseen, row, rows, compiled>>

-----------------------------------------------------------------------------
(* Rows: buildDelegationWaves.                                             *)

SerialOnly(t) ==
  LET s == DelegationScope(t)
  IN  s.destructive \/ s.external \/ (s.writer /\ s.mutable)

\* assessParallelSafety
Allowed(tasks) ==
  /\ Cardinality(tasks) <= ctx.width
  /\ \A t \in tasks : ~SerialOnly(t)
  /\ \A s, t \in tasks : s # t => ~Conflict(DelegationScope(s), DelegationScope(t))

\* A row is headed by the first task of the rest; what else may join it is
\* looked for from the end.
OpenRow ==
  /\ phase = "compile" /\ row = <<>> /\ rest # <<>>
  /\ row' = <<Head(rest)>> /\ unseen' = Tail(rest) /\ rest' = <<>>
  /\ UNCHANGED <<input, phase, order, rows, compiled>>

Probe ==
  /\ phase = "compile" /\ unseen # <<>>
  /\ unseen' = Front(unseen)
  /\ IF Allowed(Range(row) \cup {Last(unseen)})
       THEN row' = Append(row, Last(unseen)) /\ UNCHANGED rest
       ELSE rest' = <<Last(unseen)>> \o rest /\ UNCHANGED row
  /\ UNCHANGED <<input, phase, order, rows, compiled>>

CloseRow ==
  /\ phase = "compile" /\ row # <<>> /\ unseen = <<>>
  /\ rows' = Append(rows, row) /\ row' = <<>>
  /\ UNCHANGED <<input, phase, order, rest, unseen, compiled>>

-----------------------------------------------------------------------------
(* The decision: decideParallelExecution and compileWave.                  *)

Writers(tasks) == {t \in tasks : Of(t).writes # {}}
Surface(tasks) == UNION {Of(t).writes : t \in tasks}
Independent(t, tasks) ==
  \A other \in tasks \ {t} : ~Conflict(PolicyScope(t), PolicyScope(other))

\* classifyTaskShapeV16_15, and the V16.12 shape it refines
Deep(tasks) ==
  \/ \E t \in tasks : Of(t).high
  \/ Meets(Surface(tasks), Shared)
  \/ Cardinality(Surface(tasks)) > 3

Decomposable(tasks) ==
  /\ Cardinality({t \in Writers(tasks) : Independent(t, tasks)}) >= 2
  /\ Cardinality(Surface(tasks)) >= 2

Shape(tasks) ==
  CASE ctx.release -> "RELEASE"
    [] ~ctx.release /\ Decomposable(tasks) -> "DECOMPOSABLE"
    [] ~ctx.release /\ ~Decomposable(tasks) /\ Deep(tasks) -> "COMPLEX"
    [] ~ctx.release /\ ~Deep(tasks) /\ Cardinality(tasks) = 1
         /\ Cardinality(Surface(tasks)) <= 2 -> "SMALL"
    [] OTHER -> "NORMAL"

WriterBound ==
  CASE ctx.pressure = "high" -> 1
    [] ctx.pressure = "elevated" /\ ctx.width > 2 -> 2
    [] OTHER -> ctx.width

\* thrifty: the estimated overlap saves more than the children cost.
Overlaps(tasks, thrifty) ==
  /\ Shape(tasks) \notin {"SMALL", "RELEASE"}
  /\ ~(ctx.research /\ Writers(tasks) # {})
  /\ IF Cardinality(Writers(tasks)) >= 2
       THEN /\ \A t \in Writers(tasks) : Independent(t, tasks)
            /\ WriterBound >= 2 /\ thrifty
       ELSE Cardinality(tasks) >= 2 /\ Writers(tasks) # tasks

Decided(wave, thrifty) ==
  CASE Shape(Range(wave)) = "SMALL" -> "PARENT_DIRECT"
    [] /\ Overlaps(Range(wave), thrifty)
       /\ \E r \in Range(rows) : Len(r) > 1 -> "PARALLEL"
    [] OTHER -> "SERIAL"

\* The decision has no field of the name the compiler asks it for.
EconomyConcurrency == 1

Concurrency(decision) ==
  IF decision = "PARALLEL" /\ EconomyConcurrency <= ctx.width THEN EconomyConcurrency ELSE 1

\* A mutant: the rows are kept whatever the decision.
PackedVerbatim(decision) == rows

\* A wave that is not parallel is packed again, one task to a row.
Packed(decision) ==
  IF decision = "PARALLEL" THEN rows
  ELSE LET tasks == FlattenSeq(rows)
       IN  [k \in 1..Len(tasks) |-> <<tasks[k]>>]

CompileWave ==
  /\ phase = "compile" /\ rest = <<>> /\ row = <<>>
  /\ LET k == Len(compiled) + 1
     IN  /\ \E thrifty, refused \in BOOLEAN :
              LET decision == IF refused THEN "SERIAL" ELSE Decided(waves[k], thrifty)
              IN  compiled' = Append(compiled,
                    [tasks |-> waves[k], decision |-> decision,
                     concurrency |-> Concurrency(decision), rows |-> Packed(decision),
                     worktrees |-> /\ decision # "PARENT_DIRECT"
                                   /\ Writers(Range(waves[k])) # {}])
         /\ IF k = Len(waves) THEN phase' = "done" /\ UNCHANGED rest
            ELSE rest' = waves[k + 1] /\ UNCHANGED phase
  /\ rows' = <<>>
  /\ UNCHANGED <<input, order, unseen, row>>

Next == \/ Validate \/ CollectReady \/ CloseWave
        \/ OpenRow \/ Probe \/ CloseRow \/ CompileWave
        \/ \E t \in Task : Consider(t)

Spec == Init /\ [][Next]_vars
FairSpec == Spec /\ WF_vars(Next)
-----------------------------------------------------------------------------
(* What the plan promises.                                                 *)

At(t) == {w \in 1..Len(waves) : t \in Range(waves[w])}

\* Every task gets exactly one wave, after the waves of its dependencies
\* (computeSafeWaves, whatever it serializes on the way).
WavesOrdered ==
  /\ \A t \in Task : IF t \in remaining THEN At(t) = {} ELSE \E w \in At(t) : At(t) = {w}
  /\ \A t \in Task \ remaining : \A d \in plan.deps[t] :
       d \in Task \ remaining /\ \A v \in At(d), w \in At(t) : v < w
  /\ \A w \in 1..Len(waves) : waves[w] # <<>> /\ IsInjective(waves[w])

\* What makes two tasks unsafe side by side, said of the declarations: one
\* writes what the other writes, reads or generates, one declares nothing, or
\* they share a configuration, a service or the world outside.
Clash(s, t) ==
  \/ Silent(s) \/ Of(s).destructive
  \/ Meets(Of(s).writes, Of(t).writes \cup Of(t).reads \cup Of(t).generates)
  \/ \E family \in Family : Meets(Of(s).writes, family) /\ Meets(Of(t).writes, family)
  \/ Meets(Of(s).writes, Lockfile) /\ Meets(Of(t).writes, Manifest)
  \/ Meets(Of(s).services, Of(t).services)
  \/ Of(s).external /\ Of(t).external

\* No two tasks of a wave clash, also through a third one that came between
\* them (computeSafeWaves compares a task with every selected one).
WavesIndependent ==
  \A w \in 1..Len(waves) : \A s, t \in Range(waves[w]) : s # t => ~Clash(s, t)

\* The rows of a compiled wave hold its tasks once each; only a parallel wave
\* has a row of several, within the width, and nothing hints that one of them
\* needs to be alone.  A refusal or a serial decision leaves single rows
\* (compileWave: the packing follows the decision).
RowsFollowDecision ==
  \A c \in Range(compiled) :
    /\ \A t \in Range(c.tasks) : \E r \in 1..Len(c.rows) :
         /\ t \in Range(c.rows[r])
         /\ \A s \in 1..Len(c.rows) : t \in Range(c.rows[s]) => s = r
    /\ \A r \in Range(c.rows) : Len(r) > 1 =>
         /\ c.decision = "PARALLEL" /\ IsInjective(r) /\ Len(r) <= ctx.width
         /\ \A t \in Range(r) : /\ ~Of(t).destructive /\ ~Of(t).external
                                /\ Of(t).prose \subseteq {"service"}
         /\ ctx.research => Writers(Range(r)) = {}

\* A plan is either refused before its first wave or compiled whole: the
\* "cannot make progress" of computeSafeWaves is never reached.
PlanningEnds == <>((phase = "refused" /\ waves = <<>>) \/ phase = "done")

\* A parallel decision carries a bound that lets two children overlap.
ParallelOverlaps == \A c \in Range(compiled) : c.decision = "PARALLEL" => c.concurrency >= 2

\* A wave with a task that declares nothing is planned as one with a writer.
SilenceIsAWriter ==
  \A c \in Range(compiled) :
    (\E t \in Range(c.tasks) : Silent(t)) => c.decision # "PARENT_DIRECT" /\ c.worktrees
=============================================================================
