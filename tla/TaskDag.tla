------------------------------- MODULE TaskDag -------------------------------
(***************************************************************************)
(* runTaskDag (src/lib/task-dag-scheduler-v16-12.mjs): one run of a graph  *)
(* of nodes with bounded overlap.  The scheduling loop is synchronous up   *)
(* to its await, so completions, timers and the caller's abort happen only *)
(* while pc = "wait"; the loop looks at the nodes in the order in which    *)
(* they were declared, 1..N.                                               *)
(***************************************************************************)
EXTENDS Integers, FiniteSets

CONSTANTS
  N,             \* number of nodes
  Declaration,   \* what a node may declare (normalizeNode)
  Widths,        \* the limits a run may have
  InOrder,       \* are nodes declared after their dependencies?
  CancelAll      \* options.cancelAll

Node == 1..N
Lane == {"root", "isolated", "read"}
Effect == Lane

ASSUME DagAssumption ==
  /\ N \in Nat \ {0}
  /\ Declaration \subseteq [effect : Effect, lane : Lane, critical : BOOLEAN,
                            timed : BOOLEAN, old : BOOLEAN]
  /\ Widths \subseteq [Lane -> Nat]
  /\ {InOrder, CancelAll} \subseteq BOOLEAN

VARIABLES
  decl, deps, width,  \* the plan: declarations, dependencies, limits
  status,             \* statusOf; "pending" until settled
  exec,               \* the node's promise: "no", "work", "settled", "over"
  straggling,         \* timed-out nodes whose work goes on
  aborted,            \* controller.signal.aborted
  pc, i,              \* the scheduling loop, and the node it looks at
  awaited,            \* the promises of its race
  stuck               \* nodes settled as dag-deadlock

plan == <<decl, deps, width>>
vars == <<plan, status, exec, straggling, aborted, pc, i, awaited, stuck>>

Status == {"pending", "done", "failed", "cancelled", "stale", "skipped"}

TypeOK ==
  /\ decl \in [Node -> Declaration]
  /\ deps \in [Node -> SUBSET Node]
  /\ width \in Widths
  /\ status \in [Node -> Status]
  /\ exec \in [Node -> {"no", "work", "settled", "over"}]
  /\ straggling \subseteq Node
  /\ aborted \in BOOLEAN
  /\ pc \in {"sweep", "skip", "launch", "decide", "wait", "over"}
  /\ i \in Node
  /\ awaited \subseteq Node
  /\ stuck \subseteq Node

\* planTaskDag throws on a cycle.
Acyclic == \E rank \in [Node -> Node] :
             \A n \in Node : \A d \in deps[n] : rank[d] < rank[n]

Init ==
  /\ decl \in [Node -> Declaration]
  /\ deps \in [Node -> SUBSET Node]
  /\ IF InOrder THEN \A n \in Node : deps[n] \subseteq 1..(n - 1) ELSE Acyclic
  /\ width \in Widths
  /\ status = [n \in Node |-> "pending"]
  /\ exec = [n \in Node |-> "no"]
  /\ straggling = {}
  /\ aborted \in BOOLEAN
  /\ pc = "sweep" /\ i = 1
  /\ awaited = {} /\ stuck = {}

Pending == {n \in Node : status[n] = "pending"}

\* The map `running`, and what activeByResource counts: a node leaves both in
\* its .finally, after it was settled.
Running == {n \in Node : exec[n] \in {"work", "settled"}}

Waiting == Pending \ Running

Settle(S, how) == [n \in Node |-> IF n \in S THEN how ELSE status[n]]

-----------------------------------------------------------------------------
\* The scheduling loop.

Sweep ==
  /\ pc = "sweep"
  /\ status' = IF aborted THEN Settle(Waiting, "cancelled") ELSE status
  /\ pc' = "skip" /\ i' = 1
  /\ UNCHANGED <<plan, exec, straggling, aborted, awaited, stuck>>

NextNode(phase) ==
  IF i < N THEN pc' = pc /\ i' = i + 1 ELSE pc' = phase /\ i' = 1

DependenciesSatisfied(n) == \A d \in deps[n] : status[d] = "done"

\* A mutant: only a failure blocks the dependents.
DependencyFailed(n) == \E d \in deps[n] : status[d] = "failed"

DependencyUnsatisfiable(n) == \E d \in deps[n] : status[d] \notin {"pending", "done"}

\* The dependency sweep looks at node i.
Skip ==
  /\ pc = "skip"
  /\ status' = IF i \in Waiting /\ DependencyUnsatisfiable(i)
               THEN Settle({i}, "skipped") ELSE status
  /\ NextNode("launch")
  /\ UNCHANGED <<plan, exec, straggling, aborted, awaited, stuck>>

InLane(lane) == {m \in Running : decl[m].lane = lane}

\* Root writes, and isolated writes that declare the lane of the root.
Alone(n) ==
  decl[n].effect = "root" \/ (decl[n].effect = "isolated" /\ decl[n].lane = "root")

\* A mutant: a root write starts beside other nodes.
CanStartBeside(n) ==
  /\ InLane("root") = {}
  /\ Cardinality(InLane(decl[n].lane)) < width[decl[n].lane]

CanStart(n) ==
  IF Alone(n)
  THEN Running = {}
  ELSE /\ InLane("root") = {}
       /\ Cardinality(InLane(decl[n].lane)) < width[decl[n].lane]

\* A mutant: the launch does not ask for the dependencies.
LaunchEarly ==
  /\ pc = "launch"
  /\ exec' = IF i \in Waiting /\ CanStart(i) THEN [exec EXCEPT ![i] = "work"] ELSE exec
  /\ NextNode("decide")
  /\ UNCHANGED <<plan, status, straggling, aborted, awaited, stuck>>

\* The launch looks at node i: runNode.
Launch ==
  /\ pc = "launch"
  /\ exec' = IF i \in Waiting /\ DependenciesSatisfied(i) /\ CanStart(i)
             THEN [exec EXCEPT ![i] = "work"] ELSE exec
  /\ NextNode("decide")
  /\ UNCHANGED <<plan, status, straggling, aborted, awaited, stuck>>

\* A mutant: no deadlock guard.
DecideSpin ==
  /\ pc = "decide"
  /\ IF Running # {} THEN pc' = "wait" /\ awaited' = Running
     ELSE pc' = (IF Pending = {} THEN "over" ELSE "sweep") /\ UNCHANGED awaited
  /\ UNCHANGED <<plan, status, stuck, exec, straggling, aborted, i>>

\* The race of the running promises, the end, or the deadlock guard.
Decide ==
  /\ pc = "decide"
  /\ IF Running # {}
     THEN pc' = "wait" /\ awaited' = Running /\ UNCHANGED <<status, stuck>>
     ELSE /\ pc' = "over"
          /\ status' = Settle(Pending, "skipped")
          /\ stuck' = Pending
          /\ UNCHANGED awaited
  /\ UNCHANGED <<plan, exec, straggling, aborted, i>>

\* One of the promises has resolved, its .finally included.
Wake ==
  /\ pc = "wait"
  /\ ~(awaited \subseteq Running)
  /\ pc' = "sweep"
  /\ UNCHANGED <<plan, status, exec, straggling, aborted, i, awaited, stuck>>

-----------------------------------------------------------------------------
\* The nodes, while the loop awaits.

Dependents(S) == {m \in Node : deps[m] \cap S # {}}

\* The transitive dependents of n.
Subtree(n) ==
  {m \in Node : \A S \in SUBSET Node : Dependents(S \cup {n}) \subseteq S => m \in S}

SettleNode(n, how) == IF n \in Pending THEN Settle({n}, how) ELSE status

\* The work of n has ended; its promise goes on to .finally.
End(n) ==
  /\ pc = "wait"
  /\ exec[n] = "work"
  /\ exec' = [exec EXCEPT ![n] = "settled"]
  /\ UNCHANGED <<plan, pc, i, awaited, stuck>>

\* .then, with the late-result guard.
Succeed(n) ==
  /\ End(n)
  /\ status' = SettleNode(n, IF decl[n].old THEN "stale" ELSE "done")
  /\ UNCHANGED <<straggling, aborted>>

\* A mutant: a critical failure cancels all that wait.
FailAll(n) ==
  /\ End(n)
  /\ status' = IF n \in Pending /\ ~aborted /\ decl[n].critical
               THEN [m \in Node |-> IF m = n THEN "failed"
                                   ELSE IF m \in Waiting THEN "cancelled" ELSE status[m]]
               ELSE SettleNode(n, IF aborted THEN "cancelled" ELSE "failed")
  /\ UNCHANGED <<straggling, aborted>>

\* .catch; a critical failure runs cancelRemaining.
Fail(n) ==
  /\ End(n)
  /\ UNCHANGED straggling
  /\ IF n \in Pending /\ ~aborted /\ decl[n].critical
     THEN /\ status' = [m \in Node |->
                          IF m = n THEN "failed"
                          ELSE IF m \in Pending /\ (CancelAll \/ m \in Subtree(n))
                          THEN "cancelled" ELSE status[m]]
          /\ aborted' = CancelAll
     ELSE /\ status' = SettleNode(n, IF aborted THEN "cancelled" ELSE "failed")
          /\ UNCHANGED aborted

\* The timer: the race is lost, and nobody waits for the work any more.
TimeOut(n) ==
  /\ End(n)
  /\ decl[n].timed
  /\ status' = SettleNode(n, "failed")
  /\ straggling' = straggling \cup {n}
  /\ UNCHANGED aborted

\* .finally
Release(n) ==
  /\ pc = "wait"
  /\ exec[n] = "settled"
  /\ exec' = [exec EXCEPT ![n] = "over"]
  /\ UNCHANGED <<plan, status, straggling, aborted, pc, i, awaited, stuck>>

\* The abandoned work ends, at once or late, as it heeds its signal.
StragglerEnds(n) ==
  /\ n \in straggling
  /\ pc \in {"wait", "over"}
  /\ straggling' = straggling \ {n}
  /\ UNCHANGED <<plan, status, exec, aborted, pc, i, awaited, stuck>>

\* The caller's signal.
Abort ==
  /\ pc = "wait"
  /\ ~aborted
  /\ aborted' = TRUE
  /\ UNCHANGED <<plan, status, exec, straggling, pc, i, awaited, stuck>>

Loop == Sweep \/ Skip \/ Launch \/ Decide \/ Wake
NodeStep(n) == Succeed(n) \/ Fail(n) \/ TimeOut(n) \/ Release(n)

Next == Loop \/ Abort \/ \E n \in Node : NodeStep(n) \/ StragglerEnds(n)

Spec == Init /\ [][Next]_vars

\* The event loop runs; the work of a node ends, or its timer does.
FairSpec == Spec /\ WF_vars(Loop) /\ \A n \in Node : WF_vars(NodeStep(n))

-----------------------------------------------------------------------------
\* Properties: the laws at the head of the file.

\* Law 1 as stated, and so to be refuted: while a root write works, nothing else
\* does.
Working == straggling \cup {n \in Node : exec[n] = "work"}

RootWriteAlone ==
  \A m, n \in Working : m # n => decl[m].effect # "root"

\* Law 1 as kept: nothing runs beside a root write until the scheduler has
\* settled it.
RunningRootAlone ==
  \A m, n \in Running : m # n => decl[m].effect # "root"

\* Law 3: no lane runs more nodes than its width, the root's never two.
WidthKept ==
  \A lane \in Lane :
    Cardinality(InLane(lane)) <= (IF lane = "root" THEN 1 ELSE width[lane])

\* Law 4: what runs or ran had all its dependencies done.
DependenciesFirst ==
  \A n \in Node : exec[n] # "no" => DependenciesSatisfied(n)

\* Law 5, and its other side: without an abort a node is given up only when a
\* node it depends on, directly or not, has not produced its result.
Unusable(m) == status[m] \in {"failed", "stale"}

GivenUpForCause ==
  ~aborted =>
    \A n \in Node :
      status[n] \in {"cancelled", "skipped"} =>
        n \in stuck \/ \E m \in Node : Unusable(m) /\ n \in Subtree(m)

\* The deadlock guard speaks the truth: a node it gives up, or one before it,
\* has all it needs and could not start.
DeadlockTruthful ==
  \A n \in stuck : \E m \in stuck :
    /\ m = n \/ n \in Subtree(m)
    /\ DependenciesSatisfied(m)

\* Law 7: at the end every node is settled, and its lane free; a node whose
\* work ended never waits again.
EndedIsSettled ==
  /\ \A n \in Node : exec[n] \in {"settled", "over"} => n \notin Pending
  /\ pc = "over" => Pending = {} /\ Running = {}

\* Every run ends.
RunEnds == <>(pc = "over")
=============================================================================
