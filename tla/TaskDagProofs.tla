---------------------------- MODULE TaskDagProofs ----------------------------
(***************************************************************************)
(* Proofs about TaskDag, for graphs, limits and declarations of every size *)
(* and kind.                                                               *)
(***************************************************************************)
EXTENDS TaskDag, FiniteSetTheorems, WellFoundedInduction, TLAPS

USE DEF plan

-----------------------------------------------------------------------------
(***************************************************************************)
(* Type correctness.                                                       *)
(***************************************************************************)
LEMMA NodeInterval == 1 \in Node /\ \A n \in Node : n < N => n + 1 \in Node
  BY DagAssumption DEF Node

LEMMA SettleType ==
  ASSUME TypeOK, NEW S, NEW how \in Status
  PROVE  Settle(S, how) \in [Node -> Status]
  BY DEF TypeOK, Settle

LEMMA TypeInit == Init => TypeOK
<1> SUFFICES ASSUME Init PROVE TypeOK
  OBVIOUS
<1>1. status \in [Node -> Status] BY DEF Init, Status
<1>2. exec \in [Node -> {"no", "work", "settled", "over"}] BY DEF Init
<1>3. QED BY <1>1, <1>2, NodeInterval DEF Init, TypeOK

LEMMA TypeLoop == TypeOK /\ Loop => TypeOK'
<1> SUFFICES ASSUME TypeOK, Loop PROVE TypeOK'
  OBVIOUS
<1>1. CASE Sweep
  <2>1. status' \in [Node -> Status] BY <1>1, SettleType DEF Sweep, TypeOK, Status
  <2>2. QED BY <1>1, <2>1, NodeInterval DEF Sweep, TypeOK
<1>2. CASE Skip
  <2>1. status' \in [Node -> Status] BY <1>2, SettleType DEF Skip, TypeOK, Status
  <2>2. i' \in Node BY <1>2, NodeInterval DEF Skip, NextNode, TypeOK
  <2>3. QED BY <1>2, <2>1, <2>2 DEF Skip, NextNode, TypeOK
<1>3. CASE Launch
  <2>1. i' \in Node BY <1>3, NodeInterval DEF Launch, NextNode, TypeOK
  <2>2. QED BY <1>3, <2>1 DEF Launch, NextNode, TypeOK
<1>4. CASE Decide
  <2>1. status' \in [Node -> Status] BY <1>4, SettleType DEF Decide, TypeOK, Status
  <2>2. Running \subseteq Node /\ Pending \subseteq Node BY DEF Running, Pending
  <2>3. QED BY <1>4, <2>1, <2>2 DEF Decide, TypeOK
<1>5. CASE Wake BY <1>5 DEF Wake, TypeOK
<1>6. QED BY <1>1, <1>2, <1>3, <1>4, <1>5 DEF Loop

LEMMA TypeNodes ==
  ASSUME TypeOK, NEW n \in Node, NodeStep(n) \/ StragglerEnds(n)
  PROVE  TypeOK'
<1>1. \A how \in Status : SettleNode(n, how) \in [Node -> Status]
  BY SettleType DEF SettleNode, TypeOK
<1>2. CASE Succeed(n) BY <1>1, <1>2 DEF Succeed, End, TypeOK, Status
<1>3. CASE Fail(n)
  <2>1. status' \in [Node -> Status]
    BY <1>1, <1>3 DEF Fail, TypeOK, Status
  <2>2. aborted' \in BOOLEAN BY <1>3, DagAssumption DEF Fail, TypeOK
  <2>3. QED BY <1>3, <2>1, <2>2 DEF Fail, End, TypeOK
<1>4. CASE TimeOut(n) BY <1>1, <1>4 DEF TimeOut, End, TypeOK, Status
<1>5. CASE Release(n) BY <1>5 DEF Release, TypeOK
<1>6. CASE StragglerEnds(n) BY <1>6 DEF StragglerEnds, TypeOK
<1>7. QED BY <1>2, <1>3, <1>4, <1>5, <1>6 DEF NodeStep

LEMMA TypeStep == TypeOK /\ [Next]_vars => TypeOK'
<1> SUFFICES ASSUME TypeOK, [Next]_vars PROVE TypeOK'
  OBVIOUS
<1>1. CASE Abort BY <1>1 DEF Abort, TypeOK
<1>2. CASE UNCHANGED vars BY <1>2 DEF vars, TypeOK
<1>3. QED BY <1>1, <1>2, TypeLoop, TypeNodes DEF Next

\* Every reachable state is well typed, whatever the graph.
THEOREM TypeCorrect == Spec => []TypeOK
BY TypeInit, TypeStep, PTL DEF Spec

-----------------------------------------------------------------------------
(***************************************************************************)
(* What every step keeps: the plan, the status of a settled node, and the  *)
(* order "no", "work", "settled", "over" of a promise, which only Launch   *)
(* makes.                                                                  *)
(***************************************************************************)
Began == {n \in Node : exec[n] # "no"}

LEMMA StatusIsFinal ==
  ASSUME TypeOK, [Next]_vars
  PROVE  /\ plan' = plan
         /\ \A n \in Node : n \notin Pending => status'[n] = status[n]
<1> USE DEF TypeOK, Settle, Pending, Waiting
<1>1. CASE Sweep BY <1>1 DEF Sweep
<1>2. CASE Skip BY <1>2 DEF Skip
<1>3. CASE Launch BY <1>3 DEF Launch
<1>4. CASE Decide BY <1>4 DEF Decide
<1>5. CASE Wake BY <1>5 DEF Wake
<1>6. ASSUME NEW n \in Node, Succeed(n)
      PROVE  plan' = plan /\ \A m \in Node : m \notin Pending => status'[m] = status[m]
  BY <1>6 DEF Succeed, End, SettleNode
<1>7. ASSUME NEW n \in Node, Fail(n)
      PROVE  plan' = plan /\ \A m \in Node : m \notin Pending => status'[m] = status[m]
  BY <1>7 DEF Fail, End, SettleNode
<1>8. ASSUME NEW n \in Node, TimeOut(n)
      PROVE  plan' = plan /\ \A m \in Node : m \notin Pending => status'[m] = status[m]
  BY <1>8 DEF TimeOut, End, SettleNode
<1>9. ASSUME NEW n \in Node, Release(n) \/ StragglerEnds(n)
      PROVE  plan' = plan /\ status' = status
  BY <1>9 DEF Release, StragglerEnds
<1>10. CASE Abort BY <1>10 DEF Abort
<1>11. CASE UNCHANGED vars BY <1>11 DEF vars
<1>12. QED
  BY <1>1, <1>2, <1>3, <1>4, <1>5, <1>6, <1>7, <1>8, <1>9, <1>10, <1>11
     DEF Next, Loop, NodeStep

LEMMA OnlyLaunchBegins ==
  ASSUME TypeOK, [Next]_vars, ~Launch
  PROVE  Began' \subseteq Began /\ Running' \subseteq Running
<1> USE DEF TypeOK, Began, Running
<1>1. CASE Sweep \/ Skip \/ Decide \/ Wake \/ Abort
  BY <1>1 DEF Sweep, Skip, Decide, Wake, Abort
<1>2. ASSUME NEW n \in Node, NodeStep(n)
      PROVE  Began' \subseteq Began /\ Running' \subseteq Running
  BY <1>2 DEF NodeStep, Succeed, Fail, TimeOut, End, Release
<1>3. ASSUME NEW n \in Node, StragglerEnds(n)
      PROVE  Began' \subseteq Began /\ Running' \subseteq Running
  BY <1>3 DEF StragglerEnds
<1>4. CASE UNCHANGED vars BY <1>4 DEF vars
<1>5. QED BY <1>1, <1>2, <1>3, <1>4 DEF Next, Loop

-----------------------------------------------------------------------------
(***************************************************************************)
(* Dependencies first.                                                     *)
(***************************************************************************)
LEMMA DependenciesStep ==
  TypeOK /\ DependenciesFirst /\ [Next]_vars => DependenciesFirst'
<1> SUFFICES ASSUME TypeOK, DependenciesFirst, [Next]_vars,
                    NEW n \in Node, exec'[n] # "no", NEW d \in deps'[n]
             PROVE  status'[d] = "done"
  BY DEF DependenciesFirst, DependenciesSatisfied
<1>1. deps' = deps /\ d \in Node BY StatusIsFinal DEF TypeOK
<1>2. status[d] = "done" => status'[d] = "done"
  BY <1>1, StatusIsFinal DEF Pending
<1>3. CASE n \in Began
  BY <1>1, <1>2, <1>3 DEF Began, DependenciesFirst, DependenciesSatisfied
<1>4. CASE n \notin Began
  <2>1. Launch BY <1>4, OnlyLaunchBegins DEF Began
  <2>2. n = i /\ DependenciesSatisfied(i)
    BY <1>4, <2>1 DEF Launch, Began, TypeOK
  <2>3. QED BY <1>1, <1>2, <2>2 DEF DependenciesSatisfied
<1>5. QED BY <1>3, <1>4

\* In a graph of any shape a node is started only when all its dependencies are
\* done, and none of them is ever anything else afterwards.
THEOREM DependenciesComeFirst == Spec => []DependenciesFirst
<1>1. Init => DependenciesFirst BY DEF Init, DependenciesFirst
<1>2. QED BY <1>1, TypeInit, TypeStep, DependenciesStep, PTL DEF Spec

-----------------------------------------------------------------------------
(***************************************************************************)
(* The lanes.  A root write holds the root's lane unless it declares       *)
(* another one, and the launch reads the lanes.                            *)
(***************************************************************************)
RootHasItsLane == \A d \in Declaration : d.effect = "root" => d.lane = "root"

LaneInv == RunningRootAlone /\ WidthKept

LEMMA LaneFinite ==
  ASSUME NEW lane
  PROVE  IsFiniteSet(InLane(lane)) /\ Cardinality(InLane(lane)) \in Nat
<1>1. IsFiniteSet(Node) BY DagAssumption, FS_Interval DEF Node
<1>2. InLane(lane) \subseteq Node BY DEF InLane, Running
<1>3. QED BY <1>1, <1>2, FS_Subset, FS_CardinalityType

LEMMA LaunchLanes ==
  ASSUME RootHasItsLane, TypeOK, LaneInv, Launch, Running' # Running
  PROVE  LaneInv'
<1>1. /\ i \in Node /\ i \notin Running /\ CanStart(i)
      /\ Running' = Running \cup {i} /\ decl' = decl /\ width' = width
  BY DEF Launch, Running, TypeOK, Waiting
<1>2. /\ decl[i] \in Declaration
      /\ decl[i].effect = "root" => decl[i].lane = "root"
      /\ \A m \in Node : decl[m].effect = "root" => decl[m].lane = "root"
  BY <1>1 DEF TypeOK, RootHasItsLane
<1>3. RunningRootAlone'
  <2>1. CASE Alone(i)
    BY <1>1, <2>1 DEF CanStart, RunningRootAlone
  <2>2. CASE ~Alone(i)
    <3>1. InLane("root") = {} BY <2>2, <1>1 DEF CanStart
    <3>2. \A m \in Running : decl[m].effect # "root"
      BY <1>2, <3>1 DEF InLane, Running
    <3>3. QED BY <1>1, <2>2, <3>2 DEF RunningRootAlone, Alone
  <2>3. QED BY <2>1, <2>2
<1>4. ASSUME NEW lane \in Lane
      PROVE  Cardinality(InLane(lane)') <= (IF lane = "root" THEN 1 ELSE width[lane])
  <2>1. CASE lane # decl[i].lane
    <3>1. InLane(lane)' = InLane(lane) BY <1>1, <2>1 DEF InLane
    <3>2. QED BY <1>4, <3>1 DEF LaneInv, WidthKept
  <2>2. CASE lane = decl[i].lane
    <3>1. InLane(lane)' = InLane(lane) \cup {i} /\ i \notin InLane(lane)
      BY <1>1, <2>2 DEF InLane
    <3>2. Cardinality(InLane(lane)') = Cardinality(InLane(lane)) + 1
      BY <3>1, LaneFinite, FS_AddElement
    <3>3. CASE lane = "root"
      <4>1. InLane(lane) = {} BY <1>1, <3>3 DEF CanStart, InLane
      <4>2. QED BY <3>2, <3>3, <4>1, FS_EmptySet
    <3>4. CASE lane # "root"
      <4>1. ~Alone(i) BY <1>2, <2>2, <3>4 DEF Alone
      <4>2. Cardinality(InLane(lane)) < width[lane]
        BY <1>1, <2>2, <4>1 DEF CanStart
      <4>3. width[lane] \in Nat BY <1>4, DagAssumption DEF TypeOK
      <4>4. QED BY <3>2, <3>4, <4>2, <4>3, LaneFinite
    <3>5. QED BY <3>3, <3>4
  <2>3. QED BY <2>1, <2>2
<1>5. QED BY <1>1, <1>3, <1>4 DEF LaneInv, WidthKept

LEMMA LaneStep ==
  ASSUME RootHasItsLane, TypeOK, LaneInv, [Next]_vars
  PROVE  LaneInv'
<1>1. CASE Running' \subseteq Running
  <2>1. decl' = decl /\ width' = width BY StatusIsFinal
  <2>2. RunningRootAlone' BY <1>1, <2>1 DEF LaneInv, RunningRootAlone
  <2>3. ASSUME NEW lane \in Lane
        PROVE  Cardinality(InLane(lane)') <= (IF lane = "root" THEN 1 ELSE width[lane])
    <3>1. InLane(lane)' \subseteq InLane(lane) BY <1>1, <2>1 DEF InLane
    <3>2. /\ Cardinality(InLane(lane)') \in Nat
          /\ Cardinality(InLane(lane)') <= Cardinality(InLane(lane))
      BY <3>1, LaneFinite, FS_Subset, FS_CardinalityType
    <3>3. width[lane] \in Nat BY <2>3, DagAssumption DEF TypeOK
    <3>4. Cardinality(InLane(lane)) <= (IF lane = "root" THEN 1 ELSE width[lane])
      BY <2>3 DEF LaneInv, WidthKept
    <3>5. QED BY <3>2, <3>3, <3>4, LaneFinite
  <2>4. QED BY <2>1, <2>2, <2>3 DEF LaneInv, WidthKept
<1>2. CASE ~(Running' \subseteq Running)
  BY <1>2, OnlyLaunchBegins, LaunchLanes
<1>3. QED BY <1>1, <1>2

LEMMA LaneInit == Init => LaneInv
<1> SUFFICES ASSUME Init PROVE LaneInv
  OBVIOUS
<1>1. Running = {} BY DEF Init, Running
<1>2. \A lane : Cardinality(InLane(lane)) = 0 BY <1>1, FS_EmptySet DEF InLane
<1>3. \A lane \in Lane : width[lane] \in Nat BY DagAssumption DEF Init
<1>4. QED BY <1>1, <1>2, <1>3 DEF LaneInv, RunningRootAlone, WidthKept

\* If root writes hold the root's lane, nothing is started beside a root write
\* that is not settled, and no root write beside anything.
THEOREM RootWritesAreAlone ==
  ASSUME RootHasItsLane
  PROVE  Spec => []RunningRootAlone
<1>1. TypeOK /\ LaneInv /\ [Next]_vars => LaneInv' BY LaneStep
<1>2. LaneInv => RunningRootAlone BY DEF LaneInv
<1>3. QED BY <1>1, <1>2, TypeInit, TypeStep, LaneInit, PTL DEF Spec

\* Likewise, no lane runs more nodes than its width.
THEOREM WidthsAreKept ==
  ASSUME RootHasItsLane
  PROVE  Spec => []WidthKept
<1>1. TypeOK /\ LaneInv /\ [Next]_vars => LaneInv' BY LaneStep
<1>2. LaneInv => WidthKept BY DEF LaneInv
<1>3. QED BY <1>1, <1>2, TypeInit, TypeStep, LaneInit, PTL DEF Spec

-----------------------------------------------------------------------------
(***************************************************************************)
(* No node is lost or relaunched.                                          *)
(***************************************************************************)
LEMMA EndedStep ==
  TypeOK /\ EndedIsSettled /\ [Next]_vars => EndedIsSettled'
<1> SUFFICES ASSUME TypeOK, EndedIsSettled, [Next]_vars PROVE EndedIsSettled'
  OBVIOUS
<1> USE DEF TypeOK, EndedIsSettled, Pending, Running, Settle
<1>1. CASE Sweep BY <1>1 DEF Sweep
<1>2. CASE Skip BY <1>2 DEF Skip, NextNode
<1>3. CASE Launch BY <1>3 DEF Launch, NextNode
<1>4. CASE Decide BY <1>4 DEF Decide
<1>5. CASE Wake BY <1>5 DEF Wake
<1>6. ASSUME NEW n \in Node, NodeStep(n) PROVE EndedIsSettled'
  <2>1. CASE Succeed(n) BY <2>1 DEF Succeed, End, SettleNode
  <2>2. CASE Fail(n) BY <2>2 DEF Fail, End, SettleNode
  <2>3. CASE TimeOut(n) BY <2>3 DEF TimeOut, End, SettleNode
  <2>4. CASE Release(n) BY <2>4 DEF Release
  <2>5. QED BY <1>6, <2>1, <2>2, <2>3, <2>4 DEF NodeStep
<1>7. ASSUME NEW n \in Node, StragglerEnds(n) PROVE EndedIsSettled'
  BY <1>7 DEF StragglerEnds
<1>8. CASE Abort BY <1>8 DEF Abort
<1>9. CASE UNCHANGED vars BY <1>9 DEF vars
<1>10. QED BY <1>1, <1>2, <1>3, <1>4, <1>5, <1>6, <1>7, <1>8, <1>9 DEF Next, Loop

\* Whatever fails, times out or is aborted, a node whose work ended is settled,
\* and at the end of the run all are.
THEOREM EndedAreSettled == Spec => []EndedIsSettled
<1>1. Init => EndedIsSettled BY DEF Init, EndedIsSettled
<1>2. QED BY <1>1, TypeInit, TypeStep, EndedStep, PTL DEF Spec

-----------------------------------------------------------------------------
(***************************************************************************)
(* Nodes are given up for cause: what is skipped or cancelled depends on a *)
(* node without a result, by way of nodes that were given up before it.    *)
(***************************************************************************)
CauseInv ==
  /\ pc # "over" => stuck = {}
  /\ GivenUpForCause

LEMMA DirectDependent ==
  ASSUME NEW n \in Node, NEW d \in Node, d \in deps[n]
  PROVE  n \in Subtree(d)
  BY DEF Subtree, Dependents

LEMMA IndirectDependent ==
  ASSUME NEW n \in Node, NEW d \in Node, NEW m \in Node, d \in deps[n], d \in Subtree(m)
  PROVE  n \in Subtree(m)
  BY DEF Subtree, Dependents

LEMMA CauseStep ==
  TypeOK /\ CauseInv /\ [Next]_vars => CauseInv'
<1> SUFFICES ASSUME TypeOK, CauseInv, [Next]_vars PROVE CauseInv'
  OBVIOUS
<1>1. deps' = deps /\ \A m \in Node : Subtree(m)' = Subtree(m)
  BY StatusIsFinal DEF Subtree, Dependents
<1>2. \A m \in Node : Unusable(m) => Unusable(m)'
  BY StatusIsFinal DEF Unusable, Pending
\* A node that was given up before keeps its cause.
<1>3. ASSUME stuck = {} \/ stuck' = stuck, ~aborted, ~aborted',
             NEW n \in Node, status'[n] = status[n],
             status'[n] \in {"cancelled", "skipped"}
      PROVE  n \in stuck' \/ \E m \in Node : Unusable(m)' /\ n \in Subtree(m)'
  BY <1>1, <1>2, <1>3 DEF CauseInv, GivenUpForCause
<1>4. CASE Sweep
  <2>1. stuck' = stuck /\ aborted' = aborted /\ (~aborted => status' = status)
    BY <1>4 DEF Sweep
  <2>2. pc # "over" /\ pc' # "over" BY <1>4 DEF Sweep
  <2>3. QED BY <1>3, <2>1, <2>2 DEF CauseInv, GivenUpForCause
<1>5. CASE Skip
  <2>1. /\ stuck' = stuck /\ aborted' = aborted /\ pc # "over" /\ pc' # "over"
        /\ stuck = {}
    BY <1>5 DEF Skip, NextNode, CauseInv
  <2>2. ASSUME ~aborted, NEW n \in Node, status'[n] # status[n]
        PROVE  \E m \in Node : Unusable(m)' /\ n \in Subtree(m)'
    <3>1. n = i /\ DependencyUnsatisfiable(n)
      BY <1>5, <2>2 DEF Skip, Settle, TypeOK
    <3>2. PICK d \in deps[n] : status[d] \notin {"pending", "done"}
      BY <3>1 DEF DependencyUnsatisfiable
    <3>3. d \in Node BY DEF TypeOK
    <3>4. CASE Unusable(d)
      BY <1>1, <1>2, <3>3, <3>4, DirectDependent
    <3>5. CASE ~Unusable(d)
      <4>1. status[d] \in {"cancelled", "skipped"}
        BY <3>2, <3>3, <3>5 DEF Unusable, TypeOK, Status
      <4>2. PICK m \in Node : Unusable(m) /\ d \in Subtree(m)
        BY <2>1, <2>2, <3>3, <4>1 DEF CauseInv, GivenUpForCause
      <4>3. n \in Subtree(m) BY <3>3, <4>2, IndirectDependent
      <4>4. QED BY <1>1, <1>2, <4>2, <4>3
    <3>6. QED BY <3>4, <3>5
  <2>3. QED BY <1>3, <2>1, <2>2 DEF CauseInv, GivenUpForCause
<1>6. CASE Launch \/ Wake \/ Abort
  <2>1. /\ stuck' = stuck /\ status' = status /\ (aborted => aborted')
        /\ pc # "over" /\ pc' # "over"
    BY <1>6 DEF Launch, NextNode, Wake, Abort
  <2>2. QED BY <1>3, <2>1 DEF CauseInv, GivenUpForCause
<1>7. CASE Decide
  <2>1. aborted' = aborted /\ stuck = {} BY <1>7 DEF Decide, CauseInv
  <2>2. CASE Running # {}
    <3>1. stuck' = stuck /\ status' = status /\ pc' # "over"
      BY <1>7, <2>2 DEF Decide
    <3>2. QED BY <1>3, <2>1, <3>1 DEF CauseInv, GivenUpForCause
  <2>3. CASE Running = {}
    <3>1. stuck' = Pending /\ status' = Settle(Pending, "skipped") /\ pc' = "over"
      BY <1>7, <2>3 DEF Decide
    <3>2. \A n \in Node : status'[n] # status[n] => n \in stuck'
      BY <3>1 DEF Settle, TypeOK
    <3>3. QED BY <1>3, <2>1, <3>1, <3>2 DEF CauseInv, GivenUpForCause
  <2>4. QED BY <2>2, <2>3
<1>8. ASSUME NEW k \in Node, NodeStep(k) \/ StragglerEnds(k) PROVE CauseInv'
  <2>1. /\ stuck' = stuck /\ (aborted => aborted') /\ pc' = pc
    BY <1>8 DEF NodeStep, Succeed, Fail, TimeOut, End, Release, StragglerEnds
  <2>2. ASSUME ~aborted', NEW n \in Node, status'[n] # status[n],
               status'[n] \in {"cancelled", "skipped"}
        PROVE  \E m \in Node : Unusable(m)' /\ n \in Subtree(m)'
    <3>1. Fail(k) /\ ~aborted
      BY <1>8, <2>1, <2>2
         DEF NodeStep, Succeed, TimeOut, End, Release, StragglerEnds, SettleNode, Settle, TypeOK
    <3>2. k \in Pending /\ decl[k].critical
      BY <2>2, <3>1 DEF Fail, SettleNode, Settle, TypeOK
    <3>3. /\ ~CancelAll /\ status'[k] = "failed"
          /\ n \in Subtree(k)
      BY <2>2, <3>1, <3>2 DEF Fail, TypeOK
    <3>4. QED BY <1>1, <3>3 DEF Unusable
  <2>3. QED BY <1>3, <2>1, <2>2 DEF CauseInv, GivenUpForCause
<1>9. CASE UNCHANGED vars
  <2>1. stuck' = stuck /\ status' = status /\ aborted' = aborted /\ pc' = pc
    BY <1>9 DEF vars
  <2>2. QED BY <1>3, <2>1 DEF CauseInv, GivenUpForCause
<1>10. QED BY <1>4, <1>5, <1>6, <1>7, <1>8, <1>9 DEF Next, Loop

\* Without an abort, only nodes that depend on a node without a result are given
\* up (but for the ones named by the deadlock guard), in graphs of every shape.
THEOREM GivenUpHasCause == Spec => []GivenUpForCause
<1>1. Init => CauseInv BY DEF Init, CauseInv, GivenUpForCause
<1>2. CauseInv => GivenUpForCause BY DEF CauseInv
<1>3. QED BY <1>1, <1>2, TypeInit, TypeStep, CauseStep, PTL DEF Spec
-----------------------------------------------------------------------------
(***************************************************************************)
(* The deadlock guard.  When nodes are declared after their dependencies,  *)
(* one pass of the dependency sweep leaves no node waiting for one that    *)
(* was given up; so a node without anything running waits for pending ones *)
(* only, and the first of these has all it needs.                          *)
(***************************************************************************)
StuckInv ==
  /\ \A n \in Node : deps[n] \subseteq 1..(n - 1)
  /\ pc # "over" => stuck = {}
  /\ pc = "skip" => \A n \in Waiting : n < i => ~DependencyUnsatisfiable(n)
  /\ pc \in {"launch", "decide"} => \A n \in Waiting : ~DependencyUnsatisfiable(n)
  /\ DeadlockTruthful

LEMMA FurtherDependent ==
  ASSUME NEW n \in Node, NEW m \in Node, NEW d \in Node,
         d \in deps[m], n = m \/ n \in Subtree(m)
  PROVE  n \in Subtree(d)
<1>1. m \in Subtree(d) BY DirectDependent
<1>2. CASE n \in Subtree(m)
  <2> SUFFICES ASSUME NEW S \in SUBSET Node, Dependents(S \cup {d}) \subseteq S
               PROVE  n \in S
    BY DEF Subtree
  <2>1. m \in S BY <1>1 DEF Subtree
  <2>2. Dependents(S \cup {m}) \subseteq S BY <2>1 DEF Dependents
  <2>3. QED BY <1>2, <2>2 DEF Subtree
<1>3. QED BY <1>1, <1>2

Less == {p \in Nat \X Nat : p[1] < p[2]}

LEMMA LeastNumber ==
  ASSUME NEW S \in SUBSET Nat, S # {}
  PROVE  \E m \in S : \A k \in S : ~(k < m)
<1>1. IsWellFoundedOn(Less, Nat) BY NatLessThanWellFounded DEF OpToRel, Less
<1>2. PICK m \in S : \A k \in S : ~(<<k, m>> \in Less) BY <1>1, WFMin
<1>3. QED BY <1>2 DEF Less

\* The first pending node that n depends on, or n itself.
LEMMA FirstPending ==
  ASSUME TypeOK, \A n \in Node : deps[n] \subseteq 1..(n - 1), NEW n \in Pending,
         \A m \in Pending : ~DependencyUnsatisfiable(m)
  PROVE  \E m \in Pending : (m = n \/ n \in Subtree(m)) /\ DependenciesSatisfied(m)
<1> DEFINE S == {m \in Pending : m = n \/ n \in Subtree(m)}
<1>1. S \subseteq Nat /\ S \subseteq Node /\ n \in S
  BY DagAssumption DEF Pending, Node
<1>2. S # {} BY <1>1
<1> HIDE DEF S
<1>3. PICK m \in S : \A k \in S : ~(k < m) BY <1>1, <1>2, LeastNumber
<1> USE DEF S
<1>4. ASSUME NEW d \in deps[m] PROVE status[d] = "done"
  <2>1. m \in Node /\ d \in Node /\ m \in Pending BY <1>1 DEF TypeOK
  <2>2. d < m BY <2>1 DEF Node
  <2>3. status[d] \in {"pending", "done"}
    BY <2>1 DEF DependencyUnsatisfiable
  <2>4. n \in Subtree(d) BY <2>1, FurtherDependent DEF Pending
  <2>5. d \notin Pending BY <1>3, <2>2, <2>4
  <2>6. QED BY <2>1, <2>3, <2>5 DEF Pending
<1>5. QED BY <1>4 DEF DependenciesSatisfied

\* What is in the pile of the guard stays true of it.
LEMMA TruthStays ==
  ASSUME TypeOK, [Next]_vars, DeadlockTruthful, stuck' = stuck
  PROVE  DeadlockTruthful'
<1>1. deps' = deps /\ \A m \in Node : Subtree(m)' = Subtree(m)
  BY StatusIsFinal DEF Subtree, Dependents
<1>2. \A m \in Node : DependenciesSatisfied(m) => DependenciesSatisfied(m)'
  BY <1>1, StatusIsFinal DEF DependenciesSatisfied, Pending, TypeOK
<1>3. stuck \subseteq Node BY DEF TypeOK
<1>4. QED BY <1>1, <1>2, <1>3 DEF DeadlockTruthful

LEMMA StuckStep ==
  TypeOK /\ TypeOK' /\ StuckInv /\ [Next]_vars => StuckInv'
<1> SUFFICES ASSUME TypeOK, TypeOK', StuckInv, [Next]_vars PROVE StuckInv'
  OBVIOUS
<1>1. deps' = deps BY StatusIsFinal
<1>2. \A n \in Node : deps'[n] \subseteq 1..(n - 1) BY <1>1 DEF StuckInv
<1>3. CASE Sweep
  <2>1. stuck' = stuck /\ pc' = "skip" /\ i' = 1 /\ pc # "over" BY <1>3 DEF Sweep
  <2>2. \A n \in Node : ~(n < 1) BY DagAssumption DEF Node
  <2>3. Waiting' \subseteq Node BY DEF Waiting, Pending
  <2>4. QED BY <1>2, <2>1, <2>2, <2>3, TruthStays DEF StuckInv
<1>4. CASE Skip
  <2>1. stuck' = stuck /\ exec' = exec /\ pc = "skip" /\ i \in Node
    BY <1>4 DEF Skip, TypeOK
  <2>2. Waiting' \subseteq Waiting
    BY <1>4 DEF Skip, Waiting, Pending, Running, Settle, TypeOK
  <2>3. ASSUME NEW n \in Waiting', n < i \/ n = i PROVE ~DependencyUnsatisfiable(n)'
    <3>1. n \in Node /\ n \in Waiting BY <2>2 DEF Waiting, Pending
    <3>2. ~DependencyUnsatisfiable(n)
      <4>1. CASE n < i BY <2>1, <3>1, <4>1 DEF StuckInv
      <4>2. CASE n = i /\ DependencyUnsatisfiable(n)
        <5>1. status' = Settle({i}, "skipped") BY <1>4, <3>1, <4>2 DEF Skip
        <5>2. status'[n] = "skipped" BY <3>1, <4>2, <5>1 DEF Settle
        <5>3. QED BY <5>2 DEF Waiting, Pending
      <4>3. QED BY <2>3, <4>1, <4>2
    <3>3. \A d \in deps[n] : d \in Node /\ d # i
      BY <2>1, <2>3, <3>1 DEF StuckInv, Node, TypeOK
    <3>4. \A d \in deps[n] : status'[d] = status[d]
      BY <1>4, <3>3 DEF Skip, Settle
    <3>5. QED BY <1>1, <3>2, <3>4 DEF DependencyUnsatisfiable
  <2>4. CASE i < N
    <3>1. pc' = "skip" /\ i' = i + 1 BY <1>4, <2>1, <2>4 DEF Skip, NextNode
    <3>2. \A n \in Waiting' : n < i' => n < i \/ n = i
      BY <2>1, <3>1, DagAssumption DEF Waiting, Pending, Node
    <3>3. QED BY <1>2, <2>1, <2>3, <3>1, <3>2, TruthStays DEF StuckInv
  <2>5. CASE ~(i < N)
    <3>1. pc' = "launch" BY <1>4, <2>1, <2>5 DEF Skip, NextNode
    <3>2. \A n \in Waiting' : n < i \/ n = i
      BY <2>1, <2>5, DagAssumption DEF Waiting, Pending, Node
    <3>3. QED BY <1>2, <2>1, <2>3, <3>1, <3>2, TruthStays DEF StuckInv
  <2>6. QED BY <2>4, <2>5
<1>5. CASE Launch
  <2>1. /\ stuck' = stuck /\ status' = status /\ pc = "launch"
        /\ pc' \in {"launch", "decide"}
    BY <1>5 DEF Launch, NextNode
  <2>2. Waiting' \subseteq Waiting
    BY <1>5, <2>1 DEF Launch, Waiting, Pending, Running, TypeOK
  <2>3. \A n \in Waiting' : ~DependencyUnsatisfiable(n)'
    BY <1>1, <2>1, <2>2 DEF StuckInv, DependencyUnsatisfiable
  <2>4. QED BY <1>2, <2>1, <2>3, TruthStays DEF StuckInv
<1>6. CASE Decide
  <2>1. CASE Running # {}
    <3>1. stuck' = stuck /\ pc' = "wait" /\ pc # "over"
      BY <1>6, <2>1 DEF Decide
    <3>2. QED BY <1>2, <3>1, TruthStays DEF StuckInv
  <2>2. CASE Running = {}
    <3>1. /\ stuck' = Pending /\ status' = Settle(Pending, "skipped")
          /\ pc = "decide" /\ pc' = "over"
      BY <1>6, <2>2 DEF Decide
    <3>2. \A n \in Pending : ~DependencyUnsatisfiable(n)
      BY <2>2, <3>1 DEF StuckInv, Waiting
    <3>3. ASSUME NEW n \in stuck'
          PROVE  \E m \in stuck' : (m = n \/ n \in Subtree(m)') /\ DependenciesSatisfied(m)'
      <4>1. n \in Pending BY <3>1
      <4>2. PICK m \in Pending : (m = n \/ n \in Subtree(m)) /\ DependenciesSatisfied(m)
        BY <3>2, <4>1, FirstPending DEF StuckInv
      <4>3. m \in Node /\ deps[m] \subseteq Node BY DEF Pending, TypeOK
      <4>4. Subtree(m)' = Subtree(m) BY <1>1 DEF Subtree, Dependents
      <4>5. DependenciesSatisfied(m)'
        BY <1>1, <3>1, <4>2, <4>3 DEF DependenciesSatisfied, Settle, Pending
      <4>6. QED BY <3>1, <4>2, <4>4, <4>5
    <3>4. DeadlockTruthful' BY <3>3 DEF DeadlockTruthful
    <3>5. QED BY <1>2, <3>1, <3>4 DEF StuckInv
  <2>3. QED BY <2>1, <2>2
<1>7. CASE Wake \/ Abort
  <2>1. stuck' = stuck /\ pc = "wait" /\ pc' \in {"wait", "sweep"}
    BY <1>7 DEF Wake, Abort
  <2>2. QED BY <1>2, <2>1, TruthStays DEF StuckInv
<1>8. ASSUME NEW k \in Node, NodeStep(k) \/ StragglerEnds(k) PROVE StuckInv'
  <2>1. stuck' = stuck /\ pc \in {"wait", "over"} /\ pc' = pc
    BY <1>8 DEF NodeStep, Succeed, Fail, TimeOut, End, Release, StragglerEnds
  <2>2. QED BY <1>2, <2>1, TruthStays DEF StuckInv
<1>9. CASE UNCHANGED vars
  <2>1. /\ stuck' = stuck /\ status' = status /\ pc' = pc /\ i' = i
        /\ exec' = exec
    BY <1>9 DEF vars
  <2>2. /\ Waiting' = Waiting
        /\ \A n : DependencyUnsatisfiable(n)' <=> DependencyUnsatisfiable(n)
    BY <1>1, <2>1 DEF Waiting, Pending, Running, DependencyUnsatisfiable
  <2>3. QED BY <1>2, <2>1, <2>2, TruthStays DEF StuckInv
<1>10. QED BY <1>3, <1>4, <1>5, <1>6, <1>7, <1>8, <1>9 DEF Next, Loop

LEMMA StuckInit == InOrder /\ Init => StuckInv
  BY DEF Init, StuckInv, DeadlockTruthful

\* In a graph declared in the order of its dependencies the guard never blames a
\* node for another's fate: behind what it gives up there is a node that had all
\* it needs and no lane to run in.
THEOREM GuardSpeaksTheTruth ==
  ASSUME InOrder
  PROVE  Spec => []DeadlockTruthful
<1>1. Init => StuckInv BY StuckInit
<1>2. StuckInv => DeadlockTruthful BY DEF StuckInv
<1>3. QED BY <1>1, <1>2, TypeInit, TypeStep, StuckStep, PTL DEF Spec
=============================================================================
