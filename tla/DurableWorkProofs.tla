-------------------------- MODULE DurableWorkProofs --------------------------
(***************************************************************************)
(* Proofs about DurableWork, for any number of processes, tasks, plans,    *)
(* runs, receipts, edits and deaths.                                       *)
(***************************************************************************)
EXTENDS DurableWork, FiniteSetTheorems, TLAPS

-----------------------------------------------------------------------------
(***************************************************************************)
(* Type correctness.                                                       *)
(***************************************************************************)
LEMMA BoundTypes ==
  /\ MaxRuns \in Nat /\ MaxEdits \in Nat /\ MaxImports \in Nat /\ MaxCrashes \in Nat
  /\ 0 \in Tree
  BY BoundAssumption DEF Tree

LEMMA EmptyDocs ==
  /\ InitialState \in StateDoc /\ InitialEvidence \in EvidenceDoc
  /\ NoCall \in Call /\ NoSight \in Sight /\ NotDone \in [run : Run \cup {None}, tree : Tree]
  /\ NoDraft \in [state : StateDoc, evidence : EvidenceDoc, tree : Tree]
<1>1. InitialState \in StateDoc
  BY DEF InitialState, StateDoc, Tasks, TaskRecord, TaskStatus, Status
<1>2. InitialEvidence \in EvidenceDoc BY DEF InitialEvidence, EvidenceDoc
<1>3. NoCall \in Call BY DEF NoCall, Call
<1>4. NoSight \in Sight /\ NotDone \in [run : Run \cup {None}, tree : Tree]
  BY BoundTypes DEF NoSight, Sight, NotDone
<1>5. NoDraft \in [state : StateDoc, evidence : EvidenceDoc, tree : Tree]
  BY <1>1, <1>2, BoundTypes DEF NoDraft
<1> QED BY <1>1, <1>2, <1>3, <1>4, <1>5

LEMMA TypeInit == Init => TypeOK
  BY EmptyDocs, BoundTypes DEF Init, TypeOK, NoLock, PC

(* What the command of a caller is about: an operation of the instance, for  *)
(* a task, a run that was given out, a plan or a tree.                       *)
LEMMA CommandTypes ==
  ASSUME TypeOK, NEW c \in Client, NEW k \in Commands(seen[c]), WithinBounds(k)
  PROVE  /\ k \in Call
         /\ k.op = "import" => k.plan \in Plan /\ imports + 1 \in 0..MaxImports
         /\ k.op = "start" => k.task \in Task /\ runs + 1 \in Run
         /\ k.op \in {"heartbeat", "complete", "fail", "receipt"} => k.task \in Task /\ k.run \in Run
         /\ k.op = "receipt" => k.tree \in Tree
<1> DEFINE s == seen[c]
<1>1. s \in Sight /\ k.op \in Ops /\ runs \in 0..MaxRuns /\ 1..runs \subseteq Run
      /\ imports \in 0..MaxImports
  BY BoundTypes DEF TypeOK, WithinBounds, Run
<1>2. s.plan \in Plan \cup {None} /\ s.tree \in Tree BY <1>1 DEF Sight
<1> HIDE DEF s
<1>3. /\ k \in Call
      /\ k.op = "import" => k.plan \in Plan
      /\ k.op = "start" => k.task \in Task
      /\ k.op \in {"heartbeat", "complete", "fail", "receipt"} => k.task \in Task /\ k.run \in Run
      /\ k.op = "receipt" => k.tree \in Tree
  <2>1. k \in Commands(s) BY DEF s
  <2> QED BY <1>1, <1>2, <2>1 DEF Commands, Call
<1>4. k.op = "import" => imports + 1 \in 0..MaxImports
  BY <1>1, BoundTypes DEF WithinBounds
<1>5. k.op = "start" => runs + 1 \in Run
  BY <1>1, BoundTypes DEF WithinBounds, Run
<1> QED BY <1>3, <1>4, <1>5

LEMMA DoTypes ==
  ASSUME TypeOK, NEW c \in Client, NEW k \in Call, NEW s \in StateDoc, NEW e \in EvidenceDoc,
         NEW next \in PC, Do(c, k, s, e, next),
         k.op = "import" => imports + 1 \in 0..MaxImports,
         k.op = "start" => runs + 1 \in 0..MaxRuns
  PROVE  TypeOK'
<1>1. imports' \in 0..MaxImports /\ runs' \in 0..MaxRuns
  BY BoundTypes DEF Do, TypeOK
<1>2. draft' \in [Client -> [state : StateDoc, evidence : EvidenceDoc, tree : Tree]]
  BY DEF Do, TypeOK
<1>3. call' \in [Client -> Call] /\ seen' \in [Client -> Sight] /\ pc' \in [Client -> PC]
  BY EmptyDocs DEF Do, TypeOK
<1> QED BY <1>1, <1>2, <1>3 DEF Do, TypeOK, files

LEMMA RunningTasks ==
  ASSUME NEW s, NEW t \in Running(s)
  PROVE  t \in Task /\ s.tasks[t].status = "running"
  BY DEF Running, WithStatus

(* Every operation drafts documents of the right form. *)
LEMMA OperationTypes ==
  ASSUME TypeOK, NEW c \in Client, Operation(c)
  PROVE  TypeOK'
<1>1. PICK k \in Commands(seen[c]) :
        /\ WithinBounds(k)
        /\ \/ Import(c, k) \/ Approve(c, k) \/ Start(c, k) \/ Heartbeat(c, k)
           \/ RecordReceipt(c, k) \/ Complete(c, k) \/ Fail(c, k) \/ Recover(c, k)
           \/ VerifyIntegration(c, k) \/ Finalize(c, k) \/ Block(c, k)
  BY DEF Operation
<1>2. /\ k \in Call
      /\ k.op = "import" => k.plan \in Plan /\ imports + 1 \in 0..MaxImports
      /\ k.op = "start" => k.task \in Task /\ runs + 1 \in Run
      /\ k.op \in {"heartbeat", "complete", "fail", "receipt"} => k.task \in Task /\ k.run \in Run
      /\ k.op = "receipt" => k.tree \in Tree
  BY <1>1, CommandTypes
<1>3. state \in StateDoc /\ evidence \in EvidenceDoc /\ tree \in Tree /\ planFile \in Plan \cup {None}
      /\ k.flag \in BOOLEAN
  BY <1>2 DEF TypeOK, Call
<1>4. ASSUME NEW s \in StateDoc, NEW e \in EvidenceDoc, NEW next \in PC, Do(c, k, s, e, next)
      PROVE  TypeOK'
  BY <1>2, <1>4, DoTypes DEF Run
<1>5. {"plan", "state", "evidence"} \subseteq PC BY DEF PC
<1>6. CASE Import(c, k)
  <2>1. [state EXCEPT !.plan = k.plan, !.approved = None, !.tasks = Tasks("pending"),
                      !.integration = None, !.status = "awaiting-plan-approval"] \in StateDoc
    BY <1>2, <1>3, <1>6 DEF Import, StateDoc, Tasks, TaskRecord, TaskStatus, Status
  <2> QED BY <1>3, <1>4, <1>5, <1>6, <2>1 DEF Import
<1>7. CASE Approve(c, k)
  <2>1. [state EXCEPT !.plan = planFile, !.approved = planFile, !.status = "ready"] \in StateDoc
    BY <1>3 DEF StateDoc, Status
  <2> QED BY <1>3, <1>4, <1>5, <1>7, <2>1 DEF Approve
<1>8. CASE Start(c, k)
  <2>1. [state EXCEPT !.tasks[k.task] = [status |-> "running", run |-> runs + 1],
                      !.integration = None, !.status = "executing"] \in StateDoc
    BY <1>2, <1>3, <1>8 DEF Start, StateDoc, TaskRecord, TaskStatus, Status
  <2> QED BY <1>3, <1>4, <1>5, <1>8, <2>1 DEF Start
<1>9. CASE Heartbeat(c, k) BY <1>3, <1>4, <1>5, <1>9 DEF Heartbeat
<1>10. CASE RecordReceipt(c, k)
  <2> DEFINE r == [task |-> k.task, run |-> k.run, tree |-> k.tree, passed |-> k.flag]
  <2>1. r \in Receipt BY <1>2, <1>3, <1>10 DEF RecordReceipt, Receipt
  <2>2. [evidence EXCEPT !.receipts = @ \cup {r}] \in EvidenceDoc
    BY <1>3, <2>1 DEF EvidenceDoc
  <2>3. Do(c, k, state, [evidence EXCEPT !.receipts = @ \cup {r}], "evidence")
    BY <1>10 DEF RecordReceipt
  <2> HIDE DEF r
  <2> QED BY <1>3, <1>4, <1>5, <2>2, <2>3
<1>11. CASE Complete(c, k)
  <2> DEFINE tasks == [state.tasks EXCEPT ![k.task] = [status |-> "completed", run |-> None]]
             all == \A t \in Task : tasks[t].status = "completed"
             s == [state EXCEPT !.tasks = tasks, !.integration = None,
                                !.status = IF all THEN "integration-verification" ELSE "executing"]
             e == [evidence EXCEPT !.entries =
                    @ \cup {[task |-> k.task, run |-> k.run, receipts |-> Accepted(k)]}]
  <2>1. k.task \in Task /\ k.run \in Run BY <1>2, <1>11 DEF Complete
  <2>2. tasks \in [Task -> TaskRecord]
    BY <1>3, <2>1 DEF StateDoc, TaskRecord, TaskStatus
  <2>3. s \in StateDoc
    <3> HIDE DEF tasks, all
    <3> QED BY <1>3, <2>2 DEF StateDoc, Status
  <2>4. Accepted(k) \subseteq Receipt
    BY <1>3 DEF Accepted, Successful, EvidenceDoc
  <2>5. [task |-> k.task, run |-> k.run, receipts |-> Accepted(k)] \in Entry
    BY <2>1, <2>4 DEF Entry
  <2>6. e \in EvidenceDoc BY <1>3, <2>5 DEF EvidenceDoc
  <2>7. Do(c, k, s, e, "evidence") BY <1>11 DEF Complete
  <2> HIDE DEF s, e
  <2> QED BY <1>4, <1>5, <2>3, <2>6, <2>7
<1>12. CASE Fail(c, k)
  <2>1. [state EXCEPT !.tasks[k.task] = [status |-> "failed", run |-> None],
                      !.integration = None, !.status = "executing"] \in StateDoc
    BY <1>2, <1>3, <1>12 DEF Fail, StateDoc, TaskRecord, TaskStatus, Status
  <2> QED BY <1>3, <1>4, <1>5, <1>12, <2>1 DEF Fail
<1>13. CASE Recover(c, k)
  <2>1. PICK lost \in (SUBSET Running(state)) \ {{}} :
          Do(c, k, [state EXCEPT !.tasks = [t \in Task |->
                                   IF t \in lost THEN [status |-> "retryable", run |-> None]
                                   ELSE state.tasks[t]],
                              !.integration = None, !.status = "executing"],
             evidence, "state")
    BY <1>13 DEF Recover
  <2>2. [t \in Task |-> IF t \in lost THEN [status |-> "retryable", run |-> None]
                        ELSE state.tasks[t]] \in [Task -> TaskRecord]
    BY <1>3 DEF StateDoc, TaskRecord, TaskStatus
  <2>3. [state EXCEPT !.tasks = [t \in Task |->
                                   IF t \in lost THEN [status |-> "retryable", run |-> None]
                                   ELSE state.tasks[t]],
                              !.integration = None, !.status = "executing"] \in StateDoc
    BY <1>3, <2>2 DEF StateDoc, Status
  <2> QED BY <1>3, <1>4, <1>5, <2>1, <2>3
<1>14. CASE VerifyIntegration(c, k)
  <2>1. [state EXCEPT !.integration = [status |-> IF k.flag THEN "PASS" ELSE "FAIL", tree |-> tree],
                      !.status = IF k.flag THEN "ready-to-finalize"
                                 ELSE "integration-verification"] \in StateDoc
    BY <1>3 DEF StateDoc, Status, Verdict
  <2> QED BY <1>3, <1>4, <1>5, <1>14, <2>1 DEF VerifyIntegration
<1>15. CASE Finalize(c, k)
  <2>1. [state EXCEPT !.status = "completed"] \in StateDoc BY <1>3 DEF StateDoc, Status
  <2> QED BY <1>3, <1>4, <1>5, <1>15, <2>1 DEF Finalize
<1>16. CASE Block(c, k)
  <2>1. [state EXCEPT !.blocked = k.op = "block", !.integration = None] \in StateDoc
    BY <1>3 DEF StateDoc
  <2> QED BY <1>3, <1>4, <1>5, <1>16, <2>1 DEF Block
<1> QED BY <1>1, <1>6, <1>7, <1>8, <1>9, <1>10, <1>11, <1>12, <1>13, <1>14, <1>15, <1>16

LEMMA WriteTypes ==
  ASSUME TypeOK, NEW c \in Client,
         WritePlan(c) \/ WriteScope(c) \/ WriteEvidence(c) \/ WriteState(c)
  PROVE  TypeOK'
<1>1. call[c] \in Call /\ draft[c] \in [state : StateDoc, evidence : EvidenceDoc, tree : Tree]
  BY DEF TypeOK
<1>2. call[c].plan \in Plan \cup {None} /\ draft[c].state \in StateDoc
      /\ draft[c].evidence \in EvidenceDoc /\ draft[c].tree \in Tree
  BY <1>1 DEF Call
<1>3. ASSUME NEW next \in PC, Written(c, next)
      PROVE  /\ pc' \in [Client -> PC] /\ call' \in [Client -> Call] /\ seen' \in [Client -> Sight]
             /\ draft' \in [Client -> [state : StateDoc, evidence : EvidenceDoc, tree : Tree]]
             /\ UNCHANGED <<lock, tree, counters>>
  <2>1. pc' \in [Client -> PC] /\ UNCHANGED <<lock, tree, counters>>
    BY <1>3 DEF Written, TypeOK
  <2>2. CASE next = "unlock"
    <3>1. Forgets(c) BY <1>3, <2>2 DEF Written
    <3> QED BY <2>1, <3>1, EmptyDocs DEF Forgets, TypeOK
  <2>3. CASE next # "unlock" BY <1>3, <2>1, <2>3 DEF Written, TypeOK
  <2> QED BY <2>2, <2>3
<1>4. {"scope", "state", "unlock"} \subseteq PC BY DEF PC
<1>5. CASE WritePlan(c) BY <1>2, <1>3, <1>4, <1>5 DEF WritePlan, TypeOK, counters
<1>6. CASE WriteScope(c) BY <1>2, <1>3, <1>4, <1>6 DEF WriteScope, TypeOK, counters
<1>7. CASE WriteEvidence(c) BY <1>2, <1>3, <1>4, <1>7 DEF WriteEvidence, TypeOK, counters
<1>8. CASE WriteState(c)
  <2>1. state \in StateDoc BY DEF TypeOK
  <2>2. \A t \in Task : state.tasks[t].run \in Run \cup {None}
    BY <2>1 DEF StateDoc, TaskRecord
  <2>3. done' \in [Task -> [run : Run \cup {None}, tree : Tree]]
    BY <1>2, <1>8, <2>2, EmptyDocs DEF WriteState, TypeOK
  <2> QED BY <1>2, <1>3, <1>4, <1>8, <2>3 DEF WriteState, TypeOK, counters
<1> QED BY <1>5, <1>6, <1>7, <1>8

LEMMA OtherTypes ==
  ASSUME TypeOK, NEW c \in Client,
         \/ Begin(c) \/ TakeLock(c) \/ SeeOldLock(c) \/ RenameLock(c) \/ GiveUp(c)
         \/ ReleaseLock(c) \/ Refuse(c) \/ Die(c) \/ WriteFails(c)
  PROVE  TypeOK'
<1>1. {"wait", "locked", "rename", "idle", "unlock", "dead"} \subseteq PC BY DEF PC
<1>2. NoLock \in [owner : Client \cup {None}, old : BOOLEAN] BY DEF NoLock
<1>3. CASE Begin(c)
  <2>1. [plan |-> planFile, tree |-> tree] \in Sight BY DEF TypeOK, Sight
  <2> QED BY <1>1, <1>3, <2>1 DEF Begin, TypeOK, files, counters
<1>4. CASE TakeLock(c) BY <1>1, <1>4 DEF TakeLock, TypeOK, files, counters
<1>5. CASE SeeOldLock(c) BY <1>1, <1>5 DEF SeeOldLock, TypeOK, files, counters
<1>6. CASE RenameLock(c) BY <1>1, <1>2, <1>6 DEF RenameLock, TypeOK, files, counters
<1>7. CASE GiveUp(c) BY <1>1, <1>7, EmptyDocs DEF GiveUp, TypeOK, files, counters
<1>8. CASE ReleaseLock(c) BY <1>1, <1>2, <1>8 DEF ReleaseLock, TypeOK, files, counters
<1>9. CASE Refuse(c) BY <1>1, <1>9, EmptyDocs DEF Refuse, TypeOK, files, counters
<1>10. ASSUME NEW next \in PC, Interrupted(c, next) PROVE TypeOK'
  <2>1. crashes' \in 0..MaxCrashes BY <1>10, BoundTypes DEF Interrupted, TypeOK
  <2>2. scope' \in Plan \cup {None, "torn"} BY <1>10 DEF Interrupted, TypeOK
  <2>3. call' \in [Client -> Call] /\ seen' \in [Client -> Sight]
        /\ draft' \in [Client -> [state : StateDoc, evidence : EvidenceDoc, tree : Tree]]
    BY <1>10, EmptyDocs DEF Interrupted, Forgets, TypeOK
  <2> QED BY <1>10, <2>1, <2>2, <2>3 DEF Interrupted, TypeOK
<1> QED BY <1>1, <1>3, <1>4, <1>5, <1>6, <1>7, <1>8, <1>9, <1>10 DEF Die, WriteFails

LEMMA TypeStep == TypeOK /\ [Next]_vars => TypeOK'
<1> SUFFICES ASSUME TypeOK, [Next]_vars PROVE TypeOK'
  OBVIOUS
<1>1. CASE LockGrowsOld BY <1>1 DEF LockGrowsOld, TypeOK, files, counters
<1>2. CASE Edit
  <2>1. tree' \in Tree BY <1>2, BoundTypes DEF Edit, TypeOK, Tree
  <2> QED BY <1>2, <2>1 DEF Edit, TypeOK, files, counters
<1>3. CASE UNCHANGED vars BY <1>3 DEF vars, TypeOK, files, counters
<1> QED BY <1>1, <1>2, <1>3, OperationTypes, WriteTypes, OtherTypes DEF Next, Step

(* Whatever is cut short, the documents of a work item keep their form and   *)
(* runs stay within those given out (task-engine.mjs).                       *)
THEOREM TypeCorrect == Spec => []TypeOK
  BY TypeInit, TypeStep, PTL DEF Spec

-----------------------------------------------------------------------------
(***************************************************************************)
(* The lock.  While no process is suspended, only the lock of a dead       *)
(* command gets old, so nobody takes the lock from a living one.           *)
(***************************************************************************)
LockInv ==
  /\ lock.owner = None => lock = NoLock
  /\ lock.old => pc[lock.owner] = "dead"
  /\ \A c \in Client : pc[c] \in InSection => lock.owner = c

(* An operation decides and drafts; it writes nothing yet. *)
LEMMA OperationDrafts ==
  ASSUME NEW c \in Client, Operation(c)
  PROVE  /\ pc[c] = "locked"
         /\ \E k, s, e, next : Do(c, k, s, e, next) /\ next \in {"plan", "evidence", "state"}
  BY Zenon DEF Operation, Import, Approve, Start, Heartbeat, RecordReceipt, Complete, Fail,
     Recover, VerifyIntegration, Finalize, Block

LEMMA LockInit == Init => LockInv
  BY DEF Init, LockInv, NoLock, InSection

LEMMA LockStep ==
  ASSUME ~Suspends, TypeOK, LockInv, [Next]_vars
  PROVE  LockInv'
<1>1. None \notin Client BY PlanAssumption
<1>2. ASSUME NEW c \in Client, TakeLock(c) PROVE LockInv'
  BY <1>1, <1>2 DEF TakeLock, LockInv, NoLock, InSection, TypeOK
<1>3. ASSUME NEW c \in Client, RenameLock(c) PROVE LockInv'
  BY <1>1, <1>3 DEF RenameLock, LockInv, NoLock, InSection, TypeOK
<1>4. ASSUME NEW c \in Client, ReleaseLock(c) PROVE LockInv'
  BY <1>1, <1>4 DEF ReleaseLock, LockInv, NoLock, InSection, TypeOK
<1>5. CASE LockGrowsOld
  BY <1>1, <1>5 DEF LockGrowsOld, LockInv, NoLock, InSection, TypeOK
<1>6. ASSUME NEW c \in Client, UNCHANGED lock, NEW next, pc' = [pc EXCEPT ![c] = next],
             pc[c] # "dead" \/ next = "dead", next \in InSection => pc[c] \in InSection
      PROVE  LockInv'
  BY <1>6 DEF LockInv, TypeOK
<1>7. ASSUME NEW c \in Client, Begin(c) \/ SeeOldLock(c) \/ GiveUp(c) \/ Refuse(c) PROVE LockInv'
  BY <1>6, <1>7 DEF Begin, SeeOldLock, GiveUp, Refuse, InSection
<1>8. ASSUME NEW c \in Client, Die(c) \/ WriteFails(c) PROVE LockInv'
  BY <1>6, <1>8 DEF Die, WriteFails, Interrupted, InSection
<1>9. ASSUME NEW c \in Client, WritePlan(c) \/ WriteScope(c) \/ WriteEvidence(c) \/ WriteState(c)
      PROVE  LockInv'
  BY <1>6, <1>9 DEF WritePlan, WriteScope, WriteEvidence, WriteState, Written, InSection
<1>10. ASSUME NEW c \in Client, Operation(c) PROVE LockInv'
  <2>1. PICK k, s, e, next : Do(c, k, s, e, next) /\ next \in {"plan", "evidence", "state"}
    BY <1>10, OperationDrafts
  <2> QED BY <1>6, <1>10, <2>1, OperationDrafts DEF Do, InSection
<1>11. CASE Edit \/ UNCHANGED vars BY <1>11 DEF Edit, vars, LockInv
<1> QED BY <1>2, <1>3, <1>4, <1>5, <1>7, <1>8, <1>9, <1>10, <1>11 DEF Next, Step

(* The lock of a work item excludes, also when its holder dies and a waiter  *)
(* renames the lock away, as long as processes are not suspended between the *)
(* look at its age and the rename (withWorkLock).                            *)
THEOREM LockExcludes ==
  ASSUME ~Suspends
  PROVE  Spec => []Exclusive
<1>1. TypeOK /\ LockInv /\ [Next]_vars => LockInv' BY LockStep
<1>2. LockInv => Exclusive BY DEF LockInv, Exclusive
<1> QED BY <1>1, <1>2, TypeInit, TypeStep, LockInit, PTL DEF Spec

-----------------------------------------------------------------------------
(***************************************************************************)
(* The documents.  Every command starts from a sound STATE and drafts a    *)
(* sound one; only drafts are ever written.  No lock is needed for this.   *)
(***************************************************************************)
Active(s) == Running(s) \cup Completed(s)

Sound(s) ==
  /\ s.integration # None /\ s.integration.status = "PASS" =>
       Completed(s) = Task /\ ~s.blocked
  /\ s.plan = None => Active(s) = {}

DocInv == Sound(state) /\ \A c \in Client : Sound(draft[c].state)

LEMMA SoundInit == Init => DocInv
  BY DEF Init, DocInv, Sound, Active, NoDraft, InitialState, Tasks, Running, Completed, WithStatus

LEMMA OperationSound ==
  ASSUME TypeOK, DocInv, NEW c \in Client, Operation(c)
  PROVE  DocInv'
<1>1. PICK k \in Commands(seen[c]) :
        /\ WithinBounds(k)
        /\ \/ Import(c, k) \/ Approve(c, k) \/ Start(c, k) \/ Heartbeat(c, k)
           \/ RecordReceipt(c, k) \/ Complete(c, k) \/ Fail(c, k) \/ Recover(c, k)
           \/ VerifyIntegration(c, k) \/ Finalize(c, k) \/ Block(c, k)
  BY DEF Operation
<1>2. /\ k.op = "import" => k.plan \in Plan
      /\ k.op \in {"start", "complete", "fail"} => k.task \in Task
  BY <1>1, CommandTypes
<1>3. state \in StateDoc /\ Sound(state) /\ None \notin Plan BY PlanAssumption DEF TypeOK, DocInv
<1>4. ASSUME NEW s, NEW e, NEW next, Do(c, k, s, e, next), Sound(s) PROVE DocInv'
  BY <1>4 DEF Do, files, DocInv, TypeOK
<1>5. CASE Import(c, k)
  <2>1. Sound([state EXCEPT !.plan = k.plan, !.approved = None, !.tasks = Tasks("pending"),
                            !.integration = None, !.status = "awaiting-plan-approval"])
    BY <1>2, <1>3, <1>5 DEF Import, StateDoc, Sound
  <2> QED BY <1>4, <1>5, <2>1 DEF Import
<1>6. CASE Approve(c, k)
  <2> DEFINE s == [state EXCEPT !.plan = planFile, !.approved = planFile, !.status = "ready"]
  <2>1. s.plan # None BY <1>3, <1>6 DEF Approve, MayApprove, StateDoc
  <2>2. s.tasks = state.tasks /\ s.integration = state.integration /\ s.blocked = state.blocked
    BY <1>3 DEF StateDoc
  <2>3. Do(c, k, s, evidence, "state") BY <1>6 DEF Approve
  <2> HIDE DEF s
  <2>4. Sound(s) BY <1>3, <2>1, <2>2 DEF Sound, Completed, WithStatus
  <2> QED BY <1>4, <2>3, <2>4
<1>7. CASE Start(c, k)
  <2>1. Sound([state EXCEPT !.tasks[k.task] = [status |-> "running", run |-> runs + 1],
                            !.integration = None, !.status = "executing"])
    BY <1>3, <1>7 DEF Start, MayStart, ReadyTasks, PlanIsApproved, StateDoc, Sound
  <2> QED BY <1>4, <1>7, <2>1 DEF Start
<1>8. CASE Heartbeat(c, k) BY <1>3, <1>4, <1>8 DEF Heartbeat
<1>9. CASE RecordReceipt(c, k) BY <1>3, <1>4, <1>9 DEF RecordReceipt
<1>10. CASE Complete(c, k)
  <2> DEFINE tasks == [state.tasks EXCEPT ![k.task] = [status |-> "completed", run |-> None]]
             all == \A t \in Task : tasks[t].status = "completed"
             s == [state EXCEPT !.tasks = tasks, !.integration = None,
                                !.status = IF all THEN "integration-verification" ELSE "executing"]
             e == [evidence EXCEPT !.entries =
                    @ \cup {[task |-> k.task, run |-> k.run, receipts |-> Accepted(k)]}]
  <2>1. k.task \in Running(state) BY <1>10 DEF Complete, MayComplete, OfActiveRun
  <2>2. state.plan # None BY <1>3, <2>1 DEF Sound, Active
  <2>3. s.plan = state.plan /\ s.integration = None
    <3> HIDE DEF tasks, all
    <3> QED BY <1>3 DEF StateDoc
  <2>4. Do(c, k, s, e, "evidence") BY <1>10 DEF Complete
  <2> HIDE DEF s, e
  <2> QED BY <1>4, <2>2, <2>3, <2>4 DEF Sound
<1>11. CASE Fail(c, k)
  <2>1. k.task \in Running(state) BY <1>11 DEF Fail, MayFail, OfActiveRun
  <2>2. Sound([state EXCEPT !.tasks[k.task] = [status |-> "failed", run |-> None],
                            !.integration = None, !.status = "executing"])
    BY <1>3, <2>1 DEF StateDoc, Sound, Active
  <2> QED BY <1>4, <1>11, <2>2 DEF Fail
<1>12. CASE Recover(c, k)
  <2>1. PICK lost \in (SUBSET Running(state)) \ {{}} :
          Do(c, k, [state EXCEPT !.tasks = [t \in Task |->
                                   IF t \in lost THEN [status |-> "retryable", run |-> None]
                                   ELSE state.tasks[t]],
                              !.integration = None, !.status = "executing"],
             evidence, "state")
    BY <1>12 DEF Recover
  <2> DEFINE tasks == [t \in Task |-> IF t \in lost THEN [status |-> "retryable", run |-> None]
                                    ELSE state.tasks[t]]
             s == [state EXCEPT !.tasks = tasks, !.integration = None, !.status = "executing"]
  <2>2. lost # {} /\ lost \subseteq Running(state) BY <2>1
  <2>3. state.plan # None BY <1>3, <2>2 DEF Sound, Active
  <2>4. s.plan = state.plan /\ s.integration = None
    <3> HIDE DEF tasks
    <3> QED BY <1>3 DEF StateDoc
  <2>5. Do(c, k, s, evidence, "state") BY <2>1
  <2> HIDE DEF s
  <2> QED BY <1>4, <2>3, <2>4, <2>5 DEF Sound
<1>13. CASE VerifyIntegration(c, k)
  <2>1. Sound([state EXCEPT !.integration = [status |-> IF k.flag THEN "PASS" ELSE "FAIL",
                                             tree |-> tree],
                      !.status = IF k.flag THEN "ready-to-finalize"
                                 ELSE "integration-verification"])
    BY <1>3, <1>13 DEF VerifyIntegration, MayVerify, AllCompleted, StateDoc, Sound, Active,
       Running, Completed, WithStatus
  <2> QED BY <1>4, <1>13, <2>1 DEF VerifyIntegration
<1>14. CASE Finalize(c, k)
  <2>1. Sound([state EXCEPT !.status = "completed"])
    BY <1>3 DEF StateDoc, Sound, Active, Running, Completed, WithStatus
  <2> QED BY <1>4, <1>14, <2>1 DEF Finalize
<1>15. CASE Block(c, k)
  <2>1. Sound([state EXCEPT !.blocked = k.op = "block", !.integration = None])
    BY <1>3 DEF StateDoc, Sound, Active, Running, Completed, WithStatus
  <2> QED BY <1>4, <1>15, <2>1 DEF Block
<1> QED BY <1>1, <1>5, <1>6, <1>7, <1>8, <1>9, <1>10, <1>11, <1>12, <1>13, <1>14, <1>15

(* Steps other than operations and writes leave the documents alone and put *)
(* no command nearer to writing.                                            *)
Writing == {"plan", "scope", "evidence", "state"}

Quiet ==
  /\ UNCHANGED <<planFile, state, evidence, done>>
  /\ scope' = scope \/ "scope" \in DiesAt
  /\ \A d \in Client :
       /\ pc[d] \in Writing => pc'[d] = pc[d] \/ pc[d] \in DiesAt
       /\ pc'[d] \in Writing => pc'[d] = pc[d] /\ draft'[d] = draft[d] /\ call'[d] = call[d]

LEMMA QuietSteps ==
  ASSUME TypeOK, [Next]_vars
  PROVE  \/ \E c \in Client : \/ Operation(c) \/ WritePlan(c) \/ WriteScope(c)
                              \/ WriteEvidence(c) \/ WriteState(c)
         \/ Quiet
<1>1. ASSUME NEW c \in Client,
             Begin(c) \/ TakeLock(c) \/ SeeOldLock(c) \/ RenameLock(c) \/ GiveUp(c)
             \/ ReleaseLock(c) \/ Refuse(c)
      PROVE  Quiet
  BY <1>1 DEF Begin, TakeLock, SeeOldLock, RenameLock, GiveUp, ReleaseLock, Refuse, files, Quiet,
     Writing, TypeOK
<1>2. ASSUME NEW c \in Client, NEW next \in {"dead", "unlock"}, Interrupted(c, next) PROVE Quiet
  BY <1>2 DEF Interrupted, Forgets, Quiet, Writing, TypeOK
<1>3. CASE LockGrowsOld \/ Edit BY <1>3 DEF LockGrowsOld, Edit, files, Quiet
<1>4. CASE UNCHANGED vars BY <1>4 DEF vars, files, Quiet
<1> QED BY <1>1, <1>2, <1>3, <1>4 DEF Next, Step, Die, WriteFails

LEMMA DraftsOfWrites ==
  ASSUME TypeOK, NEW c \in Client,
         WritePlan(c) \/ WriteScope(c) \/ WriteEvidence(c) \/ WriteState(c)
  PROVE  \A d \in Client : draft'[d] = IF d = c /\ pc'[c] = "unlock" THEN NoDraft ELSE draft[d]
  BY DEF WritePlan, WriteScope, WriteEvidence, WriteState, Written, Forgets, TypeOK

LEMMA DocStep == TypeOK /\ DocInv /\ [Next]_vars => DocInv'
<1> SUFFICES ASSUME TypeOK, DocInv, [Next]_vars PROVE DocInv'
  OBVIOUS
<1>1. Sound(NoDraft.state)
  BY DEF Sound, Active, NoDraft, InitialState, Tasks, Running, Completed, WithStatus
<1>2. ASSUME NEW c \in Client,
             WritePlan(c) \/ WriteScope(c) \/ WriteEvidence(c) \/ WriteState(c)
      PROVE  DocInv'
  <2>1. \A d \in Client : Sound(draft'[d].state) BY <1>1, <1>2, DraftsOfWrites DEF DocInv
  <2>2. state' = state \/ state' = draft[c].state
    BY <1>2 DEF WritePlan, WriteScope, WriteEvidence, WriteState
  <2>3. Sound(state') BY <2>2 DEF DocInv
  <2> QED BY <2>1, <2>3 DEF DocInv
<1>3. ASSUME NEW c \in Client,
             Begin(c) \/ TakeLock(c) \/ SeeOldLock(c) \/ RenameLock(c) \/ GiveUp(c)
             \/ ReleaseLock(c) \/ Refuse(c)
      PROVE  DocInv'
  BY <1>3 DEF Begin, TakeLock, SeeOldLock, RenameLock, GiveUp, ReleaseLock, Refuse, files, DocInv
<1>4. ASSUME NEW c \in Client, NEW next, Interrupted(c, next) PROVE DocInv'
  BY <1>1, <1>4 DEF Interrupted, Forgets, DocInv, TypeOK
<1>5. CASE LockGrowsOld \/ Edit \/ UNCHANGED vars
  BY <1>5 DEF LockGrowsOld, Edit, vars, files, DocInv
<1> QED BY <1>2, <1>3, <1>4, <1>5, OperationSound DEF Next, Step, Die, WriteFails

(* A PASS of the integration does not outlive a start, an end, a recovery or *)
(* a blocker, however commands interleave or die (addBlocker, startTask).    *)
THEOREM PassIsWithdrawn == Spec => []VerdictStands
<1>1. DocInv => VerdictStands BY DEF DocInv, Sound, VerdictStands
<1> QED BY <1>1, TypeInit, TypeStep, SoundInit, DocStep, PTL DEF Spec

-----------------------------------------------------------------------------
(***************************************************************************)
(* Completions and their evidence.  What a command is about to write rests  *)
(* on documents nobody else changes while it holds the lock.               *)
(***************************************************************************)
Backs(e, t, r, x, p) ==
  /\ e.task = t /\ e.run = r
  /\ p \in Strict => \E q \in e.receipts : q.passed /\ q.run = r /\ q.tree = x

(* s completes only what is completed already, or what e backs. *)
BackedBy(s, e, x) ==
  \A t \in Completed(s) :
    IF state.tasks[t].status = "completed" THEN s.plan = state.plan
    ELSE \E entry \in e.entries : Backs(entry, t, state.tasks[t].run, x, s.plan)

Verified(k, s, x) ==
  s.status = "completed" =>
    \/ state.status = "completed"
    \/ k.op = "finalize" /\ state.integration # None
       /\ state.integration = [status |-> "PASS", tree |-> x]

Owed(c) ==
  /\ IF pc[c] = "evidence" THEN evidence.entries \subseteq draft[c].evidence.entries
     ELSE draft[c].evidence = evidence
  /\ BackedBy(draft[c].state, draft[c].evidence, draft[c].tree)
  /\ Verified(call[c], draft[c].state, draft[c].tree)

WriteInv == BackedCompletion /\ \A c \in Client : pc[c] \in Writing => Owed(c)

LEMMA WriteInit == Init => WriteInv
  BY DEF Init, WriteInv, BackedCompletion, InitialState, Tasks, Completed, WithStatus, Writing

LEMMA OperationOwes ==
  ASSUME TypeOK, DocInv, NEW c \in Client, Operation(c)
  PROVE  Owed(c)'
<1>1. PICK k \in Commands(seen[c]) :
        /\ WithinBounds(k)
        /\ \/ Import(c, k) \/ Approve(c, k) \/ Start(c, k) \/ Heartbeat(c, k)
           \/ RecordReceipt(c, k) \/ Complete(c, k) \/ Fail(c, k) \/ Recover(c, k)
           \/ VerifyIntegration(c, k) \/ Finalize(c, k) \/ Block(c, k)
  BY DEF Operation
<1>2. k.op \in {"start", "complete", "fail"} => k.task \in Task
  BY <1>1, CommandTypes
<1>3. state \in StateDoc /\ evidence \in EvidenceDoc /\ Sound(state) BY DEF TypeOK, DocInv
<1>4. ASSUME NEW s, NEW e, NEW next, Do(c, k, s, e, next),
             IF next = "evidence" THEN evidence.entries \subseteq e.entries ELSE e = evidence,
             BackedBy(s, e, tree), Verified(k, s, tree)
      PROVE  Owed(c)'
  <2>1. UNCHANGED <<state, evidence>> BY <1>4 DEF Do, files
  <2>2. draft'[c] = [state |-> s, evidence |-> e, tree |-> tree] /\ call'[c] = k /\ pc'[c] = next
    BY <1>4 DEF Do, TypeOK
  <2>3. (draft[c].state)' = s /\ (draft[c].evidence)' = e /\ (draft[c].tree)' = tree BY <2>2
  <2> QED BY <1>4, <2>1, <2>2, <2>3 DEF Owed, BackedBy, Verified
<1>5. ASSUME NEW s, Completed(s) \subseteq Completed(state), s.plan = state.plan
      PROVE  BackedBy(s, evidence, tree)
  BY <1>5 DEF BackedBy, Completed, WithStatus
<1>6. CASE Import(c, k)
  <2> DEFINE s == [state EXCEPT !.plan = k.plan, !.approved = None, !.tasks = Tasks("pending"),
                                !.integration = None, !.status = "awaiting-plan-approval"]
  <2>1. s.tasks = Tasks("pending") /\ s.status = "awaiting-plan-approval" BY <1>3 DEF StateDoc
  <2>2. Do(c, k, s, evidence, "plan") BY <1>6 DEF Import
  <2> HIDE DEF s
  <2>3. BackedBy(s, evidence, tree) BY <2>1 DEF BackedBy, Tasks, Completed, WithStatus
  <2> QED BY <1>4, <2>1, <2>2, <2>3 DEF Verified
<1>7. CASE Approve(c, k)
  <2> DEFINE s == [state EXCEPT !.plan = planFile, !.approved = planFile, !.status = "ready"]
  <2>1. s.tasks = state.tasks /\ s.status = "ready" /\ s.plan = planFile BY <1>3 DEF StateDoc
  <2>2. s.plan = state.plan \/ Completed(state) = {}
    BY <1>3, <1>7, <2>1 DEF Approve, MayApprove, Sound, Active
  <2>3. Do(c, k, s, evidence, "state") BY <1>7 DEF Approve
  <2> HIDE DEF s
  <2>4. BackedBy(s, evidence, tree) BY <2>1, <2>2 DEF BackedBy, Completed, WithStatus
  <2> QED BY <1>4, <2>1, <2>3, <2>4 DEF Verified
<1>8. CASE Start(c, k)
  <2> DEFINE s == [state EXCEPT !.tasks[k.task] = [status |-> "running", run |-> runs + 1],
                                !.integration = None, !.status = "executing"]
  <2>1. s.plan = state.plan /\ s.status = "executing" BY <1>3 DEF StateDoc
  <2>2. Completed(s) \subseteq Completed(state)
    BY <1>2, <1>3, <1>8 DEF Start, StateDoc, Completed, WithStatus
  <2>3. Do(c, k, s, evidence, "state") BY <1>8 DEF Start
  <2> HIDE DEF s
  <2> QED BY <1>4, <1>5, <2>1, <2>2, <2>3 DEF Verified
<1>9. CASE Heartbeat(c, k) BY <1>4, <1>5, <1>9 DEF Heartbeat, Verified
<1>10. CASE RecordReceipt(c, k)
  <2> DEFINE e == [evidence EXCEPT !.receipts = @ \cup
                     {[task |-> k.task, run |-> k.run, tree |-> k.tree, passed |-> k.flag]}]
  <2>1. e.entries = evidence.entries BY <1>3 DEF EvidenceDoc
  <2>2. Do(c, k, state, e, "evidence") BY <1>10 DEF RecordReceipt
  <2> HIDE DEF e
  <2>3. BackedBy(state, e, tree) BY DEF BackedBy, Completed, WithStatus
  <2> QED BY <1>4, <2>1, <2>2, <2>3 DEF Verified
<1>11. CASE Complete(c, k)
  <2> DEFINE tasks == [state.tasks EXCEPT ![k.task] = [status |-> "completed", run |-> None]]
             all == \A t \in Task : tasks[t].status = "completed"
             s == [state EXCEPT !.tasks = tasks, !.integration = None,
                                !.status = IF all THEN "integration-verification" ELSE "executing"]
             entry == [task |-> k.task, run |-> k.run, receipts |-> Accepted(k)]
             e == [evidence EXCEPT !.entries = @ \cup {entry}]
  <2>1. k.task \in Task /\ state.tasks[k.task].run = k.run
    BY <1>2, <1>11 DEF Complete, MayComplete, OfActiveRun, RunFence
  <2>2. Backs(entry, k.task, k.run, tree, state.plan)
    <3>1. \A r \in Accepted(k) : r.passed /\ r.run = k.run
      BY DEF Accepted, Successful
    <3>2. state.plan \in Strict => Accepted(k) # {} /\ \A r \in Accepted(k) : r.tree = tree
      BY <1>11 DEF Complete, MayComplete, Accepted, ReceiptRequired
    <3> QED BY <3>1, <3>2 DEF Backs
  <2>3. e.entries = evidence.entries \cup {entry} BY <1>3 DEF EvidenceDoc
  <2>4. \A t \in Task : tasks[t].status = "completed" => t = k.task \/ t \in Completed(state)
    BY <1>3, <2>1 DEF StateDoc, Completed, WithStatus
  <2>5. s.tasks = tasks /\ s.plan = state.plan /\ s.status # "completed"
    <3> HIDE DEF tasks, all
    <3> QED BY <1>3 DEF StateDoc
  <2>6. Do(c, k, s, e, "evidence") BY <1>11 DEF Complete
  <2> HIDE DEF entry, e, s, tasks, all
  <2>7. BackedBy(s, e, tree)
    BY <2>1, <2>2, <2>3, <2>4, <2>5 DEF BackedBy, Completed, WithStatus
  <2> QED BY <1>4, <2>3, <2>5, <2>6, <2>7 DEF Verified
<1>12. CASE Fail(c, k)
  <2> DEFINE s == [state EXCEPT !.tasks[k.task] = [status |-> "failed", run |-> None],
                                !.integration = None, !.status = "executing"]
  <2>1. s.plan = state.plan /\ s.status = "executing" BY <1>3 DEF StateDoc
  <2>2. Completed(s) \subseteq Completed(state)
    BY <1>2, <1>3, <1>12 DEF Fail, StateDoc, Completed, WithStatus
  <2>3. Do(c, k, s, evidence, "state") BY <1>12 DEF Fail
  <2> HIDE DEF s
  <2> QED BY <1>4, <1>5, <2>1, <2>2, <2>3 DEF Verified
<1>13. CASE Recover(c, k)
  <2>1. PICK lost \in (SUBSET Running(state)) \ {{}} :
          Do(c, k, [state EXCEPT !.tasks = [t \in Task |->
                                   IF t \in lost THEN [status |-> "retryable", run |-> None]
                                   ELSE state.tasks[t]],
                              !.integration = None, !.status = "executing"],
             evidence, "state")
    BY <1>13 DEF Recover
  <2> DEFINE tasks == [t \in Task |-> IF t \in lost THEN [status |-> "retryable", run |-> None]
                                    ELSE state.tasks[t]]
             s == [state EXCEPT !.tasks = tasks, !.integration = None, !.status = "executing"]
  <2>2. \A t \in Task : tasks[t].status = "completed" => state.tasks[t].status = "completed"
    OBVIOUS
  <2>3. s.tasks = tasks /\ s.plan = state.plan /\ s.status = "executing"
    <3> HIDE DEF tasks
    <3> QED BY <1>3 DEF StateDoc
  <2>4. Do(c, k, s, evidence, "state") BY <2>1
  <2> HIDE DEF s, tasks
  <2>5. Completed(s) \subseteq Completed(state) BY <2>2, <2>3 DEF Completed, WithStatus
  <2> QED BY <1>4, <1>5, <2>3, <2>4, <2>5 DEF Verified
<1>14. CASE VerifyIntegration(c, k)
  <2> DEFINE s == [state EXCEPT !.integration = [status |-> IF k.flag THEN "PASS" ELSE "FAIL",
                                                 tree |-> tree],
                                !.status = IF k.flag THEN "ready-to-finalize"
                                           ELSE "integration-verification"]
  <2>1. s.tasks = state.tasks /\ s.plan = state.plan /\ s.status # "completed"
    BY <1>3 DEF StateDoc
  <2>2. Do(c, k, s, evidence, "state") BY <1>14 DEF VerifyIntegration
  <2> HIDE DEF s
  <2>3. Completed(s) = Completed(state) BY <2>1 DEF Completed, WithStatus
  <2> QED BY <1>4, <1>5, <2>1, <2>2, <2>3 DEF Verified
<1>15. CASE Finalize(c, k)
  <2> DEFINE s == [state EXCEPT !.status = "completed"]
  <2>1. s.tasks = state.tasks /\ s.plan = state.plan BY <1>3 DEF StateDoc
  <2>2. Do(c, k, s, evidence, "state") BY <1>15 DEF Finalize
  <2> HIDE DEF s
  <2>3. Completed(s) = Completed(state) BY <2>1 DEF Completed, WithStatus
  <2>4. Verified(k, s, tree) BY <1>15 DEF Finalize, MayFinalize, Verified
  <2> QED BY <1>4, <1>5, <2>1, <2>2, <2>3, <2>4
<1>16. CASE Block(c, k)
  <2> DEFINE s == [state EXCEPT !.blocked = k.op = "block", !.integration = None]
  <2>1. s.tasks = state.tasks /\ s.plan = state.plan /\ s.status = state.status
    BY <1>3 DEF StateDoc
  <2>2. Do(c, k, s, evidence, "state") BY <1>16 DEF Block
  <2> HIDE DEF s
  <2>3. Completed(s) = Completed(state) BY <2>1 DEF Completed, WithStatus
  <2> QED BY <1>4, <1>5, <2>1, <2>2, <2>3 DEF Verified
<1> QED BY <1>1, <1>6, <1>7, <1>8, <1>9, <1>10, <1>11, <1>12, <1>13, <1>14, <1>15, <1>16

(* Nobody else is at a write while one command is in its section. *)
LEMMA OthersDoNotWrite ==
  ASSUME TypeOK, Exclusive, NEW c \in Client, pc[c] \in InSection, NEW next,
         pc' = [pc EXCEPT ![c] = next]
  PROVE  \A d \in Client : pc'[d] \in Writing => d = c
  BY DEF Exclusive, InSection, Writing, TypeOK

LEMMA WriteStep ==
  ASSUME TypeOK, DocInv, Exclusive, WriteInv, [Next]_vars
  PROVE  WriteInv'
<1>1. ASSUME NEW c \in Client, Operation(c) PROVE WriteInv'
  <2>1. pc[c] = "locked" /\ \E k, s, e, next : Do(c, k, s, e, next) BY <1>1, OperationDrafts
  <2>2. /\ UNCHANGED <<state, evidence, done>>
        /\ \E next : pc' = [pc EXCEPT ![c] = next]
    BY <2>1 DEF Do, files
  <2>3. BackedCompletion' BY <2>2 DEF WriteInv, BackedCompletion
  <2>4. \A d \in Client : pc'[d] \in Writing => d = c
    BY <2>1, <2>2, OthersDoNotWrite DEF InSection
  <2> QED BY <1>1, <2>3, <2>4, OperationOwes DEF WriteInv
<1>2. ASSUME NEW c \in Client, WritePlan(c) \/ WriteScope(c) PROVE WriteInv'
  <2>1. UNCHANGED <<state, evidence, done, call, draft>> BY <1>2 DEF WritePlan, WriteScope, Written
  <2>2. /\ pc[c] \in {"plan", "scope"}
        /\ \E next \in {"scope", "state"} : pc' = [pc EXCEPT ![c] = next]
    BY <1>2 DEF WritePlan, WriteScope, Written
  <2>3. \A d \in Client : pc'[d] \in Writing => d = c
    BY <2>2, OthersDoNotWrite DEF InSection
  <2>4. Owed(c) BY <2>2 DEF WriteInv, Writing
  <2>5. Owed(c)' BY <2>1, <2>2, <2>4 DEF Owed, BackedBy, Verified, TypeOK
  <2>6. BackedCompletion' BY <2>1 DEF WriteInv, BackedCompletion
  <2> QED BY <2>3, <2>5, <2>6 DEF WriteInv
<1>3. ASSUME NEW c \in Client, WriteEvidence(c) PROVE WriteInv'
  <2>1. UNCHANGED <<state, done>> /\ evidence' = draft[c].evidence /\ pc[c] = "evidence"
    BY <1>3 DEF WriteEvidence
  <2>2. PICK next \in {"unlock", "state"} : Written(c, next) BY <1>3 DEF WriteEvidence
  <2>3. Owed(c) /\ pc' = [pc EXCEPT ![c] = next] BY <2>1, <2>2 DEF WriteInv, Writing, Written
  <2>4. evidence.entries \subseteq evidence'.entries BY <2>1, <2>3 DEF Owed
  <2>5. BackedCompletion' BY <2>1, <2>4 DEF WriteInv, BackedCompletion
  <2>6. \A d \in Client : pc'[d] \in Writing => d = c
    BY <2>1, <2>3, OthersDoNotWrite DEF InSection
  <2>7. pc'[c] \in Writing => Owed(c)'
    <3> SUFFICES ASSUME pc'[c] \in Writing PROVE Owed(c)'
      OBVIOUS
    <3>1. next = "state" BY <2>3 DEF Writing, TypeOK
    <3>2. UNCHANGED <<call, draft>> BY <2>2, <3>1 DEF Written
    <3> QED BY <2>1, <2>3, <3>2 DEF Owed, BackedBy, Verified
  <2> QED BY <2>5, <2>6, <2>7 DEF WriteInv
<1>4. ASSUME NEW c \in Client, WriteState(c) PROVE WriteInv'
  <2>1. /\ state' = draft[c].state /\ evidence' = evidence
        /\ pc[c] = "state" /\ pc' = [pc EXCEPT ![c] = "unlock"]
    BY <1>4 DEF WriteState, Written
  <2>2. Owed(c) BY <2>1 DEF WriteInv, Writing
  <2>3. \A d \in Client : pc'[d] \notin Writing
    BY <2>1, OthersDoNotWrite DEF InSection, Writing, TypeOK
  <2>4. ASSUME NEW t \in Completed(state')
        PROVE  \E e \in evidence.entries : Backs(e, t, done'[t].run, done'[t].tree, state'.plan)
    <3>1. t \in Task /\ state'.tasks[t].status = "completed" BY DEF Completed, WithStatus
    <3>2. CASE state.tasks[t].status = "completed"
      <4>1. done'[t] = done[t] /\ state'.plan = state.plan
        BY <1>4, <2>1, <2>2, <2>4, <3>1, <3>2 DEF WriteState, Owed, BackedBy
      <4>2. t \in Completed(state) BY <3>1, <3>2 DEF Completed, WithStatus
      <4> QED BY <4>1, <4>2 DEF WriteInv, BackedCompletion, Backs
    <3>3. CASE state.tasks[t].status # "completed"
      <4>1. done'[t] = [run |-> state.tasks[t].run, tree |-> draft[c].tree]
        BY <1>4, <3>1, <3>3 DEF WriteState
      <4>2. \E e \in draft[c].evidence.entries :
              Backs(e, t, state.tasks[t].run, draft[c].tree, draft[c].state.plan)
        BY <2>1, <2>2, <2>4, <3>3 DEF Owed, BackedBy
      <4> QED BY <2>1, <2>2, <4>1, <4>2 DEF Owed
    <3> QED BY <3>2, <3>3
  <2>5. BackedCompletion' BY <2>1, <2>4 DEF BackedCompletion, Backs
  <2> QED BY <2>3, <2>5 DEF WriteInv
<1>5. CASE Quiet
  <2>1. BackedCompletion' BY <1>5 DEF Quiet, WriteInv, BackedCompletion
  <2>2. ASSUME NEW d \in Client, pc'[d] \in Writing PROVE Owed(d)'
    <3>1. Owed(d) /\ pc'[d] = pc[d] /\ draft'[d] = draft[d] /\ call'[d] = call[d]
          /\ UNCHANGED <<state, evidence>>
      BY <1>5, <2>2 DEF Quiet, WriteInv
    <3> QED BY <3>1 DEF Owed, BackedBy, Verified
  <2> QED BY <2>1, <2>2 DEF WriteInv
<1> QED BY <1>1, <1>2, <1>3, <1>4, <1>5, QuietSteps

(* A completed task has its evidence on disk, of the run that was active and *)
(* under a strict policy for the tree it was completed on, whatever dies     *)
(* between the two files and whoever reports late (completeTask).            *)
THEOREM CompletionsAreBacked ==
  ASSUME ~Suspends
  PROVE  Spec => []BackedCompletion
<1>1. TypeOK /\ LockInv /\ [Next]_vars => LockInv' BY LockStep
<1>2. LockInv => Exclusive BY DEF LockInv, Exclusive
<1>3. TypeOK /\ DocInv /\ Exclusive /\ WriteInv /\ [Next]_vars => WriteInv' BY WriteStep
<1>4. WriteInv => BackedCompletion BY DEF WriteInv
<1> QED BY <1>1, <1>2, <1>3, <1>4, TypeInit, TypeStep, LockInit, SoundInit, DocStep, WriteInit, PTL
    DEF Spec

LEMMA FinalStep ==
  ASSUME TypeOK, DocInv, WriteInv, [Next]_vars,
         state.status # "completed", state'.status = "completed"
  PROVE  /\ VerdictStands /\ state.integration # None
         /\ \E c \in Client :
              /\ pc[c] = "state" /\ call[c].op = "finalize"
              /\ state.integration = [status |-> "PASS", tree |-> draft[c].tree]
<1>1. state' # state OBVIOUS
<1>2. \A c \in Client : Operation(c) => state' = state
  BY OperationDrafts DEF Do, files
<1>3. PICK c \in Client : WriteState(c)
  BY <1>1, <1>2, QuietSteps DEF WritePlan, WriteScope, WriteEvidence, Quiet
<1>4. pc[c] = "state" /\ state' = draft[c].state BY <1>3 DEF WriteState
<1>5. Verified(call[c], draft[c].state, draft[c].tree) BY <1>4 DEF WriteInv, Owed, Writing
<1>6. VerdictStands BY DEF DocInv, Sound, VerdictStands
<1> QED BY <1>4, <1>5, <1>6 DEF Verified

(* A work item becomes completed only by a finalization that found the tree  *)
(* the integration had passed for (finalizeWork).                            *)
THEOREM FinalizationsAreVerified ==
  ASSUME ~Suspends
  PROVE  Spec => FinalMeansVerified
<1>1. TypeOK /\ LockInv /\ [Next]_vars => LockInv' BY LockStep
<1>2. LockInv => Exclusive BY DEF LockInv, Exclusive
<1>3. TypeOK /\ DocInv /\ Exclusive /\ WriteInv /\ [Next]_vars => WriteInv' BY WriteStep
<1>4. TypeOK /\ DocInv /\ WriteInv /\ [Next]_vars =>
        [state.status # "completed" /\ state'.status = "completed" =>
           /\ VerdictStands /\ state.integration # None
           /\ \E c \in Client :
                /\ pc[c] = "state" /\ call[c].op = "finalize"
                /\ state.integration = [status |-> "PASS", tree |-> draft[c].tree]]_vars
  BY FinalStep
<1> QED BY <1>1, <1>2, <1>3, <1>4, TypeInit, TypeStep, LockInit, SoundInit, DocStep, WriteInit, PTL
    DEF Spec, FinalMeansVerified

-----------------------------------------------------------------------------
(***************************************************************************)
(* The plan that runs.  Unless a command is cut short while it writes the  *)
(* scope, the scope names PLAN.json, so a task starts only when PLAN.json  *)
(* is the plan of STATE.json too.                                          *)
(***************************************************************************)
Compatible(s) ==
  /\ Running(s) # {} => s.approved = planFile /\ s.plan = planFile
  /\ \A t \in Active(s) : Deps[s.plan][t] \subseteq Completed(s)
  /\ \A t, u \in Running(s) : t # u => Files[s.plan][t] \cap Files[s.plan][u] = {}

Drafted(c) ==
  /\ Compatible(draft[c].state)
  /\ pc[c] \in {"plan", "scope"} => Running(state) = {} /\ Running(draft[c].state) = {}
  /\ pc[c] = "scope" => call[c].plan = planFile

PlanInv ==
  /\ scope = planFile \/ \E c \in Client : pc[c] = "scope"
  /\ Compatible(state)
  /\ \A c \in Client : pc[c] \in Writing => Drafted(c)

LEMMA PlanInit == Init => PlanInv
  BY DEF Init, PlanInv, Compatible, Active, Writing, InitialState, Tasks, Running, Completed, WithStatus

LEMMA OperationDraftsCompatible ==
  ASSUME TypeOK, DocInv, Compatible(state), scope = planFile, NEW c \in Client, Operation(c)
  PROVE  Drafted(c)'
<1>1. PICK k \in Commands(seen[c]) :
        /\ WithinBounds(k)
        /\ \/ Import(c, k) \/ Approve(c, k) \/ Start(c, k) \/ Heartbeat(c, k)
           \/ RecordReceipt(c, k) \/ Complete(c, k) \/ Fail(c, k) \/ Recover(c, k)
           \/ VerifyIntegration(c, k) \/ Finalize(c, k) \/ Block(c, k)
  BY DEF Operation
<1>2. k.op \in {"start", "complete", "fail"} => k.task \in Task
  BY <1>1, CommandTypes
<1>3. state \in StateDoc /\ Sound(state) BY DEF TypeOK, DocInv
<1>4. ASSUME NEW s, NEW e, NEW next \in {"plan", "evidence", "state"}, Do(c, k, s, e, next),
             Compatible(s), next = "plan" => Running(state) = {} /\ Running(s) = {}
      PROVE  Drafted(c)'
  <2>1. UNCHANGED <<state, planFile>> BY <1>4 DEF Do, files
  <2>2. (draft[c].state)' = s /\ pc'[c] = next BY <1>4 DEF Do, TypeOK
  <2>3. Compatible(draft[c].state)' BY <1>4, <2>1, <2>2 DEF Compatible
  <2> QED BY <1>4, <2>1, <2>2, <2>3 DEF Drafted
<1>5. ASSUME NEW s, s.plan = state.plan, s.approved = state.approved,
             Running(s) \subseteq Running(state), Completed(state) \subseteq Completed(s),
             Active(s) \subseteq Active(state)
      PROVE  Compatible(s)
  BY <1>5 DEF Compatible
<1>6. CASE Import(c, k)
  <2> DEFINE s == [state EXCEPT !.plan = k.plan, !.approved = None, !.tasks = Tasks("pending"),
                                !.integration = None, !.status = "awaiting-plan-approval"]
  <2>1. s.tasks = Tasks("pending") BY <1>3 DEF StateDoc
  <2>2. Do(c, k, s, evidence, "plan") /\ Running(state) = {} BY <1>6 DEF Import, NothingRuns
  <2> HIDE DEF s
  <2>3. Active(s) = {} BY <2>1 DEF Active, Tasks, Running, Completed, WithStatus
  <2>4. Running(s) = {} BY <2>3 DEF Active
  <2>5. Compatible(s) BY <2>3, <2>4 DEF Compatible
  <2> QED BY <1>4, <2>2, <2>4, <2>5
<1>7. CASE Approve(c, k)
  <2> DEFINE s == [state EXCEPT !.plan = planFile, !.approved = planFile, !.status = "ready"]
  <2>1. s.tasks = state.tasks /\ s.plan = planFile /\ s.approved = planFile BY <1>3 DEF StateDoc
  <2>2. s.plan = state.plan \/ Active(state) = {}
    BY <1>3, <1>7, <2>1 DEF Approve, MayApprove, Sound
  <2>3. Do(c, k, s, evidence, "state") BY <1>7 DEF Approve
  <2> HIDE DEF s
  <2>4. Running(s) = Running(state) /\ Completed(s) = Completed(state)
    BY <2>1 DEF Running, Completed, WithStatus
  <2>5. Compatible(s) BY <2>1, <2>2, <2>4 DEF Compatible, Active
  <2> QED BY <1>4, <2>3, <2>5
<1>8. CASE Start(c, k)
  <2> DEFINE s == [state EXCEPT !.tasks[k.task] = [status |-> "running", run |-> runs + 1],
                                !.integration = None, !.status = "executing"]
  <2>1. k.task \in Task /\ k.task \in ReadyTasks(planFile, state)
    BY <1>2, <1>8 DEF Start, MayStart
  <2>2. state.plan = planFile /\ state.approved = planFile
    BY <1>8, <2>1 DEF Start, MayStart, ActivePlanScope, ReadyTasks, PlanIsApproved
  <2>3. s.plan = state.plan /\ s.approved = state.approved
        /\ s.tasks = [state.tasks EXCEPT ![k.task] = [status |-> "running", run |-> runs + 1]]
    BY <1>3 DEF StateDoc
  <2>4. Do(c, k, s, evidence, "state") BY <1>8 DEF Start
  <2> HIDE DEF s
  <2>5. k.task \notin Active(state) /\ Deps[planFile][k.task] \subseteq Completed(state)
    BY <2>1 DEF ReadyTasks, Active, Running, Completed, WithStatus
  <2>6. Running(s) = Running(state) \cup {k.task} /\ Completed(s) = Completed(state)
    BY <1>3, <2>1, <2>3, <2>5 DEF StateDoc, Active, Running, Completed, WithStatus
  <2>7. \A u \in Running(state) : Files[planFile][k.task] \cap Files[planFile][u] = {}
    BY <2>1 DEF ReadyTasks, RunningFiles
  <2>8. Compatible(s) BY <2>2, <2>3, <2>5, <2>6, <2>7 DEF Compatible, Active
  <2> QED BY <1>4, <2>4, <2>8
<1>9. CASE Heartbeat(c, k) BY <1>4, <1>9 DEF Heartbeat
<1>10. CASE RecordReceipt(c, k) BY <1>4, <1>10 DEF RecordReceipt
<1>11. CASE Complete(c, k)
  <2> DEFINE tasks == [state.tasks EXCEPT ![k.task] = [status |-> "completed", run |-> None]]
             all == \A t \in Task : tasks[t].status = "completed"
             s == [state EXCEPT !.tasks = tasks, !.integration = None,
                                !.status = IF all THEN "integration-verification" ELSE "executing"]
             e == [evidence EXCEPT !.entries =
                    @ \cup {[task |-> k.task, run |-> k.run, receipts |-> Accepted(k)]}]
  <2>1. k.task \in Running(state) /\ k.task \in Task
    BY <1>2, <1>11 DEF Complete, MayComplete, OfActiveRun
  <2>2. \A t \in Task : tasks[t].status = IF t = k.task THEN "completed" ELSE state.tasks[t].status
    BY <1>3, <2>1 DEF StateDoc
  <2>3. s.tasks = tasks /\ s.plan = state.plan /\ s.approved = state.approved
    <3> HIDE DEF tasks, all
    <3> QED BY <1>3 DEF StateDoc
  <2>4. Do(c, k, s, e, "evidence") BY <1>11 DEF Complete
  <2> HIDE DEF tasks, all, s, e
  <2>5. Running(s) = Running(state) \ {k.task} /\ Completed(s) = Completed(state) \cup {k.task}
    BY <2>1, <2>2, <2>3 DEF Running, Completed, WithStatus
  <2>6. Compatible(s) BY <1>5, <2>1, <2>3, <2>5 DEF Active
  <2> QED BY <1>4, <2>4, <2>6
<1>12. CASE Fail(c, k)
  <2> DEFINE s == [state EXCEPT !.tasks[k.task] = [status |-> "failed", run |-> None],
                                !.integration = None, !.status = "executing"]
  <2>1. k.task \in Running(state) /\ k.task \in Task
    BY <1>2, <1>12 DEF Fail, MayFail, OfActiveRun
  <2>2. s.tasks = [state.tasks EXCEPT ![k.task] = [status |-> "failed", run |-> None]]
        /\ s.plan = state.plan /\ s.approved = state.approved
    BY <1>3 DEF StateDoc
  <2>3. Do(c, k, s, evidence, "state") BY <1>12 DEF Fail
  <2> HIDE DEF s
  <2>4. Running(s) = Running(state) \ {k.task} /\ Completed(s) = Completed(state)
    BY <1>3, <2>1, <2>2 DEF StateDoc, Running, Completed, WithStatus
  <2>5. Compatible(s) BY <1>5, <2>2, <2>4 DEF Active
  <2> QED BY <1>4, <2>3, <2>5
<1>13. CASE Recover(c, k)
  <2>1. PICK lost \in (SUBSET Running(state)) \ {{}} :
          Do(c, k, [state EXCEPT !.tasks = [t \in Task |->
                                   IF t \in lost THEN [status |-> "retryable", run |-> None]
                                   ELSE state.tasks[t]],
                              !.integration = None, !.status = "executing"],
             evidence, "state")
    BY <1>13 DEF Recover
  <2> DEFINE tasks == [t \in Task |-> IF t \in lost THEN [status |-> "retryable", run |-> None]
                                    ELSE state.tasks[t]]
             s == [state EXCEPT !.tasks = tasks, !.integration = None, !.status = "executing"]
  <2>2. \A t \in Task : tasks[t].status = IF t \in lost THEN "retryable" ELSE state.tasks[t].status
    OBVIOUS
  <2>3. s.tasks = tasks /\ s.plan = state.plan /\ s.approved = state.approved
    <3> HIDE DEF tasks
    <3> QED BY <1>3 DEF StateDoc
  <2>4. Do(c, k, s, evidence, "state") BY <2>1
  <2> HIDE DEF s, tasks
  <2>5. Running(s) = Running(state) \ lost /\ Completed(s) = Completed(state)
    BY <2>2, <2>3 DEF Running, Completed, WithStatus
  <2>6. Compatible(s) BY <1>5, <2>3, <2>5 DEF Active
  <2> QED BY <1>4, <2>4, <2>6
<1>14. ASSUME NEW s, Do(c, k, s, evidence, "state"),
              s.tasks = state.tasks, s.plan = state.plan, s.approved = state.approved
       PROVE  Drafted(c)'
  <2>1. Running(s) = Running(state) /\ Completed(s) = Completed(state)
    BY <1>14 DEF Running, Completed, WithStatus
  <2> QED BY <1>4, <1>5, <1>14, <2>1 DEF Active
<1>15. CASE VerifyIntegration(c, k)
  <2> DEFINE s == [state EXCEPT !.integration = [status |-> IF k.flag THEN "PASS" ELSE "FAIL",
                                                 tree |-> tree],
                                !.status = IF k.flag THEN "ready-to-finalize"
                                           ELSE "integration-verification"]
  <2>1. s.tasks = state.tasks /\ s.plan = state.plan /\ s.approved = state.approved
    BY <1>3 DEF StateDoc
  <2>2. Do(c, k, s, evidence, "state") BY <1>15 DEF VerifyIntegration
  <2> HIDE DEF s
  <2> QED BY <1>14, <2>1, <2>2
<1>16. CASE Finalize(c, k)
  <2>1. Do(c, k, [state EXCEPT !.status = "completed"], evidence, "state") BY <1>16 DEF Finalize
  <2> QED BY <1>3, <1>14, <2>1 DEF StateDoc
<1>17. CASE Block(c, k)
  <2>1. Do(c, k, [state EXCEPT !.blocked = k.op = "block", !.integration = None], evidence, "state")
    BY <1>17 DEF Block
  <2> QED BY <1>3, <1>14, <2>1 DEF StateDoc
<1> QED BY <1>1, <1>6, <1>7, <1>8, <1>9, <1>10, <1>11, <1>12, <1>13, <1>15, <1>16, <1>17

LEMMA PlanStep ==
  ASSUME "scope" \notin DiesAt, TypeOK, DocInv, Exclusive, PlanInv, [Next]_vars
  PROVE  PlanInv'
<1>1. ASSUME NEW c \in Client, pc[c] \in InSection, pc[c] # "scope" PROVE scope = planFile
  BY <1>1 DEF PlanInv, Exclusive, InSection
<1>2. ASSUME NEW c \in Client, Operation(c) PROVE PlanInv'
  <2>1. pc[c] = "locked" /\ \E k, s, e, next : Do(c, k, s, e, next) BY <1>2, OperationDrafts
  <2>2. UNCHANGED <<state, scope, planFile>> /\ \E next : pc' = [pc EXCEPT ![c] = next]
    BY <2>1 DEF Do, files
  <2>3. scope = planFile BY <1>1, <2>1 DEF InSection
  <2>4. Drafted(c)' BY <1>2, <2>3, OperationDraftsCompatible DEF PlanInv
  <2>5. \A d \in Client : pc'[d] \in Writing => d = c
    BY <2>1, <2>2, OthersDoNotWrite DEF InSection
  <2> QED BY <2>2, <2>3, <2>4, <2>5 DEF PlanInv, Compatible
<1>3. ASSUME NEW c \in Client, WritePlan(c) PROVE PlanInv'
  <2>1. /\ UNCHANGED <<state, call, draft>> /\ planFile' = call[c].plan
        /\ pc[c] = "plan" /\ pc' = [pc EXCEPT ![c] = "scope"] /\ pc'[c] = "scope"
    BY <1>3 DEF WritePlan, Written, TypeOK
  <2>2. Running(state) = {} /\ Running(draft[c].state) = {} /\ Drafted(c)
    BY <2>1 DEF PlanInv, Drafted, Writing
  <2>3. Compatible(state)' BY <2>1, <2>2 DEF PlanInv, Compatible
  <2>4. Compatible(draft[c].state)' BY <2>1, <2>2 DEF Drafted, Compatible
  <2>5. \A d \in Client : pc'[d] \in Writing => d = c
    BY <2>1, OthersDoNotWrite DEF InSection
  <2> QED BY <2>1, <2>2, <2>3, <2>4, <2>5 DEF PlanInv, Drafted
<1>4. ASSUME NEW c \in Client, WriteScope(c) PROVE PlanInv'
  <2>1. /\ UNCHANGED <<state, call, draft, planFile>> /\ scope' = call[c].plan
        /\ pc[c] = "scope" /\ pc' = [pc EXCEPT ![c] = "state"] /\ pc'[c] = "state"
    BY <1>4 DEF WriteScope, Written, TypeOK
  <2>2. Drafted(c) BY <2>1 DEF PlanInv, Writing
  <2>3. \A d \in Client : pc'[d] \in Writing => d = c
    BY <2>1, OthersDoNotWrite DEF InSection
  <2> QED BY <2>1, <2>2, <2>3 DEF PlanInv, Drafted, Compatible
<1>5. ASSUME NEW c \in Client, WriteEvidence(c) PROVE PlanInv'
  <2>1. UNCHANGED <<state, scope, planFile>> /\ pc[c] = "evidence" BY <1>5 DEF WriteEvidence
  <2>2. PICK next \in {"unlock", "state"} : Written(c, next) BY <1>5 DEF WriteEvidence
  <2>3. pc' = [pc EXCEPT ![c] = next] /\ pc'[c] = next BY <2>2 DEF Written, TypeOK
  <2>4. \A d \in Client : pc'[d] \in Writing => d = c
    BY <2>1, <2>3, OthersDoNotWrite DEF InSection
  <2>5. Drafted(c) /\ scope = planFile BY <1>1, <2>1 DEF PlanInv, Writing, InSection
  <2>6. next = "state" => UNCHANGED <<call, draft>> BY <2>2 DEF Written
  <2> QED BY <2>1, <2>3, <2>4, <2>5, <2>6 DEF PlanInv, Drafted, Compatible, Writing
<1>6. ASSUME NEW c \in Client, WriteState(c) PROVE PlanInv'
  <2>1. /\ UNCHANGED <<scope, planFile>> /\ state' = draft[c].state
        /\ pc[c] = "state" /\ pc' = [pc EXCEPT ![c] = "unlock"]
    BY <1>6 DEF WriteState, Written
  <2>2. \A d \in Client : pc'[d] \notin Writing
    BY <2>1, OthersDoNotWrite DEF InSection, Writing, TypeOK
  <2>3. Compatible(draft[c].state) /\ scope = planFile
    BY <1>1, <2>1 DEF PlanInv, Drafted, Writing, InSection
  <2> QED BY <2>1, <2>2, <2>3 DEF PlanInv, Compatible
<1>7. CASE Quiet
  <2>1. UNCHANGED <<state, scope, planFile>> BY <1>7 DEF Quiet
  <2>2. \A d \in Client : pc[d] = "scope" => pc'[d] = "scope" BY <1>7 DEF Quiet, Writing
  <2>3. ASSUME NEW d \in Client, pc'[d] \in Writing PROVE Drafted(d)'
    <3>1. Drafted(d) /\ pc'[d] = pc[d] /\ draft'[d] = draft[d] /\ call'[d] = call[d]
      BY <1>7, <2>3 DEF Quiet, PlanInv
    <3> QED BY <2>1, <3>1 DEF Drafted, Compatible
  <2> QED BY <2>1, <2>2, <2>3 DEF PlanInv, Compatible
<1> QED BY <1>2, <1>3, <1>4, <1>5, <1>6, <1>7, QuietSteps

LEMMA PlanIsKept ==
  ASSUME ~Suspends, "scope" \notin DiesAt
  PROVE  Spec => []PlanInv
<1>1. TypeOK /\ LockInv /\ [Next]_vars => LockInv' BY LockStep
<1>2. LockInv => Exclusive BY DEF LockInv, Exclusive
<1>3. TypeOK /\ DocInv /\ Exclusive /\ PlanInv /\ [Next]_vars => PlanInv' BY PlanStep
<1> QED BY <1>1, <1>2, <1>3, TypeInit, TypeStep, LockInit, SoundInit, DocStep, PlanInit, PTL
    DEF Spec

(* Tasks run only from the plan that was approved, whatever import or        *)
(* approval was cut short elsewhere than at the scope: there the run         *)
(* durable_import shows the opposite (importPlan, approvePlan, startTask).   *)
THEOREM OnlyTheApprovedPlanRuns ==
  ASSUME ~Suspends, "scope" \notin DiesAt
  PROVE  Spec => []ApprovedPlanRuns
<1>1. PlanInv => ApprovedPlanRuns BY DEF PlanInv, Compatible, ApprovedPlanRuns
<1> QED BY <1>1, PlanIsKept, PTL

(* Tasks that run together declare disjoint files and follow their           *)
(* dependencies, through retries, recoveries and imports (readyTasks).       *)
THEOREM TasksRunInOrder ==
  ASSUME ~Suspends, "scope" \notin DiesAt
  PROVE  Spec => []RunnableTogether
<1>1. PlanInv => RunnableTogether BY DEF PlanInv, Compatible, Active, RunnableTogether
<1> QED BY <1>1, PlanIsKept, PTL
=============================================================================
