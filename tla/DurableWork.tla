---------------------------- MODULE DurableWork ----------------------------
(***************************************************************************)
(* The durable work item of lib/task-engine.mjs: a plan, the state of its  *)
(* tasks and the evidence for them, in files of their own under            *)
(* .ues-work/<slug>.  Every command (`ocskill work <op>`) is a process of   *)
(* its own: it takes the item's lock, reads the files, decides, writes one *)
(* file after another and releases the lock.  It may die between any two   *)
(* of these steps.  Executors and verifiers call the commands with the run *)
(* identity they were given, however old; the tree under the root changes  *)
(* at any moment.                                                          *)
(***************************************************************************)
EXTENDS Naturals, FiniteSets

CONSTANTS
  Client,      \* processes that run a command
  Task,        \* task ids, the same in every plan
  Plan,        \* plans, named by their hash
  Files,       \* Files[p][t]: the files task t declares in plan p
  Deps,        \* Deps[p][t]: the tasks it depends on
  Strict,      \* the plans of high risk or long horizon
  MaxRuns,     \* bound: runs started
  MaxEdits,    \* bound: changes of the tree
  MaxImports,  \* bound: plans imported
  MaxReceipts, \* bound: verification receipts recorded
  MaxCrashes,  \* bound: commands that die or fail to write
  Ops,         \* the operations the instance runs
  DiesAt,      \* the steps at which a command may die
  Suspends,    \* TRUE: a process may be suspended between two steps
  None         \* no plan, no run, no verdict

ASSUME PlanAssumption ==
  /\ Files \in [Plan -> [Task -> SUBSET UNION {Files[p][t] : p \in Plan, t \in Task}]]
  /\ Deps \in [Plan -> [Task -> SUBSET Task]]
  /\ Strict \subseteq Plan
  /\ None \notin Plan \cup Client

ASSUME BoundAssumption ==
  /\ {MaxRuns, MaxEdits, MaxImports, MaxReceipts, MaxCrashes} \subseteq Nat
  /\ Suspends \in BOOLEAN

VARIABLES
  planFile,    \* PLAN.json
  scope,       \* ACTIVE_PLAN.json and the snapshot it names
  state,       \* STATE.json
  evidence,    \* EVIDENCE.json
  lock,        \* .state-lock: its owner, and whether its time stamp is old
  pc,          \* pc[c]: the step of c's command
  call,        \* call[c]: the command
  seen,        \* seen[c]: plan and tree as its caller saw them
  draft,       \* draft[c]: the documents c is about to write, the tree it saw
  tree,        \* fingerprint of the tree: the number of changes so far
  runs, imports, crashes,  \* counters, for the bounds and fresh run ids
  done         \* history: run and tree of the completion of each task

files == <<planFile, scope, state, evidence>>
counters == <<runs, imports, crashes>>
vars == <<files, lock, pc, call, seen, draft, tree, counters, done>>

-----------------------------------------------------------------------------
(* The documents. *)

Run == 1..MaxRuns
Tree == 0..MaxEdits
Receipt == [task : Task, run : Run, tree : Tree, passed : BOOLEAN]
Entry == [task : Task, run : Run, receipts : SUBSET Receipt]
Verdict == [status : {"PASS", "FAIL"}, tree : Tree]
TaskStatus == {"untracked", "pending", "running", "completed", "failed", "retryable"}
TaskRecord == [status : TaskStatus, run : Run \cup {None}]
Status == {"planning", "awaiting-plan-approval", "ready", "executing",
           "integration-verification", "ready-to-finalize", "completed"}

StateDoc == [plan : Plan \cup {None}, approved : Plan \cup {None},
             tasks : [Task -> TaskRecord], integration : Verdict \cup {None},
             status : Status, blocked : BOOLEAN]
EvidenceDoc == [receipts : SUBSET Receipt, entries : SUBSET Entry]

Tasks(st) == [t \in Task |-> [status |-> st, run |-> None]]
InitialState == [plan |-> None, approved |-> None, tasks |-> Tasks("untracked"),
                 integration |-> None, status |-> "planning", blocked |-> FALSE]
InitialEvidence == [receipts |-> {}, entries |-> {}]

(* A command: what it is about, and what its caller had seen before it asked *)
(* for the lock (flag: passed or PASS).                              *)
Call == [op : Ops \cup {None}, task : Task \cup {None}, run : Run \cup {None},
         plan : Plan \cup {None}, tree : Tree \cup {None}, flag : BOOLEAN]
NoCall == [op |-> None, task |-> None, run |-> None, plan |-> None, tree |-> None,
           flag |-> FALSE]
Sight == [plan : Plan \cup {None}, tree : Tree]
NoSight == [plan |-> None, tree |-> 0]
NoDraft == [state |-> InitialState, evidence |-> InitialEvidence, tree |-> 0]

NotDone == [run |-> None, tree |-> 0]
NoLock == [owner |-> None, old |-> FALSE]

-----------------------------------------------------------------------------
(* What the code computes from the documents. *)

WithStatus(s, st) == {t \in Task : s.tasks[t].status = st}
Completed(s) == WithStatus(s, "completed")
Running(s) == WithStatus(s, "running")

(* The approval counts when it names the plan the STATE names; the plan in *)
(* PLAN.json is not asked.                                                 *)
PlanIsApproved(s) == s.plan # None /\ s.approved = s.plan

RunningFiles(p, s) == UNION {Files[p][t] : t \in Running(s)}

(* A task without declared files waits while declared files are in use; a  *)
(* task with declared files does not wait for one without.                 *)
ReadyAlone(p, s) ==    \* mutant: files in use are not looked at
  {t \in Task :
     /\ PlanIsApproved(s)
     /\ s.tasks[t].status \in {"pending", "failed", "retryable"}
     /\ Deps[p][t] \subseteq Completed(s)}

ReadyTasks(p, s) ==
  {t \in Task :
     /\ PlanIsApproved(s)
     /\ s.tasks[t].status \in {"pending", "failed", "retryable"}
     /\ Deps[p][t] \subseteq Completed(s)
     /\ Files[p][t] = {} => RunningFiles(p, s) = {}
     /\ Files[p][t] \cap RunningFiles(p, s) = {}}

ActivePlanScope == scope = None \/ scope = state.plan

(* The policy is the one stored with the state, that is the one of the plan *)
(* it was imported with.                                                    *)
ReceiptRequired(s) == s.plan \in Strict

AnyRun(t, r) == TRUE    \* mutant of RunFence
RunFence(t, r) == state.tasks[t].run = r

-----------------------------------------------------------------------------
Init ==
  /\ planFile = None /\ scope = None
  /\ state = InitialState /\ evidence = InitialEvidence
  /\ lock = NoLock
  /\ pc = [c \in Client |-> "idle"]
  /\ call = [c \in Client |-> NoCall]
  /\ seen = [c \in Client |-> NoSight]
  /\ draft = [c \in Client |-> NoDraft]
  /\ tree = 0
  /\ runs = 0 /\ imports = 0 /\ crashes = 0
  /\ done = [t \in Task |-> NotDone]

(* The commands of a caller that saw s: each operation, for an executor with *)
(* any run that was ever given out, and for a receipt with the plan's hash   *)
(* or the tree's fingerprint as they were when it was made.                  *)
Commands(s) ==
  LET Calls(ops, tasks, ids, plans, trees, flags) ==
        [op : ops, task : tasks, run : ids, plan : plans, tree : trees, flag : flags]
      no == {None}
  IN  Calls({"import"}, no, no, Plan, no, {FALSE})
        \cup Calls({"approve"}, no, no, {None, s.plan}, no, {FALSE})
        \cup Calls({"start"}, Task, no, no, no, {FALSE})
        \cup Calls({"heartbeat", "complete", "fail"}, Task, 1..runs, no, no, {FALSE})
        \cup Calls({"receipt"}, Task, 1..runs, no, {s.tree}, BOOLEAN)
        \cup Calls({"verify"}, no, no, no, {None, s.tree}, BOOLEAN)
        \cup Calls({"recover", "finalize", "block", "unblock"}, no, no, no, no, {FALSE})

WithinBounds(k) ==
  /\ k.op \in Ops
  /\ k.op = "import" => imports < MaxImports
  /\ k.op = "start" => runs < MaxRuns
  /\ k.op = "receipt" => Cardinality(evidence.receipts) < MaxReceipts

(* The caller has looked at plan and tree and asks for the lock; which       *)
(* command it is shows when it acts.                                         *)
Begin(c) ==
  /\ pc[c] = "idle"
  /\ pc' = [pc EXCEPT ![c] = "wait"]
  /\ seen' = [seen EXCEPT ![c] = [plan |-> planFile, tree |-> tree]]
  /\ UNCHANGED <<files, lock, call, draft, tree, counters, done>>

-----------------------------------------------------------------------------
(* The lock. *)

TakeLock(c) ==
  /\ pc[c] = "wait"
  /\ lock = NoLock
  /\ lock' = [owner |-> c, old |-> FALSE]
  /\ pc' = [pc EXCEPT ![c] = "locked"]
  /\ UNCHANGED <<files, call, seen, draft, tree, counters, done>>

SeeLock(c) ==    \* mutant: the age of the lock is not asked
  /\ pc[c] = "wait"
  /\ lock # NoLock
  /\ lock' = NoLock
  /\ UNCHANGED <<files, pc, call, seen, draft, tree, counters, done>>

(* The waiter finds the time stamp old and renames the lock away.  The       *)
(* rename takes the lock that is there by then; unless processes are         *)
(* suspended between the two calls, that is the old one.                     *)
SeeOldLock(c) ==
  /\ pc[c] = "wait"
  /\ lock.old
  /\ pc' = [pc EXCEPT ![c] = "rename"]
  /\ UNCHANGED <<files, lock, call, seen, draft, tree, counters, done>>

RenameLock(c) ==
  /\ pc[c] = "rename"
  /\ lock' = IF Suspends \/ lock.old THEN NoLock ELSE lock
  /\ pc' = [pc EXCEPT ![c] = "wait"]
  /\ UNCHANGED <<files, call, seen, draft, tree, counters, done>>

(* After LOCK_TIMEOUT_MS the command gives up. *)
GiveUp(c) ==
  /\ pc[c] = "wait"
  /\ lock # NoLock
  /\ pc' = [pc EXCEPT ![c] = "idle"]
  /\ seen' = [seen EXCEPT ![c] = NoSight]
  /\ UNCHANGED <<files, lock, call, draft, tree, counters, done>>

(* The lock is removed only when its owner file still names this command. *)
ReleaseLock(c) ==
  /\ pc[c] = "unlock"
  /\ lock' = IF lock.owner = c THEN NoLock ELSE lock
  /\ pc' = [pc EXCEPT ![c] = "idle"]
  /\ UNCHANGED <<files, call, seen, draft, tree, counters, done>>

(* Every LOCK_HEARTBEAT_MS the holder renews the time stamp, unless it is   *)
(* dead or suspended.                                                       *)
LockGrowsOld ==
  /\ lock # NoLock /\ ~lock.old
  /\ Suspends \/ pc[lock.owner] = "dead"
  /\ lock' = [lock EXCEPT !.old = TRUE]
  /\ UNCHANGED <<files, pc, call, seen, draft, tree, counters, done>>

-----------------------------------------------------------------------------
(* The operations.  Under the lock a command reads all documents and       *)
(* decides; Do hands the documents to the steps that write them.           *)

Do(c, k, s, e, next) ==
  /\ call' = [call EXCEPT ![c] = k]
  /\ seen' = [seen EXCEPT ![c] = NoSight]
  /\ draft' = [draft EXCEPT ![c] = [state |-> s, evidence |-> e, tree |-> tree]]
  /\ pc' = [pc EXCEPT ![c] = next]
  /\ imports' = imports + (IF k.op = "import" THEN 1 ELSE 0)
  /\ runs' = runs + (IF k.op = "start" THEN 1 ELSE 0)
  /\ UNCHANGED <<files, lock, tree, crashes, done>>

AnythingRuns == TRUE    \* mutant of NothingRuns
NothingRuns == Running(state) = {}

Import(c, k) ==
  /\ k.op = "import"
  /\ NothingRuns
  /\ Do(c, k, [state EXCEPT !.plan = k.plan, !.approved = None,
                            !.tasks = Tasks("pending"), !.integration = None,
                            !.status = "awaiting-plan-approval"],
        evidence, "plan")

MayApprove(k) ==
  /\ planFile # None
  /\ scope = None \/ scope = (IF state.plan = None THEN planFile ELSE state.plan)
  /\ state.plan \in {None, planFile}
  /\ IF k.plan # None THEN k.plan = planFile ELSE planFile \notin Strict

Approve(c, k) ==
  /\ k.op = "approve"
  /\ MayApprove(k)
  /\ Do(c, k, [state EXCEPT !.plan = planFile, !.approved = planFile, !.status = "ready"],
        evidence, "state")

MayStart(k) ==
  /\ planFile # None
  /\ ActivePlanScope
  /\ k.task \in ReadyTasks(planFile, state)

Start(c, k) ==
  /\ k.op = "start"
  /\ MayStart(k)
  /\ Do(c, k, [state EXCEPT !.tasks[k.task] = [status |-> "running", run |-> runs + 1],
                            !.integration = None, !.status = "executing"],
        evidence, "state")

OfActiveRun(k) == k.task \in Running(state) /\ RunFence(k.task, k.run)

(* heartbeatTask; attachTaskSession has the same fence and no other effect *)
(* on the state modelled.                                                  *)
Heartbeat(c, k) ==
  /\ k.op = "heartbeat"
  /\ OfActiveRun(k)
  /\ Do(c, k, state, evidence, "state")

RecordReceipt(c, k) ==
  /\ k.op = "receipt"
  /\ OfActiveRun(k)
  /\ LET r == [task |-> k.task, run |-> k.run, tree |-> k.tree, passed |-> k.flag]
     IN  Do(c, k, state, [evidence EXCEPT !.receipts = @ \cup {r}], "evidence")

Successful(k) == {r \in evidence.receipts : r.task = k.task /\ r.run = k.run /\ r.passed}

Accepted(k) ==
  IF ReceiptRequired(state) THEN {r \in Successful(k) : r.tree = tree} ELSE Successful(k)

MayComplete(k) ==
  /\ planFile # None
  /\ OfActiveRun(k)
  /\ ReceiptRequired(state) => Accepted(k) # {}

Complete(c, k) ==
  /\ k.op = "complete"
  /\ MayComplete(k)
  /\ LET tasks == [state.tasks EXCEPT ![k.task] = [status |-> "completed", run |-> None]]
         all == \A t \in Task : tasks[t].status = "completed"
     IN  Do(c, k, [state EXCEPT !.tasks = tasks, !.integration = None,
                                !.status = IF all THEN "integration-verification" ELSE "executing"],
            [evidence EXCEPT !.entries =
               @ \cup {[task |-> k.task, run |-> k.run, receipts |-> Accepted(k)]}],
            "evidence")

MayFail(k) == planFile # None /\ OfActiveRun(k)

Fail(c, k) ==
  /\ k.op = "fail"
  /\ MayFail(k)
  /\ Do(c, k, [state EXCEPT !.tasks[k.task] = [status |-> "failed", run |-> None],
                            !.integration = None, !.status = "executing"],
        evidence, "state")

(* Time is left out: by the time it is looked at, the lease of any running   *)
(* task may have expired; force takes them all.  recoverTask is about one of *)
(* them, recoverStaleTasks about all that are stale.                         *)
Recover(c, k) ==
  /\ k.op = "recover"
  /\ \E lost \in (SUBSET Running(state)) \ {{}} :
       Do(c, k, [state EXCEPT !.tasks = [t \in Task |->
                                   IF t \in lost THEN [status |-> "retryable", run |-> None]
                                   ELSE state.tasks[t]],
                              !.integration = None, !.status = "executing"],
          evidence, "state")

AllCompleted == planFile # None /\ Completed(state) = Task

MayVerify(k) ==
  /\ AllCompleted
  /\ k.flag => ~state.blocked
  /\ IF k.tree # None THEN k.tree = tree ELSE k.flag => ~ReceiptRequired(state)

VerifyIntegration(c, k) ==
  /\ k.op = "verify"
  /\ MayVerify(k)
  /\ LET pass == k.flag IN
       Do(c, k, [state EXCEPT !.integration = [status |-> IF pass THEN "PASS" ELSE "FAIL",
                                               tree |-> tree],
                              !.status = IF pass THEN "ready-to-finalize"
                                         ELSE "integration-verification"],
          evidence, "state")

MayFinalizeLater(k) ==    \* mutant: the tree is not fingerprinted again
  AllCompleted /\ ~state.blocked /\ state.integration # None /\ state.integration.status = "PASS"

MayFinalize(k) ==
  /\ AllCompleted
  /\ ~state.blocked
  /\ state.integration # None
  /\ state.integration = [status |-> "PASS", tree |-> tree]

Finalize(c, k) ==
  /\ k.op = "finalize"
  /\ MayFinalize(k)
  /\ Do(c, k, [state EXCEPT !.status = "completed"], evidence, "state")

BlockKeeps(c, k) ==    \* mutant: the verdict stays
  /\ k.op \in {"block", "unblock"}
  /\ Do(c, k, [state EXCEPT !.blocked = k.op = "block"], evidence, "state")

Block(c, k) ==
  /\ k.op \in {"block", "unblock"}
  /\ Do(c, k, [state EXCEPT !.blocked = k.op = "block", !.integration = None],
        evidence, "state")

(* The command throws before it has written anything, because its condition  *)
(* does not hold or an argument is missing; or it is a recovery and finds    *)
(* nothing stale.                                                            *)
Refuse(c) ==
  /\ pc[c] = "locked"
  /\ pc' = [pc EXCEPT ![c] = "unlock"]
  /\ seen' = [seen EXCEPT ![c] = NoSight]
  /\ UNCHANGED <<files, lock, call, draft, tree, counters, done>>

-----------------------------------------------------------------------------
(* The writes.  A file is replaced by a rename, so a death leaves it old or *)
(* new; ACTIVE_PLAN.json alone is written in place and may be torn.         *)

Forgets(c) ==
  /\ call' = [call EXCEPT ![c] = NoCall]
  /\ seen' = [seen EXCEPT ![c] = NoSight]
  /\ draft' = [draft EXCEPT ![c] = NoDraft]

Written(c, next) ==
  /\ pc' = [pc EXCEPT ![c] = next]
  /\ IF next = "unlock" THEN Forgets(c) ELSE UNCHANGED <<call, seen, draft>>
  /\ UNCHANGED <<lock, tree, counters>>

WritePlan(c) ==
  /\ pc[c] = "plan"
  /\ planFile' = call[c].plan
  /\ Written(c, "scope")
  /\ UNCHANGED <<scope, state, evidence, done>>

WriteScope(c) ==
  /\ pc[c] = "scope"
  /\ scope' = call[c].plan
  /\ Written(c, "state")
  /\ UNCHANGED <<planFile, state, evidence, done>>

WriteEvidence(c) ==
  /\ pc[c] = "evidence"
  /\ evidence' = draft[c].evidence
  /\ Written(c, IF call[c].op = "receipt" THEN "unlock" ELSE "state")
  /\ UNCHANGED <<planFile, scope, state, done>>

WriteState(c) ==
  /\ pc[c] = "state"
  /\ state' = draft[c].state
  /\ done' = [t \in Task |->
               IF state'.tasks[t].status # "completed" THEN NotDone
               ELSE IF state.tasks[t].status = "completed" THEN done[t]
               ELSE [run |-> state.tasks[t].run, tree |-> draft[c].tree]]
  /\ Written(c, "unlock")
  /\ UNCHANGED <<planFile, scope, evidence>>

-----------------------------------------------------------------------------
(* The environment. *)

(* The process of a command dies, or one of its writes fails and the command *)
(* throws.                                                                   *)
Interrupted(c, next) ==
  /\ crashes < MaxCrashes
  /\ pc[c] \in DiesAt
  /\ crashes' = crashes + 1
  /\ pc' = [pc EXCEPT ![c] = next]
  /\ scope' \in {scope} \cup (IF pc[c] = "scope" THEN {"torn"} ELSE {})
  /\ Forgets(c)
  /\ UNCHANGED <<planFile, state, evidence, lock, tree, runs, imports, done>>

Die(c) == Interrupted(c, "dead")

WriteFails(c) ==
  /\ pc[c] \in {"plan", "scope", "evidence", "state"}
  /\ Interrupted(c, "unlock")

Edit ==
  /\ tree < MaxEdits
  /\ tree' = tree + 1
  /\ UNCHANGED <<files, lock, pc, call, seen, draft, counters, done>>

Operation(c) ==
  /\ pc[c] = "locked"
  /\ \E k \in Commands(seen[c]) :
       /\ WithinBounds(k)
       /\ \/ Import(c, k) \/ Approve(c, k) \/ Start(c, k) \/ Heartbeat(c, k)
          \/ RecordReceipt(c, k) \/ Complete(c, k) \/ Fail(c, k) \/ Recover(c, k)
          \/ VerifyIntegration(c, k) \/ Finalize(c, k) \/ Block(c, k)

Step(c) ==
  \/ TakeLock(c) \/ SeeOldLock(c) \/ RenameLock(c) \/ GiveUp(c) \/ ReleaseLock(c)
  \/ Operation(c) \/ Refuse(c)
  \/ WritePlan(c) \/ WriteScope(c) \/ WriteEvidence(c) \/ WriteState(c)

Next ==
  \/ \E c \in Client : Begin(c) \/ Step(c) \/ Die(c) \/ WriteFails(c)
  \/ LockGrowsOld
  \/ Edit

Spec == Init /\ [][Next]_vars

-----------------------------------------------------------------------------
(* Properties. *)

PC == {"idle", "wait", "rename", "locked", "plan", "scope", "evidence", "state",
       "unlock", "dead"}

(* The documents have their form, and a lock names a command. *)
TypeOK ==
  /\ planFile \in Plan \cup {None}
  /\ scope \in Plan \cup {None, "torn"}
  /\ state \in StateDoc
  /\ evidence \in EvidenceDoc
  /\ lock \in [owner : Client \cup {None}, old : BOOLEAN]
  /\ pc \in [Client -> PC]
  /\ call \in [Client -> Call] /\ seen \in [Client -> Sight]
  /\ draft \in [Client -> [state : StateDoc, evidence : EvidenceDoc, tree : Tree]]
  /\ tree \in Tree
  /\ runs \in 0..MaxRuns
  /\ imports \in 0..MaxImports /\ crashes \in 0..MaxCrashes
  /\ done \in [Task -> [run : Run \cup {None}, tree : Tree]]

InSection == {"locked", "plan", "scope", "evidence", "state", "unlock"}

(* Durable state and evidence are changed by one command at a time, also    *)
(* when the holder of the lock dies and a waiter takes the lock from it     *)
(* (withWorkLock).                                                          *)
Exclusive ==
  \A c, d \in Client : pc[c] \in InSection /\ pc[d] \in InSection => c = d

(* While tasks run, the plan in PLAN.json, the plan of STATE.json and the   *)
(* approved plan are one, whatever import or approval was cut short         *)
(* (importPlan, approvePlan, startTask).                                    *)
ApprovedPlanRuns ==
  Running(state) # {} => state.approved = planFile /\ state.plan = planFile

(* Tasks that run together declare disjoint files, and no task has started  *)
(* or ended before the tasks it depends on had completed (readyTasks, with  *)
(* retries, recoveries and imports between).                                *)
RunnableTogether ==
  \A t \in Running(state) \cup Completed(state) :
    /\ Deps[state.plan][t] \subseteq Completed(state)
    /\ t \in Running(state) =>
         \A u \in Running(state) \ {t} :
           Files[state.plan][t] \cap Files[state.plan][u] = {}

(* A completed task has its evidence entry on disk, of the run that was      *)
(* active; under a strict policy the entry holds a passed receipt of that    *)
(* run for the tree the completion found (recordVerificationReceipt,         *)
(* completeTask: a stale executor, a changed tree or a death between the two *)
(* files must not give a completion without evidence).                       *)
BackedCompletion ==
  \A t \in Completed(state) :
    \E e \in evidence.entries :
      /\ e.task = t /\ e.run = done[t].run
      /\ state.plan \in Strict =>
           \E r \in e.receipts : r.passed /\ r.run = done[t].run /\ r.tree = done[t].tree

(* A PASS of the integration stands only while every task is completed and   *)
(* nothing blocks: each command that changes either withdraws it.            *)
VerdictStands ==
  state.integration # None /\ state.integration.status = "PASS" =>
    Completed(state) = Task /\ ~state.blocked

(* The work item becomes completed by a finalization that found the tree     *)
(* the integration had passed for (finalizeWork).                            *)
FinalMeansVerified ==
  [][state.status # "completed" /\ state'.status = "completed" =>
       /\ VerdictStands /\ state.integration # None
       /\ \E c \in Client :
            /\ pc[c] = "state" /\ call[c].op = "finalize"
            /\ state.integration = [status |-> "PASS", tree |-> draft[c].tree]]_vars

(* No task that declares its files runs beside one that declares none: what  *)
(* the plan's analysis says of tasks without files.                          *)
UnknownScopeAlone ==
  \A t, u \in Running(state) :
    t # u => (Files[state.plan][t] = {} <=> Files[state.plan][u] = {})
=============================================================================
