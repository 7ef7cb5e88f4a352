# Verification of the UES agent runtime

TLA+ models of the concurrent and crash-exposed parts of *UES for Pi Agent* (package
`opencode-agent-skill`), checked with TLC, and proofs about them checked with TLAPS. Paths are
relative to the repository.

## 1. The system

UES runs inside the Pi coding agent. One Node.js process per Pi session holds the **controller**
(`pi/extensions/ues.ts`): it turns a request into a plan of tasks, runs the tasks of a *wave* in child
Pi processes (each in its own git worktree), integrates their patches into the user's working tree,
verifies the result and reports. The logic is in `lib/*.mjs`. Several Pi sessions, each with its own
process, may work on one root; they share only files under `.ues-work/` and the working tree, so every
guarantee across processes rests on `mkdir` locks, atomic renames and what the code makes of file
contents it read earlier. A user edits and commits in the same tree meanwhile, and any process can be
killed.

| part | state | operations | hard behaviour | what makes it correct |
|---|---|---|---|---|
| **Execution ownership** `lib/execution-ownership.mjs` | one lease file per scope; a `mkdir` lock; `LOCAL_REFS` per process | claim, renew (timer), assert, release, prune | interleaving of processes and of sessions in one process, death inside the lock, lock steals, expiry | the lock excludes; a fresh lease is not lost; a generation has one owner; waiters leave |
| **Integration transaction** `lib/integration-transaction-v16-15.mjs` over `lib/worktree-sandbox.mjs`, `lib/git-async-runtime-v16-16.mjs` | root tree, run-journal records, sandboxes | preflight, apply, roll back, commit; recovery pass | death between any two steps, failing git calls and appends, cancellation, a user editing, two controllers | all or nothing; reports are truthful; recovery reverses only what is provably ours |
| **Run journal** `lib/run-journal.mjs` | append-only file of sequenced records, cached sequence | create, append, read, recover | concurrent appenders, stale lock, death between sidecar and admission record | sequence numbers unique and rising; a run is admitted once |
| **RPC worker pool** `lib/pi-rpc-pool.mjs` | warm worker processes by key, reservations, one queue per worker | run, resume, prewarm, discard, prune, stop all | exit while leased, a start that fails, two callers replacing one worker, limits | no process is left behind; pruning spares workers in use; a run starts from a clear session |
| **Durable work** `lib/task-engine.mjs` | PLAN, scope, STATE and EVIDENCE files of a work item, under a lock | import, approve, start, receipt, complete, fail, recover, verify, finalize, block | each command is a process that may die between two files; callers with old runs; edits of the tree | only the approved plan runs; completions and the verdict are backed by evidence for their tree |
| **Wave planning** `lib/execution-plan-compiler-v16-17.mjs`, `lib/task-graph.mjs`, `lib/execution-conflict-graph-v16-15.mjs`, `lib/delegation-safety.mjs`, `lib/parallel-execution-policy-v16-15.mjs` | none between calls | order into waves, find conflicts, pack rows, decide | four rule sets answer one question, one after another | dependencies first; no clash in a wave; rows follow the decision; it ends |
| **Controller and fleet** `pi/extensions/ues.ts`, `lib/delegation-fleet.mjs`, `lib/subagent-fabric.mjs` | wave, attempt, the children and the registry's rows | gate, prepare, run the wave's children, sweep, land, complete, retry | a reaped child that still runs, an abort or a deadline anywhere, infrastructure failing half-way | nothing lands or completes unverified; no orphans; the run ends |
| **Run budget** `lib/run-budget-ledger-v16-17.mjs`, `lib/structured-execution-meter-v16-17.mjs` | counters per run | reserve, settle, tighten the deadline | reserve compares but does not hold; settles race | counters only rise; a run over budget starts nothing |
| **DAG scheduler** `lib/task-dag-scheduler-v16-12.mjs` | node states, running set | pick, settle, time out | completion order, timeouts with work still running | dependencies first; conflicting writers never together; ends |
| **Workspace fence** `lib/workspace-state-owner.mjs`, `lib/prewrite-fence.mjs`, `lib/execution-coordinator.mjs` | generation and snapshots of the tree | observe, admit a write, invalidate | a snapshot taken before an await is stale after it | no write on a stale snapshot |
| **Write checkpoints** `lib/write-checkpoints.mjs` | saved copies of files | checkpoint, roll back, prune | partial failure of a multi-file rollback | rollback restores or says it did not |
| **Warm services** `lib/code-intelligence/lsp-pool.mjs`, `lib/lazy-runtime.mjs`, `lib/service-manager.mjs` | services started once | start, restart, stop | callers joining a start in flight | one service per key |
| **Process supervision** `lib/process-supervisor.mjs`, `lib/process-runner.mjs`, watchdogs | child process, timers | start, abort, time out, kill tree | close racing a timeout | settles exactly once |
| **Advisor sessions** `lib/advisor-session-manager.mjs`, `lib/deepseek-*.mjs`, `lib/web-decision-barrier-v16-8.mjs` | browser profiles, profile lock, sessions, barriers | open, consult, recover, admit | one profile, many processes; late answers | a profile has one user; a decision has one answer |
| **Evidence and receipts** `lib/evidence-store.mjs`, `lib/content-artifacts.mjs`, `lib/verification-receipt-cache-v16-12.mjs` | content-addressed files and receipts | put, read, collect, reuse | collection racing a reader, stale receipts | a receipt is used only for the tree it was made on |
| **Tools** `lib/tool-scheduler.mjs`, `lib/permission-policy.mjs` | queue of tool calls | schedule, run, classify | exclusive calls beside shared ones | exclusive calls run alone |
| **Retrieval, skills, context, memory, installer, telemetry** | mostly pure | rank, select, format | little | — |

`PROJECT.json` lists each part with its files and says whether it is modelled, and its `hazards` name
the lines at which the code is exposed to what tests hardly reach.

The parts interact as follows. The controller has a plan compiled (*wave planning*), claims the root
(*ownership*), and for each wave starts the tasks in the *durable work* item, creates sandboxes, runs
the children through the *fleet* (each over a worker of the *pool*), lets a verifier pass each tree, lands the
patches as one *integration transaction* whose records go to the *run journal*, and completes the tasks. A
new controller begins with the recovery passes over those records.

## 2. Plan

The order follows what would hurt most if it were wrong: first what several processes do to the
user's working tree, then the records that a recovery relies on, then what schedules the work, then the rest.

| step | modules | state |
|---|---|---|
| 1 | `ExecutionOwnership` implementing the abstract `LeaseRegister` | checked, proved |
| 2 | `IntegrationTransaction`: the transaction, its recovery pass, the user | checked, proved |
| 3 | `RunJournal` over the event file | checked, proved |
| 4 | `TaskDag` | checked, proved |
| 5 | `WorkerPool` | checked, proved |
| 6 | `DurableWork` | checked, proved |
| 7 | `StructuredPlan`: the controller's loop over the fleet and its registry | checked, proved |
| 8 | `WavePlanning` | checked, proved |
| 9 | `ToolScheduler`, `RunBudget`, `AdvisorSession` (worker lease and epoch across awaits) | to do |
| 10 | `WorkspaceFence` with the receipts' fingerprints, `WriteCheckpoints`, `ProfileLock`, `ProcessSupervisor`, `ArtifactStore` | to do |
| 11 | compositions | to do |

*Compositions.* `StructuredPlan` composes the controller with the fleet and the registry, and has the
transaction, the durable commands and the children as steps; `IntegrationTransaction`, `DurableWork` and `WorkerPool`
have their insides. `IntegrationTransaction` keeps its records in a set written in one step or not at all;
a composition would replace it by a `RunJournal` shared with other callers, so that a torn line or a
compaction can lose an intent. The lock made with `mkdir` and stolen by age appears in
`execution-ownership.mjs`, `run-journal.mjs`, `task-engine.mjs`, `evidence-store.mjs` and `memory-engine.mjs`: an
abstract lock, with the three modelled ones shown to implement it while holders are in time, states once
what the five may rely on. `TaskDag` meets the receipts in `execution-acceleration-v16-12.mjs`.

*Abstract specifications.* `LeaseRegister`: one register, changed in one step. Worth stating
besides: the journal as a sequence that only grows at its end; a pool as a set of workers, each with at
most one user; a budget as a counter that is reserved before it is spent.

*Proofs to come.* Every safety property of a passing run is proved, most under weaker assumptions than the run's.
Left are `SequenceRises` when writes may tear, the lock of the lease when processes die (for two threads, as in the
journal), and what the modules of steps 9 to 11 will state.

## 3. The modules and the code

### ExecutionOwnership, LeaseRegister

`lib/execution-ownership.mjs`, one scope. A *runtime* is a controller process and its owner token, a
*session* one launched child that claims, heartbeats and releases. A session is two threads: `main` for
claim, prune and release, `beat` for the renewals of the timer in `pi/extensions/ues.ts:447`.

| code | action |
|---|---|
| `claimExecutionOwnership`, `renewExecutionOwnership`, `releaseExecutionOwnership`, `maybePruneExecutionOwnership` | `BeginClaim`, `BeginRenew`, `BeginRelease` or `ReleaseRetained`, `BeginPrune` |
| `withOwnershipLock`: mkdir; two stats and the removal; deadline; finally | `Acquire`; `SeeStale`, `Steal`; `TimeOut`; `Unlock` |
| `readLeaseFile` and the decision; `atomicJson` or `rm` | `Read`; `Write` |
| `LOCAL_REFS` of a successful claim | `Count` |
| a process death; `Date.now()` | `Crash`; `Tick` |

The time of a call is taken before it waits for the lock, as in the code. Reading, writing, removing
the lock and stealing it are separate steps. `beat` is a history variable. `LeaseRegister` is what the
file is without the lock: `ImplementsRegister` maps its three variables to those of the same name.

### IntegrationTransaction

`lib/integration-transaction-v16-15.mjs` over the root operations of `lib/worktree-sandbox.mjs`. Patches
are `1..N`, patch `p` changes file `p`. A file is `base`, `patched` or `user`; `atHead` is its version at HEAD.
The root identity is HEAD and the *names* of the dirty files, exactly what `rootWorkspaceIdentity` hashes.

| code | action |
|---|---|
| phase 0, A, A5 | `Capture`, `Preflight`, `Begin` |
| the apply loop | `Check`, `ApplyOk`, `ApplyError`, `RecordPatch` |
| the rollback | `RollbackBegin`, `UndoOk`, `UndoError`, `UndoRecord`, `UndoDone`, `VerifyRollback`, `RollbackComplete` |
| phase C | `Post`, `Commit` |
| a rejected promise | `Throws` |
| `recoverIncompleteIntegrations` | `RStart`, `RInspect`, `RReverse`, `RVerify`, `RRecord` |
| the controller around it: abort, clean-up, death, pruning | `Cancel`, `CleanUp`, `Crash`, `RCrash`, `PruneOrphans` |
| the user | `UserEdit`, `UserCommit` |

Abstracted: a user's edit to a patched file makes the patch irreversible (git refuses), an edit before
the apply makes it inapplicable. The preflight reads all files in one step, which is sound because a
file never returns to `base` before the apply. A git call killed by the signal may have had its effect.

### RunJournal

`lib/run-journal.mjs` and `lib/runtime-events.mjs`. A caller stands for one call site of a process; its
call passes the queue `JOURNAL_TAILS` (`Call`, `Turn`), the lock directory (`Acquire`, `SeeStale`, `Steal`,
`TimeOut`), the body (`Enter`, `WriteSidecar`, `NextSequence`, `Compact`, `Write`, `WriteFails`) and settles
(`Leave`, `GiveUp`). `Crash` stops a process between two steps, `TearingCrash` inside a write. Events are
records of a call's number, process, sequence number and payload hash; a line that cannot be parsed is
absent from `file`, and `torn` says that the file ends without a newline. The part of a compaction that a
line-size limit would drop, the 5000 lines a read returns at most, and a compaction that fails before
it writes (the append goes on without it) are abstracted.

### TaskDag

`lib/task-dag-scheduler-v16-12.mjs`, one run. The plan (declarations, dependencies, limits) is chosen in
`Init`. The scheduling loop is synchronous up to its `await`: `Sweep`, then `Skip` and `Launch` once per node
in order of declaration, `Decide`, and `Wake`. A node ends with `Succeed`, `Fail` or `TimeOut`, and leaves its
lane only with `Release`, the `.finally` some microtasks later; `StragglerEnds` is the end of work nobody waits
for. The order that `planTaskDag` reports is not used by the run and not modelled, its refusal of cycles is.
In the repository the scheduler is reached through `lib/execution-acceleration-v16-12.mjs` and the tests; the
controller's waves do not use it yet.

### WorkerPool

`lib/pi-rpc-pool.mjs`. A call makes at most one worker, so workers are named by their calls; each starts
processes 1, 2, ... `run` is two threads of control, the pool's (`pc`) and the worker's (`exec`), and the
actions are the stretches between two awaits of either.

| code | action |
|---|---|
| `PiRpcWorkerPool.run` up to its first await, by what it finds | `RunReuses`, `RunCreates`, `ResumeRefused`, `Replaces`, then `Replaced` |
| `prewarm`, `discard`, `stopAll` | `Prewarms`, `PrewarmCreates`, `PrewarmReuses`; `Discards`, `StopsAll`, `Dropped` |
| `pruneIdleWorkers` | `Evicts`, `Pruned` |
| the end of a run: success, the catch, its stop | `Succeeded`; `Failed`, `Ousted`, `FailedStopped` |
| `RpcWorker.run`: queue, start, `new_session`, prompt, answer | `ExecStart`, `Answered`, `Settles`, `TimesOut`, `StartupTimesOut`, `StartupStopped` |
| the signal; `stop` with its grace and kill | `Aborted`, `AbortAccepted`, `AbortFails`; `StopKill`, `StopEnd` |
| the process; what `fail` rejects | `ProcessExits`, `PipeBreaks`; `Fail`, `Rejecting` |

A process's death and its exit event are one step, since nothing in the program can tell them apart.
A request to abort that is refused, unanswered or rejected with the worker becomes the kill of the process the
worker has then, not of the one that was asked (`AbortFails`, `Rejecting`).
`talk` counts the conversations in the session of the current process, up to "several".

### DurableWork

`lib/task-engine.mjs`. Each command (`ocskill work <op>`) is a process: it waits for the lock (`TakeLock`,
`SeeOldLock`, `RenameLock`, `GiveUp`), reads and decides (`Import`, `Approve`, `Start`, `Heartbeat`, `RecordReceipt`,
`Complete`, `Fail`, `Recover`, `VerifyIntegration`, `Finalize`, `Block`, or `Refuse`), writes its documents in the
code's order (`WritePlan`, `WriteScope`, `WriteEvidence`, `WriteState`) and releases (`ReleaseLock`). It may die
or fail between two of them (`Die`, `WriteFails`). Callers use the run identities and the sight of plan and
tree they were given at `Begin`, however old. The lease time of a run is abstracted: `Recover` may take any
running task back. The fingerprint of the tree is the number of its changes. A holder renews the time
stamp of its lock, so the lock of a living command is old only if `Suspends` lets processes stand still.

### StructuredPlan

`executeStructuredPlan` of `pi/extensions/ues.ts` over `runDelegationWave` and the registry. The phases of the
controller are `gate`, `prepare`, `fleet`, `land`, `complete` and the outcomes.

| code | action |
|---|---|
| the deadline gate and the ledger's admission | `Gate` |
| sandboxes, durable starts, the contexts of the children | `Prepare`, `SandboxFails`, `DurableStartFails`, `ContextFails` |
| `runDelegationWave`: workers, `registerChild`, `finalizeChild`, `cancelChild` | `Take`, `Returns`, `CloseRow` |
| a child: implementation, verification | `Implemented`, `Fails`, `Verified`; `Ages` is time |
| `sweepChildren` | `Sweep` |
| the wave's verdict and the fleet's teardown | `WaveAborted`, `WaveFails`, `WavePasses` |
| scope check, deadline, transaction, HEAD check | `ScopeFails`, `TooLate`, `LandThrows`, `LandingFails`, `WaveLands` |
| `completeDurableWave` | `Complete`, `CompleteFails`, `CompleteAborted` |
| the catch around the attempt; `governWaveLoop` with the progress watchdog | `Thrown`; `Govern`, `Attempt` |
| the user; time | `Abort`; `Deadline` |

What a run of the code does in one stretch is one step: an abort that comes between two awaits of the
controller takes effect before or after the step, and the code reads the signal at those points only. What the
ledger's arithmetic makes of a wave's concurrency is any number up to the fleet's limit; as compiled
plans carry concurrency 1 in this commit (section 7, `planning_overlap`), the model checks more overlap than the
controller uses. A child whose *implementation* failed counts as completed for the fleet, because what it
returns has no exit code; the controller reads the verdict from the result. The model shows both. After
`CompleteFails` some tasks of the wave are completed in the durable item and the retry cannot start them:
the run then fails, with its patches landed. `CompleteAborted` is the one abort that comes between two commands of
one step. Whether strayed changes are retried depends on the words of the file names; `ScopeFails` leaves it open.

### WavePlanning

`compileExecutionPlan` and the four planners it calls, from the plan's declarations to its compiled waves.
One step is one turn of a loop.

| code | action |
|---|---|
| `validatePlan` | `Validate` |
| `computeSafeWaves`: the ready tasks, one candidate, the end of a wave | `CollectReady`, `Consider`, `CloseWave` |
| `classifyPair` with `normalizeScope` | `Conflict`, `OrderScope`, `PolicyScope`, `DelegationScope` |
| `buildDelegationWaves`: open a row, probe a task, close it | `OpenRow`, `Probe`, `CloseRow` |
| `compileWave` with `decideParallelExecution` | `CompileWave` |

A declaration keeps what the rules read: the sets of files it writes, reads and generates, its services,
its external or destructive effects, and what its prose hints at. The economy's estimates and a refused
reservation are free choices. `buildDelegationWaves` probes candidates from the end of its list, although its comment
speaks of input order; the model does as the code.

## 4. The runs

| run | bounds | what it shows |
|---|---|---|
| `ownership_atomic` | two runtimes, one session each, TTL 2, stale after 1, wait 2, orphan 3, clock to 4 | with live processes that leave the lock in time: one thread in the lock, a fresh lease stays with its holder, and the file implements `LeaseRegister` |
| `ownership_shared` | two sessions of one runtime and a third of another, deaths anywhere, clock to 3 | `LOCAL_REFS` counts the holders through every path, and every live waiter leaves the wait |
| `integration` | three patches, one file of the user's, one edit or commit, one death, failing git calls and appends, cancellation, pruning | the outcome and the recovery's verdict are true of the root, the journal is ahead of the root, integrated is never half; the transaction ends and every intent is closed |
| `journal_crash` | a parent with two callers and a child, four calls, two payloads, three lines, deaths | numbers name events, the newest event is readable, one admission |
| `journal_fair` | the same with three calls, one payload, two lines, torn writes | call order is kept, calls settle |
| `dag` | every graph of three nodes declared in order, six declarations, two limits | the laws at the head of the scheduler's file, and that runs end |
| `pool` | three calls, two keys, two specifications, a pool of one worker; either one call of a key at a time with one failure, or several without a failure | no process is left behind, pruning spares what is in use, a run starts clear, calls settle |
| `durable` | two processes, two tasks, two plans of which one is strict, two runs, one edit, two imports, one receipt, one death or failing write anywhere but at the scope | the lock excludes, the approved plan runs, tasks that run together are disjoint, completion and the final verdict are backed |
| `plan` | two waves (a writer beside a reader, then a writer), two attempts, a fleet of two, two kinds of failure, one failure of the infrastructure, abort and deadline anywhere | nothing lands or completes unverified, no child is orphaned or refused, the watchdog's verdict stands, the run ends |
| `planning` | every plan of three tasks over nine declarations, all orders, a cycle, an unknown dependency; four situations | waves respect the dependencies and hold no clash, rows follow the decision, planning ends |
| `durable_import` | as `durable`, one death before the scope is written | *refutes* that the approved plan runs |
| `planning_overlap` | as `planning` | *refutes* that a parallel wave carries a bound of two or more |

**Bounds.** Time: with TTL 2, staleness 1 and a clock to 4 a lease is claimed, renewed, expires while its
holder waits, and is taken over, and a lock is held past the deadline of a waiter; calls start up to
`LastCall`, so that each can end. Patches: two separate "none", "some" and "all"; the third separates the
first from the last in both loops. Journal: two callers in one process need the queue, the third in
another process needs the lock; files of two or three lines are compacted within three or four calls.
Graphs: three nodes hold a chain, a fork and a join, and a bystander; limits of 0 and 1 for reads make
lanes full and make the deadlock guard fire. Pool: the third call is the one that prunes, replaces or queues
behind two others; one worker makes every pool full. Durable work: the second run of a task is what makes the
first stale, the second import withdraws the approval of the first, and one edit makes every receipt stale.
Plan: the second wave begins with what the first left in the registry and the durable item, a second attempt
is the last, a wave of two has a first and a second to fail. Planning: three tasks are the least for which
conflicts are not transitive, and for which a conflict delays a dependent. The theorems of section 6 hold for every bound.

**Deadlock.** Every configuration says `CHECK_DEADLOCK FALSE`: the clock and the number of calls are
bounded, all processes may be dead, and a transaction, a plan or a run of a graph is over when it is over. That
nothing stops *early* is what `WaitEnds`, `TransactionEnds`, `CallsSettle`, `RunEnds`, `PlanEnds` and `PlanningEnds` say.

**Symmetry** is used in `journal_crash` and `durable`, which check no liveness.

**Mutants.** An operator marked as a mutant in a module is a definition with a plausible bug in it; nothing uses it. With
it in the place of the definition it varies, the run's property fails, which is how `PROJECT.json` shows that the
property depends on the code.

## 5. Fairness

* `ExecutionOwnership`: the event loop runs the next step of a live thread (`ThreadStep`, `Count`), and time
  passes (`Tick`). Nobody has to start a call.
* `IntegrationTransaction`: a controller that is alive runs its transaction to its end, and as long as an
  intent is pending some later run calls the recovery pass (`ues.ts:7224` does so before every first wave).
  Git calls have timeouts, so each of them ends. The one strong condition, on `RRecord` with a change of the journal, says that
  the append of a recovery's verdict does not fail every time it is tried. Deaths, cancellation, clean-up and the user are not fair.
* `RunJournal`: a live process runs its callbacks. No fairness for a dead one, for calls, or for deaths.
* `TaskDag`: the loop runs; the work of a node ends or its timer does. A node without a timer whose work
  never ends hangs the run, in the code as well. Stragglers need not end.
* `WorkerPool`: the event loop does not stop while something is ready (`Ready`): a settled promise, a request that is
  answered or times out (every one has a timer), a process being killed. Callers and failures are not fair.
* `StructuredPlan`: the controller takes its next step, and every child ends, because the process of a child has a timeout. The
  watchdog, the user and the deadline are not fair.
* `WavePlanning`: a sequential function takes its next step.
* `DurableWork` states none: its commands are started by others, and each is a short program with deadlines.

But for the recovery's append all conditions are weak fairness: no step of the code waits for something that comes
and goes, except the making of a lock, and there the deadline ends the wait.

## 6. What is proved

TLAPS checks every step; nothing is assumed but the named assumptions on the constants, which TLC
evaluates in the runs. Each theorem is for any number of processes, patches, callers, nodes.

**ExecutionOwnershipProofs.** `TypeCorrect` holds without further assumptions, deaths included; the type of
the lease rests on `WritersSaw` (a renewal only writes what it saw). The other theorems assume `Timely`: no
process death and holders that leave within `LockStale`. `LockInv` then says that the lock directory exists
exactly while one thread is in the body and is never stale, hence nobody steals (`LockExcludes`). `WriteInv`
says that a thread about to write has seen the lease that is still in the file and that its decision, made
with the time at which it was called, still stands; from it follow `TakeoverNotBlind`,
`GenerationNamesOwner` and the refinement `RefinesRegister`, in which `Write` is the register's step and every
other step stutters. `FreshLeaseHeld` needs `OneSession` besides, and
`MCOwnershipSiblingRelease.cfg` (section 7) shows why. `CountsHolders` has no assumption: the count is kept by the event
loop of one process, outside the lock, and `CountInv` adds only that the holders are finitely many.

**IntegrationTransactionProofs.** `TypeCorrect` needs `InLoops`, the bounds of both loops. `JournalIsAhead` has no
assumption: `JournalInv` says what the journal and the root hold at each place of the transaction, and that
only one patch can be in the root without its record. `IntegratesWhole` assumes that no recovery pass runs
beside a live transaction (`WholeInv` follows the loop). `OutcomeIsTruthful` and `VerdictIsTruthful` assume
that the wave began on a clean root: then equal identities mean an unpatched root (`IdentityInv`,
`IdentityDecides`), although only names are hashed. Section 7 refutes
`IntegratedWhole` beside a second controller and `VerdictTruthful` over a root that was not clean.

**RunJournalProofs.** `TypeCorrect` holds with deaths and torn writes; its strengthening `QueueInv` says that a call
that has not settled is in the queue of its process and that only the head of a queue runs. `Guarded` says that live
holders are in time and that, if anything dies, there are at most two processes, a parent and its child: a
caller about to remove a lock directory has then seen a dead holder, and nobody else is left to replace it
(`LockInv`); with three processes `MCJournalStolen.cfg` breaks the lock. It gives `BodiesExclude`, and with `AdmissionInv`
(the sidecar names what was accepted, and one live caller is about to write it) `RunIsAdmittedOnce`, torn writes
included. `Orderly` is `Guarded` without torn writes: `OrderInv` relates the file, the numbers reported
and the number a caller holds: the numbers name events (`SequenceNamesEvents`), rise (`SequenceIsRising`) and
the newest event stays readable through compactions (`NewestIsReadable`). `CallsKeepTheirOrder` has no assumption:
`RankInv` follows the queue and the cache of one process, which need no lock.

**TaskDagProofs.** `TypeCorrect`, `DependenciesComeFirst`, `EndedAreSettled` and `GivenUpHasCause` hold for every
plan, declared in any order. `DependenciesComeFirst` rests on `StatusIsFinal`: a settled node keeps its status.
`RootWritesAreAlone` and `WidthsAreKept` come from the common invariant `LaneInv`
and assume `RootHasItsLane`, that a node that writes the root declares the root's lane: `CanStart` treats
such a node as exclusive when it starts, but readers that start later only look at the lane. `GuardSpeaksTheTruth` assumes
`InOrder`, nodes declared after their dependencies: of the nodes given up that a node depends on, the first by
declaration has no dependency that still waits (`StuckInv`). `MCTaskDagDeadlock.cfg` shows a plan out of order.

**WavePlanningProofs.** `OrdersWaves` holds for every finite plan: `OrderInv` says that waiting, selected and placed tasks
partition the plan and that what a wave is filled from has its dependencies in earlier waves. From the acyclicity that
`Validate` establishes some waiting task is always ready (`SomeTaskIsReady`), hence `NeverStuck`. `WavesAreIndependent` follows
because the rules of the conflict graph cover every clash (`ConflictCovers`) and a candidate is compared with *every*
selected task, conflicts not being transitive. `RowsAreAsDecided` has no assumption: `PackingInv` says that what is packed and what
waits to be packed are the tasks of the wave, apart from each other, and that each row fits its decision. What
`FlattenSeq` keeps is proved from a least counterexample (well-foundedness of the naturals), in
place of an induction over the rows. `TypeCorrect` follows.

**StructuredPlanProofs.** Everything assumes only `PlanAssumption`, for plans and fleets of any size. `FleetInv` relates
the wave, the children and the rows of the registry: rows outside the wave are untouched, a row is open only for a
child that works, the session is closed only in an aborted run, and an abort is heard before the last child of the wave is back. It gives `NothingIsRejected`
(open rows are working children, and there are fewer of them than the fleet is wide when the next is put on),
`NoChildIsOrphaned` and `ReapedChildStaysReaped`. `EffectInv` follows a wave to its end: what lands was verified, what
is recorded as completed has landed, earlier waves are done; steps that land and complete nothing keep it
(`QuietKeeps`). It gives `EffectsAreVerified` and `PassedRunsAreDone`.

**DurableWorkProofs.** `TypeCorrect` has no assumption, and neither has `PassIsWithdrawn`: every command starts from a
sound STATE and drafts a sound one, and only drafts are written (`DocInv`), so a PASS is withdrawn with or without a
lock. The others assume `~Suspends`, no process that stands still between its look at the age of the lock
and its rename (`MCDurableReclaim.cfg` of section 7 lets one, and breaks the lock). Then only the lock of a dead command gets old
(`LockInv`), hence `LockExcludes`. `WriteInv` says what a command that is about to write relies on: its documents
are those on disk but for its own change, each completion in them has an entry of the active run, and a
final status a PASS for the tree it found; hence `CompletionsAreBacked` and `FinalizationsAreVerified`, deaths
between the files included. `PlanInv` says that the scope names PLAN.json unless a command is between the two, and that
every draft is `Compatible` with it; hence `OnlyTheApprovedPlanRuns` and `TasksRunInOrder`, which assume besides that no
command is cut short at the scope: `durable_import` shows what happens there.

**WorkerPoolProofs.** For any number of calls, keys, specifications, workers and processes. `BaseInv` relates the two
threads of a run and the worker they share: a call that waits on a worker is in that worker's queue, only the
head of a queue has begun, a call uses a worker of its own key, and a worker nobody goes by yet is blank. It
gives `TypeCorrect` (the map never holds two workers of a key) and `SessionsStartFresh`. `HeldInv` adds that the
reservations of a key are as many as the calls that hold one (`Counted`), and that what is pruned has left
the map: `PruningSparesWorkersInUse`. These three have no assumption on how calls overlap or fail.
`NoProcessIsLeft` assumes `Apart`: calls of one key overlap only where nothing fails and the key has one
specification. These are the modes of the run `pool`, and `MCWorkerPoolOverlap.cfg` shows what happens outside them.
`CalmInv` says that every process is the one of a worker in the map or has a stop that is about to kill it
(`LiveKnown`), that a worker in the map is stopped only for the failure of its one call (`StopsOfPool`), that a served
call's worker is in the map and lives (`Served`), and that a map beyond its limit has a call that will still
prune it (`WillPrune`): a worker that cannot be evicted is reserved or active, hence used by another call.

**Only model-checked.** Liveness under fairness (`WaitEnds`, `TransactionEnds`, `CallsSettle` of the journal and of
the pool, `RunEnds`, `PlanEnds`, `PlanningEnds`) is out of the prover's reach, and so is ENABLED. Every other property of the
passing runs is proved, under the assumptions above, which the runs meet; the configurations of section 7 show
what fails without them. Type invariants are proved (`TypeCorrect`) instead of listed with the runs.
## 7. Claims of the code that the models refute

`durable_import` and `planning_overlap` are listed runs. The others are configurations beside them, run the same way
(`tlc -config X.cfg M`), each with one property; where a hazard of `PROJECT.json` names a property that a listed run checks
under an assumption (`CanCrash`, one session, no second controller), the configuration here shows what happens without it.

| configuration | property | what happens | claim |
|---|---|---|---|
| `MCDurableImport.cfg` (run `durable_import`) | `ApprovedPlanRuns` | a death or a failing write after PLAN.json was replaced and before the scope is (`task-engine.mjs:393`): the approval is compared with STATE.json, and tasks start from a plan nobody approved | "not executable until a structured plan-verification receipt matches the current plan hash", docs/ENGINEERING-DESIGN.md:53 |
| `MCWavePlanningOverlap.cfg` (run `planning_overlap`) | `ParallelOverlaps` | the compiler reads `economy.concurrency`, a field the policy does not return (`execution-plan-compiler-v16-17.mjs:148`): every parallel wave carries concurrency 1 | "Only a PARALLEL decision carries a parallelism bound", `:144`, and test/v16-17-execution-plan.test.mjs:137 |
| `MCOwnershipSiblingRelease.cfg` | `HeldLeaseAsserts` | a release finds no reference of its sibling, whose claim has written the lease but not yet counted itself (`execution-ownership.mjs:256`, `:344`), and removes that lease | "parent CLI/RPC launch claims and heartbeats a lease", docs/V15.7-ADAPTIVE-EFFICIENCY-INTELLIGENCE.md:167 |
| `MCIntegrationPruned.cfg` | `ProvenIsRepaired` | a run prunes the sandboxes of dead owners (`ues.ts:9479`) before the recovery pass that reads the patches from them | "`recoverIncompleteIntegrations` can prove", integration-transaction-v16-15.mjs:368 |
| `MCJournalTorn.cfg` | `SequenceNames` | an event appended to a partial line (`runtime-events.mjs:64`) is reported, is unreadable, and its number is given again | "a parent and child process can never reuse the same eventSeq after either side has appended", run-journal.mjs:107 |
| `MCTaskDagDeadlock.cfg` | `DeadlockTruthful` | with c, b, a declared in this order and each needing the next, a timeout of a ends in `DAG_DEADLOCK` | "pending nodes remain but none can start", task-dag-scheduler-v16-12.mjs:494 |
| `MCOwnershipStolenLock.cfg` | `MutualExclusion` | two waiters confirm a dead holder's directory; the second removal (`execution-ownership.mjs:114`) deletes the first one's new lock | "protected by a bounded cross-process lock", docs/V15.7-ADAPTIVE-EFFICIENCY-INTELLIGENCE.md:171 |
| `MCJournalStolen.cfg` | `SequenceNames` | the same at `run-journal.mjs:31`: both read the same highest number | as for `MCJournalTorn.cfg` |
| `MCIntegrationLostCommit.cfg` | `CompletedStays` | the COMMIT append fails, its result is ignored (`:559`), and a later recovery reverses the integrated wave while its sandboxes exist | "Never rolls back a COMMITTED transaction", integration-transaction-v16-15.mjs:618 |
| `MCIntegrationCancel.cfg` | `NeverHalf` | an abort between two patches also kills the git calls of the rollback (`:503`) | "A half-integrated wave is a hard error, never a state", `:32` |
| `MCIntegrationInherited.cfg` | `VerdictTruthful` | a patch to a file that was dirty before leaves the identity as it was; recovery records noop | "root identity equals the pre-transaction identity -> nothing of ours was" applied, `:608` |
| `MCIntegrationRepair.cfg` | `CrashIsRepaired` | a death between an apply and its record (`:442`): recovery is blocked for good | "can prove", `:368` |
| `MCIntegrationLive.cfg` | `IntegratedWhole` | a recovery pass does not ask whether the intent's process lives (`:653`) and reverses a live transaction's patches | "left behind by process death", `:601` |
| `MCTaskDagLate.cfg` | `RootWriteAlone` | a timed-out root write frees its lane while its work goes on | law 1 at the head of task-dag-scheduler-v16-12.mjs |
| `MCDurableReclaim.cfg` | `Exclusive` | the rename of a stale lock is not tied to the directory whose age was read (`task-engine.mjs:119`): a waiter that stands still in between renames a new lock away | "durable state/evidence mutations are serialized with a per-work-item lock", docs/ENGINEERING-DESIGN.md:55 |
| `MCDurableScope.cfg` | `UnknownScopeAlone` | a task with declared files starts beside a running one without (`task-engine.mjs:533`) | "parallel scheduling will be conservative", lib/task-graph.mjs:263 |
| `MCWorkerPoolOverlap.cfg` | `NothingLeft` | a failing run forgets a worker on which other runs are queued (`pi-rpc-pool.mjs:900`); the next one starts a process the pool cannot find | "rather than allocate a second untracked process", `:859` |
| `MCFleetInactivity.cfg` | `InactiveMeansSilent` | only `heartbeatChild` renews a child's activity (`subagent-fabric.mjs:302`) and nothing but a test calls it: every child is reaped after the window | "measured on *child RPC stdout only*", docs/V16.5-RESEARCH-NOTES.md:24 |
| `MCWavePlanningSilence.cfg` | `SilenceIsAWriter` | a wave with a task that declares nothing is planned as one without writers | "A scope that declared nothing is a **writer", docs/V16.15-SINGLE-SHOT-PARALLEL-CODING.md:30 |

`DependenciesFirst`, `RunningRootAlone` and the others of `dag` are the laws as the scheduler does keep them.

## 8. What is not modelled, and further hazards

The parts of section 1 not named in section 3, in the order of the plan. The hazards of the code outside the modelled parts:

| line in `lib/` | kind | hazard | module |
|---|---|---|---|
| `write-checkpoints.mjs:233` | partial failure | the rollback writes file by file; after a failure half-way the tree is mixed, and a second rollback finds files that are neither the checkpoint's nor the run's and refuses | `WriteCheckpoints` |
| `deepseek-profile-lock.mjs:129` | atomicity | a lock file that exists but is not yet fully written counts as stale, so a second process may reclaim it | `ProfileLock` |
| `advisor-session-manager.mjs:264` | interleaving | a shutdown or a second acquire while a worker is being acquired leaves a worker nobody tracks | `AdvisorSession` |
| `run-journal.mjs:229` | stale state | `recoverRunJournal` reads the journal outside the lock and then marks each dangling tool call interrupted: a child that still runs settles the same call as well | `RunJournal` |
| `write-checkpoints.mjs:220` | stale state | all files are compared before the first is written, and one may be edited in between | `WriteCheckpoints` |
| `deepseek-profile-lock.mjs:214` | stale state | the removal of a stale lock file is not tied to the file that was read: of two reclaimers the second removes the first one's new lock | `ProfileLock` |
| `tool-scheduler.mjs:168` | liveness | a waiting call at the head of the queue holds up the calls behind it, and tryAcquire overtakes the queue | `ToolScheduler` |
| `tool-scheduler.mjs:112` | timeout retry | a queued call's timeout races the release that would admit it | `ToolScheduler` |
| `tool-scheduler.mjs:193` | stale state | reset clears the active calls while their leases are still held; a later release of such a lease can free a new call of the same id | `ToolScheduler` |
| `lazy-runtime.mjs:309` | interleaving | a call that joins a start in flight receives the first caller's fallback or error instead of its own | a model of warm services |
| `workspace-state-owner.mjs:207` | stale state | the generation is reused until somebody invalidates it: a mutation that is not reported leaves every snapshot current | `WorkspaceFence` |
| `web-decision-barrier-v16-8.mjs:490` | stale state | the fingerprint is compared before the write, which an edit may precede | `WorkspaceFence` |
| `web-decision-barrier-v16-8.mjs:278` | liveness | a worker thread that exits with code 0 before it has sent its message leaves the caller waiting | `AdvisorSession` |
| `process-supervisor.mjs:566` | timeout retry | the drain timer may report the result while the kill grace still runs and the process tree lives; natural exit, timeout and abort race to settle | `ProcessSupervisor` |
| `advisor-session-manager.mjs:335` | stale state | a recycle decided before an await releases the lease taken meanwhile | `AdvisorSession` |
| `evidence-store.mjs:520` | interleaving | the collection removes data a reader has already found in the metadata | `ArtifactStore` |
| `content-artifacts.mjs:796` | interleaving | a shard is removed after its pins were listed: an artifact written or pinned in between is lost | `ArtifactStore` |
| `verification-receipt-cache-v16-12.mjs:272` | stale state | the fingerprint of a receipt may be captured after the gate ran: the receipt names a tree the gate did not see | `WorkspaceFence` |

Hazards of the modelled parts that `PROJECT.json` does not list, because a listed one is close or because section 7 says what happens:

| line | kind | hazard | what covers it |
|---|---|---|---|
| `lib/execution-ownership.mjs:115` | liveness | the removal of a stale lock ignores its error and goes on without sleeping or testing the deadline: a directory that cannot be removed is retried for ever | failing removals are not modelled; `WaitEnds` holds without them |
| `lib/execution-ownership.mjs:233` | protocol sequence | renewals, takeovers and re-claims must keep a generation naming one owner | `GenerationNamesOwner`, `ImplementsRegister` |
| `pi/extensions/ues.ts:9479` | ordering | orphaned sandboxes are pruned before the recovery pass that needs them | `MCIntegrationPruned.cfg` |
| `lib/integration-transaction-v16-15.mjs:452` | partial failure | the record of an applied patch cannot be written | `JournalAhead` |
| `lib/integration-transaction-v16-15.mjs:559` | partial failure | the COMMIT append fails after the last patch | `MCIntegrationLostCommit.cfg` |
| `lib/runtime-events.mjs:64` | unreliable delivery | an append cut short leaves a line without its newline, and the next event is glued to it | `MCJournalTorn.cfg` |
| `lib/runtime-events.mjs:50` | partial failure | the compaction rewrites the file in place: a death inside it loses events that were reported | `journal_fair` checks what survives it |
| `lib/run-journal.mjs:31` | atomicity | two processes that saw the same stale lock remove it in turn | `MCJournalStolen.cfg` |
| `lib/task-dag-scheduler-v16-12.mjs:352`, `:376`, `:308` | protocol sequence, partial failure, resource bound | stale results, critical failures, lanes counted within a pass | `RunEnds`, `GivenUpForCause`, `RunningRootAlone` |
| `lib/task-dag-scheduler-v16-12.mjs:335`, `:297` | timeout retry, other | a timed-out node frees its lane; a node that writes the root but declares another resource does not hold the root's lane | `MCTaskDagLate.cfg`; assumption `RootHasItsLane` |
| `lib/subagent-fabric.mjs:302` | other | nothing tells the registry that a child is active | `MCFleetInactivity.cfg` |
| `pi/extensions/ues.ts:5768` | timeout retry | after an abort the commands that fail the durable tasks do not run: the tasks stay running until their lease ends | `FailDurable` shows it; no property forbids it |
| `lib/task-graph.mjs:409` | liveness | a cycle or a dependency on nobody must be refused before the loop that waits for ready tasks | `PlanningEnds`, `NeverStuck` |

Of the modelled files:

* `ExecutionOwnership`: failing removals of a lock directory; more than one renewal of a session in flight.
* `IntegrationTransaction`: `classifyFailure` and `planSelectiveRetry` (pure), the creation and removal of worktrees.
* `RunJournal`: `recoverRunJournal` and the journal's summary.
* `TaskDag`: the composition in `execution-acceleration-v16-12.mjs`.
* `WorkerPool`: the control commands of a worker (steer, set-model, compact), `stopAll` during a call, adaptive deadlines.
* `DurableWork`: decisions, checkpoints, context packs, the arithmetic of leases, gate receipts and integration entries that no
  command reads.
* `StructuredPlan`: modes without git, waves the parent runs itself, prewarming, diagnosis and fast paths, the fleet's own safe and serial
  sub-waves (each is a narrower wave), nested delegation, the watchdog's limit of waves. An abort after the last
  wave has completed leaves the run passed, in the code as well.
* `WavePlanning`: edges between modules, the legacy pair strategy, the normalisation of plans and paths, the estimates themselves, the
  reports of the conflict graph.

Prompts, formatting, retrieval and ranking are out of scope: they keep no state that interleaves.
