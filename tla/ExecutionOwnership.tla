-------------------------- MODULE ExecutionOwnership --------------------------
(***************************************************************************)
(* The ownership lease that fences one execution scope                     *)
(* (src/lib/execution-ownership.mjs), with the controller's use of it      *)
(* (acquireRuntimeExecutionOwnership in src/pi/extensions/ues.ts).         *)
(*                                                                         *)
(* A runtime is a controller process.  Each of its sessions (one launched  *)
(* child) claims the lease, heartbeats it from a timer while the child     *)
(* runs, and releases it at the end.  Sessions of one runtime share one    *)
(* owner token, so the token is the runtime itself; LOCAL_REFS counts the  *)
(* sessions that hold it.  A session is two threads of control of the      *)
(* event loop: "main" (prune, claim, release) and "beat" (renew).          *)
(*                                                                         *)
(* The lease file is read and replaced under a lock directory made with    *)
(* mkdir; a lock directory older than LockStale may be removed by anyone.  *)
(* Reading, writing, unlocking and stealing are separate file-system calls *)
(* and hence separate actions.                                             *)
(***************************************************************************)
EXTENDS Integers, FiniteSets

CONSTANTS
  Runtime,      \* controller processes; each one is also its owner token
  Session,      \* launched children
  RuntimeOf,    \* the runtime of each session
  TTL,          \* EXECUTION_OWNERSHIP_TTL_MS
  LockStale,    \* LOCK_STALE_MS
  LockWait,     \* LOCK_WAIT_MS
  OrphanAge,    \* orphanMaxAgeMs of the garbage collection
  MaxTime,      \* bound: the clock stops here
  LastCall,     \* bound: no call starts after this time
  Renews,       \* bound: the sessions whose timer fires at all
  CanCrash,     \* may a runtime die?
  Prompt,       \* does a live lock holder always leave within LockStale?
  NoLease, NoLock

ASSUME RuntimeOfAssumption == RuntimeOf \in [Session -> Runtime]

ASSUME TimeAssumption ==
  /\ {TTL, LockStale, LockWait, OrphanAge, MaxTime, LastCall} \subseteq Nat
  /\ TTL > 0
  /\ OrphanAge >= TTL      \* 24 h against a TTL of at most 10 minutes
  /\ CanCrash \in BOOLEAN
  /\ Prompt \in BOOLEAN

Thread == Session \X {"main", "beat"}

\* The lease file: schema fields the protocol reads.  heartbeatAtMs is the time
\* of the last claim or renewal and expiresAtMs = heartbeatAtMs + TTL.
Lease == [owner : Runtime, generation : Nat \ {0}, heartbeat : Nat]

ASSUME NoneAssumption == NoLease \notin Lease /\ NoLock \notin [born : Nat, by : Thread]

VARIABLES
  now,     \* Date.now()
  alive,   \* the runtimes whose process exists
  lease,   \* the lease file
  lock,    \* the lock directory: its mtime and (history only) who made it
  pc,      \* where each thread is
  op,      \* the call each thread is executing
  since,   \* the time at which that call computed `now` and its deadline
  seen,    \* the lease it read under the lock
  refs,    \* LOCAL_REFS of each runtime
  beat     \* history: the heartbeat each runtime last wrote into a lease

vars == <<now, alive, lease, lock, pc, op, since, seen, refs, beat>>

Pc == {"idle", "wait", "steal", "read", "write", "unlock", "count", "active"}
Op == {"none", "prune", "claim", "renew", "release"}

TypeOK ==
  /\ now \in Nat
  /\ alive \subseteq Runtime
  /\ lease \in Lease \cup {NoLease}
  /\ lock \in [born : Nat, by : Thread] \cup {NoLock}
  /\ pc \in [Thread -> Pc]
  /\ op \in [Thread -> Op]
  /\ since \in [Thread -> Nat]
  /\ seen \in [Thread -> Lease \cup {NoLease}]
  /\ refs \in [Runtime -> Nat]
  /\ beat \in [Runtime -> Nat]

Init ==
  /\ now = 0
  /\ alive = Runtime
  /\ lease = NoLease
  /\ lock = NoLock
  /\ pc = [t \in Thread |-> "idle"]
  /\ op = [t \in Thread |-> "none"]
  /\ since = [t \in Thread |-> 0]
  /\ seen = [t \in Thread |-> NoLease]
  /\ refs = [r \in Runtime |-> 0]
  /\ beat = [r \in Runtime |-> 0]

-----------------------------------------------------------------------------
\* Helpers.

Owner(t) == RuntimeOf[t[1]]
Main(s) == <<s, "main">>
Beat(s) == <<s, "beat">>

Expired(l, at) == l.heartbeat + TTL <= at

Owns(t, l) == l # NoLease /\ l.owner = Owner(t)

\* The conditions under which each call goes on to write, given the lease it
\* reads.  Otherwise it throws (conflict, missing, stale) or returns.
AnyClaim(t, l) == TRUE                                \* mutant of MayClaim
MayClaim(t, l) ==
  \/ l = NoLease
  \/ Owns(t, l)
  \/ Expired(l, since[t])
  \/ l.owner \notin alive

MayRenew(t, l) == Owns(t, l)

ReleaseAnyLease(t, l) == l # NoLease                  \* mutant of MayRelease
MayRelease(t, l) == Owns(t, l)

MayPrune(t, l) ==
  /\ l # NoLease
  /\ \/ Expired(l, since[t]) /\ l.owner \notin alive
     \/ since[t] - l.heartbeat >= OrphanAge

Proceeds(t, l) ==
  \/ op[t] = "claim"   /\ MayClaim(t, l)
  \/ op[t] = "renew"   /\ MayRenew(t, l)
  \/ op[t] = "release" /\ MayRelease(t, l)
  \/ op[t] = "prune"   /\ MayPrune(t, l)

\* The generation a claim writes: kept by its owner, else the next one.
ClaimGeneration(t, l) ==
  IF l = NoLease THEN 1
  ELSE IF Owns(t, l) THEN l.generation ELSE l.generation + 1

Written(t, l) ==
  CASE op[t] = "claim" -> [owner      |-> Owner(t),
                           generation |-> ClaimGeneration(t, l),
                           heartbeat  |-> since[t]]
    [] op[t] = "renew" -> [l EXCEPT !.heartbeat = since[t]]
    [] OTHER           -> NoLease

Goto(t, here, there) ==
  /\ Owner(t) \in alive
  /\ pc[t] = here
  /\ pc' = [pc EXCEPT ![t] = there]

-----------------------------------------------------------------------------
\* Calls.  A call records the time before it waits for the lock.

Start(t, here, name) ==
  /\ now <= LastCall
  /\ Goto(t, here, "wait")
  /\ op' = [op EXCEPT ![t] = name]
  /\ since' = [since EXCEPT ![t] = now]

\* maybePruneExecutionOwnership at the head of a claim, or /ues-clean.  The file
\* has to be listed by readdir for the lock to be taken.
BeginPrune(s) ==
  /\ lease # NoLease
  /\ Start(Main(s), "idle", "prune")
  /\ UNCHANGED <<now, alive, lease, lock, seen, refs, beat>>

BeginClaim(s) ==
  /\ Start(Main(s), "idle", "claim")
  /\ UNCHANGED <<now, alive, lease, lock, seen, refs, beat>>

\* The heartbeat timer exists from the claim's return to the release; a renewal
\* in flight survives clearInterval.  At most one renewal of a session is in
\* flight: the timer's interval is not modelled.
BeginRenew(s) ==
  /\ s \in Renews
  /\ pc[Main(s)] = "active"
  /\ Start(Beat(s), "idle", "renew")
  /\ UNCHANGED <<now, alive, lease, lock, seen, refs, beat>>

\* releaseExecutionOwnership drops its reference before it takes the lock, and
\* keeps the lease when a sibling session still holds one.
ReleaseForgotten(s) ==                                \* mutant: count not dropped
  /\ refs[RuntimeOf[s]] > 1
  /\ Goto(Main(s), "active", "idle")
  /\ UNCHANGED <<now, alive, lease, lock, op, since, seen, refs, beat>>
ReleaseRetained(s) ==
  LET r == RuntimeOf[s]
  IN /\ refs[r] > 1
     /\ Goto(Main(s), "active", "idle")
     /\ refs' = [refs EXCEPT ![r] = @ - 1]
     /\ UNCHANGED <<now, alive, lease, lock, op, since, seen, beat>>

BeginRelease(s) ==
  LET r == RuntimeOf[s]
  IN /\ refs[r] <= 1
     /\ Start(Main(s), "active", "release")
     /\ refs' = [refs EXCEPT ![r] = 0]
     /\ UNCHANGED <<now, alive, lease, lock, seen, beat>>

-----------------------------------------------------------------------------
\* withOwnershipLock.

\* Mutant: mkdir with `recursive`, which succeeds on an existing directory.
AcquireRecursive(t) ==
  /\ Goto(t, "wait", "read")
  /\ lock' = [born |-> now, by |-> t]
  /\ UNCHANGED <<now, alive, lease, op, since, seen, refs, beat>>

\* mkdir succeeds.
Acquire(t) ==
  /\ lock = NoLock
  /\ Goto(t, "wait", "read")
  /\ lock' = [born |-> now, by |-> t]
  /\ UNCHANGED <<now, alive, lease, op, since, seen, refs, beat>>

\* mkdir fails with EEXIST and two stats agree on a modification time older
\* than LockStale.
SeeStale(t) ==
  /\ lock # NoLock
  /\ now - lock.born > LockStale
  /\ Goto(t, "wait", "steal")
  /\ UNCHANGED <<now, alive, lease, lock, op, since, seen, refs, beat>>

\* Mutant: a removal that fails, retried for ever without looking at the deadline.
StealFails(t) ==
  /\ Goto(t, "steal", "wait")
  /\ UNCHANGED <<now, alive, lease, lock, op, since, seen, refs, beat>>

\* The removal that follows: of whatever lock directory is there by then.
Steal(t) ==
  /\ Goto(t, "steal", "wait")
  /\ lock' = NoLock
  /\ UNCHANGED <<now, alive, lease, op, since, seen, refs, beat>>

\* EEXIST, no stale lock, deadline passed: the call throws.  Claim's caller
\* sees the error; the timer, the release and the prune swallow it.
TimeOut(t) ==
  /\ lock # NoLock
  /\ now - lock.born <= LockStale
  /\ now >= since[t] + LockWait
  /\ Goto(t, "wait", "idle")
  /\ op' = [op EXCEPT ![t] = "none"]
  /\ since' = [since EXCEPT ![t] = 0]
  /\ UNCHANGED <<now, alive, lease, lock, seen, refs, beat>>

\* The body's read of the lease file and its decision.
Read(t) ==
  /\ Goto(t, "read", IF Proceeds(t, lease) THEN "write" ELSE "unlock")
  /\ seen' = [seen EXCEPT ![t] = lease]
  /\ op' = [op EXCEPT ![t] = IF Proceeds(t, lease) THEN @ ELSE "none"]
  /\ UNCHANGED <<now, alive, lease, lock, since, refs, beat>>

\* atomicJson's rename, or rm of the lease file.
Write(t) ==
  /\ Goto(t, "write", "unlock")
  /\ lease' = Written(t, seen[t])
  /\ beat' = IF op[t] \in {"claim", "renew"}
             THEN [beat EXCEPT ![Owner(t)] = since[t]] ELSE beat
  /\ UNCHANGED <<now, alive, lock, op, since, seen, refs>>

\* The finally clause removes the lock directory, whoever made it.
Unlock(t) ==
  /\ Goto(t, "unlock", IF op[t] = "claim" THEN "count" ELSE "idle")
  /\ lock' = NoLock
  /\ op' = [op EXCEPT ![t] = "none"]
  /\ since' = [since EXCEPT ![t] = 0]
  /\ seen' = [seen EXCEPT ![t] = NoLease]
  /\ UNCHANGED <<now, alive, lease, refs, beat>>

\* A successful claim counts its reference after the lock is gone.
Count(s) ==
  /\ Goto(Main(s), "count", "active")
  /\ refs' = [refs EXCEPT ![RuntimeOf[s]] = @ + 1]
  /\ UNCHANGED <<now, alive, lease, lock, op, since, seen, beat>>

-----------------------------------------------------------------------------
\* Environment.

\* A process dies where it stands; files and lock directories stay.
Crash(r) ==
  /\ CanCrash
  /\ r \in alive
  /\ alive' = alive \ {r}
  /\ refs' = [refs EXCEPT ![r] = 0]
  /\ UNCHANGED <<now, lease, lock, pc, op, since, seen, beat>>

\* With Prompt, time does not pass a live holder by more than LockStale.
Tick ==
  /\ now < MaxTime
  /\ Prompt /\ lock # NoLock /\ Owner(lock.by) \in alive
        => now - lock.born < LockStale
  /\ now' = now + 1
  /\ UNCHANGED <<alive, lease, lock, pc, op, since, seen, refs, beat>>

SessionStep(s) ==
  \/ BeginPrune(s)
  \/ BeginClaim(s)
  \/ BeginRenew(s)
  \/ ReleaseRetained(s)
  \/ BeginRelease(s)
  \/ Count(s)

ThreadStep(t) ==
  \/ Acquire(t)
  \/ SeeStale(t)
  \/ Steal(t)
  \/ TimeOut(t)
  \/ Read(t)
  \/ Write(t)
  \/ Unlock(t)

Next ==
  \/ \E s \in Session : SessionStep(s)
  \/ \E t \in Thread : ThreadStep(t)
  \/ \E r \in Runtime : Crash(r)
  \/ Tick

Spec == Init /\ [][Next]_vars

-----------------------------------------------------------------------------
\* Safety.

InLock(t) == Owner(t) \in alive /\ pc[t] \in {"read", "write", "unlock"}

\* The lease file is read and replaced by one live thread at a time: what the
\* lock directory is for.
MutualExclusion ==
  \A t, u \in Thread : InLock(t) /\ InLock(u) => t = u

\* LOCAL_REFS of a live runtime is the number of its sessions that hold the
\* lease: every path through claim, release, conflict and timeout keeps the
\* count, so a release is final exactly for the last holder.
Holders(r) == {s \in Session : RuntimeOf[s] = r /\ pc[Main(s)] = "active"}

RefsCountHolders == \A r \in alive : refs[r] = Cardinality(Holders(r))

\* What assertExecutionOwnership(session's token) answers at this instant: the
\* gate in front of every tool call of the session's child.
Asserts(s) ==
  /\ lease # NoLease
  /\ lease.owner = RuntimeOf[s]
  /\ ~Expired(lease, now)

\* A session that holds a reference passes the check in front of its child's
\* tool calls as long as the heartbeat its runtime last wrote is younger than
\* TTL: no takeover, prune, late write or sibling takes a fresh lease away.
HeldLeaseAsserts ==
  \A s \in Session :
    /\ RuntimeOf[s] \in alive
    /\ pc[Main(s)] = "active"
    /\ now < beat[RuntimeOf[s]] + TTL
    => Asserts(s)

\* A lease passes to another runtime only after it expired or its owner's
\* process is gone ("without blind takeover", src/test/v15-7-runtime.test.mjs).
NoBlindTakeover ==
  [][ /\ lease # NoLease
      /\ lease' # NoLease
      /\ lease'.owner # lease.owner
      => Expired(lease, now) \/ lease.owner \notin alive ]_lease

\* While the file exists a generation names one owner: a takeover increments it
\* and nothing else changes it.
GenerationFences ==
  [][ lease # NoLease /\ lease' # NoLease
      => lease'.generation =
           lease.generation + (IF lease'.owner = lease.owner THEN 0 ELSE 1) ]_lease

\* The lock directory makes the four calls atomic: the lease file behaves as the
\* register of LeaseRegister (its Write step is the register's step).
Register == INSTANCE LeaseRegister
              WITH now <- now, alive <- alive, lease <- lease,
                   Runtime <- Runtime, TTL <- TTL, OrphanAge <- OrphanAge,
                   NoLease <- NoLease
ImplementsRegister == Register!RegSpec

-----------------------------------------------------------------------------
\* Progress.  The event loop runs a live thread's next step; nothing forces a
\* session to start a call.
Fairness ==
  /\ \A t \in Thread : WF_vars(ThreadStep(t))
  /\ \A s \in Session : WF_vars(Count(s))
  /\ WF_vars(Tick)

FairSpec == Spec /\ Fairness

\* The wait for the lock is bounded: a live thread that waits acquires the lock
\* or gives up, also when the holder died inside.
WaitEnds ==
  \A t \in Thread :
    pc[t] = "wait" ~> (pc[t] \in {"read", "idle"} \/ Owner(t) \notin alive)

=============================================================================
