----------------------- MODULE ExecutionOwnershipProofs -----------------------
(***************************************************************************)
(* Proofs about ExecutionOwnership, for every set of runtimes and sessions *)
(* and every choice of the time limits.                                    *)
(***************************************************************************)
EXTENDS ExecutionOwnership, FiniteSetTheorems, TLAPS

USE DEF Main, Beat

LEMMA ThreadParts ==
  /\ \A t \in Thread : Owner(t) \in Runtime
  /\ \A s \in Session : Main(s) \in Thread /\ Beat(s) \in Thread
  /\ \A s \in Session : RuntimeOf[s] \in Runtime /\ Owner(Main(s)) = RuntimeOf[s]
  BY RuntimeOfAssumption DEF Thread, Owner

-----------------------------------------------------------------------------
(***************************************************************************)
(* Type correctness needs no assumption on crashes or on timing.           *)
(***************************************************************************)
LEMMA WriteType ==
  ASSUME TypeOK, NEW t \in Thread, pc[t] = "write",
         op[t] = "renew" => seen[t] # NoLease
  PROVE  Written(t, seen[t]) \in Lease \cup {NoLease}
<1>1. Owner(t) \in Runtime /\ since[t] \in Nat /\ seen[t] \in Lease \cup {NoLease}
  BY ThreadParts DEF TypeOK
<1>2. CASE op[t] = "claim"
  <2>1. ClaimGeneration(t, seen[t]) \in Nat \ {0}
    BY <1>1 DEF ClaimGeneration, Owns, Lease
  <2>2. QED BY <1>1, <1>2, <2>1 DEF Written, Lease
<1>3. CASE op[t] = "renew"
  BY <1>1, <1>3 DEF Written, Lease
<1>4. CASE op[t] \notin {"claim", "renew"}
  BY <1>4 DEF Written
<1>5. QED BY <1>2, <1>3, <1>4

\* A renewal only reaches its write after it saw a lease: what the type of the
\* lease file rests on.
WritersSaw == \A t \in Thread :
  pc[t] = "write" /\ op[t] = "renew" => seen[t] # NoLease

TypeInv == TypeOK /\ WritersSaw

LEMMA TypeInit == Init => TypeInv
  BY DEF Init, TypeInv, TypeOK, WritersSaw, Pc, Op

LEMMA TypeStep == TypeInv /\ [Next]_vars => TypeInv'
<1> SUFFICES ASSUME TypeInv, [Next]_vars PROVE TypeInv'
  OBVIOUS
<1> USE TimeAssumption DEF TypeInv, TypeOK, WritersSaw, Pc, Op, Goto
<1>1. ASSUME NEW s \in Session, SessionStep(s) PROVE TypeInv'
  <2> USE ThreadParts
  <2>1. CASE BeginPrune(s) BY <2>1 DEF BeginPrune, Start
  <2>2. CASE BeginClaim(s) BY <2>2 DEF BeginClaim, Start
  <2>3. CASE BeginRenew(s) BY <2>3 DEF BeginRenew, Start
  <2>4. CASE ReleaseRetained(s)
    <3>1. RuntimeOf[s] \in Runtime /\ refs[RuntimeOf[s]] - 1 \in Nat
      BY <2>4 DEF ReleaseRetained
    <3>2. refs' \in [Runtime -> Nat]
      BY <2>4, <3>1 DEF ReleaseRetained
    <3>3. QED BY <2>4, <3>2 DEF ReleaseRetained
  <2>5. CASE BeginRelease(s) BY <2>5 DEF BeginRelease, Start
  <2>6. CASE Count(s)
    <3>1. RuntimeOf[s] \in Runtime /\ refs[RuntimeOf[s]] + 1 \in Nat
      BY <2>6 DEF Count
    <3>2. refs' \in [Runtime -> Nat]
      BY <2>6, <3>1 DEF Count
    <3>3. QED BY <2>6, <3>2 DEF Count
  <2>7. QED BY <1>1, <2>1, <2>2, <2>3, <2>4, <2>5, <2>6 DEF SessionStep
<1>2. ASSUME NEW t \in Thread, ThreadStep(t) PROVE TypeInv'
  <2>1. CASE Acquire(t) BY <2>1 DEF Acquire
  <2>2. CASE SeeStale(t) BY <2>2 DEF SeeStale
  <2>3. CASE Steal(t) BY <2>3 DEF Steal
  <2>4. CASE TimeOut(t) BY <2>4 DEF TimeOut
  <2>5. CASE Read(t)
    BY <2>5 DEF Read, Proceeds, MayRenew, Owns
  <2>6. CASE Write(t)
    <3>1. lease' \in Lease \cup {NoLease}
      BY <2>6, WriteType DEF Write
    <3>2. beat' \in [Runtime -> Nat]
      BY <2>6, ThreadParts DEF Write
    <3>3. QED BY <2>6, <3>1, <3>2 DEF Write
  <2>7. CASE Unlock(t) BY <2>7 DEF Unlock
  <2>8. QED BY <1>2, <2>1, <2>2, <2>3, <2>4, <2>5, <2>6, <2>7 DEF ThreadStep
<1>3. ASSUME NEW r \in Runtime, Crash(r) PROVE TypeInv'
  BY <1>3 DEF Crash
<1>4. CASE Tick BY <1>4 DEF Tick
<1>5. CASE UNCHANGED vars BY <1>5 DEF vars
<1>6. QED BY <1>1, <1>2, <1>3, <1>4, <1>5 DEF Next

\* Every reachable state is well typed: in particular a lease file always names
\* a runtime and a positive generation, whatever calls interleave.
THEOREM TypeCorrect == Spec => []TypeOK
<1>1. TypeInv => TypeOK BY DEF TypeInv
<1>2. QED BY TypeInit, TypeStep, <1>1, PTL DEF Spec

-----------------------------------------------------------------------------
(***************************************************************************)
(* The lock excludes when no process dies and every holder leaves within   *)
(* LockStale.  The invariant: a lock directory exists exactly while one    *)
(* thread is in the body, it is never older than LockStale, and therefore  *)
(* nobody has ever decided to remove it.                                   *)
(***************************************************************************)
Timely == Prompt /\ ~CanCrash

Body == {"read", "write", "unlock"}

LockInv ==
  /\ alive = Runtime
  /\ \A t \in Thread : pc[t] \in Body => lock # NoLock /\ lock.by = t
  /\ lock # NoLock => pc[lock.by] \in Body
  /\ lock # NoLock => lock.born <= now /\ now - lock.born <= LockStale
  /\ \A t \in Thread : pc[t] # "steal"

LEMMA LockInit == Init => LockInv
  BY DEF Init, LockInv, Body

LEMMA LockStep ==
  ASSUME Timely, TypeOK, LockInv, [Next]_vars
  PROVE  LockInv'
<1> USE ThreadParts, TimeAssumption, NoneAssumption
    DEF TypeOK, Pc, LockInv, Body, Goto
<1>1. ASSUME NEW s \in Session, SessionStep(s) PROVE LockInv'
  <2>1. CASE BeginPrune(s) BY <2>1 DEF BeginPrune, Start
  <2>2. CASE BeginClaim(s) BY <2>2 DEF BeginClaim, Start
  <2>3. CASE BeginRenew(s) BY <2>3 DEF BeginRenew, Start
  <2>4. CASE ReleaseRetained(s) BY <2>4 DEF ReleaseRetained
  <2>5. CASE BeginRelease(s) BY <2>5 DEF BeginRelease, Start
  <2>6. CASE Count(s) BY <2>6 DEF Count
  <2>7. QED BY <1>1, <2>1, <2>2, <2>3, <2>4, <2>5, <2>6 DEF SessionStep
<1>2. ASSUME NEW t \in Thread, ThreadStep(t) PROVE LockInv'
  <2>1. CASE Acquire(t) BY <2>1 DEF Acquire
  <2>2. CASE SeeStale(t) BY <2>2 DEF SeeStale
  <2>3. CASE Steal(t) BY <2>3 DEF Steal
  <2>4. CASE TimeOut(t) BY <2>4 DEF TimeOut
  <2>5. CASE Read(t) BY <2>5 DEF Read
  <2>6. CASE Write(t) BY <2>6 DEF Write
  <2>7. CASE Unlock(t) BY <2>7 DEF Unlock
  <2>8. QED BY <1>2, <2>1, <2>2, <2>3, <2>4, <2>5, <2>6, <2>7 DEF ThreadStep
<1>3. ASSUME NEW r \in Runtime, Crash(r) PROVE LockInv'
  BY <1>3 DEF Crash, Timely
<1>4. CASE Tick
  <2>1. lock # NoLock => lock.by \in Thread /\ lock.born \in Nat
    OBVIOUS
  <2>2. lock # NoLock => now - lock.born < LockStale
    BY <1>4, <2>1 DEF Tick, Timely
  <2>3. QED BY <1>4, <2>1, <2>2 DEF Tick
<1>5. CASE UNCHANGED vars BY <1>5 DEF vars
<1>6. QED BY <1>1, <1>2, <1>3, <1>4, <1>5 DEF Next

\* The lock directory keeps the bodies of claim, renew, release and prune apart,
\* however many sessions wait: as long as no holder dies or overstays.
THEOREM LockExcludes ==
  ASSUME Timely
  PROVE  Spec => []MutualExclusion
<1>1. LockInv => MutualExclusion
  BY DEF LockInv, MutualExclusion, InLock, Body
<1>2. TypeInv => TypeOK BY DEF TypeInv
<1>3. TypeInv /\ LockInv /\ [Next]_vars => LockInv'
  BY <1>2, LockStep
<1>4. QED BY TypeInit, TypeStep, LockInit, <1>1, <1>3, PTL DEF Spec

-----------------------------------------------------------------------------
(***************************************************************************)
(* What the lock buys: what a body read is still the lease when it writes, *)
(* and its decision still stands.  With one session per runtime a fresh    *)
(* lease then stays with its holder.                                       *)
(***************************************************************************)
WriteInv ==
  /\ \A t \in Thread : since[t] <= now
  /\ \A t \in Thread : pc[t] = "write" => seen[t] = lease /\ Proceeds(t, lease)
  /\ \A s \in Session : op[Beat(s)] \in {"none", "renew"}
  /\ lease # NoLease => lease.heartbeat = beat[lease.owner]

SafeInv == TypeInv /\ LockInv /\ WriteInv

LEMMA WriteInit == Init => WriteInv
  BY DEF Init, WriteInv, Thread

\* A step that leaves the lease, the calls and what they saw alone keeps WriteInv.
LEMMA WriteQuiet ==
  ASSUME SafeInv, UNCHANGED <<lease, op, since, seen, beat, alive>>,
         now' \in Nat, now <= now',
         \A t \in Thread : pc'[t] = "write" => pc[t] = "write"
  PROVE  WriteInv'
  BY DEF SafeInv, TypeInv, TypeOK, WriteInv, Proceeds, MayClaim, MayRenew,
         MayRelease, MayPrune, Owns, Expired

LEMMA WriteStart ==
  ASSUME SafeInv, NEW t \in Thread, NEW here, NEW name, Start(t, here, name),
         name # "renew" => \A s \in Session : t # Beat(s),
         UNCHANGED <<now, alive, lease, seen, beat>>
  PROVE  WriteInv'
<1> USE DEF SafeInv, TypeInv, TypeOK, WriteInv, Start, Goto
<1>1. \A u \in Thread : since'[u] <= now'
  OBVIOUS
<1>2. \A u \in Thread : pc'[u] = "write" => u # t /\ pc[u] = "write"
  OBVIOUS
<1>3. \A u \in Thread : u # t => op'[u] = op[u] /\ since'[u] = since[u]
  OBVIOUS
<1>4. \A u \in Thread : pc'[u] = "write" => seen'[u] = lease' /\ Proceeds(u, lease)'
  BY <1>2, <1>3 DEF Proceeds, MayClaim, MayRenew, MayRelease, MayPrune, Owns, Expired
<1>5. \A s \in Session : op'[Beat(s)] \in {"none", "renew"}
  BY ThreadParts
<1>6. QED BY <1>1, <1>4, <1>5

\* The thread that writes is alone in the body, so no other decision is pending.
LEMMA WriteWrite ==
  ASSUME SafeInv, TypeOK', NEW t \in Thread, Write(t)
  PROVE  WriteInv'
<1> USE DEF SafeInv, TypeInv, Write, Goto
<1>1. \A u \in Thread : pc'[u] # "write"
  BY DEF LockInv, Body, TypeOK
<1>2. seen[t] = lease /\ Proceeds(t, lease)
  BY DEF WriteInv
<1>3. Owner(t) \in Runtime /\ since[t] \in Nat /\ lease \in Lease \cup {NoLease}
  BY ThreadParts DEF TypeOK
<1>4. lease' # NoLease => lease'.heartbeat = beat'[lease'.owner]
  <2>1. CASE op[t] = "claim"
    BY <1>3, <2>1 DEF Written, TypeOK
  <2>2. CASE op[t] = "renew"
    <3>1. lease \in Lease /\ lease.owner = Owner(t)
      BY <1>2, <1>3, <2>2 DEF Proceeds, MayRenew, Owns
    <3>2. lease' = [lease EXCEPT !.heartbeat = since[t]]
      BY <1>2, <2>2 DEF Written
    <3>3. lease'.owner = Owner(t) /\ lease'.heartbeat = since[t]
      BY <3>1, <3>2 DEF Lease
    <3>4. QED BY <1>3, <2>2, <3>3 DEF TypeOK
  <2>3. CASE op[t] \notin {"claim", "renew"}
    BY <2>3 DEF Written
  <2>4. QED BY <2>1, <2>2, <2>3
<1>5. QED BY <1>1, <1>4 DEF WriteInv

LEMMA WriteStep ==
  ASSUME SafeInv, TypeOK', Timely, [Next]_vars
  PROVE  WriteInv'
<1> USE ThreadParts DEF Goto
<1>0. TypeOK /\ LockInv /\ WriteInv /\ now \in Nat
  BY DEF SafeInv, TypeInv, TypeOK
<1>1. ASSUME NEW s \in Session, SessionStep(s) PROVE WriteInv'
  <2>1. CASE BeginPrune(s)
    BY <2>1, WriteStart DEF BeginPrune
  <2>2. CASE BeginClaim(s)
    BY <2>2, WriteStart DEF BeginClaim
  <2>3. CASE BeginRenew(s)
    BY <2>3, WriteStart DEF BeginRenew
  <2>4. CASE ReleaseRetained(s)
    BY <1>0, <2>4, WriteQuiet DEF ReleaseRetained, TypeOK
  <2>5. CASE BeginRelease(s)
    BY <2>5, WriteStart DEF BeginRelease
  <2>6. CASE Count(s)
    BY <1>0, <2>6, WriteQuiet DEF Count, TypeOK
  <2>7. QED BY <1>1, <2>1, <2>2, <2>3, <2>4, <2>5, <2>6 DEF SessionStep
<1>2. ASSUME NEW t \in Thread, ThreadStep(t) PROVE WriteInv'
  <2>1. CASE Acquire(t) BY <1>0, <2>1, WriteQuiet DEF Acquire, TypeOK
  <2>2. CASE SeeStale(t) BY <1>0, <2>2, WriteQuiet DEF SeeStale, TypeOK
  <2>3. CASE Steal(t) BY <1>0, <2>3, WriteQuiet DEF Steal, TypeOK
  <2>4. CASE TimeOut(t)
    BY <1>0, <2>4 DEF TimeOut, TypeOK, WriteInv, Proceeds, MayClaim, MayRenew,
                      MayRelease, MayPrune, Owns, Expired
  <2>5. CASE Read(t)
    BY <1>0, <2>5 DEF Read, TypeOK, LockInv, Body, WriteInv, Proceeds, MayClaim,
                      MayRenew, MayRelease, MayPrune, Owns, Expired
  <2>6. CASE Write(t) BY <2>6, WriteWrite
  <2>7. CASE Unlock(t)
    BY <1>0, <2>7 DEF Unlock, TypeOK, WriteInv, Proceeds, MayClaim, MayRenew,
                      MayRelease, MayPrune, Owns, Expired
  <2>8. QED BY <1>2, <2>1, <2>2, <2>3, <2>4, <2>5, <2>6, <2>7 DEF ThreadStep
<1>3. ASSUME NEW r \in Runtime, Crash(r) PROVE WriteInv'
  BY <1>3 DEF Crash, Timely
<1>4. CASE Tick BY <1>0, <1>4, WriteQuiet DEF Tick
<1>5. CASE UNCHANGED vars BY <1>0, <1>5, WriteQuiet DEF vars
<1>6. QED BY <1>1, <1>2, <1>3, <1>4, <1>5 DEF Next

LEMMA SafeStep ==
  ASSUME SafeInv, Timely, [Next]_vars
  PROVE  SafeInv'
<1>1. TypeInv' BY TypeStep DEF SafeInv
<1>2. LockInv' BY LockStep DEF SafeInv, TypeInv
<1>3. WriteInv' BY <1>1, WriteStep DEF TypeInv
<1>4. QED BY <1>1, <1>2, <1>3 DEF SafeInv

-----------------------------------------------------------------------------
(***************************************************************************)
(* Takeovers and generations: the only step that changes the lease is a    *)
(* Write whose decision still stands.                                      *)
(***************************************************************************)
LEMMA OnlyWrites ==
  ASSUME [Next]_vars, lease' # lease
  PROVE  \E t \in Thread : Write(t)
BY DEF Next, SessionStep, ThreadStep, vars, BeginPrune, BeginClaim, BeginRenew,
       ReleaseRetained, BeginRelease, Count, Acquire, SeeStale, Steal, TimeOut,
       Read, Unlock, Crash, Tick

LEMMA LeaseChange ==
  ASSUME SafeInv, [Next]_vars, lease # NoLease, lease' # NoLease, lease' # lease
  PROVE  /\ lease'.owner # lease.owner
              => Expired(lease, now) \/ lease.owner \notin alive
         /\ lease'.generation =
              lease.generation + (IF lease'.owner = lease.owner THEN 0 ELSE 1)
<1>1. PICK t \in Thread : Write(t)
  BY OnlyWrites
<1>2. /\ lease \in Lease
      /\ lease' = Written(t, lease)
      /\ Proceeds(t, lease)
      /\ since[t] \in Nat /\ now \in Nat /\ since[t] <= now
      /\ Owner(t) \in Runtime
  BY <1>1, ThreadParts DEF SafeInv, TypeInv, TypeOK, WriteInv, Write, Goto
<1>3. CASE op[t] = "claim"
  <2>1. /\ lease'.owner = Owner(t)
        /\ lease'.generation = ClaimGeneration(t, lease)
    BY <1>2, <1>3 DEF Written
  <2>2. MayClaim(t, lease)
    BY <1>2, <1>3 DEF Proceeds
  <2>3. lease'.owner # lease.owner => Expired(lease, now) \/ lease.owner \notin alive
    BY <1>2, <2>1, <2>2, TimeAssumption DEF MayClaim, Owns, Expired, Lease
  <2>4. QED BY <1>2, <2>1, <2>3 DEF ClaimGeneration, Owns, Lease
<1>4. CASE op[t] = "renew"
  BY <1>2, <1>4 DEF Written, Lease
<1>5. CASE op[t] \notin {"claim", "renew"}
  BY <1>2, <1>5 DEF Written
<1>6. QED BY <1>3, <1>4, <1>5

LEMMA SafeInit == Init => SafeInv
  BY TypeInit, LockInit, WriteInit DEF SafeInv

\* No runtime takes a lease from another one that is fresh and alive, although
\* the claimer decides with a clock it read before it waited for the lock.
THEOREM TakeoverNotBlind ==
  ASSUME Timely
  PROVE  Spec => NoBlindTakeover
<1>1. SafeInv /\ [Next]_vars
        => [ /\ lease # NoLease
             /\ lease' # NoLease
             /\ lease'.owner # lease.owner
             => Expired(lease, now) \/ lease.owner \notin alive ]_lease
  BY LeaseChange
<1>2. SafeInv /\ [Next]_vars => SafeInv'
  BY SafeStep
<1>3. QED BY SafeInit, <1>1, <1>2, PTL DEF Spec, NoBlindTakeover

\* As long as the lease file exists a generation names one owner: a tool call
\* that carries an older generation can be told from the current owner's.
THEOREM GenerationNamesOwner ==
  ASSUME Timely
  PROVE  Spec => GenerationFences
<1>1. SafeInv /\ [Next]_vars
        => [ lease # NoLease /\ lease' # NoLease
             => lease'.generation =
                  lease.generation + (IF lease'.owner = lease.owner THEN 0 ELSE 1) ]_lease
  BY LeaseChange
<1>2. SafeInv /\ [Next]_vars => SafeInv'
  BY SafeStep
<1>3. QED BY SafeInit, <1>1, <1>2, PTL DEF Spec, GenerationFences

-----------------------------------------------------------------------------
(***************************************************************************)
(* A fresh lease stays with its holder when no two sessions share a token. *)
(* From the moment the claim has written until the release starts, the     *)
(* lease file names the session's runtime unless its heartbeat lapsed.     *)
(***************************************************************************)
OneSession == \A s, u \in Session : RuntimeOf[s] = RuntimeOf[u] => s = u

Holding(s) ==
  \/ pc[Main(s)] \in {"count", "active"}
  \/ pc[Main(s)] = "unlock" /\ op[Main(s)] = "claim"

HoldInv ==
  \A s \in Session :
    Holding(s) /\ now < beat[RuntimeOf[s]] + TTL
      => lease # NoLease /\ lease.owner = RuntimeOf[s]

LEMMA HoldQuiet ==
  ASSUME SafeInv, HoldInv, UNCHANGED <<lease, beat>>, now' \in Nat, now <= now',
         \A s \in Session : Holding(s)' => Holding(s)
  PROVE  HoldInv'
<1>1. \A s \in Session : beat[RuntimeOf[s]] \in Nat
  BY RuntimeOfAssumption DEF SafeInv, TypeInv, TypeOK
<1>2. now \in Nat
  BY DEF SafeInv, TypeInv, TypeOK
<1>3. QED BY <1>1, <1>2, TimeAssumption DEF HoldInv

LEMMA HoldWrite ==
  ASSUME SafeInv, OneSession, HoldInv, NEW t \in Thread, Write(t)
  PROVE  HoldInv'
<1> SUFFICES ASSUME NEW s \in Session, Holding(s)',
                    now < beat'[RuntimeOf[s]] + TTL
             PROVE  lease' # NoLease /\ lease'.owner = RuntimeOf[s]
  BY DEF HoldInv, Write
<1>1. /\ seen[t] = lease /\ Proceeds(t, lease)
      /\ lease' = Written(t, lease)
      /\ since[t] \in Nat /\ now \in Nat /\ since[t] <= now
      /\ Owner(t) \in Runtime /\ RuntimeOf[s] \in Runtime
      /\ lease \in Lease \cup {NoLease}
      /\ beat \in [Runtime -> Nat]
  BY ThreadParts DEF SafeInv, TypeInv, TypeOK, WriteInv, Write, Goto
<1>2. CASE RuntimeOf[s] = Owner(t) /\ op[t] \in {"claim", "renew"}
  <2>1. CASE op[t] = "claim"
    BY <1>1, <1>2, <2>1, NoneAssumption DEF Written, ClaimGeneration, Owns, Lease
  <2>2. CASE op[t] = "renew"
    BY <1>1, <1>2, <2>2, NoneAssumption DEF Written, Proceeds, MayRenew, Owns, Lease
  <2>3. QED BY <1>2, <2>1, <2>2
<1>3. CASE RuntimeOf[s] = Owner(t) /\ op[t] \notin {"claim", "renew"}
  \* A prune by the holder's own thread, or the holder's release: it is not holding.
  <2>1. t = Main(s)
    <3>1. PICK u \in Session : t = Main(u) \/ t = Beat(u)
      BY DEF Thread
    <3>2. u = s
      BY <1>3, <3>1 DEF OneSession, Owner
    <3>3. t # Beat(u)
      BY <1>1, <1>3 DEF SafeInv, WriteInv, Proceeds
    <3>4. QED BY <3>1, <3>2, <3>3
  <2>2. pc'[t] = "unlock" /\ op'[t] # "claim"
    BY <1>3 DEF Write, Goto, SafeInv, TypeInv, TypeOK
  <2>3. QED BY <2>1, <2>2 DEF Holding
<1>4. CASE RuntimeOf[s] # Owner(t)
  <2>1. t # Main(s) /\ beat'[RuntimeOf[s]] = beat[RuntimeOf[s]]
    BY <1>1, <1>4, ThreadParts DEF Write
  <2>2. Holding(s)
    BY <2>1, ThreadParts DEF Holding, Write, Goto, SafeInv, TypeInv, TypeOK
  <2>3. /\ lease # NoLease /\ lease.owner = RuntimeOf[s]
        /\ lease.heartbeat = beat[RuntimeOf[s]]
    BY <2>1, <2>2 DEF HoldInv, SafeInv, WriteInv
  <2>4. lease.owner \in alive
    BY <1>1, <2>3 DEF SafeInv, LockInv
  <2>5. ~Expired(lease, since[t])
    BY <1>1, <2>1, <2>3, TimeAssumption DEF Expired
  <2>6. ~Proceeds(t, lease)
    BY <1>1, <1>4, <2>1, <2>3, <2>4, <2>5, TimeAssumption
       DEF Proceeds, MayClaim, MayRenew, MayRelease, MayPrune, Owns, Expired
  <2>7. QED BY <1>1, <2>6
<1>5. QED BY <1>2, <1>3, <1>4

LEMMA HoldStep ==
  ASSUME SafeInv, SafeInv', OneSession, Timely, HoldInv, [Next]_vars
  PROVE  HoldInv'
<1> USE ThreadParts DEF Goto
<1>0. TypeOK /\ now \in Nat /\ now' \in Nat
  BY DEF SafeInv, TypeInv, TypeOK
<1>1. ASSUME NEW s \in Session, SessionStep(s) PROVE HoldInv'
  <2>1. CASE BeginPrune(s)
    BY <1>0, <2>1, HoldQuiet DEF BeginPrune, Start, Holding, TypeOK
  <2>2. CASE BeginClaim(s)
    BY <1>0, <2>2, HoldQuiet DEF BeginClaim, Start, Holding, TypeOK
  <2>3. CASE BeginRenew(s)
    BY <1>0, <2>3, HoldQuiet DEF BeginRenew, Start, Holding, TypeOK
  <2>4. CASE ReleaseRetained(s)
    BY <1>0, <2>4, HoldQuiet DEF ReleaseRetained, Holding, TypeOK
  <2>5. CASE BeginRelease(s)
    BY <1>0, <2>5, HoldQuiet DEF BeginRelease, Start, Holding, TypeOK
  <2>6. CASE Count(s)
    BY <1>0, <2>6, HoldQuiet DEF Count, Holding, TypeOK
  <2>7. QED BY <1>1, <2>1, <2>2, <2>3, <2>4, <2>5, <2>6 DEF SessionStep
<1>2. ASSUME NEW t \in Thread, ThreadStep(t) PROVE HoldInv'
  <2>1. CASE Acquire(t) BY <1>0, <2>1, HoldQuiet DEF Acquire, Holding, TypeOK
  <2>2. CASE SeeStale(t) BY <1>0, <2>2, HoldQuiet DEF SeeStale, Holding, TypeOK
  <2>3. CASE Steal(t) BY <1>0, <2>3, HoldQuiet DEF Steal, Holding, TypeOK
  <2>4. CASE TimeOut(t) BY <1>0, <2>4, HoldQuiet DEF TimeOut, Holding, TypeOK
  <2>5. CASE Read(t) BY <1>0, <2>5, HoldQuiet DEF Read, Holding, TypeOK
  <2>6. CASE Write(t) BY <2>6, HoldWrite
  <2>7. CASE Unlock(t) BY <1>0, <2>7, HoldQuiet DEF Unlock, Holding, TypeOK
  <2>8. QED BY <1>2, <2>1, <2>2, <2>3, <2>4, <2>5, <2>6, <2>7 DEF ThreadStep
<1>3. ASSUME NEW r \in Runtime, Crash(r) PROVE HoldInv'
  BY <1>3 DEF Crash, Timely
<1>4. CASE Tick BY <1>0, <1>4, HoldQuiet DEF Tick, Holding
<1>5. CASE UNCHANGED vars BY <1>0, <1>5, HoldQuiet DEF vars, Holding
<1>6. QED BY <1>1, <1>2, <1>3, <1>4, <1>5 DEF Next

\* A session that holds the scope and heartbeats in time always passes the
\* ownership check in front of its child's tool calls, provided no other session
\* of its process uses the same token (the run ownership_sibling_release shows
\* what happens otherwise).
THEOREM FreshLeaseHeld ==
  ASSUME Timely, OneSession
  PROVE  Spec => []HeldLeaseAsserts
<1>1. SafeInv /\ HoldInv => HeldLeaseAsserts
  <2> SUFFICES ASSUME SafeInv, HoldInv, NEW s \in Session,
                      pc[Main(s)] = "active", now < beat[RuntimeOf[s]] + TTL
               PROVE  Asserts(s)
    BY DEF HeldLeaseAsserts
  <2>1. lease # NoLease /\ lease.owner = RuntimeOf[s]
    BY DEF HoldInv, Holding
  <2>2. lease.heartbeat = beat[RuntimeOf[s]] /\ beat[RuntimeOf[s]] \in Nat /\ now \in Nat
    BY <2>1, ThreadParts DEF SafeInv, WriteInv, TypeInv, TypeOK
  <2>3. QED BY <2>1, <2>2, TimeAssumption DEF Asserts, Expired
<1>2. Init => HoldInv
  BY ThreadParts DEF Init, HoldInv, Holding
<1>3. SafeInv /\ [Next]_vars => SafeInv'
  BY SafeStep
<1>4. SafeInv /\ SafeInv' /\ HoldInv /\ [Next]_vars => HoldInv'
  BY HoldStep
<1>5. QED BY SafeInit, <1>1, <1>2, <1>3, <1>4, PTL DEF Spec

-----------------------------------------------------------------------------
(***************************************************************************)
(* Refinement: the Write step of a call is the register's step for that    *)
(* call, Tick is Pass, and everything else leaves the register alone.      *)
(***************************************************************************)
LEMMA WriteRefines ==
  ASSUME SafeInv, NEW t \in Thread, Write(t)
  PROVE  Register!RegNext
<1>1. /\ Proceeds(t, lease)
      /\ lease' = Written(t, lease)
      /\ since[t] \in Nat /\ now \in Nat /\ since[t] <= now
      /\ Owner(t) \in alive
      /\ UNCHANGED <<now, alive>>
  BY ThreadParts DEF SafeInv, TypeInv, TypeOK, WriteInv, Write, Goto
<1>2. since[t] \in 0..now
  BY <1>1
<1>3. CASE op[t] = "claim"
  <2>1. Register!Free(Owner(t), since[t])
    BY <1>1, <1>3 DEF Proceeds, MayClaim, Owns, Expired, Register!Free
  <2>2. Register!Claim(Owner(t), since[t])
    BY <1>1, <1>3, <2>1 DEF Written, ClaimGeneration, Owns, Register!Claim,
                            Register!NextGeneration
  <2>3. QED BY <1>1, <1>2, <2>2 DEF Register!RegNext
<1>4. CASE op[t] = "renew"
  <2>1. Register!Renew(Owner(t), since[t])
    BY <1>1, <1>4 DEF Proceeds, MayRenew, Owns, Written, Register!Renew
  <2>2. QED BY <1>1, <1>2, <2>1 DEF Register!RegNext
<1>5. CASE op[t] = "release"
  <2>1. Register!Release(Owner(t))
    BY <1>1, <1>5 DEF Proceeds, MayRelease, Owns, Written, Register!Release
  <2>2. QED BY <1>1, <2>1 DEF Register!RegNext
<1>6. CASE op[t] = "prune"
  <2>1. Register!Collect(since[t])
    BY <1>1, <1>6 DEF Proceeds, MayPrune, Expired, Written, Register!Collect
  <2>2. QED BY <1>2, <2>1 DEF Register!RegNext
<1>7. QED BY <1>1, <1>3, <1>4, <1>5, <1>6 DEF Proceeds

\* While no holder dies or overstays, the lock and file-system steps of the four
\* calls behave as one indivisible register.
THEOREM RefinesRegister ==
  ASSUME Timely
  PROVE  Spec => ImplementsRegister
<1>1. Init => Register!RegInit
  BY DEF Init, Register!RegInit
<1>2. SafeInv /\ [Next]_vars => [Register!RegNext]_(Register!regVars)
  <2> SUFFICES ASSUME SafeInv, [Next]_vars
               PROVE  Register!RegNext \/ UNCHANGED <<now, alive, lease>>
    BY DEF Register!regVars
  <2>1. CASE \E t \in Thread : Write(t)
    BY <2>1, WriteRefines
  <2>2. CASE Tick
    BY <2>2 DEF Tick, Register!RegNext, Register!Pass
  <2>3. CASE ~(\E t \in Thread : Write(t)) /\ ~Tick
    BY <2>3 DEF Timely, Next, SessionStep, ThreadStep, vars, BeginPrune, BeginClaim,
                BeginRenew, ReleaseRetained, BeginRelease, Count, Acquire, SeeStale,
                Steal, TimeOut, Read, Unlock, Crash
  <2>4. QED BY <2>1, <2>2, <2>3
<1>3. SafeInv /\ [Next]_vars => SafeInv'
  BY SafeStep
<1>4. QED BY SafeInit, <1>1, <1>2, <1>3, PTL DEF Spec, ImplementsRegister, Register!RegSpec
-----------------------------------------------------------------------------
(***************************************************************************)
(* The reference count, whatever dies and however the lock fares: it is    *)
(* kept by the event loop of one process, outside the lock.                *)
(***************************************************************************)
CountInv ==
  \A r \in alive : IsFiniteSet(Holders(r)) /\ refs[r] = Cardinality(Holders(r))

LEMMA CountInit == Init => CountInv
<1> SUFFICES ASSUME Init PROVE CountInv
  OBVIOUS
<1>1. \A r \in alive : Holders(r) = {} /\ refs[r] = 0
  BY ThreadParts DEF Init, Holders
<1>2. QED BY <1>1, FS_EmptySet DEF CountInv

\* A step that leaves the counts alone and makes no session start or stop to be
\* a holder.
LEMMA CountQuiet ==
  ASSUME CountInv, refs' = refs, alive' \subseteq alive,
         \A s \in Session : pc'[Main(s)] = "active" <=> pc[Main(s)] = "active"
  PROVE  CountInv'
<1>1. \A r \in alive : Holders(r)' = Holders(r)
  BY DEF Holders
<1>2. QED BY <1>1 DEF CountInv

LEMMA HolderJoins ==
  ASSUME TypeOK, CountInv, NEW s \in Session, Count(s)
  PROVE  CountInv'
<1>1. /\ RuntimeOf[s] \in alive /\ RuntimeOf[s] \in Runtime
      /\ pc[Main(s)] = "count"
      /\ pc' = [pc EXCEPT ![Main(s)] = "active"]
      /\ refs' = [refs EXCEPT ![RuntimeOf[s]] = @ + 1]
      /\ alive' = alive
      /\ refs \in [Runtime -> Nat] /\ pc \in [Thread -> Pc] /\ alive \subseteq Runtime
  BY ThreadParts DEF Count, Goto, TypeOK
<1>2. \A u \in Session : u # s => pc'[Main(u)] = pc[Main(u)]
  BY <1>1, ThreadParts
<1>3. pc'[Main(s)] = "active"
  BY <1>1, ThreadParts
<1> SUFFICES ASSUME NEW r \in alive
             PROVE  IsFiniteSet(Holders(r)') /\ refs'[r] = Cardinality(Holders(r)')
  BY <1>1 DEF CountInv
<1>4. CASE r # RuntimeOf[s]
  <2>1. Holders(r)' = Holders(r)
    BY <1>2, <1>4 DEF Holders
  <2>2. refs'[r] = refs[r]
    BY <1>1, <1>4
  <2>3. QED BY <2>1, <2>2 DEF CountInv
<1>5. CASE r = RuntimeOf[s]
  <2>1. Holders(r)' = Holders(r) \cup {s}
    BY <1>2, <1>3, <1>5 DEF Holders
  <2>2. s \notin Holders(r)
    BY <1>1 DEF Holders
  <2>3. IsFiniteSet(Holders(r)) /\ refs[r] = Cardinality(Holders(r))
    BY DEF CountInv
  <2>4. refs'[r] = refs[r] + 1
    BY <1>1, <1>5
  <2>5. QED BY <2>1, <2>2, <2>3, <2>4, FS_AddElement
<1>6. QED BY <1>4, <1>5

\* A release that starts takes one holder away, and the count follows: it drops
\* by one, or to zero when at most one was left.
LEMMA HolderLeaves ==
  ASSUME TypeOK, CountInv, NEW s \in Session,
         RuntimeOf[s] \in alive, pc[Main(s)] = "active",
         NEW there \in Pc, there # "active",
         pc' = [pc EXCEPT ![Main(s)] = there], alive' = alive,
         NEW left \in Nat, refs' = [refs EXCEPT ![RuntimeOf[s]] = left],
         left = IF refs[RuntimeOf[s]] <= 1 THEN 0 ELSE refs[RuntimeOf[s]] - 1
  PROVE  CountInv'
<1>1. /\ RuntimeOf[s] \in Runtime
      /\ refs \in [Runtime -> Nat] /\ pc \in [Thread -> Pc] /\ alive \subseteq Runtime
  BY ThreadParts DEF TypeOK
<1>2. \A u \in Session : u # s => pc'[Main(u)] = pc[Main(u)]
  BY <1>1, ThreadParts
<1>3. pc'[Main(s)] # "active"
  BY <1>1, ThreadParts
<1> SUFFICES ASSUME NEW r \in alive
             PROVE  IsFiniteSet(Holders(r)') /\ refs'[r] = Cardinality(Holders(r)')
  BY DEF CountInv
<1>4. CASE r # RuntimeOf[s]
  <2>1. Holders(r)' = Holders(r)
    BY <1>2, <1>4 DEF Holders
  <2>2. refs'[r] = refs[r]
    BY <1>1, <1>4
  <2>3. QED BY <2>1, <2>2 DEF CountInv
<1>5. CASE r = RuntimeOf[s]
  <2>1. Holders(r)' = Holders(r) \ {s}
    BY <1>2, <1>3, <1>5 DEF Holders
  <2>2. s \in Holders(r)
    BY <1>5 DEF Holders
  <2>3. IsFiniteSet(Holders(r)) /\ refs[r] = Cardinality(Holders(r)) /\ refs[r] \in Nat
    BY <1>1 DEF CountInv
  <2>4. IsFiniteSet(Holders(r)') /\ Cardinality(Holders(r)') = refs[r] - 1
    BY <2>1, <2>2, <2>3, FS_RemoveElement
  <2>5. Cardinality(Holders(r)') \in Nat
    BY <2>4, FS_CardinalityType
  <2>6. refs'[r] = IF refs[r] <= 1 THEN 0 ELSE refs[r] - 1
    BY <1>1, <1>5
  <2>7. QED BY <2>3, <2>4, <2>5, <2>6
<1>6. QED BY <1>4, <1>5

LEMMA CountStep ==
  ASSUME TypeInv, CountInv, [Next]_vars
  PROVE  CountInv'
<1>0. TypeOK /\ pc \in [Thread -> Pc]
  BY DEF TypeInv, TypeOK
<1> USE ThreadParts DEF Goto
<1>1. ASSUME NEW s \in Session, SessionStep(s) PROVE CountInv'
  <2>1. CASE BeginPrune(s) BY <1>0, <2>1, CountQuiet DEF BeginPrune, Start
  <2>2. CASE BeginClaim(s) BY <1>0, <2>2, CountQuiet DEF BeginClaim, Start
  <2>3. CASE BeginRenew(s) BY <1>0, <2>3, CountQuiet DEF BeginRenew, Start
  <2>4. CASE ReleaseRetained(s)
    <3>1. refs[RuntimeOf[s]] \in Nat /\ RuntimeOf[s] \in Runtime
      BY DEF TypeInv, TypeOK
    <3>2. refs[RuntimeOf[s]] - 1 \in Nat
               /\ refs[RuntimeOf[s]] - 1 = IF refs[RuntimeOf[s]] <= 1 THEN 0 ELSE refs[RuntimeOf[s]] - 1
      BY <2>4, <3>1 DEF ReleaseRetained
    <3>3. QED BY <1>0, <2>4, <3>2, HolderLeaves DEF ReleaseRetained, Pc
  <2>5. CASE BeginRelease(s)
    <3>1. refs[RuntimeOf[s]] \in Nat /\ RuntimeOf[s] \in Runtime
      BY DEF TypeInv, TypeOK
    <3>2. 0 \in Nat
               /\ 0 = IF refs[RuntimeOf[s]] <= 1 THEN 0 ELSE refs[RuntimeOf[s]] - 1
      BY <2>5, <3>1 DEF BeginRelease
    <3>3. QED BY <1>0, <2>5, <3>2, HolderLeaves DEF BeginRelease, Start, Pc
  <2>6. CASE Count(s) BY <1>0, <2>6, HolderJoins
  <2>7. QED BY <1>1, <2>1, <2>2, <2>3, <2>4, <2>5, <2>6 DEF SessionStep
<1>2. ASSUME NEW t \in Thread, ThreadStep(t) PROVE CountInv'
  <2>1. CASE Acquire(t) BY <1>0, <2>1, CountQuiet DEF Acquire
  <2>2. CASE SeeStale(t) BY <1>0, <2>2, CountQuiet DEF SeeStale
  <2>3. CASE Steal(t) BY <1>0, <2>3, CountQuiet DEF Steal
  <2>4. CASE TimeOut(t) BY <1>0, <2>4, CountQuiet DEF TimeOut
  <2>5. CASE Read(t) BY <1>0, <2>5, CountQuiet DEF Read
  <2>6. CASE Write(t) BY <1>0, <2>6, CountQuiet DEF Write
  <2>7. CASE Unlock(t) BY <1>0, <2>7, CountQuiet DEF Unlock
  <2>8. QED BY <1>2, <2>1, <2>2, <2>3, <2>4, <2>5, <2>6, <2>7 DEF ThreadStep
<1>3. ASSUME NEW r \in Runtime, Crash(r) PROVE CountInv'
  <2>1. /\ pc' = pc /\ alive' = alive \ {r}
        /\ refs' = [refs EXCEPT ![r] = 0]
        /\ refs \in [Runtime -> Nat] /\ alive \subseteq Runtime
    BY <1>3 DEF Crash, TypeInv, TypeOK
  <2>2. \A q \in alive' : q \in alive /\ refs'[q] = refs[q] /\ Holders(q)' = Holders(q)
    BY <2>1 DEF Holders
  <2>3. QED BY <2>2 DEF CountInv
<1>4. CASE Tick BY <1>4, CountQuiet DEF Tick
<1>5. CASE UNCHANGED vars BY <1>5, CountQuiet DEF vars
<1>6. QED BY <1>1, <1>2, <1>3, <1>4, <1>5 DEF Next

\* The count is exact through every conflict, timeout, crash of another process
\* and stolen lock: a release deletes the lease exactly when it is the last
\* holder of its process that goes.
THEOREM CountsHolders == Spec => []RefsCountHolders
<1>1. CountInv => RefsCountHolders
  BY DEF CountInv, RefsCountHolders
<1>2. TypeInv /\ CountInv /\ [Next]_vars => CountInv'
  BY CountStep
<1>3. QED BY TypeInit, TypeStep, CountInit, <1>1, <1>2, PTL DEF Spec
=============================================================================
