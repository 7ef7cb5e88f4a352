------------------------------ MODULE WorkerPool ------------------------------
(***************************************************************************)
(* The pool of warm Pi RPC workers (src/lib/pi-rpc-pool.mjs) and the calls  *)
(* the controller makes of it: run, prewarm, discard and stopAll.           *)
(*                                                                         *)
(* A call creates at most one worker, so a worker is named by the call that *)
(* created it; a worker starts processes 1, 2, ... one after the other.     *)
(* `run` is two threads of control: the pool's (pc) and the worker's        *)
(* (exec), which serves the runs queued on it one at a time.                *)
(*                                                                         *)
(* The exit event of a process and its death are one step: until the event  *)
(* is handled, nothing in the program can tell that the process is gone.    *)
(***************************************************************************)
EXTENDS Integers, Sequences, FiniteSets, SequencesExt

CONSTANTS
  Calls,         \* bound: the calls made of the pool
  Keys,          \* bound: worker keys (buildRpcWorkerKey), named in the order of use
  Fences,        \* bound: fencing specifications (rpcWorkerSpecFingerprint), likewise
  MaxWorkers,    \* maxWorkers of the pool
  MaxProcs,      \* bound: processes one worker starts
  Modes,         \* the ways the controller may use the pool, see `mode`
  None

ASSUME PoolAssumption ==
  /\ MaxWorkers \in Nat \ {0}
  /\ MaxProcs \in Nat \ {0}
  /\ {Calls, Keys, Fences} \subseteq Nat
  /\ None \notin 1..Calls
  /\ Modes \subseteq [overlap : BOOLEAN, faults : Nat, mixed : BOOLEAN]

Call == 1..Calls    \* calls in the order of their beginning, and their workers
Key == 1..Keys
Fence == 1..Fences

VARIABLES
  mode,      \* overlap: several calls of one key at a time; faults: how often a
             \* process still fails or a call times out; mixed: one key comes with several specifications
  req,       \* what each call asks for
  pc,        \* where the pool's thread of a call is
  exec,      \* where the worker's thread of a run is
  mine,      \* the worker a call uses
  pool,      \* the Map `workers`: its workers in insertion order
  reserved,  \* the Map `reservations`
  worker,    \* the RpcWorker objects; talk: the conversations in the session of the
             \* current process (2 stands for several)
  live,      \* the processes that exist: <<worker, number>>
  stops      \* the calls of RpcWorker.stop and of abortTransport under way; "abort": the
             \* process is asked to abort, "kill": that has failed

vars == <<mode, req, pc, exec, mine, pool, reserved, worker, live, stops>>

Kind == {"run", "resume", "prewarm", "discard", "stopAll"}
Request == [kind : Kind, key : Key, spec : Fence]
Pc == {"idle", "replace", "prune", "await", "failed", "warm", "drop",
       "pruneAll", "finish", "done"}
Exec == {"none", "queued", "starting", "restarting", "clearing", "reprompting",
         "running", "stopping", "ok", "failed"}
Why == {"own", "stale", "prune", "exec", "abort", "kill"}

ASSUME NoneAssumption == None \notin Request

TypeOK ==
  /\ mode \in [overlap : BOOLEAN, faults : Nat, mixed : BOOLEAN]
  /\ req \in [Call -> Request \cup {None}]
  /\ pc \in [Call -> Pc]
  /\ exec \in [Call -> Exec]
  /\ mine \in [Call -> Call \cup {None}]
  /\ pool \in Seq(Call)
  /\ \A i, j \in DOMAIN pool : req[pool[i]].key = req[pool[j]].key => i = j
  /\ reserved \in [Key -> Nat]
  /\ worker \in [Call -> [proc : 0..MaxProcs, dead : BOOLEAN, ran : BOOLEAN,
                          queue : Seq(Call), talk : 0..2]]
  /\ live \subseteq Call \X (1..MaxProcs)
  /\ stops \subseteq [w : Call, proc : 1..MaxProcs, by : Call, why : Why,
                      killed : BOOLEAN]

Init ==
  /\ mode \in Modes
  /\ req = [c \in Call |-> None]
  /\ pc = [c \in Call |-> "idle"]
  /\ exec = [c \in Call |-> "none"]
  /\ mine = [c \in Call |-> None]
  /\ pool = << >>
  /\ reserved = [k \in Key |-> 0]
  /\ worker = [c \in Call |-> [proc |-> 0, dead |-> FALSE, ran |-> FALSE,
                               queue |-> << >>, talk |-> 0]]
  /\ live = {}
  /\ stops = {}

-----------------------------------------------------------------------------
\* The pool's maps.

KeyOf(c) == req[c].key
InFlight(c) == pc[c] \notin {"idle", "done"}
Tracked(k) == {w \in ToSet(pool) : KeyOf(w) = k}    \* at most one worker
Without(seq, w) == RemoveFirst(seq, w)
Forgetting(k) == RemoveFirstMatch(pool, LAMBDA w : KeyOf(w) = k)

\* Map.set: a key that is present keeps its place.
Publish(seq, k, w) ==
  IF Tracked(k) = {} THEN Append(seq, w)
  ELSE [i \in DOMAIN seq |-> IF KeyOf(seq[i]) = k THEN w ELSE seq[i]]

\* A worker that is used again becomes the newest one.
Touch(w) == Append(Without(pool, w), w)

Reserve(k) == reserved' = [reserved EXCEPT ![k] = @ + 1]
Release(k) == reserved' = [reserved EXCEPT ![k] = IF @ > 0 THEN @ - 1 ELSE 0]

Active(w) ==
  /\ worker[w].queue # << >>
  /\ exec[Head(worker[w].queue)] \in {"reprompting", "running"}

\* RpcWorker.stop on entry: nothing to do without a process.
StopOf(w, c, why) ==
  IF worker[w].proc = 0 THEN {}
  ELSE {[w |-> w, proc |-> worker[w].proc, by |-> c, why |-> why, killed |-> FALSE]}

Waits(c, why) == \E s \in stops : s.by = c /\ s.why = why

Goto(c, there) == pc' = [pc EXCEPT ![c] = there]

-----------------------------------------------------------------------------
\* The worker.  Operators ending in ' below describe the next state of `worker`,
\* `live` and `exec`.

NeedsProcess(w) == worker[w].proc = 0 \/ worker[w].dead
Process(w) == <<w, worker[w].proc>>

\* spawn, for worker w in state W: a process by a number that names no other one.
Unused(w) ==
  {n \in 1..MaxProcs : /\ <<w, n>> \notin live
                       /\ n # worker[w].proc
                       /\ \A s \in stops : s.w = w => s.proc # n}
Spawn(w, W) ==
  \E n \in Unused(w) :
    /\ \A m \in Unused(w) : n <= m
    /\ worker' = [worker EXCEPT ![w] = [W EXCEPT !.proc = n, !.dead = FALSE, !.talk = 0]]
    /\ live' = live \cup {<<w, n>>}

Pending == {"starting", "restarting", "clearing", "reprompting", "running"}

\* RpcWorker.fail, with the processes in `gone` no longer there: the request or the
\* run that is waiting on the worker is rejected, unless the worker was dead.
Fail(w, gone) ==
  LET hit == IF worker[w].dead THEN {}
             ELSE {c \in Call : mine[c] = w /\ exec[c] \in Pending}
  IN /\ live' = live \ gone
     /\ exec' = [c \in Call |-> IF c \in hit THEN "failed" ELSE exec[c]]
     /\ worker' = [worker EXCEPT ![w].dead = TRUE,
                                 ![w].queue = IF @ # << >> /\ Head(@) \in hit THEN Tail(@) ELSE @]

\* It rejects the requests to abort as well: the process that the worker has is killed.
Rejecting(w, S) ==
  LET hit == IF worker[w].dead THEN {} ELSE {s \in S : s.w = w /\ s.why = "abort"}
  IN (S \ hit) \cup UNION {StopOf(w, s.by, "kill") : s \in hit}

\* A run leaves the queue with its outcome; the next one may begin.
OutcomeStays(c, result) ==    \* mutant: the tail of the queue is never released
  /\ exec' = [exec EXCEPT ![c] = result]
  /\ UNCHANGED worker
Outcome(c, result) ==
  /\ exec' = [exec EXCEPT ![c] = result]
  /\ worker' = [worker EXCEPT ![mine[c]].queue = Without(@, c)]

\* A run that does not resume asks for a new session if the worker ran before.
NeedsClearResumed(c) == worker[mine[c]].ran /\ req[c].kind = "resume"   \* mutant: the test inverted
NeedsClear(c) == worker[mine[c]].ran /\ req[c].kind = "run"

\* send({prompt}), after a process was found missing or not.  active is set first.
Prompt(c, W) ==
  LET w == mine[c] IN
  IF W.dead
  THEN /\ Spawn(w, [W EXCEPT !.ran = TRUE])
       /\ exec' = [exec EXCEPT ![c] = "reprompting"]
  ELSE /\ worker' = [worker EXCEPT ![w] = [W EXCEPT !.ran = TRUE, !.talk = IF @ = 0 THEN 1 ELSE 2]]
       /\ exec' = [exec EXCEPT ![c] = "running"]
       /\ UNCHANGED live

\* What follows a start() that returned.
AfterStart(c) ==
  LET w == mine[c] IN
  IF ~NeedsClear(c) THEN Prompt(c, worker[w])
  ELSE IF worker[w].dead
  THEN /\ Spawn(w, worker[w])
       /\ exec' = [exec EXCEPT ![c] = "restarting"]
  ELSE /\ exec' = [exec EXCEPT ![c] = "clearing"]
       /\ UNCHANGED <<worker, live>>

WorkerUnchanged == UNCHANGED <<worker, live, exec>>
CallsUnchanged == UNCHANGED <<req, pc, mine, pool, reserved>>
PoolUnchanged == CallsUnchanged /\ UNCHANGED mode

\* One of the failures and timeouts that may happen.
Fault == mode.faults > 0 /\ mode' = [mode EXCEPT !.faults = @ - 1]

\* A run that is next begins in the same turn of the event loop: no event of a process
\* and no timer comes before it.
UpNext(c) == exec[c] = "queued" /\ Head(worker[mine[c]].queue) = c
Turn == \A c \in Call : ~UpNext(c)

\* RpcWorker.run: the run at the head of the queue starts the worker if need be.
ExecStart(c) ==
  LET w == mine[c] IN
  /\ UpNext(c)
  /\ IF NeedsProcess(w)
     THEN /\ Spawn(w, worker[w])
          /\ exec' = [exec EXCEPT ![c] = "starting"]
     ELSE AfterStart(c)
  /\ UNCHANGED stops
  /\ PoolUnchanged

\* The worker's process answers the request that is waiting.
Answered(c) ==
  LET w == mine[c] IN
  /\ Turn
  /\ exec[c] \in Pending \ {"running"}
  /\ Process(w) \in live
  /\ CASE exec[c] = "starting" /\ req[c].kind = "prewarm" ->
            exec' = [exec EXCEPT ![c] = "ok"] /\ UNCHANGED <<worker, live>>
       [] exec[c] = "starting" /\ req[c].kind # "prewarm" -> AfterStart(c)
       [] exec[c] \in {"restarting", "reprompting"} /\ worker[w].dead ->
            Outcome(c, "failed") /\ UNCHANGED live
       [] exec[c] = "restarting" /\ ~worker[w].dead ->
            exec' = [exec EXCEPT ![c] = "clearing"] /\ UNCHANGED <<worker, live>>
       [] exec[c] = "clearing" -> Prompt(c, [worker[w] EXCEPT !.talk = 0])
       [] OTHER -> Prompt(c, worker[w])
  /\ UNCHANGED stops
  /\ PoolUnchanged

\* agent_settled.
Settles(c) ==
  /\ exec[c] = "running"
  /\ Process(mine[c]) \in live
  /\ Outcome(c, "ok")
  /\ UNCHANGED <<live, stops>>
  /\ PoolUnchanged

\* A request is not answered in time, or the deadline has passed before the start.
TimesOut(c) ==
  LET w == mine[c] IN
  /\ \/ exec[c] \in Pending /\ Process(w) \notin live /\ UNCHANGED mode
     \/ (exec[c] \in Pending \/ UpNext(c)) /\ Fault
  /\ Outcome(c, "failed")
  /\ UNCHANGED <<live, stops>>
  /\ CallsUnchanged

\* The hard timeout of a run that is still starting stops the worker first.
StartupTimesOut(c) ==
  LET w == mine[c] IN
  /\ Fault
  /\ exec[c] \in {"starting", "restarting", "clearing"}
  /\ req[c].kind # "prewarm"
  /\ exec' = [exec EXCEPT ![c] = "stopping"]
  /\ stops' = stops \cup StopOf(w, c, "exec")
  /\ UNCHANGED <<worker, live>>
  /\ CallsUnchanged

StartupStopped(c) ==
  /\ exec[c] = "stopping"
  /\ ~Waits(c, "exec")
  /\ Outcome(c, "failed")
  /\ UNCHANGED <<live, stops>>
  /\ PoolUnchanged

\* abortFor: the run is rejected at once, and the worker is told to abort meanwhile.
Aborted(c) ==
  LET w == mine[c] IN
  /\ Fault
  /\ exec[c] \in {"reprompting", "running"}
  /\ Outcome(c, "failed")
  /\ stops' = stops \cup (IF worker[w].dead THEN {} ELSE StopOf(w, c, "abort"))
  /\ UNCHANGED live
  /\ CallsUnchanged

AbortAccepted(s) ==
  /\ s.why = "abort"
  /\ stops' = stops \ {s}
  /\ WorkerUnchanged
  /\ PoolUnchanged

\* The request is refused or not answered in time: the worker's process is killed, which
\* may be a later one than was asked; without one the worker is dead at once.
AbortFails(s) ==
  /\ Turn
  /\ s.why = "abort"
  /\ stops' = (stops \ {s}) \cup StopOf(s.w, s.by, "kill")
  /\ IF worker[s.w].proc = 0 THEN worker' = [worker EXCEPT ![s.w].dead = TRUE]
                             ELSE UNCHANGED worker
  /\ UNCHANGED <<live, exec>>
  /\ PoolUnchanged

\* terminateProcessTreeAsync, with the exit event it causes.
StopKill(s) ==
  /\ Turn
  /\ ~s.killed /\ s.why # "abort"
  /\ LET ended == (stops \ {s}) \cup {[s EXCEPT !.killed = TRUE]}
     IN IF <<s.w, s.proc>> \in live
        THEN Fail(s.w, {<<s.w, s.proc>>}) /\ stops' = Rejecting(s.w, ended)
        ELSE WorkerUnchanged /\ stops' = ended
  /\ PoolUnchanged

\* stop marks the worker dead when the process it captured is gone, whatever process
\* the worker has by then.
StopEnd(s) ==
  /\ s.killed
  /\ stops' = stops \ {s}
  /\ worker' = [worker EXCEPT ![s.w].dead = TRUE,
                              ![s.w].proc = IF @ = s.proc /\ s.why # "kill" THEN 0 ELSE @]
  /\ UNCHANGED <<live, exec>>
  /\ PoolUnchanged

\* A process exits, or only its pipe breaks under a write.
ProcessExits(p) ==
  /\ Turn
  /\ Fault
  /\ p \in live
  /\ Fail(p[1], {p})
  /\ stops' = Rejecting(p[1], stops)
  /\ CallsUnchanged

PipeBreaks(w) ==
  /\ Turn
  /\ Fault
  /\ \E c \in Call : mine[c] = w /\ exec[c] \in Pending
  /\ Process(w) \in live
  /\ ~worker[w].dead
  /\ Fail(w, {})
  /\ stops' = Rejecting(w, stops)
  /\ CallsUnchanged

-----------------------------------------------------------------------------
\* The pool's thread of a call.

Fenced(w, f) == req[w].spec = f

\* The pool creates a worker for call c of key k and hands it the call.  `seq` is the
\* map it finds.
Create(c, k, seq) ==
  /\ pool' = Publish(seq, k, c)
  /\ mine' = [mine EXCEPT ![c] = c]

\* A run joins the queue of its worker.
Enqueue(c, w) ==
  /\ worker' = [worker EXCEPT ![w].queue = Append(@, c)]
  /\ exec' = [exec EXCEPT ![c] = "queued"]

MayBegin(c, k, f, kind) ==
  /\ pc[c] = "idle"
  /\ \A d \in Call : d < c => pc[d] # "idle"
  /\ \A j \in 1..(k - 1) : \E d \in Call : req[d] # None /\ KeyOf(d) = j
  /\ \A j \in 1..(f - 1) : \E d \in Call : req[d] # None /\ req[d].spec = j
  /\ \A d \in Call : req[d] # None => req[d].kind # "stopAll"
  /\ \A d \in Call : InFlight(d) /\ KeyOf(d) = k =>
       mode.overlap /\ kind \in {"run", "prewarm"}
  /\ \A d \in Call : req[d] # None /\ KeyOf(d) = k => mode.mixed \/ req[d].spec = f

Begin(c, k, f, kind) ==
  /\ MayBegin(c, k, f, kind)
  /\ req' = [req EXCEPT ![c] = [kind |-> kind, key |-> k, spec |-> f]]
  /\ UNCHANGED mode

\* run finds a worker of its own specification, and does not need more than it offers.
Reusable(w, f) == ~worker[w].dead /\ Fenced(w, f)
Warm(w) == worker[w].ran \/ worker[w].proc # 0

RunReuses(c, k, f, kind) ==
  /\ Begin(c, k, f, kind)
  /\ kind \in {"run", "resume"}
  /\ \E w \in Tracked(k) :
       /\ Reusable(w, f)
       /\ kind = "resume" => Warm(w)
       /\ pool' = Touch(w)
       /\ mine' = [mine EXCEPT ![c] = w]
       /\ Enqueue(c, w)
  /\ Reserve(k)
  /\ Goto(c, "prune")
  /\ UNCHANGED <<live, stops>>

\* No worker, or a dead one, whose stop is not awaited before the new one is there.
RunCreates(c, k, f) ==
  /\ Begin(c, k, f, "run")
  /\ \A w \in Tracked(k) : worker[w].dead
  /\ pool' = Append(Forgetting(k), c)
  /\ mine' = [mine EXCEPT ![c] = c]
  /\ Enqueue(c, c)
  /\ stops' = stops \cup UNION {StopOf(w, c, "stale") : w \in Tracked(k)}
  /\ Reserve(k)
  /\ Goto(c, "prune")
  /\ UNCHANGED live

\* A session to resume is not there: the run throws and the worker, if any, goes.
ResumeRefused(c, k, f) ==
  /\ Begin(c, k, f, "resume")
  /\ \A w \in Tracked(k) : worker[w].dead \/ (Fenced(w, f) /\ ~Warm(w))
  /\ pool' = Forgetting(k)
  /\ stops' = stops \cup UNION {StopOf(w, c, "own") : w \in Tracked(k)}
  /\ Reserve(k)
  /\ Goto(c, "failed")
  /\ UNCHANGED <<mine, worker, live, exec>>

\* The worker has another specification (or, for prewarm, is dead): it is forgotten and
\* its stop awaited before the call goes on.
Replaces(c, k, f, kind) ==
  /\ Begin(c, k, f, kind)
  /\ kind \in {"run", "resume", "prewarm"}
  /\ \E w \in Tracked(k) :
       /\ IF worker[w].dead THEN kind = "prewarm" ELSE ~Fenced(w, f)
       /\ pool' = Without(pool, w)
       /\ stops' = stops \cup StopOf(w, c, "own")
  /\ Reserve(k)
  /\ Goto(c, "replace")
  /\ UNCHANGED <<mine, worker, live, exec>>

\* prewarm: the worker is created, published and started.
Prewarms(c, k) ==
  /\ Create(c, k, pool)
  /\ Spawn(c, worker[c])
  /\ exec' = [exec EXCEPT ![c] = "starting"]
  /\ Goto(c, "warm")

PrewarmCreates(c, k, f) ==
  /\ Begin(c, k, f, "prewarm")
  /\ Tracked(k) = {}
  /\ Prewarms(c, k)
  /\ Reserve(k)
  /\ UNCHANGED stops

PrewarmReuses(c, k, f) ==
  /\ Begin(c, k, f, "prewarm")
  /\ \E w \in Tracked(k) : Reusable(w, f) /\ pool' = Touch(w)
  /\ Reserve(k)
  /\ Goto(c, "prune")
  /\ UNCHANGED <<mine, stops>>
  /\ WorkerUnchanged

\* What was awaited is stopped: the replacement overwrites what the map holds now.
Replaced(c) ==
  /\ pc[c] = "replace"
  /\ ~Waits(c, "own")
  /\ CASE req[c].kind = "run" ->
            /\ Create(c, KeyOf(c), pool)
            /\ Enqueue(c, c)
            /\ Goto(c, "prune")
            /\ UNCHANGED live
       [] req[c].kind = "resume" ->
            /\ Goto(c, "pruneAll")
            /\ UNCHANGED <<mine, pool>>
            /\ WorkerUnchanged
       [] req[c].kind = "prewarm" -> Prewarms(c, KeyOf(c))
  /\ UNCHANGED <<mode, req, reserved, stops>>

\* discard and stopAll forget first and stop then.
Discards(c, k, f) ==
  /\ Begin(c, k, f, "discard")
  /\ pool' = Forgetting(k)
  /\ stops' = stops \cup UNION {StopOf(w, c, "own") : w \in Tracked(k)}
  /\ Goto(c, "drop")
  /\ UNCHANGED <<mine, reserved>>
  /\ WorkerUnchanged

StopsAll(c, k, f) ==
  /\ Begin(c, k, f, "stopAll")
  /\ \A d \in Call : ~InFlight(d)
  /\ pool' = << >>
  /\ reserved' = [key \in Key |-> 0]
  /\ stops' = stops \cup UNION {StopOf(w, c, "own") : w \in ToSet(pool)}
  /\ Goto(c, "drop")
  /\ UNCHANGED mine
  /\ WorkerUnchanged

Dropped(c) ==
  /\ pc[c] = "drop"
  /\ ~Waits(c, "own")
  /\ Goto(c, "done")
  /\ UNCHANGED <<mode, req, mine, pool, reserved, stops>>
  /\ WorkerUnchanged

\* The finally clause.
Finish(c) == Release(KeyOf(c)) /\ Goto(c, "finish")

\* pruneIdleWorkers: the oldest worker that no call reserves and that is dead or not
\* active; the key of the call itself is protected, except after a failed run.
EvictableInUse(c) ==    \* mutant: the reservations are ignored
  {i \in DOMAIN pool :
     /\ KeyOf(pool[i]) = KeyOf(c) => pc[c] = "pruneAll"
     /\ worker[pool[i]].dead \/ ~Active(pool[i])}
Evictable(c) ==
  {i \in DOMAIN pool :
     /\ reserved[KeyOf(pool[i])] = 0
     /\ KeyOf(pool[i]) = KeyOf(c) => pc[c] = "pruneAll"
     /\ worker[pool[i]].dead \/ ~Active(pool[i])}

Pruning(c) == pc[c] \in {"prune", "pruneAll", "finish"} /\ ~Waits(c, "prune")
Crowded(c) == Len(pool) > MaxWorkers /\ Evictable(c) # {}

Evicts(c) ==
  /\ Pruning(c)
  /\ Crowded(c)
  /\ LET w == pool[CHOOSE i \in Evictable(c) : \A j \in Evictable(c) : i <= j]
     IN /\ pool' = Without(pool, w)
        /\ stops' = stops \cup StopOf(w, c, "prune")
  /\ UNCHANGED <<mode, req, pc, mine, reserved>>
  /\ WorkerUnchanged

Pruned(c) ==
  /\ Pruning(c)
  /\ ~Crowded(c)
  /\ CASE pc[c] = "prune" /\ req[c].kind # "prewarm" ->
            Goto(c, "await") /\ UNCHANGED <<reserved, mine, exec>>
       [] pc[c] = "finish" ->
            /\ Goto(c, "done")
            /\ mine' = [mine EXCEPT ![c] = None]
            /\ exec' = [exec EXCEPT ![c] = "none"]
            /\ UNCHANGED reserved
       [] OTHER -> Finish(c) /\ UNCHANGED <<mine, exec>>
  /\ UNCHANGED <<mode, req, pool, stops, worker, live>>

\* The awaited run or start has succeeded.
Succeeded(c) ==
  /\ exec[c] = "ok"
  /\ ~Waits(c, "stale")
  /\ \/ pc[c] = "await" /\ Finish(c)
     \/ pc[c] = "warm" /\ Goto(c, "prune") /\ UNCHANGED reserved
  /\ UNCHANGED <<mode, req, mine, pool, stops>>
  /\ WorkerUnchanged

\* It has failed: a run stops its worker if the map still holds it, prewarm in any case.
OustedRuns(c) ==    \* mutant: a prewarm that fails only forgets its worker
  IF pc[c] = "await" /\ mine[c] \in ToSet(pool) THEN StopOf(mine[c], c, "own") ELSE {}
Ousted(c) ==
  IF pc[c] = "warm" \/ mine[c] \in ToSet(pool) THEN StopOf(mine[c], c, "own") ELSE {}

Failed(c) ==
  /\ pc[c] \in {"await", "warm"}
  /\ exec[c] = "failed"
  /\ ~Waits(c, "stale")
  /\ pool' = Without(pool, mine[c])
  /\ stops' = stops \cup Ousted(c)
  /\ Goto(c, "failed")
  /\ UNCHANGED <<mode, req, mine, reserved>>
  /\ WorkerUnchanged

FailedStopped(c) ==
  /\ pc[c] = "failed"
  /\ ~Waits(c, "own")
  /\ IF req[c].kind = "prewarm" THEN Finish(c)
     ELSE Goto(c, "pruneAll") /\ UNCHANGED reserved
  /\ UNCHANGED <<mode, req, mine, pool, stops>>
  /\ WorkerUnchanged

-----------------------------------------------------------------------------
BeginStep(c) ==
  \E k \in Key, f \in Fence :
    \/ \E kind \in {"run", "resume"} : RunReuses(c, k, f, kind)
    \/ RunCreates(c, k, f)
    \/ ResumeRefused(c, k, f)
    \/ \E kind \in {"run", "resume", "prewarm"} : Replaces(c, k, f, kind)
    \/ PrewarmCreates(c, k, f)
    \/ PrewarmReuses(c, k, f)
    \/ Discards(c, k, f)
    \/ StopsAll(c, k, f)

PoolStep(c) ==
  \/ Replaced(c)
  \/ Dropped(c)
  \/ Evicts(c)
  \/ Pruned(c)
  \/ Succeeded(c)
  \/ Failed(c)
  \/ FailedStopped(c)

ExecStep(c) ==
  \/ ExecStart(c)
  \/ Answered(c)
  \/ Settles(c)
  \/ TimesOut(c)
  \/ StartupTimesOut(c)
  \/ StartupStopped(c)
  \/ Aborted(c)

StopStep(s) ==
  \/ StopKill(s)
  \/ StopEnd(s)
  \/ AbortAccepted(s)
  \/ AbortFails(s)

Next ==
  \/ \E c \in Call : BeginStep(c) \/ PoolStep(c) \/ ExecStep(c)
  \/ \E s \in stops : StopStep(s)
  \/ \E p \in live : ProcessExits(p)
  \/ \E w \in Call : PipeBreaks(w)

Spec == Init /\ [][Next]_vars

-----------------------------------------------------------------------------
Quiet == stops = {} /\ \A c \in Call : ~InFlight(c)

\* Whatever failed, timed out or was replaced: when no call is under way every process
\* is one the pool can still find and stop (prewarm: "so no abandoned process
\* survives"), and the pool is within its limit.
NothingLeft ==
  Quiet => /\ live \subseteq {Process(w) : w \in ToSet(pool)}
           /\ Len(pool) <= MaxWorkers

\* pruneIdleWorkers never stops a worker that a run is queued or executing on, or that
\* a prewarm is starting: what the reservations are for.
PruneSpares ==
  \A s \in stops : s.why = "prune" =>
    worker[s.w].queue = << >> /\ exec[s.w] # "starting"

\* A run that does not resume sees no conversation but its own in the session of its
\* process, whatever the worker did, failed at or was restarted for before
\* (RpcWorker.run: new_session).
FreshSession ==
  \A c \in Call : exec[c] = "running" /\ req[c].kind = "run" =>
    worker[mine[c]].talk = 1

\* The event loop never stops while something is ready: a promise that is settled, a
\* request that is answered or times out, a process that is being killed.
Ready ==
  \/ \E c \in Call : PoolStep(c) \/ ExecStep(c)
  \/ \E s \in stops : StopStep(s)

FairSpec == Spec /\ WF_vars(Ready)

\* Every call of the pool settles, however runs queue on a worker, processes fail and
\* stops overlap.
CallsSettle == []<>(\A c \in Call : ~InFlight(c))
=============================================================================
