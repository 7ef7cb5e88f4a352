------------------------------ MODULE RunJournal ------------------------------
(***************************************************************************)
(* The journal of one run (src/lib/run-journal.mjs) over the event file of *)
(* src/lib/runtime-events.mjs: processes append numbered events and admit  *)
(* the run, one at a time by a queue inside each process and a lock        *)
(* directory between them.                                                 *)
(*                                                                         *)
(* A process that dies leaves its lock directory, and may leave a torn     *)
(* last line or a half-written compaction.  A process that starts later is *)
(* another member of Process.  There is no clock: a lock directory looks   *)
(* stale when its holder is dead, or, unless Prompt, slow.                 *)
(***************************************************************************)
EXTENDS Integers, Sequences

CONSTANTS
  Process, Caller,
  ProcessOf,      \* the process of each caller
  Hash,           \* admission payloads, by their hash
  Prompt,         \* do live holders leave the lock within JOURNAL_LOCK_STALE_MS?
  CanCrash,       \* may processes die?
  CanTear,        \* may a write to the file be cut short, by a death or a full disk?
  MaxRows,        \* a file of this many lines is compacted by the next append,
  Retain,         \*   which keeps this many
  MaxCalls,       \* bound: calls made
  None

ASSUME JournalAssumption ==
  /\ ProcessOf \in [Caller -> Process]
  /\ {Prompt, CanCrash, CanTear} \subseteq BOOLEAN
  /\ {MaxRows, MaxCalls} \subseteq Nat
  /\ Retain \in 1..(MaxRows - 1)
  /\ None \notin Caller \cup Hash \cup Process

VARIABLES
  file,      \* the readable lines of the event file
  torn,      \* does the file end in a line without its newline?
  sidecar,   \* the admission sidecar
  cached,    \* JOURNAL_SEQUENCES of each process
  queue,     \* JOURNAL_TAILS of each process: its callers, in call order
  lock,      \* the caller that made the lock directory
  pc, op,    \* where each caller is, and what it has been called for
  seq,       \* the sequence number it has taken
  found,     \* createRunJournal: its sidecar and its admission line, as read
  returned,  \* the events reported as appended
  accepted,  \* the answers of createRunJournal
  alive,
  calls

store == <<file, torn, sidecar>>
vars == <<file, torn, sidecar, cached, queue, lock, pc, op, seq, found, returned,
          accepted, alive, calls>>

\* Lines and events; `id` numbers the calls, `by` is the writing process.  A
\* compaction marker has no sequence number.
Event == [id : Nat, by : Process \cup {None}, seq : Nat, hash : Hash \cup {None}]
Marker == [id |-> 0, by |-> None, seq |-> 0, hash |-> None]

\* After "write" a call knows what it answers, and leaves the locks: "wrote" a
\* line, "known" admission, "refused" payload or write; "late" never had the lock.
Pc == {"idle", "queued", "wait", "steal", "enter", "sidecar", "sequence", "append",
       "write", "wrote", "known", "refused", "late"}

Mine(c) == ProcessOf[c]

TypeOK ==
  /\ file \in Seq(Event)
  /\ torn \in BOOLEAN
  /\ sidecar \in Hash \cup {None}
  /\ cached \in [Process -> Nat]
  /\ queue \in [Process -> Seq(Caller)]
  /\ lock \in Caller \cup {None}
  /\ pc \in [Caller -> Pc]
  /\ op \in [Caller -> [id : Nat, hash : Hash \cup {None}]]
  /\ seq \in [Caller -> Nat]
  /\ found \in [Caller -> [sidecar : BOOLEAN, line : BOOLEAN]]
  /\ returned \subseteq Event
  /\ accepted \subseteq [id : Nat, hash : Hash, admitted : BOOLEAN]
  /\ alive \subseteq Process
  /\ calls \in Nat

Init ==
  /\ file = <<>> /\ torn = FALSE /\ sidecar = None
  /\ cached = [p \in Process |-> 0]
  /\ queue = [p \in Process |-> <<>>]
  /\ lock = None
  /\ pc = [c \in Caller |-> "idle"]
  /\ op = [c \in Caller |-> [id |-> 0, hash |-> None]]
  /\ seq = [c \in Caller |-> 0]
  /\ found = [c \in Caller |-> [sidecar |-> FALSE, line |-> FALSE]]
  /\ returned = {} /\ accepted = {}
  /\ alive = Process
  /\ calls = 0

Goto(c, here, there) == pc[c] = here /\ pc' = [pc EXCEPT ![c] = there]

Rows == {file[i] : i \in DOMAIN file}

-----------------------------------------------------------------------------
\* withJournalLock and withCrossProcessJournalLock.

\* A call, with the hash of its payload (createRunJournal) or None
\* (appendRunJournalEvent), joins the queue of its process.
Call(c, hash) ==
  /\ Goto(c, "idle", "queued")
  /\ calls < MaxCalls
  /\ calls' = calls + 1
  /\ op' = [op EXCEPT ![c] = [id |-> calls + 1, hash |-> hash]]
  /\ queue' = [queue EXCEPT ![Mine(c)] = Append(@, c)]
  /\ UNCHANGED <<store, cached, lock, seq, found, returned, accepted, alive>>

\* A mutant: the queue is not waited for.
TurnAtOnce(c) ==
  /\ Goto(c, "queued", "wait")
  /\ UNCHANGED <<store, cached, queue, lock, op, seq, found, returned, accepted, alive, calls>>

\* The call before it in the queue has settled.
Turn(c) ==
  /\ Goto(c, "queued", "wait")
  /\ Head(queue[Mine(c)]) = c
  /\ UNCHANGED <<store, cached, queue, lock, op, seq, found, returned, accepted, alive, calls>>

\* mkdir of the lock directory.
Acquire(c) ==
  /\ Goto(c, "wait", "enter")
  /\ lock = None
  /\ lock' = c
  /\ UNCHANGED <<store, cached, queue, op, seq, found, returned, accepted, alive, calls>>

\* Both stats see the same old directory.
SeeStale(c) ==
  /\ Goto(c, "wait", "steal")
  /\ lock # None
  /\ Mine(lock) \notin alive \/ ~Prompt
  /\ UNCHANGED <<store, cached, queue, lock, op, seq, found, returned, accepted, alive, calls>>

\* A mutant: the directory of a dead holder stays.
StealNothing(c) ==
  /\ Goto(c, "steal", "wait")
  /\ UNCHANGED <<store, cached, queue, lock, op, seq, found, returned, accepted, alive, calls>>

\* rm removes the directory that is there now, whoever made it.
Steal(c) ==
  /\ Goto(c, "steal", "wait")
  /\ lock' = None
  /\ UNCHANGED <<store, cached, queue, op, seq, found, returned, accepted, alive, calls>>

\* JOURNAL_LOCK_WAIT_MS has passed, and a mkdir failed again.
TimeOut(c) ==
  /\ Goto(c, "wait", "late")
  /\ lock # None
  /\ UNCHANGED <<store, cached, queue, lock, op, seq, found, returned, accepted, alive, calls>>

-----------------------------------------------------------------------------
\* The bodies.

\* The admission lines of the file; the first one counts.
Admissions == {i \in DOMAIN file : file[i].hash # None}

\* A mutant: any payload is taken for the admitted one.
ConflictIgnored(c) == FALSE

\* createRunJournal: another payload was admitted under this run's name, by the
\* sidecar or, without one, by the file.
Conflict(c) ==
  IF sidecar # None
  THEN sidecar # op[c].hash
  ELSE \E i \in Admissions :
         file[i].hash # op[c].hash /\ \A j \in Admissions : i <= j

\* The body starts: appendRunJournalEvent takes a number, createRunJournal reads
\* both records of the admission.
Enter(c) ==
  /\ Goto(c, "enter",
       IF op[c].hash = None THEN "sequence"
       ELSE IF Conflict(c) THEN "refused"
       ELSE IF sidecar = None THEN "sidecar"
       ELSE IF Admissions # {} THEN "known"
       ELSE "sequence")
  /\ found' = [found EXCEPT ![c] =
       [sidecar |-> sidecar # None, line |-> Admissions # {}]]
  /\ UNCHANGED <<store, cached, queue, lock, op, seq, returned, accepted, alive, calls>>

\* writeAdmissionSidecar: a rename.
WriteSidecar(c) ==
  /\ Goto(c, "sidecar", IF found[c].line THEN "known" ELSE "sequence")
  /\ sidecar' = op[c].hash
  /\ UNCHANGED <<file, torn, cached, queue, lock, op, seq, found, returned, accepted,
                 alive, calls>>

\* What nextSequence knows of: the file and the cache of the process.
Known(c) == {r.seq : r \in Rows} \cup {cached[Mine(c)]}

\* A mutant: the process trusts its own counter.
CachedSequence(c) ==
  /\ Goto(c, "sequence", "append")
  /\ seq' = [seq EXCEPT ![c] = cached[Mine(c)] + 1]
  /\ cached' = [cached EXCEPT ![Mine(c)] = @ + 1]
  /\ UNCHANGED <<store, queue, lock, op, found, returned, accepted, alive, calls>>

\* nextSequence: one more than any number in the file or in this process's cache.
NextSequence(c) ==
  /\ Goto(c, "sequence", "append")
  /\ \E n \in Known(c) :
       /\ \A m \in Known(c) : m <= n
       /\ seq' = [seq EXCEPT ![c] = n + 1]
       /\ cached' = [cached EXCEPT ![Mine(c)] = n + 1]
  /\ UNCHANGED <<store, queue, lock, op, found, returned, accepted, alive, calls>>

Last(n) == SubSeq(file, Len(file) - n + 1, Len(file))

\* A mutant: the compaction keeps the head of the file.
CompactedHead == <<Marker>> \o SubSeq(file, 1, Retain)

Compacted == <<Marker>> \o Last(Retain)

\* compactRuntimeEventFile, before the line is written.
Compact(c) ==
  /\ Goto(c, "append", "write")
  /\ file' = IF Len(file) >= MaxRows THEN Compacted ELSE file
  /\ UNCHANGED <<torn, sidecar, cached, queue, lock, op, seq, found, returned, accepted,
                 alive, calls>>

Line(c) == [id |-> op[c].id, by |-> Mine(c), seq |-> seq[c], hash |-> op[c].hash]

\* appendFile: behind a torn line the new one cannot be read either.
Write(c) ==
  /\ Goto(c, "write", "wrote")
  /\ file' = IF torn THEN file ELSE Append(file, Line(c))
  /\ torn' = FALSE
  /\ UNCHANGED <<sidecar, cached, queue, lock, op, seq, found, returned, accepted, alive, calls>>

\* A full disk: a part of the line, or nothing.
WriteFails(c) ==
  /\ CanTear
  /\ Goto(c, "write", "refused")
  /\ torn' \in {torn, TRUE}
  /\ UNCHANGED <<file, sidecar, cached, queue, lock, op, seq, found, returned, accepted,
                 alive, calls>>

Answer(c) == [id |-> op[c].id, hash |-> op[c].hash,
              admitted |-> pc[c] = "wrote" /\ ~found[c].sidecar]

\* The call settles, and its process turns to the next one.
Settle(c) ==
  /\ pc' = [pc EXCEPT ![c] = "idle"]
  /\ queue' = [queue EXCEPT ![Mine(c)] = Tail(@)]
  /\ UNCHANGED <<store, cached, op, seq, found, alive, calls>>

\* The end of both locks; rm removes the directory that is there.
Leave(c) ==
  /\ pc[c] \in {"wrote", "known", "refused"}
  /\ lock' = None
  /\ returned' = IF pc[c] = "wrote" THEN returned \cup {Line(c)} ELSE returned
  /\ accepted' = IF pc[c] # "refused" /\ op[c].hash # None
                 THEN accepted \cup {Answer(c)}
                 ELSE accepted
  /\ Settle(c)

\* UES_RUN_JOURNAL_LOCK_TIMEOUT.
GiveUp(c) ==
  /\ pc[c] = "late"
  /\ Settle(c)
  /\ UNCHANGED <<lock, returned, accepted>>

-----------------------------------------------------------------------------
\* Process deaths.

Crash(p) ==
  /\ CanCrash
  /\ alive' = alive \ {p}
  /\ UNCHANGED <<store, cached, queue, lock, pc, op, seq, found, returned, accepted, calls>>

\* A death inside appendFile leaves a part of the line; inside the compaction's
\* writeFile, a part of the new content.
TearingCrash(c) ==
  /\ CanTear
  /\ alive' = alive \ {Mine(c)}
  /\ \/ pc[c] = "write" /\ torn' = TRUE /\ UNCHANGED file
     \/ /\ pc[c] = "append"
        /\ Len(file) >= MaxRows
        /\ \E n \in 0..Len(Compacted) : file' = SubSeq(Compacted, 1, n)
        /\ torn' \in BOOLEAN
  /\ UNCHANGED <<sidecar, cached, queue, lock, pc, op, seq, found, returned, accepted, calls>>

CallerStep(c) ==
  \/ Turn(c) \/ Acquire(c) \/ SeeStale(c) \/ Steal(c) \/ TimeOut(c)
  \/ Enter(c) \/ WriteSidecar(c) \/ NextSequence(c) \/ Compact(c) \/ Write(c) \/ WriteFails(c)
  \/ Leave(c) \/ GiveUp(c)

Next ==
  \/ \E c \in Caller :
       /\ Mine(c) \in alive
       /\ \/ \E hash \in Hash \cup {None} : Call(c, hash)
          \/ CallerStep(c)
          \/ TearingCrash(c)
  \/ \E p \in alive : Crash(p)

Spec == Init /\ [][Next]_vars

\* A live process runs its callbacks.
FairSpec == Spec /\ \A c \in Caller : WF_vars(Mine(c) \in alive /\ CallerStep(c))

-----------------------------------------------------------------------------
\* Properties.

\* A parent and its children never number two events the same (nextSequence).
SequenceNames ==
  \A a, b \in returned : a.seq = b.seq => a = b

\* The file lists events by rising numbers, also after a compaction.
SequenceRises ==
  \A i, j \in DOMAIN file :
    i < j /\ file[j] # Marker => file[i].seq < file[j].seq

\* An event stays readable at least until a later one is in the file: what the
\* recovery of integrations and of tool calls rests on.
NewestReadable ==
  \A a \in returned : \E r \in Rows : r.seq >= a.seq

\* Calls of one process take effect in the order they were made, though some are
\* not awaited (withJournalLock).
CallOrder ==
  \A a, b \in returned : a.by = b.by /\ a.id < b.id => a.seq < b.seq

\* A run is admitted with one payload and at most once, also after the file lost
\* its admission (createRunJournal).
AdmittedOnce ==
  \A a, b \in accepted : a.hash = b.hash /\ (a.admitted /\ b.admitted => a = b)

\* Every call of a live process settles, whoever died with the lock: a controller
\* awaits its journal between two steps of its work.
CallsSettle ==
  \A c \in Caller : pc[c] = "queued" ~> (pc[c] = "idle" \/ Mine(c) \notin alive)
=============================================================================
