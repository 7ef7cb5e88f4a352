--------------------------- MODULE RunJournalProofs ---------------------------
(***************************************************************************)
(* Proofs about RunJournal, for any number of processes, callers, payloads *)
(* and calls and any size of the event file.                               *)
(***************************************************************************)
EXTENDS RunJournal, SequenceTheorems, TLAPS

USE DEF store, Goto, Mine

-----------------------------------------------------------------------------
(***************************************************************************)
(* Type correctness.  A call that has not settled is in the queue of its   *)
(* process, and the one that is past "queued" heads it, so that the end of *)
(* a call never takes an entry from an empty queue.                        *)
(***************************************************************************)
Over == {"idle", "queued"}

QueueInv ==
  \A c \in Caller :
    /\ pc[c] # "idle" =>
         \E i \in 1..Len(queue[Mine(c)]) : queue[Mine(c)][i] = c
    /\ pc[c] \notin Over => queue[Mine(c)][1] = c

TypeInv == TypeOK /\ QueueInv

\* Steps that leave the queues and the set of settled calls as they are.
SameQueues ==
  /\ queue' = queue
  /\ \A c \in Caller :
       /\ pc'[c] # "idle" => pc[c] # "idle"
       /\ pc'[c] \notin Over => pc[c] \notin Over \/ Head(queue[Mine(c)]) = c

LEMMA QueueSame == TypeInv /\ SameQueues => QueueInv'
<1> SUFFICES ASSUME TypeInv, SameQueues, NEW c \in Caller
             PROVE  /\ pc'[c] # "idle" =>
                         \E i \in 1..Len(queue[Mine(c)]) : queue[Mine(c)][i] = c
                    /\ pc'[c] \notin Over => queue[Mine(c)][1] = c
  BY DEF SameQueues, QueueInv
<1> DEFINE q == queue[Mine(c)]
<1>1. q \in Seq(Caller)
  BY JournalAssumption DEF TypeInv, TypeOK, JournalAssumption
<1>2. pc'[c] # "idle" => q # << >>
  BY <1>1 DEF TypeInv, QueueInv, SameQueues
<1>3. q # << >> => Head(q) = q[1]
  BY <1>1
<1>4. QED
  BY <1>2, <1>3 DEF TypeInv, QueueInv, SameQueues, Over

LEMMA MarkerType == Marker \in Event
  BY DEF Marker, Event

\* The compaction of a file keeps its last Retain lines behind a marker.
LEMMA CompactedFile ==
  ASSUME file \in Seq(Event), Len(file) >= MaxRows
  PROVE  /\ Compacted \in Seq(Event)
         /\ Len(Compacted) = Retain + 1
         /\ Compacted[1] = Marker
         /\ \A i \in 2..(Retain + 1) :
              Compacted[i] = file[Len(file) - Retain + i - 1]
<1> DEFINE m == Len(file) - Retain + 1
           kept == SubSeq(file, m, Len(file))
<1>1. /\ Len(file) \in Nat /\ Retain \in Nat /\ MaxRows \in Nat
      /\ 1 <= Retain /\ Retain < MaxRows
  BY JournalAssumption
<1>2. m \in Int /\ \A i \in m..Len(file) : file[i] \in Event
  BY <1>1
<1> HIDE DEF m
<1>3. /\ kept \in Seq(Event)
      /\ Len(kept) = IF m <= Len(file) THEN Len(file) - m + 1 ELSE 0
      /\ \A i \in 1..(Len(file) - m + 1) : kept[i] = file[m + i - 1]
  BY <1>1, <1>2, SubSeqProperties
<1>4. /\ kept \in Seq(Event)
      /\ Len(kept) = Retain
      /\ \A i \in 1..Retain : kept[i] = file[Len(file) - Retain + i]
  BY <1>1, <1>3 DEF m
<1>5. Compacted = <<Marker>> \o kept
  BY DEF Compacted, Last, m
<1> HIDE DEF kept
<1>6. <<Marker>> \in Seq(Event) /\ Len(<<Marker>>) = 1 /\ <<Marker>>[1] = Marker
  BY MarkerType
<1>7. /\ Compacted \in Seq(Event)
      /\ Len(Compacted) = 1 + Retain
      /\ \A i \in 1..(1 + Retain) :
           Compacted[i] = IF i <= 1 THEN <<Marker>>[i] ELSE kept[i - 1]
  BY <1>4, <1>5, <1>6, ConcatProperties
<1>8. QED
  BY <1>1, <1>4, <1>6, <1>7

LEMMA TypeInit == Init => TypeInv
<1> SUFFICES ASSUME Init PROVE TypeInv
  OBVIOUS
<1>1. file \in Seq(Event) /\ queue \in [Process -> Seq(Caller)]
  BY DEF Init
<1>2. op \in [Caller -> [id : Nat, hash : Hash \cup {None}]]
  BY DEF Init
<1>3. found \in [Caller -> [sidecar : BOOLEAN, line : BOOLEAN]]
  BY DEF Init
<1>4. cached \in [Process -> Nat] /\ seq \in [Caller -> Nat] /\ pc \in [Caller -> Pc]
  BY DEF Init, Pc
<1>5. TypeOK
  BY <1>1, <1>2, <1>3, <1>4 DEF Init, TypeOK
<1>6. QueueInv
  BY DEF Init, QueueInv, Over
<1>7. QED BY <1>5, <1>6 DEF TypeInv

LEMMA LineType ==
  ASSUME TypeOK, NEW c \in Caller
  PROVE  Line(c) \in Event
  BY JournalAssumption DEF TypeOK, Line, Event

LEMMA FileType ==
  ASSUME TypeOK
  PROVE  /\ Len(file) \in Nat /\ DOMAIN file = 1..Len(file)
         /\ \A i \in DOMAIN file : file[i] \in Event /\ file[i].seq \in Nat
<1>1. file \in Seq(Event) BY DEF TypeOK
<1>2. Len(file) \in Nat /\ DOMAIN file = 1..Len(file) BY <1>1, LenProperties
<1>3. \A i \in DOMAIN file : file[i] \in Event BY <1>1, <1>2, ElementOfSeq
<1>4. QED BY <1>2, <1>3 DEF Event

LEMMA KnownType ==
  ASSUME TypeOK, NEW c \in Caller
  PROVE  /\ Known(c) \subseteq Nat
         /\ \A i \in DOMAIN file : file[i].seq \in Known(c)
<1>1. cached[Mine(c)] \in Nat BY JournalAssumption DEF TypeOK
<1>2. Rows = {file[i] : i \in DOMAIN file} BY DEF Rows
<1>3. QED BY <1>1, <1>2, FileType DEF Known

\* A call joins the queue of its process.
LEMMA TypeCall ==
  ASSUME TypeInv, NEW c \in Caller, NEW hash \in Hash \cup {None}, Call(c, hash)
  PROVE  TypeInv'
<1> DEFINE q == queue[Mine(c)]
<1>1. Mine(c) \in Process /\ q \in Seq(Caller) /\ Len(q) \in Nat
  BY JournalAssumption DEF TypeInv, TypeOK
<1>2. /\ Append(q, c) \in Seq(Caller)
      /\ Len(Append(q, c)) = Len(q) + 1
      /\ \A i \in 1..Len(q) : Append(q, c)[i] = q[i]
      /\ Append(q, c)[Len(q) + 1] = c
  BY <1>1
<1>3. TypeOK'
  <2>1. queue' \in [Process -> Seq(Caller)] BY <1>1, <1>2 DEF TypeInv, TypeOK, Call
  <2>2. pc' \in [Caller -> Pc] BY DEF TypeInv, TypeOK, Call, Goto, Pc
  <2>3. calls' \in Nat /\ op' \in [Caller -> [id : Nat, hash : Hash \cup {None}]]
    BY DEF TypeInv, TypeOK, Call
  <2>4. QED BY <2>1, <2>2, <2>3 DEF TypeInv, TypeOK, Call, store
<1>4. ASSUME NEW d \in Caller, Mine(d) # Mine(c)
      PROVE  /\ pc'[d] # "idle" =>
                  \E i \in 1..Len(queue'[Mine(d)]) : queue'[Mine(d)][i] = d
             /\ pc'[d] \notin Over => queue'[Mine(d)][1] = d
  <2>1. queue'[Mine(d)] = queue[Mine(d)] /\ pc'[d] = pc[d]
    BY <1>4, JournalAssumption DEF Call, TypeInv, TypeOK
  <2>2. QED BY <2>1 DEF TypeInv, QueueInv
<1>5. ASSUME NEW d \in Caller, Mine(d) = Mine(c)
      PROVE  /\ pc'[d] # "idle" =>
                  \E i \in 1..Len(queue'[Mine(d)]) : queue'[Mine(d)][i] = d
             /\ pc'[d] \notin Over => queue'[Mine(d)][1] = d
  <2>1. queue'[Mine(d)] = Append(q, c)
    BY <1>1, <1>5 DEF Call, TypeInv, TypeOK
  <2>2. CASE d = c
    <3>1. pc'[d] = "queued"
      BY <2>2 DEF Call, TypeInv, TypeOK
    <3>2. QED BY <1>1, <1>2, <2>1, <2>2, <3>1 DEF Over
  <2>3. CASE d # c
    <3>1. pc'[d] = pc[d]
      BY <2>3 DEF Call, TypeInv, TypeOK
    <3>2. pc[d] # "idle" => \E i \in 1..Len(q) : q[i] = d
      BY <1>5 DEF TypeInv, QueueInv
    <3>3. pc[d] \notin Over => q[1] = d
      BY <1>5 DEF TypeInv, QueueInv
    <3>4. pc[d] \notin Over => 1 \in 1..Len(q)
      BY <1>1, <3>2 DEF Over
    <3>5. QED BY <1>1, <1>2, <2>1, <3>1, <3>2, <3>3, <3>4
  <2>4. QED BY <2>2, <2>3
<1>6. QED
  BY <1>3, <1>4, <1>5 DEF TypeInv, QueueInv

\* A call settles: it heads its queue, and the others move up.
LEMMA TypeSettle ==
  ASSUME TypeInv, NEW c \in Caller, pc[c] \notin Over, Settle(c)
  PROVE  /\ queue' \in [Process -> Seq(Caller)]
         /\ QueueInv'
<1> DEFINE q == queue[Mine(c)]
<1>1. Mine(c) \in Process /\ q \in Seq(Caller) /\ Len(q) \in Nat
  BY JournalAssumption DEF TypeInv, TypeOK
<1>2. q[1] = c /\ q # << >>
  BY <1>1 DEF TypeInv, QueueInv, Over
<1>3. /\ Tail(q) \in Seq(Caller)
      /\ Len(Tail(q)) = Len(q) - 1
      /\ \A i \in 1..Len(Tail(q)) : Tail(q)[i] = q[i + 1]
  BY <1>1, <1>2, HeadTailProperties
<1>4. queue' \in [Process -> Seq(Caller)]
  BY <1>1, <1>3 DEF Settle, TypeInv, TypeOK
<1>5. ASSUME NEW d \in Caller
      PROVE  /\ pc'[d] # "idle" =>
                  \E i \in 1..Len(queue'[Mine(d)]) : queue'[Mine(d)][i] = d
             /\ pc'[d] \notin Over => queue'[Mine(d)][1] = d
  <2>1. CASE d = c
    BY <2>1 DEF Settle, TypeInv, TypeOK, Over
  <2>2. CASE d # c /\ Mine(d) # Mine(c)
    <3>1. queue'[Mine(d)] = queue[Mine(d)] /\ pc'[d] = pc[d]
      BY <2>2, JournalAssumption DEF Settle, TypeInv, TypeOK
    <3>2. QED BY <3>1 DEF TypeInv, QueueInv
  <2>3. CASE d # c /\ Mine(d) = Mine(c)
    <3>1. queue'[Mine(d)] = Tail(q) /\ pc'[d] = pc[d]
      BY <1>1, <2>3 DEF Settle, TypeInv, TypeOK
    <3>2. pc[d] \in Over
      BY <1>2, <2>3 DEF TypeInv, QueueInv
    <3>3. pc[d] # "idle" => \E i \in 1..Len(q) : q[i] = d /\ i # 1
      BY <1>2, <2>3 DEF TypeInv, QueueInv
    <3>4. ASSUME NEW i \in 1..Len(q), i # 1
          PROVE  i - 1 \in 1..Len(Tail(q)) /\ Tail(q)[i - 1] = q[i]
      BY <1>1, <1>3, <3>4
    <3>5. QED BY <3>1, <3>2, <3>3, <3>4
  <2>4. QED BY <2>1, <2>2, <2>3
<1>6. QED
  BY <1>4, <1>5 DEF QueueInv

LEMMA TypeCallerStep ==
  ASSUME TypeInv, NEW c \in Caller, CallerStep(c)
  PROVE  TypeInv'
<1> USE JournalAssumption
<1> SUFFICES TypeOK' /\ QueueInv'
  BY DEF TypeInv
<1>1. CASE Turn(c)
  <2>1. SameQueues BY <1>1 DEF Turn, SameQueues, TypeInv, TypeOK, Over
  <2>2. QED BY <1>1, <2>1, QueueSame DEF Turn, TypeInv, TypeOK, Pc
<1>2. CASE Acquire(c)
  <2>1. SameQueues BY <1>2 DEF Acquire, SameQueues, TypeInv, TypeOK, Over
  <2>2. QED BY <1>2, <2>1, QueueSame DEF Acquire, TypeInv, TypeOK, Pc
<1>3. CASE SeeStale(c)
  <2>1. SameQueues BY <1>3 DEF SeeStale, SameQueues, TypeInv, TypeOK, Over
  <2>2. QED BY <1>3, <2>1, QueueSame DEF SeeStale, TypeInv, TypeOK, Pc
<1>4. CASE Steal(c)
  <2>1. SameQueues BY <1>4 DEF Steal, SameQueues, TypeInv, TypeOK, Over
  <2>2. QED BY <1>4, <2>1, QueueSame DEF Steal, TypeInv, TypeOK, Pc
<1>5. CASE TimeOut(c)
  <2>1. SameQueues BY <1>5 DEF TimeOut, SameQueues, TypeInv, TypeOK, Over
  <2>2. QED BY <1>5, <2>1, QueueSame DEF TimeOut, TypeInv, TypeOK, Pc
<1>6. CASE Enter(c)
  <2>1. SameQueues BY <1>6 DEF Enter, SameQueues, TypeInv, TypeOK, Over
  <2>2. [sidecar |-> sidecar # None, line |-> Admissions # {}]
          \in [sidecar : BOOLEAN, line : BOOLEAN]
    OBVIOUS
  <2>3. QED BY <1>6, <2>1, <2>2, QueueSame DEF Enter, TypeInv, TypeOK, Pc
<1>7. CASE WriteSidecar(c)
  <2>1. SameQueues BY <1>7 DEF WriteSidecar, SameQueues, TypeInv, TypeOK, Over
  <2>2. op[c].hash \in Hash \cup {None} BY DEF TypeInv, TypeOK
  <2>3. QED BY <1>7, <2>1, <2>2, QueueSame DEF WriteSidecar, TypeInv, TypeOK, Pc
<1>8. CASE NextSequence(c)
  <2>1. SameQueues BY <1>8 DEF NextSequence, SameQueues, TypeInv, TypeOK, Over
  <2>2. Known(c) \subseteq Nat BY KnownType DEF TypeInv
  <2>3. QueueInv' BY <2>1, QueueSame
  <2>4. /\ seq' \in [Caller -> Nat] /\ cached' \in [Process -> Nat]
    <3>1. PICK n \in Known(c) : /\ seq' = [seq EXCEPT ![c] = n + 1]
                               /\ cached' = [cached EXCEPT ![Mine(c)] = n + 1]
      BY <1>8 DEF NextSequence
    <3>2. n + 1 \in Nat BY <2>2
    <3>3. QED BY <3>1, <3>2 DEF TypeInv, TypeOK
  <2>5. pc' \in [Caller -> Pc] BY <1>8 DEF NextSequence, Goto, TypeInv, TypeOK, Pc
  <2>6. UNCHANGED <<store, queue, lock, op, found, returned, accepted, alive, calls>>
    BY <1>8 DEF NextSequence
  <2>7. TypeOK' BY <2>4, <2>5, <2>6 DEF TypeInv, TypeOK, store
  <2>8. QED BY <2>3, <2>7 DEF TypeInv
<1>9. CASE Compact(c)
  <2>1. SameQueues BY <1>9 DEF Compact, SameQueues, TypeInv, TypeOK, Over
  <2>2. file' \in Seq(Event) BY <1>9, CompactedFile DEF Compact, TypeInv, TypeOK
  <2>3. QED BY <1>9, <2>1, <2>2, QueueSame DEF Compact, TypeInv, TypeOK, Pc
<1>10. CASE Write(c)
  <2>1. SameQueues BY <1>10 DEF Write, SameQueues, TypeInv, TypeOK, Over
  <2>2. Line(c) \in Event BY LineType DEF TypeInv
  <2>3. file' \in Seq(Event)
    <3>1. file \in Seq(Event) BY DEF TypeInv, TypeOK
    <3>2. Append(file, Line(c)) \in Seq(Event) BY <2>2, <3>1, AppendProperties
    <3>3. QED BY <1>10, <3>1, <3>2 DEF Write
  <2>4. QED BY <1>10, <2>1, <2>3, QueueSame DEF Write, TypeInv, TypeOK, Pc
<1>11. CASE WriteFails(c)
  <2>1. SameQueues BY <1>11 DEF WriteFails, SameQueues, TypeInv, TypeOK, Over
  <2>2. QED BY <1>11, <2>1, QueueSame DEF WriteFails, TypeInv, TypeOK, Pc
<1>12. CASE Leave(c)
  <2>1. pc[c] \notin Over BY <1>12 DEF Leave, Over
  <2>2. queue' \in [Process -> Seq(Caller)] /\ QueueInv'
    BY <1>12, <2>1, TypeSettle DEF Leave
  <2>3. Line(c) \in Event BY LineType DEF TypeInv
  <2>4. op[c].hash # None => Answer(c) \in [id : Nat, hash : Hash, admitted : BOOLEAN]
    BY DEF Answer, TypeInv, TypeOK
  <2>5. returned' \subseteq Event
    BY <1>12, <2>3 DEF Leave, TypeInv, TypeOK
  <2>6. accepted' \subseteq [id : Nat, hash : Hash, admitted : BOOLEAN]
    BY <1>12, <2>4 DEF Leave, TypeInv, TypeOK
  <2>7. QED BY <1>12, <2>2, <2>5, <2>6 DEF Leave, Settle, TypeInv, TypeOK, Pc
<1>13. CASE GiveUp(c)
  <2>1. pc[c] \notin Over BY <1>13 DEF GiveUp, Over
  <2>2. queue' \in [Process -> Seq(Caller)] /\ QueueInv'
    BY <1>13, <2>1, TypeSettle DEF GiveUp
  <2>3. QED BY <1>13, <2>2 DEF GiveUp, Settle, TypeInv, TypeOK, Pc
<1>14. QED
  BY <1>1, <1>2, <1>3, <1>4, <1>5, <1>6, <1>7, <1>8, <1>9, <1>10, <1>11, <1>12, <1>13
     DEF CallerStep

LEMMA TypeDeath ==
  ASSUME TypeInv,
         \/ \E c \in Caller : TearingCrash(c)
         \/ \E p \in alive : Crash(p)
         \/ UNCHANGED vars
  PROVE  TypeInv'
<1>1. SameQueues
  BY DEF SameQueues, TearingCrash, Crash, vars
<1>2. QueueInv' BY <1>1, QueueSame
<1>3. CASE \E p \in alive : Crash(p)
  BY <1>2, <1>3 DEF Crash, TypeInv, TypeOK
<1>4. CASE UNCHANGED vars
  BY <1>2, <1>4 DEF vars, TypeInv, TypeOK
<1>5. ASSUME NEW c \in Caller, TearingCrash(c) PROVE TypeInv'
  <2>1. CASE UNCHANGED file
    BY <1>2, <1>5, <2>1 DEF TearingCrash, TypeInv, TypeOK
  <2>2. CASE Len(file) >= MaxRows /\ \E n \in 0..Len(Compacted) : file' = SubSeq(Compacted, 1, n)
    <3>1. PICK n \in 0..Len(Compacted) : file' = SubSeq(Compacted, 1, n)
      BY <2>2
    <3>2. Compacted \in Seq(Event) /\ Len(Compacted) \in Nat
      BY <2>2, CompactedFile DEF TypeInv, TypeOK
    <3>3. n \in Int /\ \A i \in 1..n : Compacted[i] \in Event
      BY <3>2
    <3>4. file' \in Seq(Event)
      BY <3>1, <3>3, SubSeqProperties
    <3>5. QED BY <1>2, <1>5, <3>4 DEF TearingCrash, TypeInv, TypeOK
  <2>3. QED BY <1>5, <2>1, <2>2 DEF TearingCrash
<1>6. QED BY <1>3, <1>4, <1>5

LEMMA TypeStep == TypeInv /\ [Next]_vars => TypeInv'
  BY TypeCall, TypeCallerStep, TypeDeath DEF Next

\* Every reachable state is well typed, whatever dies or fails; in particular
\* the end of a call always finds its entry at the head of its queue.
THEOREM TypeCorrect == Spec => []TypeOK
<1>1. TypeInv => TypeOK BY DEF TypeInv
<1>2. QED BY TypeInit, TypeStep, <1>1, PTL DEF Spec

-----------------------------------------------------------------------------
(***************************************************************************)
(* Exclusion, while live holders leave in time.  A caller that is about to *)
(* remove the lock directory has seen a dead holder, and the directory is  *)
(* still that one's, unless somebody else removes it first.  Without       *)
(* deaths there is no such caller; with them it is the only one as long as *)
(* one process is left, which has one caller past its queue: so a parent   *)
(* and its child exclude each other whichever of them dies (three          *)
(* processes do not: MCJournalStolen.cfg).                                 *)
(***************************************************************************)
Inside == {"enter", "sidecar", "sequence", "append", "write", "wrote", "known", "refused"}

TwoProcesses == \A p, q, r \in Process : p = q \/ q = r \/ r = p

Guarded == Prompt /\ (CanCrash \/ CanTear => TwoProcesses)

Live(c) == Mine(c) \in alive

LockInv ==
  /\ ~CanCrash /\ ~CanTear => alive = Process
  /\ ~CanTear => torn = FALSE
  /\ \A c \in Caller : Live(c) =>
       /\ pc[c] = "steal" => lock # None /\ ~Live(lock)
       /\ pc[c] \in Inside => lock = c

LEMMA LockInit == Init => LockInv
  BY DEF Init, LockInv, Inside

\* A step of caller c that is not one of the lock's.
LEMMA LockQuiet ==
  ASSUME TypeInv, LockInv, NEW c \in Caller, alive' = alive, lock' = lock,
         NEW there, pc' = [pc EXCEPT ![c] = there], there # "steal",
         there \in Inside => pc[c] \in Inside,
         torn' = torn \/ torn' = FALSE \/ CanTear
  PROVE  LockInv'
<1>1. ASSUME NEW d \in Caller
      PROVE  pc'[d] = pc[d] \/ (d = c /\ pc'[d] = there)
  BY DEF TypeInv, TypeOK
<1>2. QED BY <1>1 DEF LockInv, Live

\* The one caller that is about to remove the directory of a dead holder.
LEMMA OneThief ==
  ASSUME Guarded, TypeInv, LockInv,
         NEW c \in Caller, Live(c), pc[c] = "steal",
         NEW d \in Caller, Live(d)
  PROVE  pc[d] \notin Inside /\ (pc[d] = "steal" => d = c)
<1>1. lock # None /\ ~Live(lock) /\ lock \in Caller
  BY DEF LockInv, TypeInv, TypeOK
<1>2. pc[d] \notin Inside
  BY <1>1 DEF LockInv
<1>3. Mine(lock) \in Process /\ Mine(c) \in Process /\ Mine(d) \in Process
  BY <1>1, JournalAssumption
<1>4. CanCrash \/ CanTear
  BY <1>1, <1>3 DEF LockInv, Live
<1>5. Mine(c) = Mine(d)
  BY <1>1, <1>3, <1>4 DEF Guarded, TwoProcesses, Live
<1>6. pc[d] = "steal" => d = c
  BY <1>5 DEF TypeInv, QueueInv, Over
<1>7. QED BY <1>2, <1>6

LEMMA LockStep ==
  ASSUME Guarded, TypeInv, LockInv, [Next]_vars
  PROVE  LockInv'
<1>0. pc \in [Caller -> Pc] BY DEF TypeInv, TypeOK
<1>1. ASSUME NEW c \in Caller, NEW hash \in Hash \cup {None}, Call(c, hash) PROVE LockInv'
  BY <1>1, LockQuiet DEF Call, Inside
<1>2. ASSUME NEW c \in Caller, Live(c), CallerStep(c) PROVE LockInv'
  <2>1. CASE Turn(c) BY <2>1, LockQuiet DEF Turn, Inside
  <2>2. CASE Acquire(c)
    <3>1. /\ lock = None /\ lock' = c /\ alive' = alive /\ torn' = torn /\ pc'[c] = "enter"
          /\ \A d \in Caller : d # c => pc'[d] = pc[d]
      BY <1>0, <2>2 DEF Acquire
    <3>2. \A d \in Caller : Live(d) => pc[d] \notin Inside \cup {"steal"}
      BY <3>1, JournalAssumption DEF LockInv
    <3>3. QED BY <3>1, <3>2 DEF LockInv, Live
  <2>3. CASE SeeStale(c)
    <3>1. /\ lock # None /\ ~Live(lock) /\ lock' = lock /\ alive' = alive /\ torn' = torn
          /\ pc'[c] = "steal"
          /\ \A d \in Caller : d # c => pc'[d] = pc[d]
      BY <1>0, <2>3 DEF SeeStale, Guarded, Live
    <3>2. QED BY <3>1 DEF LockInv, Live, Inside
  <2>4. CASE Steal(c)
    <3>1. /\ alive' = alive /\ torn' = torn /\ pc'[c] = "wait" /\ pc[c] = "steal"
          /\ \A d \in Caller : d # c => pc'[d] = pc[d]
      BY <1>0, <2>4 DEF Steal
    <3>2. \A d \in Caller : Live(d) => pc'[d] \notin Inside \cup {"steal"}
      BY <1>2, <3>1, OneThief DEF Inside
    <3>3. QED BY <3>1, <3>2 DEF LockInv, Live
  <2>5. CASE TimeOut(c) BY <2>5, LockQuiet DEF TimeOut, Inside
  <2>6. CASE Enter(c)
    <3> DEFINE there == IF op[c].hash = None THEN "sequence"
                        ELSE IF Conflict(c) THEN "refused"
                        ELSE IF sidecar = None THEN "sidecar"
                        ELSE IF Admissions # {} THEN "known"
                        ELSE "sequence"
    <3>1. pc[c] = "enter" /\ pc' = [pc EXCEPT ![c] = there] BY <2>6 DEF Enter
    <3>2. there # "steal" OBVIOUS
    <3> HIDE DEF there
    <3>3. QED BY <2>6, <3>1, <3>2, LockQuiet DEF Enter, Inside
  <2>7. CASE WriteSidecar(c)
    <3> DEFINE there == IF found[c].line THEN "known" ELSE "sequence"
    <3>1. pc[c] = "sidecar" /\ pc' = [pc EXCEPT ![c] = there] BY <2>7 DEF WriteSidecar
    <3>2. there # "steal" OBVIOUS
    <3> HIDE DEF there
    <3>3. QED BY <2>7, <3>1, <3>2, LockQuiet DEF WriteSidecar, Inside
  <2>8. CASE NextSequence(c) BY <2>8, LockQuiet DEF NextSequence, Inside
  <2>9. CASE Compact(c) BY <2>9, LockQuiet DEF Compact, Inside
  <2>10. CASE Write(c) BY <2>10, LockQuiet DEF Write, Inside
  <2>11. CASE WriteFails(c) BY <2>11, LockQuiet DEF WriteFails, Inside
  <2>12. CASE Leave(c)
    <3>1. /\ alive' = alive /\ torn' = torn /\ pc'[c] = "idle" /\ pc[c] \in Inside
          /\ \A d \in Caller : d # c => pc'[d] = pc[d]
      BY <1>0, <2>12 DEF Leave, Settle, Inside
    <3>2. lock = c /\ Live(lock) BY <1>2, <3>1 DEF LockInv
    <3>3. \A d \in Caller : Live(d) => pc'[d] \notin Inside \cup {"steal"}
      BY <3>1, <3>2 DEF LockInv, Inside
    <3>4. QED BY <3>1, <3>3 DEF LockInv, Live
  <2>13. CASE GiveUp(c) BY <2>13, LockQuiet DEF GiveUp, Settle, Inside
  <2>14. QED
    BY <1>2, <2>1, <2>2, <2>3, <2>4, <2>5, <2>6, <2>7, <2>8, <2>9, <2>10, <2>11, <2>12, <2>13
       DEF CallerStep
<1>3. ASSUME NEW c \in Caller, TearingCrash(c) PROVE LockInv'
  BY <1>3 DEF TearingCrash, LockInv, Live
<1>4. ASSUME NEW p \in alive, Crash(p) PROVE LockInv'
  BY <1>4 DEF Crash, LockInv, Live
<1>5. CASE UNCHANGED vars BY <1>5 DEF vars, LockInv, Live
<1>6. QED BY <1>1, <1>2, <1>3, <1>4, <1>5 DEF Next, Live

ExclusionInv == TypeInv /\ LockInv

LEMMA ExclusionStep == Guarded => (ExclusionInv /\ [Next]_vars => ExclusionInv')
  BY TypeStep, LockStep DEF ExclusionInv

OneInside == \A c, d \in Caller :
  Live(c) /\ Live(d) /\ pc[c] \in Inside /\ pc[d] \in Inside => c = d

\* One live call at a time is between the locks, of however many processes when
\* none dies, and of two whichever dies, wherever it stands.
THEOREM BodiesExclude ==
  ASSUME Guarded
  PROVE  Spec => []OneInside
<1>1. Init => ExclusionInv BY TypeInit, LockInit DEF ExclusionInv
<1>2. ExclusionInv /\ [Next]_vars => ExclusionInv' BY ExclusionStep
<1>3. ExclusionInv => OneInside BY DEF ExclusionInv, LockInv, OneInside
<1>4. QED BY <1>1, <1>2, <1>3, PTL DEF Spec

-----------------------------------------------------------------------------
(***************************************************************************)
(* The order of the events, while the bodies exclude each other and no     *)
(* write is cut short: one live call at a time is between the number it    *)
(* takes and the line it writes.  The numbers rise along the file (a       *)
(* marker, numbered 0, can only be its first line), the highest number     *)
(* reported is still readable, and so is that of a line just written; a    *)
(* number just taken is above all of these.                                *)
(***************************************************************************)
OrderInv ==
  /\ \A i, j \in DOMAIN file : i < j => file[i].seq < file[j].seq
  /\ \A a \in returned : \E i \in DOMAIN file : file[i].seq >= a.seq
  /\ \A a, b \in returned : a.seq = b.seq => a = b
  /\ \A c \in Caller : Live(c) =>
       /\ pc[c] \in {"append", "write"} => \A i \in DOMAIN file : file[i].seq < seq[c]
       /\ pc[c] = "wrote" => \E i \in DOMAIN file : file[i].seq = seq[c]
       /\ pc[c] \in {"append", "write", "wrote"} => \A a \in returned : a.seq < seq[c]

Orderly == Guarded /\ ~CanTear

LEMMA OrderInit == Init => OrderInv
<1> SUFFICES ASSUME Init PROVE OrderInv
  OBVIOUS
<1>1. DOMAIN file = {} /\ returned = {} /\ \A c \in Caller : pc[c] = "idle"
  BY DEF Init
<1>2. QED BY <1>1 DEF OrderInv

\* A step that leaves the file and the reports alone, and takes nobody into the
\* part of the body between the number and the report.
LEMMA OrderKept ==
  ASSUME OrderInv, file' = file, returned' = returned, alive' \subseteq alive, NEW c \in Caller,
         \A d \in Caller \ {c} : pc'[d] = pc[d] /\ seq'[d] = seq[d],
         \/ pc'[c] \notin {"append", "write", "wrote"}
         \/ pc'[c] = pc[c] /\ seq'[c] = seq[c]
  PROVE  OrderInv'
<1>1. ASSUME NEW d \in Caller, pc'[d] \in {"append", "write", "wrote"}
      PROVE  pc'[d] = pc[d] /\ seq'[d] = seq[d]
  BY <1>1
<1>2. \A d \in Caller : Live(d)' => Live(d) BY DEF Live
<1>3. QED BY <1>1, <1>2 DEF OrderInv

LEMMA OrderNext ==
  ASSUME TypeInv, LockInv, OrderInv, NEW c \in Caller, Live(c), NextSequence(c)
  PROVE  OrderInv'
<1>1. PICK n \in Known(c) :
        /\ \A m \in Known(c) : m <= n
        /\ seq' = [seq EXCEPT ![c] = n + 1]
  BY DEF NextSequence
<1>2. n \in Nat /\ seq'[c] = n + 1
  BY <1>1, KnownType DEF TypeInv, TypeOK
<1>3. \A i \in DOMAIN file : file[i].seq \in Nat /\ file[i].seq < n + 1
  BY <1>1, <1>2, KnownType, FileType DEF TypeInv
<1>4. \A a \in returned : a.seq < n + 1
  <2>1. \A a \in returned : a.seq \in Nat BY DEF TypeInv, TypeOK, Event
  <2>2. QED BY <1>2, <1>3, <2>1 DEF OrderInv
<1>5. file' = file /\ returned' = returned /\ pc'[c] = "append"
  BY DEF NextSequence, TypeInv, TypeOK
<1>6. ASSUME NEW d \in Caller, d # c
      PROVE  pc'[d] = pc[d] /\ (Live(d)' => Live(d) /\ pc[d] \notin Inside)
  BY <1>6 DEF NextSequence, TypeInv, TypeOK, LockInv, Inside, Live
<1>7. QED BY <1>2, <1>3, <1>4, <1>5, <1>6 DEF OrderInv, Inside

LEMMA OrderCompact ==
  ASSUME TypeInv, LockInv, OrderInv, NEW c \in Caller, Live(c), Compact(c)
  PROVE  OrderInv'
<1>1. /\ pc[c] = "append" /\ pc'[c] = "write" /\ seq' = seq /\ returned' = returned
      /\ \A d \in Caller : d # c =>
           pc'[d] = pc[d] /\ (Live(d)' => Live(d) /\ pc[d] \notin Inside)
  BY DEF Compact, TypeInv, TypeOK, LockInv, Inside, Live
<1>2. seq[c] \in Nat /\ \A a \in returned : a.seq \in Nat
  BY DEF TypeInv, TypeOK, Event
<1>3. CASE Len(file) < MaxRows
  <2>1. file' = file BY <1>3, FileType, JournalAssumption DEF Compact, TypeInv
  <2>2. QED BY <1>1, <2>1 DEF OrderInv, Inside
<1>4. CASE Len(file) >= MaxRows
  <2> DEFINE k == Len(file) - Retain - 1
  <2>1. /\ file' = Compacted
        /\ Len(file') = Retain + 1 /\ DOMAIN file' = 1..(Retain + 1)
        /\ file'[1].seq = 0
        /\ \A i \in 2..(Retain + 1) : file'[i] = file[k + i]
    <3>1. file \in Seq(Event) /\ Len(file) \in Nat BY FileType DEF TypeInv, TypeOK
    <3>2. file' = Compacted BY <1>4 DEF Compact
    <3>3. Compacted \in Seq(Event) /\ Len(Compacted) = Retain + 1
      BY <1>4, <3>1, CompactedFile
    <3>4. DOMAIN Compacted = 1..(Retain + 1) BY <3>3, LenProperties
    <3>5. Compacted[1].seq = 0 BY <1>4, <3>1, CompactedFile DEF Marker
    <3>6. \A i \in 2..(Retain + 1) : Compacted[i] = file[k + i]
      <4>1. \A i \in 2..(Retain + 1) : Len(file) - Retain + i - 1 = k + i
        BY <3>1, JournalAssumption
      <4>2. QED BY <1>4, <3>1, <4>1, CompactedFile
    <3>7. QED BY <3>2, <3>3, <3>4, <3>5, <3>6
  <2>2. Retain \in Nat /\ Retain >= 1 /\ k \in Nat /\ k + Retain + 1 = Len(file)
    BY <1>4, FileType, JournalAssumption DEF TypeInv
  <2>3. DOMAIN file = 1..(k + Retain + 1) /\ \A i \in DOMAIN file : file[i].seq \in Nat
    BY <2>2, FileType DEF TypeInv
  <2> HIDE DEF k
  <2>4. \A i \in 2..(Retain + 1) :
          k + i \in DOMAIN file /\ file'[i].seq \in Nat /\ file'[i].seq > 0
    <3>1. ASSUME NEW i \in 2..(Retain + 1)
          PROVE  k + i \in DOMAIN file /\ file'[i].seq \in Nat /\ file'[i].seq > 0
      <4>1. k + i \in DOMAIN file /\ 1 \in DOMAIN file /\ 1 < k + i
        BY <2>2, <2>3, SMTT(30)
      <4>2. file[1].seq < file[k + i].seq
        BY <4>1 DEF OrderInv
      <4>3. file'[i] = file[k + i] BY <2>1
      <4>4. QED BY <2>3, <4>1, <4>2, <4>3
    <3>2. QED BY <3>1
  <2>5. \A i, j \in DOMAIN file' : i < j => file'[i].seq < file'[j].seq
    <3>1. ASSUME NEW i \in DOMAIN file', NEW j \in DOMAIN file', i < j
          PROVE  file'[i].seq < file'[j].seq
      <4>1. j \in 2..(Retain + 1) /\ (i = 1 \/ i \in 2..(Retain + 1))
        BY <2>1, <2>2, <3>1
      <4>2. CASE i = 1 BY <2>1, <2>4, <4>1, <4>2
      <4>3. CASE i \in 2..(Retain + 1)
        <5>1. k + i < k + j BY <2>2, <3>1, <4>1, <4>3
        <5>2. file[k + i].seq < file[k + j].seq
          BY <2>4, <4>1, <4>3, <5>1 DEF OrderInv
        <5>3. QED BY <2>1, <4>1, <4>3, <5>2
      <4>4. QED BY <4>1, <4>2, <4>3
    <3>2. QED BY <3>1
  <2>6. ASSUME NEW a \in returned
        PROVE  \E i \in DOMAIN file' : file'[i].seq >= a.seq
    <3>1. PICK i \in DOMAIN file : file[i].seq >= a.seq BY DEF OrderInv
    <3>2. Retain + 1 \in DOMAIN file' /\ file'[Retain + 1] = file[k + Retain + 1]
      BY <2>1, <2>2
    <3>3. k + Retain + 1 \in DOMAIN file /\ i <= k + Retain + 1
      BY <2>2, <2>3
    <3>4. file[k + Retain + 1].seq >= file[i].seq
      BY <2>3, <3>3 DEF OrderInv
    <3>5. QED BY <1>2, <2>3, <3>1, <3>2, <3>3, <3>4
  <2>7. \A i \in DOMAIN file' : file'[i].seq < seq[c]
    <3>1. \A i \in DOMAIN file : file[i].seq < seq[c] BY <1>1 DEF OrderInv
    <3>2. ASSUME NEW i \in DOMAIN file' PROVE file'[i].seq < seq[c]
      <4>1. i = 1 \/ i \in 2..(Retain + 1) BY <2>1, <2>2
      <4>2. CASE i \in 2..(Retain + 1) BY <2>1, <2>4, <3>1, <4>2
      <4>3. CASE i = 1
        <5>1. 1 \in DOMAIN file BY <2>2, <2>3
        <5>2. QED BY <1>2, <2>1, <2>3, <3>1, <4>3, <5>1
      <4>4. QED BY <4>1, <4>2, <4>3
    <3>3. QED BY <3>2
  <2>8. QED BY <1>1, <2>5, <2>6, <2>7 DEF OrderInv, Inside
<1>5. QED BY <1>3, <1>4, FileType, JournalAssumption DEF TypeInv

LEMMA OrderWrite ==
  ASSUME ~CanTear, TypeInv, LockInv, OrderInv, NEW c \in Caller, Live(c), Write(c)
  PROVE  OrderInv'
<1>1. /\ pc[c] = "write" /\ pc'[c] = "wrote" /\ seq' = seq /\ returned' = returned
      /\ file' = Append(file, Line(c))
      /\ \A d \in Caller : d # c =>
           pc'[d] = pc[d] /\ (Live(d)' => Live(d) /\ pc[d] \notin Inside)
  BY DEF Write, TypeInv, TypeOK, LockInv, Inside, Live
<1>2. /\ Len(file) \in Nat /\ DOMAIN file = 1..Len(file)
      /\ \A i \in DOMAIN file : file[i].seq \in Nat
      /\ seq[c] \in Nat /\ \A a \in returned : a.seq \in Nat
  BY FileType DEF TypeInv, TypeOK, Event
<1>3. /\ DOMAIN file' = 1..(Len(file) + 1)
      /\ \A i \in 1..Len(file) : file'[i] = file[i]
      /\ file'[Len(file) + 1].seq = seq[c]
  <2>1. file \in Seq(Event) /\ Line(c) \in Event BY LineType DEF TypeInv, TypeOK
  <2>2. file' \in Seq(Event) /\ Len(file') = Len(file) + 1
    BY <1>1, <2>1, AppendProperties
  <2>3. DOMAIN file' = 1..(Len(file) + 1) BY <2>2, LenProperties
  <2>4. \A i \in 1..Len(file) : file'[i] = file[i]
    BY <1>1, <2>1, AppendProperties
  <2>5. file'[Len(file) + 1] = Line(c) BY <1>1, <2>1, AppendProperties
  <2>6. QED BY <2>3, <2>4, <2>5 DEF Line
<1>4. \A i \in DOMAIN file : file[i].seq < seq[c]
  BY <1>1 DEF OrderInv
<1>5. \A i, j \in DOMAIN file' : i < j => file'[i].seq < file'[j].seq
  <2>1. ASSUME NEW i \in DOMAIN file', NEW j \in DOMAIN file', i < j
        PROVE  file'[i].seq < file'[j].seq
    <3>1. i \in 1..Len(file) BY <1>2, <1>3, <2>1
    <3>2. CASE j = Len(file) + 1 BY <1>2, <1>3, <1>4, <3>1, <3>2
    <3>3. CASE j # Len(file) + 1
      <4>1. j \in 1..Len(file) BY <1>2, <1>3, <3>3
      <4>2. QED BY <1>2, <1>3, <2>1, <3>1, <4>1 DEF OrderInv
    <3>4. QED BY <3>2, <3>3
  <2>2. QED BY <2>1
<1>6. ASSUME NEW a \in returned
      PROVE  \E i \in DOMAIN file' : file'[i].seq >= a.seq
  <2>1. PICK i \in DOMAIN file : file[i].seq >= a.seq BY DEF OrderInv
  <2>2. i \in DOMAIN file' /\ file'[i] = file[i] BY <1>2, <1>3
  <2>3. QED BY <2>1, <2>2
<1>7. Len(file) + 1 \in DOMAIN file'
  BY <1>2, <1>3
<1>8. QED BY <1>1, <1>3, <1>5, <1>6, <1>7 DEF OrderInv, Inside

LEMMA OrderLeave ==
  ASSUME TypeInv, LockInv, OrderInv, NEW c \in Caller, Live(c), Leave(c)
  PROVE  OrderInv'
<1>1. /\ pc'[c] = "idle" /\ seq' = seq /\ file' = file /\ alive' = alive
      /\ \A d \in Caller : d # c =>
           pc'[d] = pc[d] /\ (Live(d)' => Live(d) /\ pc[d] \notin Inside)
  BY DEF Leave, Settle, TypeInv, TypeOK, LockInv, Inside, Live
<1>2. CASE pc[c] # "wrote"
  <2>1. returned' = returned BY <1>2 DEF Leave
  <2>2. QED BY <1>1, <2>1, OrderKept
<1>3. CASE pc[c] = "wrote"
  <2>1. returned' = returned \cup {Line(c)} /\ Line(c).seq = seq[c]
    BY <1>3 DEF Leave, Line
  <2>2. seq[c] \in Nat /\ \A a \in returned : a.seq \in Nat
    BY DEF TypeInv, TypeOK, Event
  <2>3. \A i \in DOMAIN file : file[i].seq \in Nat
    BY FileType DEF TypeInv
  <2>4. \A a \in returned : a.seq < seq[c]
    BY <1>3 DEF OrderInv
  <2>5. \A a, b \in returned' : a.seq = b.seq => a = b
    BY <2>1, <2>2, <2>4 DEF OrderInv
  <2>6. \A a \in returned' : \E i \in DOMAIN file : file[i].seq >= a.seq
    BY <1>3, <2>1, <2>2, <2>3 DEF OrderInv
  <2>7. QED BY <1>1, <2>5, <2>6 DEF OrderInv, Inside
<1>4. QED BY <1>2, <1>3

LEMMA OrderStep ==
  ASSUME Orderly, TypeInv, LockInv, OrderInv, [Next]_vars
  PROVE  OrderInv'
<1> USE DEF TypeInv, TypeOK
<1>1. ASSUME NEW c \in Caller, NEW hash \in Hash \cup {None}, Call(c, hash) PROVE OrderInv'
  BY <1>1, OrderKept DEF Call
<1>2. ASSUME NEW c \in Caller, Live(c), CallerStep(c) PROVE OrderInv'
  <2>1. CASE Turn(c) BY <2>1, OrderKept DEF Turn
  <2>2. CASE Acquire(c) BY <2>2, OrderKept DEF Acquire
  <2>3. CASE SeeStale(c) BY <2>3, OrderKept DEF SeeStale
  <2>4. CASE Steal(c) BY <2>4, OrderKept DEF Steal
  <2>5. CASE TimeOut(c) BY <2>5, OrderKept DEF TimeOut
  <2>6. CASE Enter(c) BY <2>6, OrderKept DEF Enter
  <2>7. CASE WriteSidecar(c) BY <2>7, OrderKept DEF WriteSidecar
  <2>8. CASE NextSequence(c) BY <1>2, <2>8, OrderNext
  <2>9. CASE Compact(c) BY <1>2, <2>9, OrderCompact
  <2>10. CASE Write(c) BY <1>2, <2>10, OrderWrite DEF Orderly
  <2>11. CASE WriteFails(c) BY <2>11 DEF WriteFails, Orderly
  <2>12. CASE Leave(c) BY <1>2, <2>12, OrderLeave
  <2>13. CASE GiveUp(c) BY <2>13, OrderKept DEF GiveUp, Settle
  <2>14. QED
    BY <1>2, <2>1, <2>2, <2>3, <2>4, <2>5, <2>6, <2>7, <2>8, <2>9, <2>10, <2>11, <2>12, <2>13
       DEF CallerStep
<1>3. ASSUME NEW c \in Caller, TearingCrash(c) PROVE OrderInv'
  BY <1>3 DEF TearingCrash, Orderly
<1>4. ASSUME NEW p \in alive, Crash(p) PROVE OrderInv'
  BY <1>4 DEF Crash, OrderInv, Live
<1>5. CASE UNCHANGED vars BY <1>5 DEF vars, OrderInv, Live
<1>6. QED BY <1>1, <1>2, <1>3, <1>4, <1>5 DEF Next, Live

Inv == TypeInv /\ LockInv /\ OrderInv

LEMMA InvInit == Init => Inv
  BY TypeInit, LockInit, OrderInit DEF Inv

LEMMA InvStep == Orderly => (Inv /\ [Next]_vars => Inv')
  BY TypeStep, LockStep, OrderStep DEF Inv, Orderly

LEMMA InvProperties == Inv => SequenceNames /\ SequenceRises /\ NewestReadable
  BY DEF Inv, OrderInv, SequenceNames, SequenceRises, NewestReadable, Rows

\* Without slow holders and cut writes, no two reported events of a run have the
\* same number, however many processes append if none dies, and between a parent
\* and its child also if one dies.
THEOREM SequenceNamesEvents ==
  ASSUME Orderly
  PROVE  Spec => []SequenceNames
<1>1. Inv /\ [Next]_vars => Inv' BY InvStep
<1>2. Inv => SequenceNames BY InvProperties
<1>3. QED BY InvInit, <1>1, <1>2, PTL DEF Spec

\* Likewise, the file lists the events by rising numbers through every compaction.
THEOREM SequenceIsRising ==
  ASSUME Orderly
  PROVE  Spec => []SequenceRises
<1>1. Inv /\ [Next]_vars => Inv' BY InvStep
<1>2. Inv => SequenceRises BY InvProperties
<1>3. QED BY InvInit, <1>1, <1>2, PTL DEF Spec

\* Likewise, compaction never drops the newest of the reported events.
THEOREM NewestIsReadable ==
  ASSUME Orderly
  PROVE  Spec => []NewestReadable
<1>1. Inv /\ [Next]_vars => Inv' BY InvStep
<1>2. Inv => NewestReadable BY InvProperties
<1>3. QED BY InvInit, <1>1, <1>2, PTL DEF Spec

-----------------------------------------------------------------------------
(***************************************************************************)
(* The admission, also while writes are cut short and the file loses its   *)
(* admission line.  The sidecar, once written, names every payload that    *)
(* was accepted; the live caller that found none is the one that writes it *)
(* and the one that admits, and nobody has been accepted before it.        *)
(***************************************************************************)
Taken == {"sequence", "append", "write", "wrote", "known"}

AdmissionInv ==
  /\ \A a \in accepted : a.hash = sidecar
  /\ \A a, b \in accepted : a.admitted /\ b.admitted => a = b
  /\ \A c \in Caller : Live(c) /\ op[c].hash # None =>
       /\ pc[c] = "sidecar" => ~found[c].sidecar
       /\ pc[c] \in Taken => sidecar = op[c].hash
       /\ pc[c] \in Taken \cup {"sidecar"} /\ ~found[c].sidecar => accepted = {}

LEMMA AdmissionInit == Init => AdmissionInv
  BY DEF Init, AdmissionInv, Taken

\* A step that leaves the sidecar and the answers alone, and takes nobody from
\* outside into the part of the body that has seen the admission.
LEMMA AdmissionKept ==
  ASSUME AdmissionInv, TypeInv, NEW c \in Caller,
         sidecar' = sidecar, accepted' = accepted, alive' \subseteq alive,
         NEW there, pc' = [pc EXCEPT ![c] = there],
         there \in Taken => pc[c] \in Taken,
         there # "sidecar",
         \/ op' = op /\ found' = found
         \/ there \notin Taken /\ \A d \in Caller \ {c} : op'[d] = op[d] /\ found'[d] = found[d]
  PROVE  AdmissionInv'
<1>1. \A d \in Caller : Live(d)' => Live(d) BY DEF Live
<1>2. \A d \in Caller : pc'[d] = pc[d] \/ (d = c /\ pc'[d] = there)
  BY DEF TypeInv, TypeOK
<1>3. pc'[c] = there BY DEF TypeInv, TypeOK
<1>4. CASE op' = op /\ found' = found
  BY <1>1, <1>2, <1>4 DEF AdmissionInv
<1>5. CASE there \notin Taken /\ \A d \in Caller \ {c} : op'[d] = op[d] /\ found'[d] = found[d]
  BY <1>1, <1>2, <1>3, <1>5 DEF AdmissionInv
<1>6. QED BY <1>4, <1>5

\* The read of both records.
LEMMA AdmissionEnter ==
  ASSUME AdmissionInv, TypeInv, NEW c \in Caller, Enter(c)
  PROVE  AdmissionInv'
<1>1. /\ sidecar' = sidecar /\ accepted' = accepted /\ alive' = alive /\ op' = op
      /\ \A d \in Caller : d # c => pc'[d] = pc[d] /\ found'[d] = found[d]
      /\ found'[c].sidecar = (sidecar # None)
  BY DEF Enter, TypeInv, TypeOK
<1>2. ASSUME op[c].hash # None
      PROVE  /\ pc'[c] = "sidecar" => sidecar = None
             /\ pc'[c] \in Taken => sidecar = op[c].hash
  BY <1>2 DEF Enter, Conflict, Taken, TypeInv, TypeOK
<1>3. \A a \in accepted : a.hash # None
  BY JournalAssumption DEF TypeInv, TypeOK
<1>4. sidecar = None => accepted = {}
  BY <1>3 DEF AdmissionInv
<1>5. \A d \in Caller : Live(d)' => Live(d) BY <1>1 DEF Live
<1>6. QED BY <1>1, <1>2, <1>4, <1>5 DEF AdmissionInv, Taken

\* The sidecar is written by the one caller that found none.
LEMMA AdmissionSidecar ==
  ASSUME AdmissionInv, ExclusionInv, NEW c \in Caller, Live(c), op[c].hash # None,
         WriteSidecar(c)
  PROVE  AdmissionInv'
<1>1. /\ sidecar' = op[c].hash /\ accepted' = accepted /\ alive' = alive
      /\ op' = op /\ found' = found /\ pc[c] = "sidecar"
      /\ \A d \in Caller : d # c => pc'[d] = pc[d]
  BY DEF WriteSidecar, ExclusionInv, TypeInv, TypeOK
<1>2. accepted = {} BY <1>1 DEF AdmissionInv
<1>3. \A d \in Caller : Live(d) /\ d # c => pc'[d] \notin Taken \cup {"sidecar"}
  BY <1>1 DEF ExclusionInv, LockInv, Inside, Taken
<1>4. \A d \in Caller : Live(d)' => Live(d) BY <1>1 DEF Live
<1>5. pc'[c] # "sidecar" BY DEF WriteSidecar, ExclusionInv, TypeInv, TypeOK
<1>6. QED BY <1>1, <1>2, <1>3, <1>4, <1>5 DEF AdmissionInv

\* The answer.
LEMMA AdmissionLeave ==
  ASSUME AdmissionInv, ExclusionInv, NEW c \in Caller, Live(c), Leave(c)
  PROVE  AdmissionInv'
<1>1. /\ sidecar' = sidecar /\ alive' = alive /\ op' = op /\ found' = found
      /\ pc[c] \in {"wrote", "known", "refused"}
      /\ pc' = [pc EXCEPT ![c] = "idle"]
  BY DEF Leave, Settle
<1>2. CASE pc[c] # "refused" /\ op[c].hash # None
  <2>1. accepted' = accepted \cup {Answer(c)} BY <1>2 DEF Leave
  <2>2. pc[c] \in Taken BY <1>1, <1>2 DEF Taken
  <2>3. Answer(c).hash = sidecar BY <1>2, <2>2 DEF Answer, AdmissionInv
  <2>4. Answer(c).admitted => accepted = {}
    BY <1>2, <2>2 DEF Answer, AdmissionInv
  <2>5. \A a, b \in accepted' : a.admitted /\ b.admitted => a = b
    BY <2>1, <2>4 DEF AdmissionInv
  <2>6. \A a \in accepted' : a.hash = sidecar'
    BY <1>1, <2>1, <2>3 DEF AdmissionInv
  <2>7. \A d \in Caller : Live(d)' => Live(d) BY <1>1 DEF Live
  <2>8. \A d \in Caller : Live(d) => pc'[d] \notin Taken \cup {"sidecar"}
    BY <1>1 DEF ExclusionInv, LockInv, Inside, Taken, TypeInv, TypeOK
  <2>9. QED BY <2>5, <2>6, <2>7, <2>8 DEF AdmissionInv
<1>3. CASE ~(pc[c] # "refused" /\ op[c].hash # None)
  <2>1. accepted' = accepted BY <1>3 DEF Leave
  <2>2. QED BY <1>1, <2>1, AdmissionKept DEF ExclusionInv, Taken
<1>4. QED BY <1>2, <1>3

\* Only calls with a payload write the sidecar.
SidecarInv == \A c \in Caller : pc[c] = "sidecar" => op[c].hash # None

LEMMA SidecarStep == TypeInv /\ SidecarInv /\ [Next]_vars => SidecarInv'
<1> SUFFICES ASSUME TypeInv, SidecarInv, [Next]_vars PROVE SidecarInv'
  OBVIOUS
<1> USE DEF TypeInv, TypeOK, SidecarInv
<1>1. ASSUME NEW c \in Caller, NEW hash \in Hash \cup {None}, Call(c, hash) PROVE SidecarInv'
  BY <1>1 DEF Call
<1>2. ASSUME NEW c \in Caller, Turn(c) \/ Acquire(c) \/ SeeStale(c) \/ Steal(c) \/ TimeOut(c)
      PROVE  SidecarInv'
  BY <1>2 DEF Turn, Acquire, SeeStale, Steal, TimeOut
<1>3. ASSUME NEW c \in Caller, Enter(c) \/ WriteSidecar(c) \/ NextSequence(c) \/ Compact(c)
      PROVE  SidecarInv'
  BY <1>3 DEF Enter, WriteSidecar, NextSequence, Compact
<1>4. ASSUME NEW c \in Caller, Write(c) \/ WriteFails(c) \/ Leave(c) \/ GiveUp(c)
      PROVE  SidecarInv'
  BY <1>4 DEF Write, WriteFails, Leave, GiveUp, Settle
<1>5. ASSUME NEW c \in Caller, TearingCrash(c) PROVE SidecarInv'
  BY <1>5 DEF TearingCrash
<1>6. ASSUME NEW p \in alive, Crash(p) PROVE SidecarInv'
  BY <1>6 DEF Crash
<1>7. CASE UNCHANGED vars BY <1>7 DEF vars
<1>8. QED BY <1>1, <1>2, <1>3, <1>4, <1>5, <1>6, <1>7 DEF Next, CallerStep

LEMMA AdmissionStep ==
  ASSUME ExclusionInv, SidecarInv, AdmissionInv, [Next]_vars
  PROVE  AdmissionInv'
<1>0. TypeInv BY DEF ExclusionInv
<1>1. ASSUME NEW c \in Caller, NEW hash \in Hash \cup {None}, Call(c, hash) PROVE AdmissionInv'
  <2>1. \A d \in Caller \ {c} : op'[d] = op[d] BY <1>1 DEF Call
  <2>2. QED BY <1>0, <1>1, <2>1, AdmissionKept DEF Call, Taken
<1>2. ASSUME NEW c \in Caller, Live(c), CallerStep(c) PROVE AdmissionInv'
  <2>1. CASE Turn(c) BY <1>0, <2>1, AdmissionKept DEF Turn, Taken
  <2>2. CASE Acquire(c) BY <1>0, <2>2, AdmissionKept DEF Acquire, Taken
  <2>3. CASE SeeStale(c) BY <1>0, <2>3, AdmissionKept DEF SeeStale, Taken
  <2>4. CASE Steal(c) BY <1>0, <2>4, AdmissionKept DEF Steal, Taken
  <2>5. CASE TimeOut(c) BY <1>0, <2>5, AdmissionKept DEF TimeOut, Taken
  <2>6. CASE Enter(c) BY <1>0, <2>6, AdmissionEnter
  <2>7. CASE WriteSidecar(c)
    BY <1>2, <2>7, AdmissionSidecar DEF SidecarInv, WriteSidecar
  <2>8. CASE NextSequence(c) BY <1>0, <2>8, AdmissionKept DEF NextSequence, Taken
  <2>9. CASE Compact(c) BY <1>0, <2>9, AdmissionKept DEF Compact, Taken
  <2>10. CASE Write(c) BY <1>0, <2>10, AdmissionKept DEF Write, Taken
  <2>11. CASE WriteFails(c) BY <1>0, <2>11, AdmissionKept DEF WriteFails, Taken
  <2>12. CASE Leave(c) BY <1>2, <2>12, AdmissionLeave
  <2>13. CASE GiveUp(c) BY <1>0, <2>13, AdmissionKept DEF GiveUp, Settle, Taken
  <2>14. QED
    BY <1>2, <2>1, <2>2, <2>3, <2>4, <2>5, <2>6, <2>7, <2>8, <2>9, <2>10, <2>11, <2>12, <2>13
       DEF CallerStep
<1>3. ASSUME NEW c \in Caller, TearingCrash(c) PROVE AdmissionInv'
  BY <1>3 DEF TearingCrash, AdmissionInv, Live
<1>4. ASSUME NEW p \in alive, Crash(p) PROVE AdmissionInv'
  BY <1>4 DEF Crash, AdmissionInv, Live
<1>5. CASE UNCHANGED vars BY <1>5 DEF vars, AdmissionInv, Live
<1>6. QED BY <1>1, <1>2, <1>3, <1>4, <1>5 DEF Next, Live

\* A run is admitted at most once and with one payload, though the process that
\* admitted it may have died before its answer, between the sidecar and the line,
\* or inside the write of the line.
THEOREM RunIsAdmittedOnce ==
  ASSUME Guarded
  PROVE  Spec => []AdmittedOnce
<1>1. Init => ExclusionInv BY TypeInit, LockInit DEF ExclusionInv
<1>2. Init => SidecarInv BY DEF Init, SidecarInv
<1>3. ExclusionInv /\ [Next]_vars => ExclusionInv' BY ExclusionStep
<1>4. ExclusionInv => TypeInv BY DEF ExclusionInv
<1>5. ExclusionInv /\ SidecarInv /\ AdmissionInv /\ [Next]_vars => AdmissionInv'
  BY AdmissionStep
<1>6. AdmissionInv => AdmittedOnce BY DEF AdmissionInv, AdmittedOnce
<1>7. QED
  BY <1>1, <1>2, <1>3, <1>4, <1>5, <1>6, SidecarStep, AdmissionInit, PTL DEF Spec

-----------------------------------------------------------------------------
(***************************************************************************)
(* The order of the calls of one process, whatever dies, is cut short or   *)
(* stolen: it rests on the queue and the cache of the process alone.  The  *)
(* calls of a queue are numbered upwards from its head and come after all  *)
(* that the process reported; every number it reported is in its cache,    *)
(* and the number its head has taken is above them.                        *)
(***************************************************************************)
Between == {"append", "write", "wrote"}

RankInv ==
  /\ \A c \in Caller : op[c].id <= calls
  /\ \A p \in Process : \A i \in 1..Len(queue[p]) :
       /\ Mine(queue[p][i]) = p
       /\ pc[queue[p][i]] # "idle"
       /\ \A j \in 1..Len(queue[p]) : i < j => op[queue[p][i]].id < op[queue[p][j]].id
  /\ \A a \in returned :
       /\ a.by \in Process
       /\ a.id <= calls
       /\ a.seq <= cached[a.by]
       /\ \A i \in 1..Len(queue[a.by]) : a.id < op[queue[a.by][i]].id
  /\ \A c \in Caller : pc[c] \in Between =>
       /\ seq[c] <= cached[Mine(c)]
       /\ \A a \in returned : a.by = Mine(c) => a.seq < seq[c]
  /\ CallOrder

LEMMA RankInit == Init => RankInv
<1> SUFFICES ASSUME Init PROVE RankInv
  OBVIOUS
<1>1. queue = [p \in Process |-> << >>] BY Zenon DEF Init
<1>2. Len(<< >>) = 0 OBVIOUS
<1>3. ASSUME NEW p \in Process PROVE Len(queue[p]) = 0
  <2>1. queue[p] = << >> BY <1>1, Zenon
  <2>2. QED BY <1>2, <2>1, Zenon
<1>4. \A c \in Caller : pc[c] = "idle" /\ op[c].id = 0 BY DEF Init
<1>5. calls = 0 /\ returned = {} BY DEF Init
<1>6. QED BY <1>3, <1>4, <1>5 DEF RankInv, Between, CallOrder

\* A step that touches neither the queues nor the numbers.
LEMMA RankKept ==
  ASSUME RankInv, TypeInv,
         UNCHANGED <<queue, op, calls, returned, cached, seq>>,
         \A c \in Caller : pc[c] # "idle" => pc'[c] # "idle",
         \A c \in Caller : pc'[c] \in Between => pc[c] \in Between
  PROVE  RankInv'
<1>1. \A p \in Process : \A i \in 1..Len(queue[p]) : queue[p][i] \in Caller
  BY DEF TypeInv, TypeOK
<1>2. QED BY <1>1 DEF RankInv, CallOrder

\* The line of a step of one caller.
LEMMA RankGoto ==
  ASSUME RankInv, TypeInv, NEW c \in Caller,
         UNCHANGED <<queue, op, calls, returned, cached, seq>>,
         NEW there, pc' = [pc EXCEPT ![c] = there], there # "idle",
         there \in Between => pc[c] \in Between
  PROVE  RankInv'
<1>1. \A d \in Caller : pc'[d] = pc[d] \/ (d = c /\ pc'[d] = there)
  BY DEF TypeInv, TypeOK
<1>2. QED BY <1>1, RankKept

LEMMA RankCall ==
  ASSUME RankInv, TypeInv, NEW c \in Caller, NEW hash \in Hash \cup {None}, Call(c, hash)
  PROVE  RankInv'
<1>1. /\ queue \in [Process -> Seq(Caller)] /\ Mine(c) \in Process /\ calls \in Nat
      /\ \A d \in Caller : op[d].id \in Nat
      /\ \A a \in returned : a.id \in Nat
  BY JournalAssumption DEF TypeInv, TypeOK, Event
<1>2. /\ pc[c] = "idle" /\ pc'[c] = "queued" /\ calls' = calls + 1
      /\ op'[c].id = calls + 1
      /\ \A d \in Caller : d # c => pc'[d] = pc[d] /\ op'[d] = op[d]
      /\ UNCHANGED <<returned, cached, seq>>
  BY DEF Call, TypeInv, TypeOK
<1>3. \A p \in Process : p # Mine(c) => queue'[p] = queue[p]
  BY <1>1 DEF Call
<1> DEFINE q == queue[Mine(c)]
<1>4. /\ queue'[Mine(c)] = Append(q, c) /\ q \in Seq(Caller) /\ Len(q) \in Nat
      /\ Len(Append(q, c)) = Len(q) + 1
      /\ \A i \in 1..Len(q) : Append(q, c)[i] = q[i]
      /\ Append(q, c)[Len(q) + 1] = c
  BY <1>1 DEF Call
\* What is in a queue already is not the caller of this call.
<1>5. \A p \in Process : \A i \in 1..Len(queue[p]) :
        queue[p][i] \in Caller /\ queue[p][i] # c
  BY <1>1, <1>2 DEF RankInv
<1>6. ASSUME NEW p \in Process, NEW i \in 1..Len(queue'[p])
      PROVE  \/ /\ i \in 1..Len(queue[p])
                /\ queue'[p][i] = queue[p][i]
             \/ p = Mine(c) /\ i = Len(q) + 1 /\ queue'[p][i] = c
  <2>1. CASE p # Mine(c) BY <1>3, <2>1
  <2>2. CASE p = Mine(c)
    <3>1. i \in 1..(Len(q) + 1) BY <1>4, <2>2
    <3>2. i \in 1..Len(q) \/ i = Len(q) + 1 BY <1>4, <3>1
    <3>3. QED BY <1>4, <2>2, <3>2
  <2>3. QED BY <2>1, <2>2
<1>7. \A d \in Caller : op'[d].id <= calls'
  <2>1. \A d \in Caller : op[d].id <= calls BY DEF RankInv
  <2>2. QED BY <1>1, <1>2, <2>1
<1>8. ASSUME NEW p \in Process, NEW i \in 1..Len(queue'[p])
      PROVE  /\ Mine(queue'[p][i]) = p
             /\ pc'[queue'[p][i]] # "idle"
             /\ \A j \in 1..Len(queue'[p]) : i < j => op'[queue'[p][i]].id < op'[queue'[p][j]].id
  <2>1. CASE i \in 1..Len(queue[p]) /\ queue'[p][i] = queue[p][i]
    <3>1. op'[queue'[p][i]] = op[queue[p][i]] /\ pc'[queue'[p][i]] = pc[queue[p][i]]
      BY <1>2, <1>5, <2>1
    <3>2. ASSUME NEW j \in 1..Len(queue'[p]), i < j
          PROVE  op[queue[p][i]].id < op'[queue'[p][j]].id
      <4>1. CASE j \in 1..Len(queue[p]) /\ queue'[p][j] = queue[p][j]
        <5>1. op'[queue'[p][j]] = op[queue[p][j]] BY <1>2, <1>5, <4>1
        <5>2. QED BY <2>1, <3>2, <4>1, <5>1 DEF RankInv
      <4>2. CASE queue'[p][j] = c
        <5>1. op[queue[p][i]].id <= calls /\ op[queue[p][i]].id \in Nat
          BY <1>1, <1>5, <2>1 DEF RankInv
        <5>2. QED BY <1>1, <1>2, <4>2, <5>1
      <4>3. QED BY <1>6, <4>1, <4>2
    <3>3. QED BY <2>1, <3>1, <3>2 DEF RankInv
  <2>2. CASE p = Mine(c) /\ i = Len(q) + 1 /\ queue'[p][i] = c
    <3>1. \A j \in 1..Len(queue'[p]) : ~(i < j) BY <1>4, <2>2
    <3>2. QED BY <1>2, <2>2, <3>1
  <2>3. QED BY <1>6, <2>1, <2>2
<1>9. ASSUME NEW a \in returned
      PROVE  /\ a.by \in Process /\ a.id <= calls' /\ a.seq <= cached'[a.by]
             /\ \A i \in 1..Len(queue'[a.by]) : a.id < op'[queue'[a.by][i]].id
  <2>1. a.by \in Process /\ a.id <= calls /\ a.seq <= cached[a.by] BY DEF RankInv
  <2>2. ASSUME NEW i \in 1..Len(queue'[a.by]) PROVE a.id < op'[queue'[a.by][i]].id
    <3>1. CASE i \in 1..Len(queue[a.by]) /\ queue'[a.by][i] = queue[a.by][i]
      <4>1. op'[queue'[a.by][i]] = op[queue[a.by][i]] BY <1>2, <1>5, <2>1, <3>1
      <4>2. QED BY <3>1, <4>1 DEF RankInv
    <3>2. CASE queue'[a.by][i] = c BY <1>1, <1>2, <2>1, <3>2
    <3>3. QED BY <1>6, <2>1, <3>1, <3>2
  <2>3. QED BY <1>1, <1>2, <2>1, <2>2
<1>10. \A d \in Caller : pc'[d] \in Between => d # c /\ pc[d] \in Between
  BY <1>2 DEF Between
<1>11. \A d \in Caller : pc'[d] \in Between =>
         /\ seq'[d] <= cached'[Mine(d)]
         /\ \A a \in returned' : a.by = Mine(d) => a.seq < seq'[d]
  BY <1>2, <1>10 DEF RankInv
<1>12. CallOrder' BY <1>2 DEF RankInv, CallOrder
<1>13. QED BY <1>2, <1>7, <1>8, <1>9, <1>11, <1>12 DEF RankInv

\* The callers between the number and the report head their queues.
LEMMA HeadsBetween ==
  ASSUME TypeInv, NEW c \in Caller, NEW d \in Caller, Mine(c) = Mine(d),
         pc[c] \notin Over, pc[d] \notin Over
  PROVE  c = d
  BY DEF TypeInv, QueueInv

LEMMA RankNext ==
  ASSUME RankInv, TypeInv, NEW c \in Caller, NextSequence(c)
  PROVE  RankInv'
<1>1. PICK n \in Known(c) :
        /\ \A m \in Known(c) : m <= n
        /\ seq' = [seq EXCEPT ![c] = n + 1]
        /\ cached' = [cached EXCEPT ![Mine(c)] = n + 1]
  BY DEF NextSequence
<1>2. /\ n \in Nat /\ cached[Mine(c)] \in Nat /\ cached[Mine(c)] <= n
      /\ Mine(c) \in Process
      /\ cached \in [Process -> Nat] /\ seq \in [Caller -> Nat]
      /\ \A a \in returned : a.seq \in Nat
  BY <1>1, KnownType, JournalAssumption DEF Known, TypeInv, TypeOK, Event
<1>3. \A p \in Process : cached'[p] \in Nat /\ cached[p] <= cached'[p]
  BY <1>1, <1>2
<1>4. /\ UNCHANGED <<queue, op, calls, returned>>
      /\ pc[c] = "sequence" /\ pc'[c] = "append"
      /\ \A d \in Caller : d # c => pc'[d] = pc[d] /\ seq'[d] = seq[d]
      /\ seq'[c] = n + 1 /\ cached'[Mine(c)] = n + 1
  BY <1>1, <1>2 DEF NextSequence, TypeInv, TypeOK
<1>5. \A a \in returned : a.by \in Process /\ a.seq <= cached'[a.by]
  <2>1. \A a \in returned : a.by \in Process /\ a.seq <= cached[a.by] /\ cached[a.by] \in Nat
    BY <1>2 DEF RankInv
  <2>2. QED BY <1>2, <1>3, <2>1
<1>6. ASSUME NEW d \in Caller, pc'[d] \in Between
      PROVE  /\ seq'[d] <= cached'[Mine(d)]
             /\ \A a \in returned : a.by = Mine(d) => a.seq < seq'[d]
  <2>1. CASE d = c
    <3>1. \A a \in returned : a.by = Mine(c) => a.seq <= cached[Mine(c)]
      BY DEF RankInv
    <3>2. QED BY <1>2, <1>4, <2>1, <3>1
  <2>2. CASE d # c
    <3>1. pc[d] \in Between /\ seq'[d] = seq[d] BY <1>4, <1>6, <2>2
    <3>2. Mine(d) # Mine(c)
      BY <1>4, <2>2, <3>1, HeadsBetween DEF Over, Between
    <3>3. cached'[Mine(d)] = cached[Mine(d)]
      BY <1>1, <1>2, <3>2, JournalAssumption
    <3>4. QED BY <3>1, <3>3 DEF RankInv
  <2>3. QED BY <2>1, <2>2
<1>7. \A p \in Process : \A i \in 1..Len(queue[p]) : queue[p][i] \in Caller
  BY DEF TypeInv, TypeOK
<1>8. \A p \in Process : \A i \in 1..Len(queue[p]) : pc'[queue[p][i]] # "idle"
  BY <1>4, <1>7 DEF RankInv
<1>9. QED BY <1>4, <1>5, <1>6, <1>8 DEF RankInv, CallOrder

\* The head of the queue goes, and the rest moves up.
LEMMA RankTail ==
  ASSUME RankInv, TypeInv, NEW c \in Caller, pc[c] \notin Over, Settle(c)
  PROVE  /\ \A p \in Process : \A i \in 1..Len(queue'[p]) :
              /\ Mine(queue'[p][i]) = p
              /\ queue'[p][i] \in Caller
              /\ pc'[queue'[p][i]] # "idle"
              /\ \A j \in 1..Len(queue'[p]) :
                   i < j => op'[queue'[p][i]].id < op'[queue'[p][j]].id
              /\ p = Mine(c) => op[c].id < op'[queue'[p][i]].id
              /\ \E j \in 1..Len(queue[p]) : queue'[p][i] = queue[p][j]
         /\ 1 \in 1..Len(queue[Mine(c)]) /\ queue[Mine(c)][1] = c
<1>1. /\ queue \in [Process -> Seq(Caller)] /\ Mine(c) \in Process
      /\ \A d \in Caller : op[d].id \in Nat
  BY JournalAssumption DEF TypeInv, TypeOK
<1> DEFINE q == queue[Mine(c)]
<1>2. q \in Seq(Caller) /\ Len(q) \in Nat /\ q[1] = c /\ q # << >>
  BY <1>1 DEF TypeInv, QueueInv, Over
<1>3. /\ Len(Tail(q)) = Len(q) - 1
      /\ \A i \in 1..Len(Tail(q)) : Tail(q)[i] = q[i + 1]
      /\ 1 <= Len(q)
  BY <1>2, HeadTailProperties
<1>4. /\ queue'[Mine(c)] = Tail(q)
      /\ \A p \in Process : p # Mine(c) => queue'[p] = queue[p]
      /\ op' = op
      /\ \A d \in Caller : d # c => pc'[d] = pc[d]
  BY <1>1 DEF Settle, TypeInv, TypeOK
<1>5. \A p \in Process : \A i \in 1..Len(queue[p]) : queue[p][i] \in Caller
  BY <1>1
<1>6. 1 \in 1..Len(q) BY <1>2, <1>3
<1>7. ASSUME NEW i \in 1..Len(Tail(q))
      PROVE  /\ i + 1 \in 1..Len(q) /\ 1 < i + 1
             /\ Tail(q)[i] = q[i + 1]
             /\ op[c].id < op[q[i + 1]].id
             /\ q[i + 1] # c
  <2>1. i + 1 \in 1..Len(q) /\ 1 < i + 1 BY <1>2, <1>3
  <2>2. op[q[1]].id < op[q[i + 1]].id BY <1>1, <1>6, <2>1 DEF RankInv
  <2>3. q[i + 1] # c BY <1>1, <1>2, <2>2
  <2>4. QED BY <1>2, <1>3, <2>1, <2>2, <2>3
<1>8. ASSUME NEW p \in Process, NEW i \in 1..Len(queue'[p])
      PROVE  /\ Mine(queue'[p][i]) = p
             /\ queue'[p][i] \in Caller
             /\ pc'[queue'[p][i]] # "idle"
             /\ \A j \in 1..Len(queue'[p]) :
                  i < j => op'[queue'[p][i]].id < op'[queue'[p][j]].id
             /\ p = Mine(c) => op[c].id < op'[queue'[p][i]].id
             /\ \E j \in 1..Len(queue[p]) : queue'[p][i] = queue[p][j]
  <2>1. CASE p # Mine(c)
    <3>1. queue'[p] = queue[p] BY <1>4, <2>1
    <3>2. queue[p][i] # c BY <2>1, <3>1 DEF RankInv
    <3>3. QED BY <1>4, <1>5, <2>1, <3>1, <3>2 DEF RankInv
  <2>2. CASE p = Mine(c)
    <3>1. queue'[p] = Tail(q) /\ i \in 1..Len(Tail(q)) BY <1>4, <2>2
    <3>2. /\ i + 1 \in 1..Len(q) /\ queue'[p][i] = q[i + 1]
          /\ op[c].id < op[q[i + 1]].id /\ q[i + 1] # c
      BY <1>7, <3>1
    <3>3. ASSUME NEW j \in 1..Len(queue'[p]), i < j
          PROVE  op'[queue'[p][i]].id < op'[queue'[p][j]].id
      <4>1. j + 1 \in 1..Len(q) /\ queue'[p][j] = q[j + 1] BY <1>7, <3>1
      <4>2. i + 1 < j + 1 BY <3>3
      <4>3. QED BY <1>1, <1>4, <3>2, <4>1, <4>2 DEF RankInv
    <3>4. Mine(q[i + 1]) = p /\ pc[q[i + 1]] # "idle" /\ q[i + 1] \in Caller
      BY <1>1, <1>5, <2>2, <3>2 DEF RankInv
    <3>5. pc'[q[i + 1]] # "idle" /\ op' = op BY <1>4, <3>2, <3>4
    <3>6. \E j \in 1..Len(queue[p]) : queue'[p][i] = queue[p][j] BY <2>2, <3>2
    <3>7. QED BY <3>2, <3>3, <3>4, <3>5, <3>6
  <2>3. QED BY <2>1, <2>2
<1>9. QED BY <1>2, <1>6, <1>8

LEMMA RankSettle ==
  ASSUME RankInv, TypeInv, NEW c \in Caller, pc[c] \notin Over, Settle(c),
         \/ returned' = returned
         \/ pc[c] = "wrote" /\ returned' = returned \cup {Line(c)}
  PROVE  RankInv'
<1>1. /\ Mine(c) \in Process /\ \A d \in Caller : op[d].id \in Nat
      /\ \A a \in returned : a.id \in Nat /\ a.seq \in Nat
      /\ seq[c] \in Nat /\ cached[Mine(c)] \in Nat
  BY JournalAssumption DEF TypeInv, TypeOK, Event
<1>2. /\ UNCHANGED <<op, calls, cached, seq>>
      /\ pc'[c] = "idle" /\ \A d \in Caller : d # c => pc'[d] = pc[d]
  BY DEF Settle, TypeInv, TypeOK
<1>3. 1 \in 1..Len(queue[Mine(c)]) /\ queue[Mine(c)][1] = c
  BY RankTail
<1>4. Line(c).id = op[c].id /\ Line(c).by = Mine(c) /\ Line(c).seq = seq[c]
  BY DEF Line
\* The reported events come before what is still queued.
<1>5. ASSUME NEW a \in returned'
      PROVE  /\ a.by \in Process /\ a.id <= calls /\ a.seq <= cached[a.by]
             /\ \A i \in 1..Len(queue'[a.by]) : a.id < op[queue'[a.by][i]].id
  <2>1. CASE a \in returned
    <3>1. /\ a.by \in Process /\ a.id <= calls /\ a.seq <= cached[a.by]
          /\ \A i \in 1..Len(queue[a.by]) : a.id < op[queue[a.by][i]].id
      BY <2>1 DEF RankInv
    <3>2. QED BY <3>1, RankTail
  <2>2. CASE a = Line(c) /\ pc[c] = "wrote"
    <3>1. seq[c] <= cached[Mine(c)] BY <2>2 DEF RankInv, Between
    <3>2. \A i \in 1..Len(queue'[Mine(c)]) : op[c].id < op[queue'[Mine(c)][i]].id
      BY <1>1, <1>2, RankTail
    <3>3. QED BY <1>1, <1>4, <2>2, <3>1, <3>2 DEF RankInv
  <2>3. QED BY <2>1, <2>2
<1>6. ASSUME NEW d \in Caller, pc'[d] \in Between
      PROVE  /\ seq[d] <= cached[Mine(d)]
             /\ \A a \in returned' : a.by = Mine(d) => a.seq < seq[d]
  <2>1. d # c /\ pc[d] \in Between BY <1>2, <1>6 DEF Between
  <2>2. Mine(d) # Mine(c) BY <2>1, HeadsBetween DEF Over, Between
  <2>3. QED BY <1>4, <2>1, <2>2 DEF RankInv
<1>7. CallOrder'
  <2> SUFFICES ASSUME NEW a \in returned', NEW b \in returned', a.by = b.by, a.id < b.id
               PROVE  a.seq < b.seq
    BY DEF CallOrder
  <2>1. CASE a \in returned /\ b \in returned BY <2>1 DEF RankInv, CallOrder
  <2>2. CASE a \in returned /\ b = Line(c) /\ pc[c] = "wrote"
    BY <1>4, <2>2 DEF RankInv, Between
  <2>3. CASE a = Line(c) /\ b \in returned
    <3>1. b.id < op[c].id BY <1>3, <1>4, <2>3 DEF RankInv
    <3>2. QED BY <1>1, <1>4, <2>3, <3>1
  <2>4. CASE a = Line(c) /\ b = Line(c) BY <1>1, <1>4, <2>4
  <2>5. QED BY <2>1, <2>2, <2>3, <2>4
<1>8. \A p \in Process : \A i \in 1..Len(queue'[p]) :
        /\ Mine(queue'[p][i]) = p
        /\ pc'[queue'[p][i]] # "idle"
        /\ \A j \in 1..Len(queue'[p]) : i < j => op'[queue'[p][i]].id < op'[queue'[p][j]].id
  BY RankTail
<1>9. QED BY <1>2, <1>5, <1>6, <1>7, <1>8 DEF RankInv

LEMMA RankStep == TypeInv /\ RankInv /\ [Next]_vars => RankInv'
<1> SUFFICES ASSUME TypeInv, RankInv, [Next]_vars PROVE RankInv'
  OBVIOUS
<1>1. ASSUME NEW c \in Caller, NEW hash \in Hash \cup {None}, Call(c, hash) PROVE RankInv'
  BY <1>1, RankCall
<1>2. ASSUME NEW c \in Caller, CallerStep(c) PROVE RankInv'
  <2>1. CASE Turn(c) BY <2>1, RankGoto DEF Turn, Between
  <2>2. CASE Acquire(c) BY <2>2, RankGoto DEF Acquire, Between
  <2>3. CASE SeeStale(c) BY <2>3, RankGoto DEF SeeStale, Between
  <2>4. CASE Steal(c) BY <2>4, RankGoto DEF Steal, Between
  <2>5. CASE TimeOut(c) BY <2>5, RankGoto DEF TimeOut, Between
  <2>6. CASE Enter(c) BY <2>6, RankGoto DEF Enter, Between
  <2>7. CASE WriteSidecar(c) BY <2>7, RankGoto DEF WriteSidecar, Between
  <2>8. CASE NextSequence(c) BY <2>8, RankNext
  <2>9. CASE Compact(c) BY <2>9, RankGoto DEF Compact, Between
  <2>10. CASE Write(c) BY <2>10, RankGoto DEF Write, Between
  <2>11. CASE WriteFails(c) BY <2>11, RankGoto DEF WriteFails, Between
  <2>12. CASE Leave(c)
    <3>1. pc[c] \notin Over BY <2>12 DEF Leave, Over
    <3>2. QED BY <2>12, <3>1, RankSettle DEF Leave
  <2>13. CASE GiveUp(c)
    <3>1. pc[c] \notin Over BY <2>13 DEF GiveUp, Over
    <3>2. QED BY <2>13, <3>1, RankSettle DEF GiveUp
  <2>14. QED
    BY <1>2, <2>1, <2>2, <2>3, <2>4, <2>5, <2>6, <2>7, <2>8, <2>9, <2>10, <2>11, <2>12, <2>13
       DEF CallerStep
<1>3. ASSUME NEW c \in Caller, TearingCrash(c) PROVE RankInv'
  BY <1>3, RankKept DEF TearingCrash
<1>4. ASSUME NEW p \in alive, Crash(p) PROVE RankInv'
  BY <1>4, RankKept DEF Crash
<1>5. CASE UNCHANGED vars BY <1>5, RankKept DEF vars
<1>6. QED BY <1>1, <1>2, <1>3, <1>4, <1>5 DEF Next

\* The calls of one process are numbered in the order in which they were made,
\* awaited or not, even when lock directories are stolen, writes are cut short
\* and other processes die.
THEOREM CallsKeepTheirOrder == Spec => []CallOrder
<1>1. RankInv => CallOrder BY DEF RankInv
<1>2. QED BY TypeInit, TypeStep, RankInit, RankStep, <1>1, PTL DEF Spec
=============================================================================
