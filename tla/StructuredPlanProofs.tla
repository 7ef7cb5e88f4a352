------------------------ MODULE StructuredPlanProofs ------------------------
(***************************************************************************)
(* Proofs about StructuredPlan, for plans with any number of waves, tasks, *)
(* attempts, failures of the infrastructure and places in the fleet.       *)
(***************************************************************************)
EXTENDS StructuredPlan, FiniteSetTheorems, TLAPS

-----------------------------------------------------------------------------
(***************************************************************************)
(* The plan.                                                               *)
(***************************************************************************)
LEMMA WavesAreSequences ==
  /\ Waves \in Seq(Seq(Task)) /\ Len(Waves) \in Nat /\ 1 \in 1..Len(Waves)
  /\ \A w \in 1..Len(Waves) :
       /\ Waves[w] \in Seq(Task) /\ Len(Waves[w]) \in Nat /\ 1 \in 1..Len(Waves[w])
       /\ TasksOf(Waves[w]) \subseteq Task
<1>1. Waves \in Seq(Seq(Task)) /\ Waves # << >> BY PlanAssumption
<1>2. Len(Waves) \in Nat /\ Len(Waves) # 0 BY <1>1
<1>3. ASSUME NEW w \in 1..Len(Waves)
      PROVE  /\ Waves[w] \in Seq(Task) /\ Len(Waves[w]) \in Nat /\ 1 \in 1..Len(Waves[w])
             /\ TasksOf(Waves[w]) \subseteq Task
  <2>1. Waves[w] \in Seq(Task) BY <1>1
  <2>2. Len(Waves[w]) > 0 BY PlanAssumption
  <2> QED BY <2>1, <2>2 DEF TasksOf
<1> QED BY <1>1, <1>2, <1>3

LEMMA CurrentIsOfThePlan ==
  ASSUME TypeOK
  PROVE  /\ Ids \in Seq(Task) /\ Len(Ids) \in Nat /\ 1 \in 1..Len(Ids)
         /\ Current \subseteq Task /\ \A i \in 1..Len(Ids) : Ids[i] \in Current
<1>1. wave \in 1..Len(Waves) BY DEF TypeOK
<1>2. /\ Waves[wave] \in Seq(Task) /\ Len(Waves[wave]) \in Nat /\ 1 \in 1..Len(Waves[wave])
      /\ TasksOf(Waves[wave]) \subseteq Task
  BY <1>1, WavesAreSequences
<1>3. \A i \in 1..Len(Waves[wave]) : Waves[wave][i] \in TasksOf(Waves[wave]) BY DEF TasksOf
<1>4. Ids = Waves[wave] /\ Current = TasksOf(Waves[wave]) BY DEF Ids, Current
<1> QED BY <1>2, <1>3, <1>4

-----------------------------------------------------------------------------
(***************************************************************************)
(* Type correctness.  The ends of an attempt are stated once: each leaves  *)
(* the controller in a phase, within its waves and attempts.               *)
(***************************************************************************)
LEMMA EndTypes ==
  ASSUME TypeOK
  PROVE  /\ \A retry, text : Attempt(retry, text) =>
              /\ phase' \in {"gate", "failed"} /\ attempt' \in 1..MaxAttempts
              /\ wave' = wave /\ width' = width
         /\ \A kind : Thrown(kind) =>
              /\ phase' \in {"gate", "failed", "aborted"} /\ attempt' \in 1..MaxAttempts
              /\ wave' = wave /\ width' = width
<1>1. ASSUME NEW retry, NEW text, Attempt(retry, text)
      PROVE  /\ phase' \in {"gate", "failed"} /\ attempt' \in 1..MaxAttempts
             /\ wave' = wave /\ width' = width
  BY <1>1, PlanAssumption DEF Attempt, TypeOK
<1>2. ASSUME NEW kind, Thrown(kind)
      PROVE  /\ phase' \in {"gate", "failed", "aborted"} /\ attempt' \in 1..MaxAttempts
             /\ wave' = wave /\ width' = width
  BY <1>1, <1>2 DEF Thrown, EndsAs, plan, TypeOK
<1> QED BY <1>1, <1>2

LEMMA DurableType ==
  ASSUME TypeOK, NEW S, FailDurable(S)
  PROVE  durable' \in [Task -> {"pending", "running", "completed", "failed"}]
  BY DEF TypeOK, FailDurable

LEMMA TypeInit == Init => TypeOK
<1> SUFFICES ASSUME Init PROVE TypeOK
  OBVIOUS
<1>1. wave \in 1..Len(Waves) BY WavesAreSequences DEF Init
<1>2. attempt \in 1..MaxAttempts /\ width \in 1..Width /\ faults \in 0..MaxFaults
  BY PlanAssumption DEF Init
<1>3. passedIn \in [Task -> SUBSET (1..MaxAttempts)] /\ landedIn \in [Task -> SUBSET (1..MaxAttempts)]
  BY DEF Init
<1>4. result \in [Task -> Result] BY DEF Init, Result
<1> QED BY <1>1, <1>2, <1>3, <1>4 DEF Init, TypeOK

LEMMA TypeStart ==
  ASSUME TypeOK, Gate \/ Prepare \/ SandboxFails \/ DurableStartFails \/ ContextFails
  PROVE  TypeOK'
<1>1. CASE Gate
  BY <1>1 DEF Gate, EndsAs, TypeOK, child, plan, effects, env, Outcome
<1>2. CASE Prepare
  <2>1. /\ at' \in [Task -> {"none", "queued", "implement", "verify", "back"}]
        /\ result' \in [Task -> Result] /\ next' \in Nat
        /\ status' \in [Task -> {"none", "completed", "timed-out", "cancelled", "rejected"}]
        /\ row' \in [Task -> {"none", "running", "completed", "timeout", "inactivity", "cancelled"}]
    BY <1>2 DEF Prepare, Resets, Result
  <2>2. durable' \in [Task -> {"pending", "running", "completed", "failed"}]
    BY <1>2 DEF Prepare, StartsDurable, TypeOK
  <2> QED BY <1>2, <2>1, <2>2 DEF Prepare, Resets, TypeOK, plan, env
<1>3. CASE SandboxFails
  <2>1. faults' \in 0..MaxFaults BY <1>3, PlanAssumption DEF SandboxFails, TypeOK
  <2> QED BY <1>3, <2>1, EndTypes DEF SandboxFails, TypeOK, child, effects, Outcome
<1>4. CASE DurableStartFails
  <2>1. faults' \in 0..MaxFaults BY <1>4, PlanAssumption DEF DurableStartFails, TypeOK
  <2>2. durable' \in [Task -> {"pending", "running", "completed", "failed"}]
    BY <1>4 DEF DurableStartFails, TypeOK
  <2>3. Thrown("start") BY <1>4 DEF DurableStartFails
  <2>4. UNCHANGED <<next, child, strayed, closed, passedIn, landedIn, aborted, deadline>>
    BY <1>4 DEF DurableStartFails
  <2> QED BY <2>1, <2>2, <2>3, <2>4, EndTypes DEF TypeOK, child, Outcome
<1>5. CASE ContextFails
  <2>1. faults' \in 0..MaxFaults BY <1>5, PlanAssumption DEF ContextFails, TypeOK
  <2>2. durable' \in [Task -> {"pending", "running", "completed", "failed"}]
    BY <1>5 DEF ContextFails, StartsDurable, TypeOK
  <2> QED BY <1>5, <2>1, <2>2 DEF ContextFails, EndsAs, TypeOK, plan, child, Outcome
<1> QED BY <1>1, <1>2, <1>3, <1>4, <1>5

LEMMA TypeReturns ==
  ASSUME TypeOK, NEW t \in Task, NEW r \in Result, Returns(t, r)
  PROVE  /\ at' \in [Task -> {"none", "queued", "implement", "verify", "back"}]
         /\ result' \in [Task -> Result]
         /\ status' \in [Task -> {"none", "completed", "timed-out", "cancelled", "rejected"}]
         /\ row' \in [Task -> {"none", "running", "completed", "timeout", "inactivity", "cancelled"}]
  BY DEF TypeOK, Returns, CloseRow

LEMMA TypeFleet ==
  ASSUME TypeOK, Take \/ (\E t \in Task : Child(t) \/ Ages(t)) \/ Sweep
  PROVE  TypeOK'
<1>1. CASE Take
  <2>1. next \in Nat /\ next <= Len(Ids) BY <1>1 DEF Take, CanTake, TypeOK
  <2>2. UNCHANGED <<phase, plan, result, late, silent, strayed, observed, closed, effects, env>>
        /\ next' = next + 1
    BY <1>1 DEF Take
  <2>3. /\ at' \in [Task -> {"none", "queued", "implement", "verify", "back"}]
        /\ status' \in [Task -> {"none", "completed", "timed-out", "cancelled", "rejected"}]
        /\ row' \in [Task -> {"none", "running", "completed", "timeout", "inactivity", "cancelled"}]
    BY <1>1 DEF Take, TypeOK
  <2> QED BY <2>1, <2>2, <2>3 DEF TypeOK, plan, effects, env
<1>2. ASSUME NEW t \in Task, Implemented(t) PROVE TypeOK'
  <2>1. strayed' \subseteq Sandboxed BY <1>2 DEF Implemented, TypeOK
  <2>2. CASE deadline
    <3>1. Returns(t, "not-verified") BY <1>2, <2>2 DEF Implemented
    <3> QED BY <1>2, <2>1, <3>1, TypeReturns
            DEF Implemented, TypeOK, Result, plan, effects, env
  <2>3. CASE ~deadline
    BY <1>2, <2>1, <2>3 DEF Implemented, TypeOK, plan, effects, env
  <2> QED BY <2>2, <2>3
<1>3. ASSUME NEW t \in Task, Fails(t) PROVE TypeOK'
  <2>1. PICK r \in Failure \cup (IF aborted THEN {"aborted"} ELSE {}) : Returns(t, r)
    BY <1>3 DEF Fails
  <2>2. r \in Result BY DEF Result
  <2> QED BY <1>3, <2>1, <2>2, TypeReturns DEF Fails, TypeOK, plan, effects, env
<1>4. ASSUME NEW t \in Task, Verified(t) PROVE TypeOK'
  <2>1. passedIn' \in [Task -> SUBSET (1..MaxAttempts)] BY <1>4 DEF Verified, TypeOK
  <2> QED BY <1>4, <2>1, TypeReturns DEF Verified, TypeOK, Result, plan, env
<1>5. ASSUME NEW t \in Task, Ages(t) PROVE TypeOK'
  BY <1>5 DEF Ages, TypeOK, plan, effects, env
<1>6. CASE Sweep
  <2>1. row' \in [Task -> {"none", "running", "completed", "timeout", "inactivity", "cancelled"}]
    BY <1>6 DEF Sweep, TypeOK
  <2> QED BY <1>6, <2>1 DEF Sweep, TypeOK, plan, effects, env
<1> QED BY <1>1, <1>2, <1>3, <1>4, <1>5, <1>6 DEF Child

LEMMA TypeTeardown ==
  ASSUME TypeOK, Teardown
  PROVE  /\ result' \in [Task -> Result] /\ closed' \in BOOLEAN
         /\ status' \in [Task -> {"none", "completed", "timed-out", "cancelled", "rejected"}]
         /\ row' \in [Task -> {"none", "running", "completed", "timeout", "inactivity", "cancelled"}]
         /\ late' = {} /\ silent' = {}
  BY DEF TypeOK, Teardown, Result

LEMMA TypeSettled ==
  ASSUME TypeOK, WaveAborted \/ WaveFails \/ WavePasses
  PROVE  TypeOK'
<1>1. CASE WaveAborted
  BY <1>1, TypeTeardown, DurableType DEF WaveAborted, EndsAs, TypeOK, plan, env, Outcome
<1>2. CASE WaveFails
  <2>1. Attempt(TextRetryable, <<"children", FailureText>>) BY <1>2 DEF WaveFails, Govern
  <2> QED BY <1>2, <2>1, EndTypes, TypeTeardown, DurableType DEF WaveFails, TypeOK, env, Outcome
<1>3. CASE WavePasses
  BY <1>3, TypeTeardown DEF WavePasses, TypeOK, plan, effects, env
<1> QED BY <1>1, <1>2, <1>3

LEMMA TypeLanding ==
  ASSUME TypeOK, ScopeFails \/ TooLate \/ LandThrows \/ LandingFails \/ WaveLands
  PROVE  TypeOK'
<1>1. CASE ScopeFails
  <2>1. PICK retryable \in BOOLEAN : LeavesRoot(<<"strayed", strayed>>, retryable)
    BY <1>1 DEF ScopeFails
  <2>2. Attempt(retryable, <<"strayed", strayed>>) /\ FailDurable(Current)
        /\ UNCHANGED <<passedIn, landedIn>>
    BY <2>1 DEF LeavesRoot, Govern
  <2> QED BY <1>1, <2>2, EndTypes, DurableType DEF ScopeFails, TypeOK, child, env, Outcome
<1>2. CASE TooLate
  BY <1>2, DurableType DEF TooLate, EndsAs, TypeOK, plan, child, env, Outcome
<1>3. CASE LandThrows
  <2>1. faults' \in 0..MaxFaults BY <1>3, PlanAssumption DEF LandThrows, TypeOK
  <2> QED BY <1>3, <2>1, EndTypes, DurableType DEF LandThrows, TypeOK, child, Outcome
<1>4. CASE LandingFails
  <2>1. PICK f \in Failure : LeavesRoot(<<"landing", f>>, f \in Retryable)
    BY <1>4 DEF LandingFails
  <2>2. Attempt(f \in Retryable, <<"landing", f>>) /\ FailDurable(Current)
        /\ UNCHANGED <<passedIn, landedIn>>
    BY <2>1 DEF LeavesRoot, Govern
  <2> QED BY <1>4, <2>2, EndTypes, DurableType DEF LandingFails, TypeOK, child, env, Outcome
<1>5. CASE WaveLands
  <2>1. landedIn' \in [Task -> SUBSET (1..MaxAttempts)] BY <1>5 DEF WaveLands, TypeOK
  <2>2. CASE phase' = "complete" /\ UNCHANGED <<plan, observed, durable>>
    BY <1>5, <2>1, <2>2 DEF WaveLands, TypeOK, plan, child, env
  <2>3. CASE FailDurable(Current) /\ Govern(<<"stale", 0>>, TRUE)
    <3>1. Attempt(TRUE, <<"stale", 0>>) BY <2>3 DEF Govern
    <3> QED BY <1>5, <2>1, <2>3, <3>1, EndTypes, DurableType DEF WaveLands, TypeOK, child, env, Outcome
  <2> QED BY <1>5, <2>2, <2>3 DEF WaveLands
<1> QED BY <1>1, <1>2, <1>3, <1>4, <1>5

LEMMA TypeComplete ==
  ASSUME TypeOK, Complete \/ CompleteFails \/ CompleteAborted
  PROVE  TypeOK'
<1>1. CASE Complete
  <2>1. durable' \in [Task -> {"pending", "running", "completed", "failed"}]
    BY <1>1 DEF Complete, TypeOK
  <2>2. wave' \in 1..Len(Waves) /\ attempt' \in 1..MaxAttempts /\ width' = width
        /\ phase' \in {"gate", "passed"}
    BY <1>1, WavesAreSequences, PlanAssumption DEF Complete, TypeOK
  <2>3. UNCHANGED <<next, child, strayed, closed, passedIn, landedIn, env>>
    BY <1>1 DEF Complete
  <2> QED BY <2>1, <2>2, <2>3 DEF TypeOK, child, env, Outcome
<1>2. CASE CompleteFails
  <2>1. faults' \in 0..MaxFaults BY <1>2, PlanAssumption DEF CompleteFails, TypeOK
  <2>2. durable' \in [Task -> {"pending", "running", "completed", "failed"}]
    BY <1>2 DEF CompleteFails, TypeOK
  <2>3. Thrown("complete")
        /\ UNCHANGED <<next, child, strayed, closed, passedIn, landedIn, aborted, deadline>>
    BY <1>2 DEF CompleteFails
  <2> QED BY <2>1, <2>2, <2>3, EndTypes DEF TypeOK, child, Outcome
<1>3. CASE CompleteAborted
  <2>1. durable' \in [Task -> {"pending", "running", "completed", "failed"}]
    BY <1>3 DEF CompleteAborted, TypeOK
  <2> QED BY <1>3, <2>1 DEF CompleteAborted, EndsAs, TypeOK, plan, child, Outcome
<1> QED BY <1>1, <1>2, <1>3

LEMMA TypeStep == TypeOK /\ [Next]_vars => TypeOK'
<1> SUFFICES ASSUME TypeOK, [Next]_vars PROVE TypeOK'
  OBVIOUS
<1>1. CASE Abort BY <1>1 DEF Abort, TypeOK, plan, child, effects
<1>2. CASE Deadline BY <1>2 DEF Deadline, TypeOK, plan, child, effects
<1>3. CASE UNCHANGED vars BY <1>3 DEF vars, TypeOK, plan, child, effects, env
<1> QED BY <1>1, <1>2, <1>3, TypeStart, TypeFleet, TypeSettled, TypeLanding, TypeComplete
        DEF Next, Controller

(* Every reachable state is well typed, for plans of any size: the loop over *)
(* waves and attempts stays within both (executeStructuredPlan).             *)
THEOREM TypeCorrect == Spec => []TypeOK
  BY TypeInit, TypeStep, PTL DEF Spec

-----------------------------------------------------------------------------
(***************************************************************************)
(* The children.  While the fleet works, a row is open only for a child    *)
(* that works, and what the workers have not reached is untouched; an      *)
(* abort leaves its trace in some child of the wave, because it is heard   *)
(* before the last of them has come back.                                  *)
(***************************************************************************)
Untouched == \A i \in 1..Len(Ids) : next <= i => at[Ids[i]] = "queued" /\ row[Ids[i]] = "none"
OpenRowsWork ==
  \A t \in Task : /\ t \notin Current => at[t] = "none" /\ row[t] = "none"
                  /\ row[t] = "running" => at[t] \in {"implement", "verify"}
AbortIsSeen == aborted => \E t \in Current : at[t] # "back" \/ RowAborted(t)

FleetInv ==
  /\ next # 0
  /\ NeverRejected
  /\ closed => Over /\ aborted
  /\ phase # "fleet" => \A t \in Task : at[t] \in {"none", "back"} /\ row[t] # "running"
  /\ phase = "fleet" => Untouched /\ OpenRowsWork /\ AbortIsSeen

LEMMA FleetInit == Init => FleetInv
  BY DEF Init, FleetInv, NeverRejected, Over, Outcome

LEMMA PrepareOpensTheFleet ==
  ASSUME TypeOK, FleetInv, Prepare
  PROVE  FleetInv'
<1>1. /\ next' = 1 /\ phase' = "fleet" /\ closed' = closed /\ aborted' = aborted
      /\ at' = [t \in Task |-> IF t \in Current THEN "queued" ELSE "none"]
      /\ status' = [t \in Task |-> "none"] /\ row' = [t \in Task |-> "none"]
      /\ wave' = wave
  BY DEF Prepare, Resets, plan, env
<1>2. ~closed BY DEF FleetInv, Over, Outcome, Prepare
<1>3. Ids' = Ids /\ Current' = Current BY <1>1 DEF Ids, Current
<1>4. \A i \in 1..Len(Ids) : Ids[i] \in Current /\ Ids[i] \in Task BY CurrentIsOfThePlan
<1>5. Untouched' BY <1>1, <1>3, <1>4 DEF Untouched
<1>6. OpenRowsWork' BY <1>1, <1>3 DEF OpenRowsWork
<1>7. Ids[1] \in Current /\ Ids[1] \in Task BY CurrentIsOfThePlan
<1>8. AbortIsSeen' BY <1>1, <1>3, <1>7 DEF AbortIsSeen
<1> QED BY <1>1, <1>2, <1>5, <1>6, <1>8 DEF FleetInv, NeverRejected

LEMMA CurrentIsFinite == ASSUME TypeOK PROVE IsFiniteSet(Current)
<1> DEFINE f == [i \in 1..Len(Ids) |-> Ids[i]]
<1>1. Len(Ids) \in Nat BY CurrentIsOfThePlan
<1>2. IsFiniteSet(1..Len(Ids)) BY <1>1, FS_Interval
<1>3. f \in Surjection(1..Len(Ids), Current) BY DEF Surjection, Current, TasksOf
<1> QED BY <1>2, <1>3, FS_Surjection

(* The registry never has more open rows than the fleet has busy workers.   *)
LEMMA RoomForTheNext ==
  ASSUME TypeOK, FleetInv, CanTake
  PROVE  Cardinality(RunningRows) < Width
<1>1. phase = "fleet" /\ Cardinality(Working) < Workers BY DEF CanTake
<1>2. RunningRows \subseteq Working
  BY <1>1 DEF FleetInv, OpenRowsWork, RunningRows, Working
<1>4. IsFiniteSet(Working) BY CurrentIsFinite, FS_Subset DEF Working
<1>5. Cardinality(RunningRows) <= Cardinality(Working) BY <1>2, <1>4, FS_Subset
<1>6. Workers <= width /\ Workers \in Nat
  BY CurrentIsOfThePlan DEF Workers, Least, TypeOK
<1>7. width <= Width /\ width \in Nat /\ Width \in Nat BY PlanAssumption DEF TypeOK
<1>8. Cardinality(Working) \in Nat /\ Cardinality(RunningRows) \in Nat
  BY <1>2, <1>4, FS_Subset, FS_CardinalityType
<1> QED BY <1>1, <1>5, <1>6, <1>7, <1>8

LEMMA TakeKeepsTheFleet ==
  ASSUME TypeOK, FleetInv, Take
  PROVE  FleetInv'
<1> DEFINE t == Ids[next]
<1>1. /\ CanTake /\ next' = next + 1
      /\ UNCHANGED <<phase, plan, result, late, silent, strayed, observed, closed, effects, env>>
  BY DEF Take
<1>2. phase = "fleet" /\ next \in 1..Len(Ids) /\ next \in Nat
  BY <1>1, CurrentIsOfThePlan DEF CanTake, FleetInv, TypeOK
<1>3. ~closed /\ ~(Cardinality(RunningRows) >= Width)
  <2>1. Cardinality(RunningRows) < Width BY <1>1, RoomForTheNext
  <2>2. Width \in Nat BY PlanAssumption
  <2>3. Cardinality(RunningRows) \in Nat
    <3>1. RunningRows \subseteq Current
      BY <1>2 DEF FleetInv, OpenRowsWork, RunningRows
    <3> QED BY <3>1, CurrentIsFinite, FS_Subset, FS_CardinalityType
  <2>4. ~closed BY <1>2 DEF FleetInv, Over, Outcome
  <2> QED BY <2>1, <2>2, <2>3, <2>4
<1>4. /\ at' = [at EXCEPT ![t] = "implement"] /\ row' = [row EXCEPT ![t] = "running"]
      /\ status' = status
  BY <1>3 DEF Take
<1>5. t \in Current /\ t \in Task /\ Current \subseteq Task BY <1>2, CurrentIsOfThePlan
<1>6. Ids' = Ids /\ Current' = Current BY <1>1 DEF Ids, Current, plan
<1>7. Untouched'
  <2> SUFFICES ASSUME NEW i \in 1..Len(Ids), next + 1 <= i
               PROVE  at'[Ids[i]] = "queued" /\ row'[Ids[i]] = "none"
    BY <1>1, <1>6 DEF Untouched
  <2>1. next <= i /\ i # next BY <1>2, CurrentIsOfThePlan
  <2>2. Ids[i] # t
    <3>1. \A k, j \in 1..Len(Waves[wave]) : Waves[wave][k] = Waves[wave][j] => k = j
      BY PlanAssumption DEF TypeOK
    <3> QED BY <1>2, <2>1, <3>1 DEF Ids
  <2>3. Ids[i] \in Task BY CurrentIsOfThePlan
  <2> QED BY <1>2, <1>4, <2>1, <2>2, <2>3 DEF FleetInv, Untouched, TypeOK
<1>8. OpenRowsWork' BY <1>2, <1>4, <1>5, <1>6 DEF FleetInv, OpenRowsWork, TypeOK
<1>9. AbortIsSeen' BY <1>4, <1>5, <1>6, <1>1 DEF AbortIsSeen, TypeOK, env
<1> QED BY <1>1, <1>2, <1>3, <1>4, <1>7, <1>8, <1>9 DEF FleetInv, NeverRejected

LEMMA ReturnKeepsTheFleet ==
  ASSUME TypeOK, FleetInv, phase = "fleet", NEW t \in Working, NEW r, Returns(t, r),
         UNCHANGED <<phase, plan, next, closed, env>>
  PROVE  FleetInv'
<1>1. t \in Current /\ t \in Task /\ at[t] \in {"implement", "verify"}
  BY CurrentIsOfThePlan DEF Working
<1>2. Ids' = Ids /\ Current' = Current BY DEF Ids, Current, plan
<1>3. /\ at' = [at EXCEPT ![t] = "back"]
      /\ \A u \in Task \ {t} : row'[u] = row[u] /\ at'[u] = at[u] /\ status'[u] = status[u]
      /\ row'[t] # "running" /\ at'[t] = "back"
      /\ status'[t] \in {"timed-out", "cancelled", "completed"}
      /\ aborted => status'[t] \in {"timed-out", "cancelled"}
  BY <1>1 DEF Returns, CloseRow, TypeOK, Reaped
<1>4. Untouched'
  <2> SUFFICES ASSUME NEW i \in 1..Len(Ids), next <= i
               PROVE  at'[Ids[i]] = "queued" /\ row'[Ids[i]] = "none"
    BY <1>2 DEF Untouched
  <2>1. at[Ids[i]] = "queued" /\ row[Ids[i]] = "none" /\ Ids[i] \in Task
    BY CurrentIsOfThePlan DEF FleetInv, Untouched
  <2> QED BY <1>1, <1>3, <2>1
<1>5. OpenRowsWork' BY <1>1, <1>2, <1>3 DEF FleetInv, OpenRowsWork
<1>6. AbortIsSeen'
  <2> SUFFICES ASSUME aborted PROVE RowAborted(t)'
    BY <1>1, <1>2 DEF AbortIsSeen, env
  <2> QED BY <1>3 DEF RowAborted, env
<1> QED BY <1>3, <1>4, <1>5, <1>6 DEF FleetInv, NeverRejected, Over, env

LEMMA ChildrenKeepTheFleet ==
  ASSUME TypeOK, FleetInv, Sweep \/ (\E t \in Task : Child(t) \/ Ages(t))
  PROVE  FleetInv'
<1>1. ASSUME NEW t \in Task, Implemented(t) PROVE FleetInv'
  <2>1. t \in Working /\ phase = "fleet" BY <1>1 DEF Implemented, ChildMoves
  <2>2. CASE deadline
    <3>1. Returns(t, "not-verified") BY <1>1, <2>2 DEF Implemented
    <3> QED BY <1>1, <2>1, <3>1, ReturnKeepsTheFleet DEF Implemented
  <2>3. CASE ~deadline
    <3>1. /\ at' = [at EXCEPT ![t] = "verify"] /\ UNCHANGED <<result, status, row>>
          /\ UNCHANGED <<phase, plan, next, closed, env>>
      BY <1>1, <2>3 DEF Implemented
    <3>2. Ids' = Ids /\ Current' = Current BY <3>1 DEF Ids, Current, plan
    <3>3. t \in Current /\ at[t] = "implement" BY <1>1, <2>1 DEF Working, Implemented
    <3>4. Untouched'
      BY <2>1, <3>1, <3>2, <3>3, CurrentIsOfThePlan DEF FleetInv, Untouched, TypeOK
    <3>5. OpenRowsWork' BY <2>1, <3>1, <3>2, <3>3 DEF FleetInv, OpenRowsWork, TypeOK
    <3>6. AbortIsSeen'
      BY <2>1, <3>1, <3>2, <3>3, CurrentIsOfThePlan DEF AbortIsSeen, TypeOK, env
    <3> QED BY <2>1, <3>1, <3>4, <3>5, <3>6 DEF FleetInv, NeverRejected, Over, env
  <2> QED BY <2>2, <2>3
<1>2. ASSUME NEW t \in Task, Fails(t) PROVE FleetInv'
  BY <1>2, ReturnKeepsTheFleet DEF Fails, ChildMoves
<1>3. ASSUME NEW t \in Task, Verified(t) PROVE FleetInv'
  BY <1>3, ReturnKeepsTheFleet DEF Verified, ChildMoves
<1>4. ASSUME NEW t \in Task, Ages(t) PROVE FleetInv'
  BY <1>4 DEF Ages, FleetInv, Untouched, OpenRowsWork, AbortIsSeen, RowAborted, NeverRejected,
              Over, Ids, Current, plan, env
<1>5. CASE Sweep
  <2>1. /\ phase = "fleet"
        /\ UNCHANGED <<phase, plan, next, at, result, status, closed, env>>
        /\ \A t \in Task : row'[t] = row[t] \/ (row[t] = "running" /\ row'[t] # "running")
    BY <1>5 DEF Sweep, RunningRows
  <2>2. Ids' = Ids /\ Current' = Current BY <2>1 DEF Ids, Current, plan
  <2>3. Untouched' BY <2>1, <2>2, CurrentIsOfThePlan DEF FleetInv, Untouched
  <2>4. OpenRowsWork' BY <2>1, <2>2 DEF FleetInv, OpenRowsWork
  <2>5. AbortIsSeen' BY <2>1, <2>2 DEF FleetInv, AbortIsSeen, RowAborted, env
  <2> QED BY <2>1, <2>3, <2>4, <2>5 DEF FleetInv, NeverRejected, Over, env
<1> QED BY <1>1, <1>2, <1>3, <1>4, <1>5 DEF Child

(* A wave that settles unaborted leaves the session open: no row is open any *)
(* more, and an abort would have been seen.                                  *)
LEMMA SettlingKeepsTheFleet ==
  ASSUME TypeOK, FleetInv, WaveAborted \/ WaveFails \/ WavePasses
  PROVE  FleetInv'
<1>1. phase = "fleet" /\ AllBack /\ Teardown /\ UNCHANGED <<next, at>>
  BY DEF WaveAborted, WaveFails, WavePasses, Settles
<1>2. phase' # "fleet" /\ (WaveAborted => Over')
  BY EndTypes DEF WaveAborted, WaveFails, WavePasses, EndsAs, Govern, Over, Outcome
<1>3. \A t \in Task : at[t] \in {"none", "back"}
  BY <1>1 DEF FleetInv, OpenRowsWork, AllBack
<1>4. RunningRows = {} BY <1>1, <1>3 DEF FleetInv, OpenRowsWork, RunningRows
<1>5. ASSUME ~WaveAborted PROVE ~closed'
  <2>1. ~\E t \in Current : RowAborted(t) BY <1>5 DEF WaveFails, WavePasses
  <2>2. ~aborted BY <1>1, <2>1 DEF FleetInv, AbortIsSeen, AllBack
  <2>3. ~closed BY <1>1 DEF FleetInv, Over, Outcome
  <2> QED BY <1>1, <1>4, <2>2, <2>3 DEF Teardown
<1>6. closed' => aborted'
  <2>1. closed' => aborted BY <1>1, <1>4 DEF FleetInv, Over, Outcome, Teardown
  <2>2. aborted' = aborted BY DEF WaveAborted, WaveFails, WavePasses, env
  <2> QED BY <2>1, <2>2
<1> QED BY <1>1, <1>2, <1>3, <1>5, <1>6 DEF FleetInv, NeverRejected, Teardown

LEMMA FleetQuiet ==
  ASSUME FleetInv, UNCHANGED <<child, next, closed>>, phase # "fleet", phase' # "fleet", ~Over
  PROVE  FleetInv'
  BY DEF FleetInv, NeverRejected, child

LEMMA OutsideTheFleet ==
  ASSUME TypeOK, FleetInv,
         Gate \/ SandboxFails \/ DurableStartFails \/ ContextFails \/ ScopeFails \/ TooLate
           \/ LandThrows \/ LandingFails \/ WaveLands \/ Complete \/ CompleteFails
           \/ CompleteAborted
  PROVE  FleetInv'
<1>1. phase \in {"gate", "prepare", "land", "complete"} /\ UNCHANGED <<child, next, closed>>
  BY DEF Gate, SandboxFails, DurableStartFails, ContextFails, ScopeFails, TooLate, LandThrows,
         LandingFails, Lands, WaveLands, Complete, CompleteFails, CompleteAborted
<1>2. phase' # "fleet"
  BY EndTypes DEF Gate, SandboxFails, DurableStartFails, ContextFails, ScopeFails, TooLate,
     LandThrows, LandingFails, WaveLands, Complete, CompleteFails, CompleteAborted, LeavesRoot,
     Govern, EndsAs
<1> QED BY <1>1, <1>2, FleetQuiet DEF Over, Outcome

LEMMA FleetStep == TypeOK /\ FleetInv /\ [Next]_vars => FleetInv'
<1> SUFFICES ASSUME TypeOK, FleetInv, [Next]_vars PROVE FleetInv'
  OBVIOUS
<1>1. CASE Abort
  <2>1. /\ UNCHANGED <<phase, plan, next, child, closed>> /\ ~Over
        /\ phase = "fleet" => \E t \in Current : at[t] # "back"
    BY <1>1 DEF Abort, Settles, AllBack
  <2>2. CASE phase # "fleet" BY <2>1, <2>2, FleetQuiet
  <2>3. CASE phase = "fleet"
    <3>1. Ids' = Ids /\ Current' = Current BY <2>1 DEF Ids, Current, plan
    <3>2. AbortIsSeen' BY <2>1, <2>3, <3>1 DEF AbortIsSeen, child
    <3> QED BY <2>1, <2>3, <3>1, <3>2
            DEF FleetInv, NeverRejected, Untouched, OpenRowsWork, Over, child
  <2> QED BY <2>2, <2>3
<1>2. ASSUME Deadline \/ UNCHANGED vars PROVE FleetInv'
  <2>1. UNCHANGED <<phase, plan, next, child, closed, aborted>>
    BY <1>2 DEF Deadline, vars, env
  <2>2. Ids' = Ids /\ Current' = Current BY <2>1 DEF Ids, Current, plan
  <2> QED BY <2>1, <2>2 DEF FleetInv, NeverRejected, Untouched, OpenRowsWork, AbortIsSeen,
                           RowAborted, Over, child
<1> QED BY <1>1, <1>2, PrepareOpensTheFleet, TakeKeepsTheFleet, ChildrenKeepTheFleet,
           SettlingKeepsTheFleet, OutsideTheFleet
        DEF Next, Controller

LEMMA FleetHolds == Spec => [](TypeOK /\ FleetInv)
  BY TypeInit, TypeStep, FleetInit, FleetStep, PTL DEF Spec

(* The registry refuses no task of a plan, whatever the watchdog reaps and  *)
(* whenever the session is closed (registerChild, runDelegationWave).       *)
THEOREM NothingIsRejected == Spec => []NeverRejected
<1>1. FleetInv => NeverRejected BY DEF FleetInv
<1> QED BY <1>1, FleetHolds, PTL

(* No sandbox is integrated or removed under a child that works in it: when *)
(* the controller goes on, all children of the wave are back, the reaped    *)
(* ones too; and the teardown finds no row that a child has left open.      *)
THEOREM NoChildIsOrphaned == Spec => []NoOrphans
<1>1. TypeOK /\ FleetInv => NoOrphans
  BY CurrentIsOfThePlan DEF FleetInv, NoOrphans
<1> QED BY <1>1, FleetHolds, PTL

(* The late answer of a reaped child never makes its row a completed one    *)
(* (finalizeChild, cancelChild).                                            *)
THEOREM ReapedChildStaysReaped == Spec => ReapedStays
<1> DEFINE Stays == \A t \in Task : Reaped(t) => row'[t] \in {row[t], "none"}
<1>1. TypeOK /\ FleetInv /\ [Next]_vars => [Stays]_vars
  <2> SUFFICES ASSUME TypeOK, FleetInv, Next PROVE Stays
    OBVIOUS
  <2>1. CASE Take
    <3>1. phase = "fleet" /\ next \in 1..Len(Ids) /\ next <= next
      BY <2>1, CurrentIsOfThePlan DEF Take, CanTake, FleetInv, TypeOK
    <3>2. row[Ids[next]] = "none" BY <3>1 DEF FleetInv, Untouched
    <3> QED BY <2>1, <3>2 DEF Take, Reaped, TypeOK
  <2>2. ASSUME NEW t \in Task, Child(t) PROVE Stays
    BY <2>2 DEF Child, Implemented, Fails, Verified, Returns, CloseRow, TypeOK
  <2>3. CASE Sweep BY <2>3 DEF Sweep, RunningRows, Reaped
  <2>4. ASSUME Prepare \/ WaveAborted \/ WaveFails \/ WavePasses PROVE Stays
    BY <2>4 DEF Prepare, Resets, WaveAborted, WaveFails, WavePasses, Teardown
  <2>5. ASSUME UNCHANGED row PROVE Stays BY <2>5
  <2> QED BY <2>1, <2>2, <2>3, <2>4, <2>5
          DEF Next, Controller, Gate, SandboxFails, DurableStartFails, ContextFails, ScopeFails,
              TooLate, LandThrows, LandingFails, WaveLands, Complete, CompleteFails,
              CompleteAborted, Ages, Abort, Deadline, child
<1> QED BY <1>1, FleetHolds, PTL DEF Spec, ReapedStays

-----------------------------------------------------------------------------
(***************************************************************************)
(* The effects.  From landing on, every task of the wave was verified in   *)
(* this attempt; at completion the writers among them have landed; waves   *)
(* that lie behind are done.                                               *)
(***************************************************************************)
Done(t) ==
  /\ passedIn[t] # {}
  /\ t \in Sandboxed => landedIn[t] # {}
  /\ Durable => durable[t] = "completed"

LandedWasVerified ==
  \A w \in 1..Len(Waves) : \A t, u \in TasksOf(Waves[w]) : landedIn[t] \subseteq passedIn[u]
CompletedIsBacked ==
  \A t \in Task : durable[t] = "completed" =>
    passedIn[t] # {} /\ (t \in Sandboxed => landedIn[t] # {})
EarlierAreDone ==
  \A w \in 1..Len(Waves) : w < wave \/ phase = "passed" => \A t \in TasksOf(Waves[w]) : Done(t)

EffectInv ==
  /\ LandedWasVerified /\ CompletedIsBacked /\ EarlierAreDone
  /\ phase \in {"land", "complete"} => \A t \in Current : attempt \in passedIn[t]
  /\ phase = "complete" => \A t \in Current \cap Sandboxed : landedIn[t] # {}
  /\ phase = "fleet" => \A t \in Task : result[t] = "PASS" => attempt \in passedIn[t]

LEMMA EffectInit == Init => EffectInv
<1> SUFFICES ASSUME Init PROVE EffectInv
  OBVIOUS
<1>1. LandedWasVerified /\ CompletedIsBacked
  BY WavesAreSequences DEF Init, LandedWasVerified, CompletedIsBacked
<1>2. EarlierAreDone BY DEF Init, EarlierAreDone
<1> QED BY <1>1, <1>2 DEF Init, EffectInv

LEMMA OtherWavesAreApart ==
  ASSUME TypeOK, NEW w \in 1..Len(Waves), w # wave
  PROVE  TasksOf(Waves[w]) \cap Current = {}
  BY PlanAssumption DEF TypeOK, Current, Ids

(* A step that lands nothing and completes nothing, and takes nothing from  *)
(* the waves behind, keeps the effects.                                     *)
Quiet ==
  /\ wave' = wave /\ landedIn' = landedIn
  /\ \A t \in Task : passedIn[t] \subseteq passedIn'[t]
  /\ \A t \in Task : durable'[t] = "completed" => durable[t] = "completed"
  /\ \A t \in Task \ Current : durable[t] = "completed" => durable'[t] = "completed"

LEMMA QuietKeeps ==
  ASSUME TypeOK, EffectInv, Quiet, phase' # "passed"
  PROVE  (LandedWasVerified /\ CompletedIsBacked /\ EarlierAreDone)'
<1>1. \A w \in 1..Len(Waves) : TasksOf(Waves[w]) \subseteq Task BY WavesAreSequences
<1>2. LandedWasVerified' BY <1>1 DEF EffectInv, LandedWasVerified, Quiet
<1>3. CompletedIsBacked' BY DEF EffectInv, CompletedIsBacked, Quiet
<1>4. EarlierAreDone'
  <2> SUFFICES ASSUME NEW w \in 1..Len(Waves), w < wave, NEW t \in TasksOf(Waves[w])
               PROVE  Done(t)'
    BY DEF EarlierAreDone, Quiet
  <2>1. Done(t) BY DEF EffectInv, EarlierAreDone
  <2>2. w # wave BY DEF TypeOK
  <2>3. t \in Task \ Current BY <1>1, <2>2, OtherWavesAreApart
  <2> QED BY <2>1, <2>3 DEF Done, Quiet
<1> QED BY <1>2, <1>3, <1>4

LEMMA FailingIsQuiet ==
  ASSUME TypeOK, NEW S, FailDurable(S)
  PROVE  \A t \in Task : durable'[t] = "completed" <=> durable[t] = "completed"
  BY DEF TypeOK, FailDurable

(* The ends of an attempt. *)
LEMMA EndsKeepEffects ==
  ASSUME TypeOK, EffectInv,
         Gate \/ SandboxFails \/ DurableStartFails \/ ContextFails \/ WaveAborted \/ WaveFails
           \/ ScopeFails \/ TooLate \/ LandThrows \/ LandingFails
  PROVE  EffectInv'
<1>1. ASSUME phase' \notin {"land", "complete", "fleet", "passed"}, Quiet PROVE EffectInv'
  BY <1>1, QuietKeeps DEF EffectInv
<1>2. CASE Gate
  BY <1>1, <1>2 DEF Gate, EndsAs, Quiet, plan, effects
<1>3. CASE SandboxFails
  BY <1>1, <1>3, EndTypes DEF SandboxFails, Quiet, effects
<1>4. CASE DurableStartFails
  <2>1. Thrown("start") /\ UNCHANGED <<passedIn, landedIn>> BY <1>4 DEF DurableStartFails
  <2>2. PICK i \in 1..Len(Ids) :
          LET started == {Ids[j] : j \in 1..(i - 1)} IN
          durable' = [t \in Task |-> IF t \in started THEN "failed" ELSE durable[t]]
    BY <1>4 DEF DurableStartFails
  <2>3. \A j \in 1..(i - 1) : j \in 1..Len(Ids) BY CurrentIsOfThePlan
  <2>4. {Ids[j] : j \in 1..(i - 1)} \subseteq Current BY <2>3, CurrentIsOfThePlan
  <2>5. Quiet BY <2>1, <2>2, <2>4, EndTypes DEF Quiet
  <2> QED BY <1>1, <2>1, <2>5, EndTypes
<1>5. CASE WaveAborted
  BY <1>1, <1>5, FailingIsQuiet DEF WaveAborted, EndsAs, Quiet, plan
<1>6. CASE WaveFails
  BY <1>1, <1>6, FailingIsQuiet, EndTypes DEF WaveFails, Govern, Quiet
<1>7. CASE ScopeFails
  <2>1. PICK retryable \in BOOLEAN : LeavesRoot(<<"strayed", strayed>>, retryable)
    BY <1>7 DEF ScopeFails
  <2> QED BY <1>1, <2>1, FailingIsQuiet, EndTypes DEF LeavesRoot, Govern, Quiet
<1>8. CASE TooLate
  BY <1>1, <1>8, FailingIsQuiet DEF TooLate, EndsAs, Quiet, plan
<1>9. CASE LandThrows
  BY <1>1, <1>9, FailingIsQuiet, EndTypes DEF LandThrows, Quiet
<1>10. CASE LandingFails
  <2>1. PICK f \in Failure : LeavesRoot(<<"landing", f>>, f \in Retryable)
    BY <1>10 DEF LandingFails
  <2> QED BY <1>1, <2>1, FailingIsQuiet, EndTypes DEF LeavesRoot, Govern, Quiet
<1>11. CASE ContextFails
  BY <1>1, <1>11 DEF ContextFails, StartsDurable, EndsAs, Quiet, plan, TypeOK
<1> QED BY <1>2, <1>3, <1>4, <1>5, <1>6, <1>7, <1>8, <1>9, <1>10, <1>11

LEMMA FleetKeepsEffects ==
  ASSUME TypeOK, EffectInv,
         Prepare \/ Take \/ Sweep \/ WavePasses \/ (\E t \in Task : Child(t) \/ Ages(t))
  PROVE  EffectInv'
<1>1. CASE Prepare
  <2>1. Quiet BY <1>1 DEF Prepare, StartsDurable, Quiet, plan, TypeOK
  <2> QED BY <1>1, <2>1, QuietKeeps DEF Prepare, Resets, EffectInv
<1>2. ASSUME UNCHANGED <<phase, plan, result, effects>>, phase = "fleet" PROVE EffectInv'
  <2>1. Quiet BY <1>2 DEF Quiet, plan, effects
  <2> QED BY <1>2, <2>1, QuietKeeps DEF EffectInv, plan, effects
<1>3. CASE Take BY <1>2, <1>3 DEF Take, CanTake
<1>4. CASE Sweep BY <1>2, <1>4 DEF Sweep
<1>5. ASSUME NEW t \in Task, Ages(t) PROVE EffectInv'
  BY <1>2, <1>5 DEF Ages, ChildMoves
<1>6. ASSUME NEW t \in Task, NEW r, Returns(t, r), phase = "fleet", UNCHANGED <<phase, plan>>,
             durable' = durable, landedIn' = landedIn,
             r = "PASS" => passedIn' = [passedIn EXCEPT ![t] = @ \cup {attempt}],
             r # "PASS" => passedIn' = passedIn
      PROVE  EffectInv'
  <2>1. \A u \in Task : passedIn[u] \subseteq passedIn'[u] BY <1>6 DEF TypeOK
  <2>2. Quiet BY <1>6, <2>1 DEF Quiet, plan
  <2>3. \A u \in Task : result'[u] = "PASS" => attempt \in passedIn'[u]
    BY <1>6, <2>1 DEF Returns, TypeOK, EffectInv
  <2> QED BY <1>6, <2>2, <2>3, QuietKeeps DEF EffectInv, plan
<1>7. ASSUME NEW t \in Task, Implemented(t) PROVE EffectInv'
  <2>1. CASE deadline
    BY <1>6, <1>7, <2>1 DEF Implemented, ChildMoves, effects
  <2>2. CASE ~deadline
    BY <1>2, <1>7, <2>2 DEF Implemented, ChildMoves
  <2> QED BY <2>1, <2>2
<1>8. ASSUME NEW t \in Task, Fails(t) PROVE EffectInv'
  <2>1. PICK r \in Failure \cup (IF aborted THEN {"aborted"} ELSE {}) : Returns(t, r)
    BY <1>8 DEF Fails
  <2>2. r # "PASS" BY PlanAssumption
  <2> QED BY <1>6, <1>8, <2>1, <2>2 DEF Fails, ChildMoves, effects
<1>9. ASSUME NEW t \in Task, Verified(t) PROVE EffectInv'
  BY <1>6, <1>9 DEF Verified, ChildMoves
<1>10. CASE WavePasses
  <2>1. /\ phase = "fleet" /\ Failing = {} /\ UNCHANGED <<plan, effects>>
        /\ phase' = IF Current \cap Sandboxed = {} THEN "complete" ELSE "land"
    BY <1>10 DEF WavePasses, Settles
  <2>2. \A t \in Current : attempt \in passedIn[t]
    BY <2>1, CurrentIsOfThePlan DEF Failing, Passed, EffectInv
  <2>3. Current' = Current BY <2>1 DEF Current, Ids, plan
  <2>4. Quiet BY <2>1 DEF Quiet, plan, effects
  <2> QED BY <2>1, <2>2, <2>3, <2>4, QuietKeeps DEF EffectInv, plan, effects
<1> QED BY <1>1, <1>3, <1>4, <1>5, <1>7, <1>8, <1>9, <1>10 DEF Child

LEMMA LandingKeepsEffects ==
  ASSUME TypeOK, EffectInv, WaveLands
  PROVE  EffectInv'
<1>1. /\ phase = "land" /\ UNCHANGED <<passedIn, child>>
      /\ landedIn' = [t \in Task |-> IF t \in Current \cap Sandboxed
                                     THEN landedIn[t] \cup {attempt} ELSE landedIn[t]]
  BY DEF WaveLands, Lands
<1>2. /\ phase' \in {"complete", "gate", "failed"} /\ wave' = wave
      /\ phase' = "complete" => attempt' = attempt
      /\ \A t \in Task : durable'[t] = "completed" <=> durable[t] = "completed"
  BY FailingIsQuiet, EndTypes DEF WaveLands, Govern, plan
<1>3. Current' = Current BY <1>2 DEF Current, Ids
<1>4. \A w \in 1..Len(Waves) : TasksOf(Waves[w]) \subseteq Task BY WavesAreSequences
<1>5. LandedWasVerified'
  <2> SUFFICES ASSUME NEW w \in 1..Len(Waves), NEW t \in TasksOf(Waves[w]),
                      NEW u \in TasksOf(Waves[w])
               PROVE  landedIn'[t] \subseteq passedIn[u]
    BY <1>1 DEF LandedWasVerified
  <2>1. landedIn[t] \subseteq passedIn[u] BY DEF EffectInv, LandedWasVerified
  <2>2. CASE w = wave
    <3>1. u \in Current BY <2>2 DEF Current, Ids
    <3>2. attempt \in passedIn[u] BY <1>1, <3>1 DEF EffectInv
    <3> QED BY <1>1, <1>4, <2>1, <3>2
  <2>3. CASE w # wave
    <3>1. t \notin Current BY <2>3, OtherWavesAreApart
    <3> QED BY <1>1, <1>4, <2>1, <3>1
  <2> QED BY <2>2, <2>3
<1>6. \A t \in Task : landedIn[t] \subseteq landedIn'[t] BY <1>1
<1>7. CompletedIsBacked' BY <1>1, <1>2, <1>6 DEF EffectInv, CompletedIsBacked
<1>8. EarlierAreDone'
  <2> SUFFICES ASSUME NEW w \in 1..Len(Waves), w < wave, NEW t \in TasksOf(Waves[w])
               PROVE  Done(t)'
    BY <1>2 DEF EarlierAreDone
  <2>1. Done(t) /\ t \in Task BY <1>4 DEF EffectInv, EarlierAreDone
  <2> QED BY <1>1, <1>2, <1>6, <2>1 DEF Done
<1>9. phase' = "complete" => \A t \in Current' : attempt' \in passedIn'[t]
  BY <1>1, <1>2, <1>3 DEF EffectInv
<1>10. \A t \in Current \cap Sandboxed : landedIn'[t] # {}
  BY <1>1, CurrentIsOfThePlan
<1> QED BY <1>2, <1>3, <1>5, <1>7, <1>8, <1>9, <1>10 DEF EffectInv

LEMMA CompletionKeepsEffects ==
  ASSUME TypeOK, EffectInv, Complete \/ CompleteFails \/ CompleteAborted
  PROVE  EffectInv'
<1>1. phase = "complete" /\ UNCHANGED <<passedIn, landedIn>>
  BY DEF Complete, CompleteFails, CompleteAborted
<1>2. \A t \in Current : passedIn[t] # {} /\ (t \in Sandboxed => landedIn[t] # {})
  BY <1>1 DEF EffectInv
<1>3. /\ Current \subseteq Task
      /\ \A w \in 1..Len(Waves) : TasksOf(Waves[w]) \subseteq Task
  BY WavesAreSequences, CurrentIsOfThePlan
<1>4. /\ \A t \in Task : durable'[t] = "completed" => durable[t] = "completed" \/ t \in Current
      /\ \A t \in Task \ Current : durable'[t] = durable[t]
  <2>1. CASE Complete BY <2>1 DEF Complete, TypeOK
  <2>2. CASE CompleteFails
    <3>1. PICK i \in 1..Len(Ids) :
            LET ended == {Ids[j] : j \in 1..(i - 1)} IN
            durable' = [t \in Task |-> IF t \in ended THEN "completed"
                                       ELSE IF t \in Current /\ ~aborted THEN "failed"
                                       ELSE durable[t]]
      BY <2>2 DEF CompleteFails
    <3>2. \A j \in 1..(i - 1) : j \in 1..Len(Ids) BY CurrentIsOfThePlan
    <3>3. {Ids[j] : j \in 1..(i - 1)} \subseteq Current BY <3>2, CurrentIsOfThePlan
    <3> QED BY <3>1, <3>3
  <2>3. CASE CompleteAborted
    <3>1. PICK i \in 1..Len(Ids) :
            durable' = [t \in Task |-> IF t \in {Ids[j] : j \in 1..i} THEN "completed"
                                       ELSE durable[t]]
      BY <2>3 DEF CompleteAborted
    <3>2. \A j \in 1..i : j \in 1..Len(Ids) BY CurrentIsOfThePlan
    <3>3. {Ids[j] : j \in 1..i} \subseteq Current BY <3>2, CurrentIsOfThePlan
    <3> QED BY <3>1, <3>3
  <2> QED BY <2>1, <2>2, <2>3
<1>5. LandedWasVerified' BY <1>1 DEF EffectInv, LandedWasVerified
<1>6. CompletedIsBacked' BY <1>1, <1>2, <1>4 DEF EffectInv, CompletedIsBacked
<1>7. ASSUME NEW w \in 1..Len(Waves), w < wave, NEW t \in TasksOf(Waves[w]) PROVE Done(t)'
  <2>1. Done(t) BY <1>7 DEF EffectInv, EarlierAreDone
  <2>2. w # wave BY <1>7 DEF TypeOK
  <2>3. t \in Task \ Current BY <1>3, <2>2, OtherWavesAreApart
  <2> QED BY <1>1, <1>4, <2>1, <2>3 DEF Done
<1>8. CASE Complete
  <2>1. \A t \in Current : Done(t)'
    BY <1>1, <1>2, <1>3, <1>8 DEF Complete, Done
  <2>2. /\ wave' = (IF wave = Len(Waves) THEN wave ELSE wave + 1)
        /\ phase' \in {"gate", "passed"} /\ (phase' = "passed" => wave = Len(Waves))
    BY <1>8 DEF Complete
  <2>3. EarlierAreDone'
    <3> SUFFICES ASSUME NEW w \in 1..Len(Waves), w < wave' \/ phase' = "passed",
                        NEW t \in TasksOf(Waves[w])
                 PROVE  Done(t)'
      BY DEF EarlierAreDone
    <3>1. w < wave \/ w = wave BY <2>2, WavesAreSequences DEF TypeOK
    <3> QED BY <1>7, <2>1, <3>1 DEF Current, Ids
  <2> QED BY <1>5, <1>6, <2>2, <2>3 DEF EffectInv
<1>9. CASE CompleteFails \/ CompleteAborted
  <2>1. phase' \in {"gate", "failed", "aborted"} /\ wave' = wave
    BY <1>9, EndTypes DEF CompleteFails, CompleteAborted, EndsAs, plan
  <2>2. EarlierAreDone' BY <1>7, <2>1 DEF EarlierAreDone
  <2> QED BY <1>5, <1>6, <2>1, <2>2 DEF EffectInv
<1> QED BY <1>8, <1>9

LEMMA EffectStep == TypeOK /\ EffectInv /\ [Next]_vars => EffectInv'
<1> SUFFICES ASSUME TypeOK, EffectInv, [Next]_vars PROVE EffectInv'
  OBVIOUS
<1>1. ASSUME UNCHANGED <<phase, plan, child, effects>> PROVE EffectInv'
  BY <1>1 DEF EffectInv, LandedWasVerified, CompletedIsBacked, EarlierAreDone, Done, Current, Ids,
              plan, child, effects
<1>2. CASE Abort \/ Deadline \/ UNCHANGED vars BY <1>1, <1>2 DEF Abort, Deadline, vars
<1> QED BY <1>2, EndsKeepEffects, FleetKeepsEffects, LandingKeepsEffects, CompletionKeepsEffects
        DEF Next, Controller

LEMMA EffectsHold == Spec => [](TypeOK /\ EffectInv)
  BY TypeInit, TypeStep, EffectInit, EffectStep, PTL DEF Spec

(* Nothing lands or is recorded as completed unverified, whatever fails, is *)
(* reaped, aborted or retried (executeStructuredPlan).                      *)
THEOREM EffectsAreVerified == Spec => []VerifiedEffects
<1>1. EffectInv => VerifiedEffects
  <2> SUFFICES ASSUME EffectInv, NEW w \in 1..Len(Waves), NEW t \in TasksOf(Waves[w])
               PROVE  /\ \A u \in TasksOf(Waves[w]) : landedIn[t] \subseteq passedIn[u]
                      /\ durable[t] = "completed" =>
                           passedIn[t] # {} /\ (t \in Sandboxed => landedIn[t] # {})
    BY DEF VerifiedEffects
  <2>1. t \in Task BY WavesAreSequences
  <2> QED BY <2>1 DEF EffectInv, LandedWasVerified, CompletedIsBacked
<1> QED BY <1>1, EffectsHold, PTL

(* A run reports that it passed only when every task of the plan has been   *)
(* verified, has landed and is recorded as completed.                       *)
THEOREM PassedRunsAreDone == Spec => []PassedMeansDone
<1>1. EffectInv => PassedMeansDone
  BY DEF EffectInv, EarlierAreDone, Done, PassedMeansDone, Task
<1> QED BY <1>1, EffectsHold, PTL
=============================================================================
