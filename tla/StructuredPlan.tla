--------------------------- MODULE StructuredPlan ---------------------------
(***************************************************************************)
(* The execution of a structured plan: the controller's loop over waves    *)
(* and attempts (executeStructuredPlan of pi/extensions/ues.ts), the fleet *)
(* that runs the children of a wave with a bounded number of workers       *)
(* (lib/delegation-fleet.mjs), the registry of children with its watchdog  *)
(* (lib/subagent-fabric.mjs), and what of it reaches the root and the      *)
(* durable work item.  The controller is one process; what interleaves are *)
(* its children, the watchdog's timer, the user's abort, the deadline of   *)
(* the run and failures of the infrastructure.  The transaction that lands *)
(* the patches of a wave is one step here; IntegrationTransaction has its  *)
(* inside, DurableWork the commands on the durable item.                   *)
(***************************************************************************)
EXTENDS Naturals, Sequences, FiniteSets

CONSTANTS
  Waves,        \* the compiled plan: sequences of tasks, in the order of their ids
  Sandboxed,    \* the tasks that write, each in a worktree of its own
  Width,        \* UES_MAX_ACTIVE_CHILDREN, resolved
  MaxAttempts,  \* attempts at a wave
  Failure,      \* texts of failing implementations, verifications and integrations
  Retryable,    \* those that classifyChildFailure calls retryable
  Durable,      \* TRUE: the run keeps a durable work item
  MaxFaults,    \* bound: failures of the infrastructure
  Aborts        \* TRUE: the user may abort

TasksOf(s) == {s[i] : i \in 1..Len(s)}
Task == UNION {TasksOf(Waves[w]) : w \in 1..Len(Waves)}

ASSUME PlanAssumption ==
  /\ Waves \in Seq(Seq(Task)) /\ Waves # << >>
  /\ \A v, w \in 1..Len(Waves) : v # w => TasksOf(Waves[v]) \cap TasksOf(Waves[w]) = {}
  /\ \A w \in 1..Len(Waves) :
       /\ Len(Waves[w]) > 0
       /\ \A i, j \in 1..Len(Waves[w]) : Waves[w][i] = Waves[w][j] => i = j
  /\ Sandboxed \subseteq Task /\ Retryable \subseteq Failure /\ "PASS" \notin Failure
  /\ Width \in Nat \ {0} /\ MaxAttempts \in Nat \ {0} /\ MaxFaults \in Nat
  /\ Durable \in BOOLEAN /\ Aborts \in BOOLEAN

VARIABLES
  phase,     \* the step of the controller, or the outcome of the run
  wave, attempt,
  width,     \* the wave's concurrency
  next,      \* the fleet's next position in the wave
  at,        \* at[t]: where the child of t is
  result,    \* result[t]: what it returned
  status,    \* status[t]: the fleet's outcome for it
  row,       \* row[t]: its row in the registry
  late,      \* the children past the inactivity window or their timeout
  silent,    \* the children that gave no output during the window
  strayed,   \* the tasks whose sandbox has changes out of their scope
  observed,  \* the failures of this wave that the loop governor has seen
  closed,    \* the delegation session is cancelled
  durable,   \* durable[t]: the task in the durable work item
  passedIn,  \* passedIn[t]: attempts in which a verifier passed t's tree
  landedIn,  \* landedIn[t]: attempts whose patch of t is in the root
  aborted, deadline, faults

child == <<at, result, status, row, late, silent>>
plan == <<wave, attempt, width>>
effects == <<durable, passedIn, landedIn>>
env == <<aborted, deadline, faults>>
vars == <<phase, plan, next, child, strayed, observed, closed, effects, env>>

Outcome == {"passed", "aborted", "timed-out", "failed"}
Over == phase \in Outcome

Ids == Waves[wave]
Current == TasksOf(Ids)

Init ==
  /\ phase = "gate" /\ wave = 1 /\ attempt = 1 /\ width = 1 /\ next = 1
  /\ at = [t \in Task |-> "none"] /\ result = [t \in Task |-> "none"]
  /\ status = [t \in Task |-> "none"] /\ row = [t \in Task |-> "none"]
  /\ late = {} /\ silent = {} /\ strayed = {} /\ observed = {}
  /\ closed = FALSE
  /\ durable = [t \in Task |-> "pending"]
  /\ passedIn = [t \in Task |-> {}] /\ landedIn = [t \in Task |-> {}]
  /\ aborted = FALSE /\ deadline = FALSE /\ faults = 0

-----------------------------------------------------------------------------
(* How an attempt ends. *)

(* failDurablePrepared: the command gets the signal of the run, so after an *)
(* abort it fails, and the failure is swallowed.                            *)
FailDurable(started) ==
  durable' = [t \in Task |-> IF t \in started /\ durable[t] = "running" /\ ~aborted
                             THEN "failed" ELSE durable[t]]

EndsAs(out) == phase' = out /\ UNCHANGED <<plan, observed>>

AttemptAgain(retry, text) ==    \* mutant: the attempt is not counted
  /\ IF retry THEN phase' = "gate" ELSE phase' = "failed"
  /\ UNCHANGED <<plan, observed>>

(* One more attempt for a failure that was not seen before, or the end.  A  *)
(* text that decideRetry has let pass is one the watchdog has observed.     *)
Attempt(retry, text) ==
  /\ IF retry /\ attempt < MaxAttempts /\ text \notin observed
       THEN phase' = "gate" /\ attempt' = attempt + 1 /\ observed' = observed \cup {text}
       ELSE phase' = "failed" /\ UNCHANGED <<attempt, observed>>
  /\ UNCHANGED <<wave, width>>

(* governWaveLoop. *)
Govern(text, retryable) == Attempt(retryable, text)

(* The catch around the attempt: an infrastructure failure, with a text that  *)
(* may name the attempt.                                                      *)
Thrown(kind) ==
  IF aborted THEN EndsAs("aborted")
  ELSE \E detail \in {0, attempt} : Attempt(TRUE, <<kind, detail>>)

-----------------------------------------------------------------------------
(* Before the children. *)

(* The deadline gate, and the admission by the budget ledger, which may only *)
(* narrow the wave.                                                          *)
Gate ==
  /\ phase = "gate"
  /\ IF deadline
       THEN EndsAs("timed-out")
       ELSE /\ width' \in 1..Width
            /\ phase' = "prepare"
            /\ UNCHANGED <<wave, attempt, observed>>
  /\ UNCHANGED <<next, child, strayed, closed, effects, env>>

Resets ==
  /\ next' = 1 /\ strayed' = {} /\ silent' = {}
  /\ at' = [t \in Task |-> IF t \in Current THEN "queued" ELSE "none"]
  /\ result' = [t \in Task |-> "none"] /\ status' = [t \in Task |-> "none"]
  /\ row' = [t \in Task |-> "none"] /\ late' = {}

(* The tasks of the wave are started in the durable item. *)
StartsDurable ==
  /\ ~Durable \/ (~aborted /\ \A t \in Current : durable[t] \in {"pending", "failed"})
  /\ durable' = IF Durable THEN [t \in Task |-> IF t \in Current THEN "running" ELSE durable[t]]
                ELSE durable

(* Sandboxes are created, and the tasks started. *)
Prepare ==
  /\ phase = "prepare"
  /\ StartsDurable
  /\ phase' = "fleet"
  /\ Resets
  /\ UNCHANGED <<plan, observed, closed, passedIn, landedIn, env>>

(* A sandbox cannot be created: nothing has started. *)
SandboxFails ==
  /\ phase = "prepare"
  /\ faults < MaxFaults
  /\ faults' = faults + 1
  /\ Thrown("sandbox")
  /\ UNCHANGED <<next, child, strayed, closed, effects, aborted, deadline>>

(* The durable item refuses the i-th task, or its command fails; the tasks   *)
(* before it are started and, unless the user has aborted, failed again.     *)
DurableStartFails ==
  /\ phase = "prepare" /\ Durable
  /\ \E i \in 1..Len(Ids) :
       LET started == {Ids[j] : j \in 1..(i - 1)} IN
       /\ \A t \in started : durable[t] \in {"pending", "failed"} /\ ~aborted
       /\ \/ (aborted \/ durable[Ids[i]] \in {"running", "completed"}) /\ UNCHANGED faults
          \/ faults < MaxFaults /\ faults' = faults + 1
       /\ durable' = [t \in Task |-> IF t \in started THEN "failed" ELSE durable[t]]
  /\ Thrown("start")
  /\ UNCHANGED <<next, child, strayed, closed, passedIn, landedIn, aborted, deadline>>

(* No context can be assembled for a child: the run ends before the fleet, and *)
(* what was started in the durable item stays running.                        *)
ContextFails ==
  /\ phase = "prepare"
  /\ faults < MaxFaults
  /\ faults' = faults + 1
  /\ StartsDurable
  /\ EndsAs("failed")
  /\ UNCHANGED <<next, child, strayed, closed, passedIn, landedIn, aborted, deadline>>

-----------------------------------------------------------------------------
(* The fleet. *)

Working == {t \in Current : at[t] \in {"implement", "verify"}}
RunningRows == {t \in Task : row[t] = "running"}
Least(a, b) == IF a < b THEN a ELSE b
Workers == Least(width, Len(Ids))

(* A worker that has nothing to wait for takes the next scope before any    *)
(* timer or child is heard.                                                 *)
CanTake == phase = "fleet" /\ next <= Len(Ids) /\ Cardinality(Working) < Workers

(* registerChild, and the start of the child. *)
Take ==
  /\ CanTake
  /\ LET t == Ids[next] IN
       IF closed \/ Cardinality(RunningRows) >= Width
         THEN /\ at' = [at EXCEPT ![t] = "back"]
              /\ status' = [status EXCEPT ![t] = "rejected"]
              /\ UNCHANGED row
         ELSE /\ at' = [at EXCEPT ![t] = "implement"]
              /\ row' = [row EXCEPT ![t] = "running"]
              /\ UNCHANGED status
  /\ next' = next + 1
  /\ UNCHANGED <<phase, plan, result, late, silent, strayed, observed, closed, effects, env>>

Reaped(t) == row[t] \in {"timeout", "inactivity"}

(* finalizeChild or cancelChild: a row that is terminal keeps its reason. *)
OverwriteRow(t) ==    \* mutant: a late answer closes the row of a reaped child
  row' = [row EXCEPT ![t] = IF aborted THEN "cancelled" ELSE "completed"]

LeaveRow(t) ==    \* mutant: the row stays open after an abort-free return
  row' = [row EXCEPT ![t] = IF aborted /\ ~Reaped(t) THEN "cancelled" ELSE @]

CloseRow(t) ==
  row' = [row EXCEPT ![t] = IF Reaped(t) THEN @
                            ELSE IF aborted THEN "cancelled" ELSE "completed"]

(* The child of t returns r to the fleet.  Only the signal tells the fleet   *)
(* of a failure: what the child returns carries no exit code.                *)
Returns(t, r) ==
  /\ at' = [at EXCEPT ![t] = "back"]
  /\ result' = [result EXCEPT ![t] = r]
  /\ status' = [status EXCEPT ![t] = IF Reaped(t) THEN "timed-out"
                                     ELSE IF aborted THEN "cancelled" ELSE "completed"]
  /\ CloseRow(t)

ChildMoves(t) == phase = "fleet" /\ ~CanTake /\ t \in Working

(* The implementation ends well and, unless the deadline has passed, the     *)
(* verifier starts.                                                          *)
Implemented(t) ==
  /\ ChildMoves(t) /\ at[t] = "implement"
  /\ strayed' \in {strayed} \cup (IF t \in Sandboxed THEN {strayed \cup {t}} ELSE {})
  /\ IF deadline
       THEN Returns(t, "not-verified")
       ELSE at' = [at EXCEPT ![t] = "verify"] /\ UNCHANGED <<result, status, row>>
  /\ UNCHANGED <<phase, plan, next, late, silent, observed, closed, effects, env>>

Fails(t) ==
  /\ ChildMoves(t)
  /\ \E r \in Failure \cup (IF aborted THEN {"aborted"} ELSE {}) : Returns(t, r)
  /\ UNCHANGED <<phase, plan, next, late, silent, strayed, observed, closed, effects, env>>

Verified(t) ==
  /\ ChildMoves(t) /\ at[t] = "verify"
  /\ passedIn' = [passedIn EXCEPT ![t] = @ \cup {attempt}]
  /\ Returns(t, "PASS")
  /\ UNCHANGED <<phase, plan, next, late, silent, strayed, observed, closed, durable, landedIn, env>>

(* Time passes for a child, with or without output of its own. *)
Ages(t) ==
  /\ ChildMoves(t) /\ t \notin late
  /\ late' = late \cup {t}
  /\ silent' \in {silent, silent \cup {t}}
  /\ UNCHANGED <<phase, plan, next, at, result, status, row, strayed, observed, closed,
                 effects, env>>

(* The watchdog.  The registry knows of a child when it was registered, and  *)
(* is told of nothing it does; the timeout of a child may be shorter or      *)
(* longer than the window.  The fleet aborts the signal it gave to the       *)
(* reaped child; the child's agent does not listen to that signal.           *)
Sweep ==
  /\ phase = "fleet" /\ ~CanTake
  /\ RunningRows \cap late # {}
  /\ \E reason \in {"timeout", "inactivity"} :
       row' = [t \in Task |-> IF t \in RunningRows \cap late THEN reason ELSE row[t]]
  /\ UNCHANGED <<phase, plan, next, at, result, status, late, silent, strayed, observed,
                 closed, effects, env>>

-----------------------------------------------------------------------------
(* After the children. *)

NoRowOpen == next > Len(Ids) /\ RunningRows = {}    \* mutant: the registry is asked

AllBack == \A t \in Current : at[t] = "back"

RowAborted(t) ==
  \/ status[t] = "completed" /\ result[t] = "aborted"
  \/ status[t] # "completed" /\ (status[t] = "cancelled" \/ aborted)

Completes(t) == status[t] = "completed"    \* mutant: the verdict is not read

Passed(t) == status[t] = "completed" /\ result[t] = "PASS"

Failing == {t \in Current : ~Passed(t)}
TextOf(t) == IF status[t] = "completed" THEN result[t] ELSE status[t]
FailureText == [t \in Failing |-> TextOf(t)]

(* Of several texts one that must not be retried decides. *)
TextRetryable == \A t \in Failing : TextOf(t) \in Failure => TextOf(t) \in Retryable

Settles == phase = "fleet" /\ AllBack

(* The fleet's teardown closes the session when the run was aborted or a row *)
(* is left open; what the fleet knew of its children goes with it.           *)
Teardown ==
  /\ closed' = (closed \/ aborted \/ RunningRows # {})
  /\ row' = [t \in Task |-> "none"] /\ status' = [t \in Task |-> "none"]
  /\ result' = [t \in Task |-> "none"]
  /\ late' = {} /\ silent' = {}

WaveAborted ==
  /\ Settles
  /\ \E t \in Current : RowAborted(t)
  /\ Teardown
  /\ FailDurable(Current)
  /\ EndsAs("aborted")
  /\ UNCHANGED <<next, at, strayed, passedIn, landedIn, env>>

WaveFails ==
  /\ Settles
  /\ ~\E t \in Current : RowAborted(t)
  /\ Failing # {}
  /\ Teardown
  /\ FailDurable(Current)
  /\ Govern(<<"children", FailureText>>, TextRetryable)
  /\ UNCHANGED <<next, at, strayed, passedIn, landedIn, env>>

SomePassUnlanded ==    \* mutant: one task without a sandbox skips the landing
  /\ Settles
  /\ ~\E t \in Current : RowAborted(t)
  /\ Failing = {}
  /\ Teardown
  /\ phase' = IF Current \subseteq Sandboxed THEN "land" ELSE "complete"
  /\ UNCHANGED <<plan, next, at, strayed, observed, effects, env>>

WavePasses ==
  /\ Settles
  /\ ~\E t \in Current : RowAborted(t)
  /\ Failing = {}
  /\ Teardown
  /\ phase' = IF Current \cap Sandboxed = {} THEN "complete" ELSE "land"
  /\ UNCHANGED <<plan, next, at, strayed, observed, effects, env>>

LeavesRoot(text, retryable) ==
  /\ FailDurable(Current)
  /\ Govern(text, retryable)
  /\ UNCHANGED <<passedIn, landedIn>>

(* Changes out of the declared scope, or of one file by two tasks.  The text *)
(* names tasks and files, and these words may classify it as not retryable.  *)
ScopeFails ==
  /\ phase = "land" /\ strayed # {}
  /\ \E retryable \in BOOLEAN : LeavesRoot(<<"strayed", strayed>>, retryable)
  /\ UNCHANGED <<next, child, strayed, closed, env>>

TooLate ==
  /\ phase = "land" /\ strayed = {} /\ deadline
  /\ FailDurable(Current)
  /\ EndsAs("timed-out")
  /\ UNCHANGED <<next, child, strayed, closed, passedIn, landedIn, env>>

Lands == phase = "land" /\ strayed = {} /\ ~deadline

(* Git fails, or does not run any more after an abort. *)
LandThrows ==
  /\ phase = "land"
  /\ \/ aborted /\ UNCHANGED faults
     \/ faults < MaxFaults /\ faults' = faults + 1
  /\ FailDurable(Current)
  /\ Thrown("land")
  /\ UNCHANGED <<next, child, strayed, closed, passedIn, landedIn, aborted, deadline>>

(* The transaction refuses the patches or takes them back. *)
LandingFails ==
  /\ Lands
  /\ \E f \in Failure : LeavesRoot(<<"landing", f>>, f \in Retryable)
  /\ UNCHANGED <<next, child, strayed, closed, env>>

(* It lands them all.  The wave is tried again when HEAD has moved meanwhile. *)
WaveLands ==
  /\ Lands
  /\ landedIn' = [t \in Task |-> IF t \in Current \cap Sandboxed
                                 THEN landedIn[t] \cup {attempt} ELSE landedIn[t]]
  /\ \/ phase' = "complete" /\ UNCHANGED <<plan, observed, durable>>
     \/ FailDurable(Current) /\ Govern(<<"stale", 0>>, TRUE)
  /\ UNCHANGED <<next, child, strayed, closed, passedIn, env>>

(* completeDurableWave, task by task, and the next wave. *)
Complete ==
  /\ phase = "complete"
  /\ ~Durable \/ ~aborted
  /\ durable' = IF Durable THEN [t \in Task |-> IF t \in Current THEN "completed" ELSE durable[t]]
                ELSE durable
  /\ IF wave = Len(Waves)
       THEN phase' = "passed" /\ UNCHANGED <<wave, attempt, observed>>
       ELSE phase' = "gate" /\ wave' = wave + 1 /\ attempt' = 1 /\ observed' = {}
  /\ UNCHANGED <<width, next, child, strayed, closed, passedIn, landedIn, env>>

CompleteFails ==
  /\ phase = "complete" /\ Durable
  /\ \/ aborted /\ UNCHANGED faults
     \/ faults < MaxFaults /\ faults' = faults + 1
  /\ \E i \in 1..Len(Ids) :
       LET ended == {Ids[j] : j \in 1..(i - 1)} IN
       /\ aborted => i = 1
       /\ durable' = [t \in Task |-> IF t \in ended THEN "completed"
                                     ELSE IF t \in Current /\ ~aborted THEN "failed"
                                     ELSE durable[t]]
  /\ Thrown("complete")
  /\ UNCHANGED <<next, child, strayed, closed, passedIn, landedIn, aborted, deadline>>

(* The user aborts between two of the completions: the rest do not run, and  *)
(* the command that is killed may have had its effect.                       *)
CompleteAborted ==
  /\ phase = "complete" /\ Durable /\ Aborts /\ ~aborted
  /\ aborted' = TRUE
  /\ \E i \in 1..Len(Ids) :
       durable' = [t \in Task |-> IF t \in {Ids[j] : j \in 1..i} THEN "completed" ELSE durable[t]]
  /\ EndsAs("aborted")
  /\ UNCHANGED <<next, child, strayed, closed, passedIn, landedIn, deadline, faults>>

-----------------------------------------------------------------------------
Abort ==
  /\ Aborts /\ ~aborted /\ ~Over /\ ~CanTake /\ ~Settles
  /\ aborted' = TRUE
  /\ UNCHANGED <<phase, plan, next, child, strayed, observed, closed, effects, deadline, faults>>

Deadline ==
  /\ ~deadline /\ ~Over
  /\ deadline' = TRUE
  /\ UNCHANGED <<phase, plan, next, child, strayed, observed, closed, effects, aborted, faults>>

Controller ==
  \/ Gate \/ Prepare \/ SandboxFails \/ DurableStartFails \/ ContextFails \/ Take
  \/ WaveAborted \/ WaveFails \/ WavePasses
  \/ ScopeFails \/ TooLate \/ LandThrows \/ LandingFails \/ WaveLands \/ Complete \/ CompleteFails

Child(t) == Implemented(t) \/ Fails(t) \/ Verified(t)

Next ==
  \/ Controller
  \/ \E t \in Task : Child(t) \/ Ages(t)
  \/ Sweep \/ Abort \/ CompleteAborted \/ Deadline

Spec == Init /\ [][Next]_vars

(* The controller takes its next step, and every child ends: its own process *)
(* has a timeout.                                                            *)
FairSpec == Spec /\ WF_vars(Controller) /\ \A t \in Task : WF_vars(Child(t))
-----------------------------------------------------------------------------
(* Properties. *)

Result == {"none", "PASS", "not-verified", "aborted"} \cup Failure

TypeOK ==
  /\ phase \in {"gate", "prepare", "fleet", "land", "complete"} \cup Outcome
  /\ wave \in 1..Len(Waves) /\ attempt \in 1..MaxAttempts
  /\ width \in 1..Width /\ next \in Nat
  /\ at \in [Task -> {"none", "queued", "implement", "verify", "back"}]
  /\ result \in [Task -> Result]
  /\ status \in [Task -> {"none", "completed", "timed-out", "cancelled", "rejected"}]
  /\ row \in [Task -> {"none", "running", "completed", "timeout", "inactivity", "cancelled"}]
  /\ late \subseteq Task /\ silent \subseteq late /\ strayed \subseteq Sandboxed
  /\ closed \in BOOLEAN /\ aborted \in BOOLEAN /\ deadline \in BOOLEAN
  /\ durable \in [Task -> {"pending", "running", "completed", "failed"}]
  /\ passedIn \in [Task -> SUBSET (1..MaxAttempts)]
  /\ landedIn \in [Task -> SUBSET (1..MaxAttempts)]
  /\ faults \in 0..MaxFaults

(* No task of a wave is refused by the registry: the workers never ask for   *)
(* more children than it allows, whatever was reaped, and a session that has *)
(* been closed is not used again (registerChild, runDelegationWave).         *)
NeverRejected == \A t \in Task : status[t] # "rejected"

(* When the controller goes on, every child of the wave has come back, also  *)
(* the reaped ones: no sandbox is integrated or removed under a child that   *)
(* works in it.  And each has closed its row: the fleet's teardown finds an  *)
(* open one, and cancels the session for it, at no moment.                   *)
NoOrphans ==
  /\ phase \notin {"fleet", "gate", "prepare"} => \A t \in Current : at[t] \in {"none", "back"}
  /\ closed => aborted

(* The patch of a task lands only from an attempt in which every task of its *)
(* wave was verified; the durable item calls a task completed only after its *)
(* verification and its landing.                                             *)
VerifiedEffects ==
  \A w \in 1..Len(Waves) : \A t \in TasksOf(Waves[w]) :
    /\ \A u \in TasksOf(Waves[w]) : landedIn[t] \subseteq passedIn[u]
    /\ durable[t] = "completed" =>
         passedIn[t] # {} /\ (t \in Sandboxed => landedIn[t] # {})

(* A run that passed has verified every task, landed every patch and, with a *)
(* durable item, recorded every task as completed.                           *)
PassedMeansDone ==
  phase = "passed" =>
    \A t \in Task :
      /\ passedIn[t] # {}
      /\ t \in Sandboxed => landedIn[t] # {}
      /\ Durable => durable[t] = "completed"

(* The watchdog's verdict on a child stands: the late answer of a reaped     *)
(* child never makes its row a completed one (finalizeChild, cancelChild).   *)
ReapedStays ==
  [][\A t \in Task : Reaped(t) => row'[t] \in {row[t], "none"}]_vars

(* The run ends, with retries, infrastructure failures and reaped children.  *)
PlanEnds == <>Over

(* A child is reaped for inactivity only when it gave no output for the      *)
(* whole window: what the documentation says of the watchdog.                *)
InactiveMeansSilent ==
  \A t \in Task : row[t] = "inactivity" => t \in silent
=============================================================================
