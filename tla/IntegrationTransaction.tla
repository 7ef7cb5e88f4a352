------------------------ MODULE IntegrationTransaction ------------------------
(***************************************************************************)
(* One wave's integration transaction and its crash recovery               *)
(* (src/lib/integration-transaction-v16-15.mjs), over the git operations   *)
(* of src/lib/worktree-sandbox.mjs.                                        *)
(*                                                                         *)
(* The patches are 1..N in their deterministic order and patch p changes   *)
(* the file p: transactions whose patches share a file are rejected by the *)
(* preflight.  Files outside 1..N belong to the user.  A file's content is *)
(* one of a few values: what it was at the wave's start ("base"), that     *)
(* with the patch ("patched"), a user's edit ("user"), or, only at HEAD,   *)
(* the version below an inherited uncommitted change ("old").              *)
(*                                                                         *)
(* The transaction, a later (or, with SecondController, concurrent)        *)
(* recovery pass and the user interleave.  Every git call and every        *)
(* journal append is a step of its own.                                    *)
(***************************************************************************)
EXTENDS Integers, FiniteSets

CONSTANTS
  N,                 \* number of patches in the wave
  Foreign,           \* files no patch touches
  Inherited,         \* files with uncommitted changes at the wave's start,
                     \*   copied byte for byte into the sandboxes
  SecondController,  \* may a recovery pass run beside the live transaction?
  CanCancel,         \* may the caller's AbortSignal fire?
  GitFails,          \* may a git call fail by itself (timeout, index lock)?
  JournalFails,      \* may an append to the run journal fail?
  PrunesOrphans,     \* may a later run prune the dead controller's sandboxes?
  MaxEdits,          \* bound: edits and commits by the user
  MaxCrashes         \* bound: process deaths

Patch == 1..N
File == Patch \cup Foreign

ASSUME WaveAssumption ==
  /\ N \in Nat
  /\ Inherited \subseteq File
  /\ {SecondController, CanCancel, GitFails, JournalFails, PrunesOrphans} \subseteq BOOLEAN
  /\ MaxEdits \in Nat
  /\ MaxCrashes \in Nat

\* Journal records (INTEGRATION_JOURNAL); `patch` is 0 where there is none.
Record == [type  : {"begin", "patch-applied", "commit", "rollback-begin",
                    "patch-rolled-back", "rollback-complete", "recovery"},
           patch : 0..N]

Rec(type) == [type |-> type, patch |-> 0]
PatchRec(type, p) == [type |-> type, patch |-> p]

VARIABLES
  content,   \* the root's working tree
  atHead,    \* the same files in the commit at HEAD
  head,      \* HEAD: how often the user has committed
  journal,   \* the transaction's records in the run journal
  sandboxes, \* do the wave's sandboxes still exist?
  pc,        \* where the transaction is
  before,    \* rootBefore: the identity it captured
  applied,   \* it has applied the patches 1..applied
  undo,      \* its rollback has still to visit the patches 1..undo
  cancelled, \* the AbortSignal
  outcome,   \* what it returned
  rpc,       \* where the recovery pass is
  rows,      \* the journal as the recovery pass read it
  left,      \* the patches it has still to reverse
  verdict,   \* the outcome it last reached
  edits, crashes

tree == <<content, atHead, head>>
tx == <<pc, before, applied, undo, outcome>>
recovery == <<rpc, rows, left, verdict>>
bounds == <<edits, crashes>>
vars == <<content, atHead, head, journal, sandboxes, pc, before, applied, undo,
          cancelled, outcome, rpc, rows, left, verdict, edits, crashes>>

\* rootWorkspaceIdentity: HEAD and the NAMES of the dirty files.
Dirty == {f \in File : content[f] # atHead[f]}
Identity == [head |-> head, dirty |-> Dirty]

Pc == {"start", "preflight", "begin", "check", "apply", "record", "rollback",
       "undo", "undone", "verify", "complete", "post", "commit", "ended",
       "threw", "dead"}
Outcome == {"none", "integrated", "preflight-rejected",
            "apply-failed-rolled-back", "rollback-incomplete"}
RPc == {"idle", "inspect", "reverse", "verify", "record"}
Verdict == {"none", "noop", "blocked", "rolled-back"}

TypeOK ==
  /\ content \in [File -> {"base", "patched", "user"}]
  /\ atHead \in [File -> {"old", "base", "patched", "user"}]
  /\ head \in Nat
  /\ journal \subseteq Record
  /\ sandboxes \in BOOLEAN
  /\ pc \in Pc
  /\ before \in [head : Nat, dirty : SUBSET File]
  /\ applied \in 0..N
  /\ undo \in 0..N
  /\ cancelled \in BOOLEAN
  /\ outcome \in Outcome
  /\ rpc \in RPc
  /\ rows \subseteq Record
  /\ left \subseteq Patch
  /\ verdict \in Verdict
  /\ edits \in Nat
  /\ crashes \in Nat

Init ==
  /\ content = [f \in File |-> "base"]
  /\ atHead = [f \in File |-> IF f \in Inherited THEN "old" ELSE "base"]
  /\ head = 0
  /\ journal = {}
  /\ sandboxes = TRUE
  /\ pc = "start"
  /\ before = [head |-> 0, dirty |-> {}]
  /\ applied = 0
  /\ undo = 0
  /\ cancelled = FALSE
  /\ outcome = "none"
  /\ rpc = "idle"
  /\ rows = {}
  /\ left = {}
  /\ verdict = "none"
  /\ edits = 0
  /\ crashes = 0

-----------------------------------------------------------------------------
\* Git calls and journal appends.

\* runGitAsync kills a call whose signal has fired, but the child may finish
\* first: with `cancelled` a call may fail, and an apply may fail with its effect.
GitMayFail == cancelled \/ GitFails

\* integrateTaskSandbox: the file must be unchanged since the wave's start and
\* may be dirty only with the inherited change.
Applies(p) == content[p] = "base" /\ (p \in Dirty => p \in Inherited)

SetFile(p, value) == content' = [content EXCEPT ![p] = value]

Goto(here, there) == pc = here /\ pc' = there

\* journalAppend returns null when it fails; ok says whether it did not.
Append(ok, r) ==
  /\ ok \/ JournalFails
  /\ journal' = IF ok THEN journal \cup {r} ELSE journal

End(result) == outcome' = result

-----------------------------------------------------------------------------
\* runIntegrationTransaction.

\* PHASE 0: capture the root identity; refuse when HEAD moved since the wave.
Capture ==
  /\ pc = "start"
  /\ before' = Identity
  /\ IF head = 0
     THEN pc' = "preflight" /\ UNCHANGED outcome
     ELSE pc' = "ended" /\ End("preflight-rejected")
  /\ UNCHANGED <<tree, journal, sandboxes, applied, undo, cancelled, recovery, bounds>>

\* An inspection of the root (identity) that fails rejects the whole promise.
Throws(here) ==
  /\ GitMayFail
  /\ Goto(here, "threw")
  /\ UNCHANGED <<tree, journal, sandboxes, before, applied, undo, cancelled, outcome,
                 recovery, bounds>>

\* PHASE A: every patch must apply to the current root, or none is applied.
Preflight ==
  /\ pc = "preflight"
  /\ \/ /\ ~cancelled
        /\ head = before.head
        /\ \A p \in Patch : Applies(p)
        /\ pc' = "begin"
        /\ UNCHANGED outcome
     \/ /\ GitMayFail \/ head # before.head \/ \E p \in Patch : ~Applies(p)
        /\ pc' = "ended"
        /\ End("preflight-rejected")
  /\ UNCHANGED <<tree, journal, sandboxes, before, applied, undo, cancelled, recovery, bounds>>

\* PHASE A5: the durable intent.  Without it the root is not touched.
Begin ==
  /\ pc = "begin"
  /\ \E ok \in BOOLEAN :
       /\ Append(ok, Rec("begin"))
       /\ IF ok THEN pc' = "check" /\ UNCHANGED outcome
                ELSE pc' = "ended" /\ End("preflight-rejected")
  /\ UNCHANGED <<tree, sandboxes, before, applied, undo, cancelled, recovery, bounds>>

\* PHASE B: the head of the apply loop.
Check ==
  /\ Goto("check", IF applied = N THEN "post"
                   ELSE IF cancelled THEN "rollback" ELSE "apply")
  /\ UNCHANGED <<tree, journal, sandboxes, before, applied, undo, cancelled, outcome,
                 recovery, bounds>>

ApplyOk ==
  /\ Goto("apply", "record")
  /\ sandboxes
  /\ Applies(applied + 1)
  /\ SetFile(applied + 1, "patched")
  /\ applied' = applied + 1
  /\ UNCHANGED <<atHead, head, journal, sandboxes, before, undo, cancelled, outcome,
                 recovery, bounds>>

\* A mutant: a patch that fails to apply is skipped.
ApplyErrorSkipped ==
  /\ Goto("apply", "check")
  /\ ~Applies(applied + 1) \/ ~sandboxes \/ GitMayFail
  /\ applied' = applied + 1
  /\ UNCHANGED <<tree, journal, sandboxes, before, undo, cancelled, outcome, recovery, bounds>>

\* The error is caught: the patch does not count as applied, even if git was
\* killed after it had written the file.
ApplyError ==
  /\ Goto("apply", "rollback")
  /\ \/ ~Applies(applied + 1) \/ ~sandboxes
     \/ GitMayFail
  /\ \/ UNCHANGED content
     \/ GitMayFail /\ sandboxes /\ Applies(applied + 1) /\ SetFile(applied + 1, "patched")
  /\ UNCHANGED <<atHead, head, journal, sandboxes, before, applied, undo, cancelled,
                 outcome, recovery, bounds>>

\* A mutant: the failed record of an applied patch is ignored.
RecordPatchIgnored ==
  /\ Goto("record", "check")
  /\ \E ok \in BOOLEAN : Append(ok, PatchRec("patch-applied", applied))
  /\ UNCHANGED <<tree, sandboxes, before, applied, undo, cancelled, outcome, recovery, bounds>>

\* One record per applied patch; the transaction stops when it cannot be written.
RecordPatch ==
  /\ pc = "record"
  /\ \E ok \in BOOLEAN :
       /\ Append(ok, PatchRec("patch-applied", applied))
       /\ pc' = IF ok THEN "check" ELSE "rollback"
  /\ UNCHANGED <<tree, sandboxes, before, applied, undo, cancelled, outcome, recovery, bounds>>

\* FAILURE: reverse every applied patch, last one first.
RollbackBegin ==
  /\ Goto("rollback", "undo")
  /\ \E ok \in BOOLEAN : Append(ok, Rec("rollback-begin"))
  /\ undo' = applied
  /\ UNCHANGED <<tree, sandboxes, before, applied, cancelled, outcome, recovery, bounds>>

UndoOk ==
  /\ Goto("undo", "undone")
  /\ undo > 0
  /\ sandboxes
  /\ content[undo] = "patched"
  /\ SetFile(undo, "base")
  /\ UNCHANGED <<atHead, head, journal, sandboxes, before, applied, undo, cancelled,
                 outcome, recovery, bounds>>

\* A mutant: a failed reversal is retried.
UndoErrorRetried ==
  /\ pc = "undo"
  /\ undo > 0
  /\ content[undo] # "patched" \/ ~sandboxes \/ GitMayFail
  /\ UNCHANGED vars

\* A reversal that fails is noted and the loop goes on.
UndoError ==
  /\ pc = "undo"
  /\ undo > 0
  /\ \/ content[undo] # "patched" \/ ~sandboxes
     \/ GitMayFail
  /\ undo' = undo - 1
  /\ \/ UNCHANGED content
     \/ GitMayFail /\ sandboxes /\ content[undo] = "patched" /\ SetFile(undo, "base")
  /\ UNCHANGED <<atHead, head, journal, sandboxes, pc, before, applied, cancelled, outcome,
                 recovery, bounds>>

UndoRecord ==
  /\ Goto("undone", "undo")
  /\ \E ok \in BOOLEAN : Append(ok, PatchRec("patch-rolled-back", undo))
  /\ undo' = undo - 1
  /\ UNCHANGED <<tree, sandboxes, before, applied, cancelled, outcome, recovery, bounds>>

UndoDone ==
  /\ undo = 0
  /\ Goto("undo", "verify")
  /\ UNCHANGED <<tree, journal, sandboxes, before, applied, undo, cancelled, outcome,
                 recovery, bounds>>

\* A mutant: the rollback is believed without a look at the root.
RollbackBelieved ==
  /\ Goto("verify", "complete")
  /\ End("apply-failed-rolled-back")
  /\ UNCHANGED <<tree, journal, sandboxes, before, applied, undo, cancelled, recovery, bounds>>

\* The root identity decides between the two failure outcomes.
VerifyRollback ==
  /\ Goto("verify", "complete")
  /\ End(IF Identity = before THEN "apply-failed-rolled-back" ELSE "rollback-incomplete")
  /\ UNCHANGED <<tree, journal, sandboxes, before, applied, undo, cancelled, recovery, bounds>>

RollbackComplete ==
  /\ Goto("complete", "ended")
  /\ \E ok \in BOOLEAN : Append(ok, Rec("rollback-complete"))
  /\ UNCHANGED <<tree, sandboxes, before, applied, undo, cancelled, outcome, recovery, bounds>>

\* PHASE C: inspect the root, then the commit record, whose failure is ignored.
Post ==
  /\ Goto("post", "commit")
  /\ UNCHANGED <<tree, journal, sandboxes, before, applied, undo, cancelled, outcome,
                 recovery, bounds>>

Commit ==
  /\ Goto("commit", "ended")
  /\ \E ok \in BOOLEAN : Append(ok, Rec("commit"))
  /\ End("integrated")
  /\ UNCHANGED <<tree, sandboxes, before, applied, undo, cancelled, recovery, bounds>>

Transaction ==
  \/ Capture \/ Preflight \/ Begin \/ Check
  \/ ApplyOk \/ ApplyError \/ RecordPatch
  \/ RollbackBegin \/ UndoOk \/ UndoError \/ UndoRecord \/ UndoDone
  \/ VerifyRollback \/ RollbackComplete
  \/ Post \/ Commit
  \/ \E here \in {"start", "preflight", "verify", "post"} : Throws(here)

-----------------------------------------------------------------------------
\* The rest of the controller, and the user.

Over == {"ended", "threw", "dead"}

\* The AbortSignal fires.
Cancel ==
  /\ CanCancel
  /\ ~cancelled
  /\ pc \notin Over
  /\ cancelled' = TRUE
  /\ UNCHANGED <<tree, journal, sandboxes, tx, recovery, bounds>>

\* cleanupSandboxes: also when the transaction threw.
CleanUp ==
  /\ pc \in {"ended", "threw"}
  /\ sandboxes
  /\ sandboxes' = FALSE
  /\ UNCHANGED <<tree, journal, tx, cancelled, recovery, bounds>>

\* The controller's process dies: the root, the journal and the sandboxes stay.
Crash ==
  /\ pc \notin Over
  /\ crashes < MaxCrashes
  /\ crashes' = crashes + 1
  /\ pc' = "dead"
  /\ UNCHANGED <<tree, journal, sandboxes, before, applied, undo, cancelled, outcome,
                 recovery, edits>>

\* pruneOrphanTaskSandboxes: every run begins with it, before it reaches its
\* recovery pass; it spares sandboxes younger than five minutes.
PruneOrphans ==
  /\ PrunesOrphans
  /\ pc = "dead"
  /\ sandboxes
  /\ sandboxes' = FALSE
  /\ UNCHANGED <<tree, journal, tx, cancelled, recovery, bounds>>

UserEdit(f) ==
  /\ edits < MaxEdits
  /\ content[f] # "user"
  /\ SetFile(f, "user")
  /\ edits' = edits + 1
  /\ UNCHANGED <<atHead, head, journal, sandboxes, tx, cancelled, recovery, crashes>>

UserCommit ==
  /\ edits < MaxEdits
  /\ Dirty # {}
  /\ atHead' = content
  /\ head' = head + 1
  /\ edits' = edits + 1
  /\ UNCHANGED <<content, journal, sandboxes, tx, cancelled, recovery, crashes>>

-----------------------------------------------------------------------------
\* recoverIncompleteIntegrations, run by the controller of a later run before
\* its first transaction.  It has the intent's rootIdentityBefore from the BEGIN
\* record, which holds the value of `before`.

Logged(type) == Rec(type) \in journal

Pending ==
  /\ Logged("begin")
  /\ ~Logged("commit")
  /\ ~Logged("rollback-complete")
  /\ ~Logged("recovery")

Proven(log) == {p \in Patch : PatchRec("patch-applied", p) \in log}

RunOver == SecondController \/ pc \in Over

RStart ==
  /\ rpc = "idle"
  /\ RunOver
  /\ Pending
  /\ rows' = journal
  /\ rpc' = "inspect"
  /\ UNCHANGED <<tree, journal, sandboxes, tx, cancelled, left, verdict, bounds>>

Conclude(v) == rpc' = "record" /\ verdict' = v

\* A mutant: an unmoved HEAD is taken for an untouched root.
RInspectHeadOnly ==
  /\ rpc = "inspect"
  /\ left' = {}
  /\ Conclude(IF head = before.head THEN "noop" ELSE "blocked")
  /\ UNCHANGED <<tree, journal, sandboxes, tx, cancelled, rows, bounds>>

\* Decide from the root and the records whether there is anything to reverse
\* and whether all of it is provably the transaction's.
RInspect ==
  /\ rpc = "inspect"
  /\ \/ /\ Identity = before
        /\ Conclude("noop")
        /\ left' = {}
     \/ /\ \/ GitFails
           \/ Identity # before /\ (\/ head # before.head
                                    \/ Proven(rows) = {}
                                    \/ ~(Dirty \subseteq Proven(rows)))
        /\ Conclude("blocked")
        /\ left' = {}
     \/ /\ Identity # before
        /\ head = before.head
        /\ Proven(rows) # {}
        /\ Dirty \subseteq Proven(rows)
        /\ rpc' = "reverse"
        /\ left' = Proven(rows)
        /\ UNCHANGED verdict
  /\ UNCHANGED <<tree, journal, sandboxes, tx, cancelled, rows, bounds>>

\* Reverse the last patch left; the first reversal that fails, with or without its
\* effect, ends the pass.
RReverse ==
  /\ rpc = "reverse"
  /\ \E p \in left :
       /\ \A q \in left : q <= p
       /\ \/ /\ sandboxes /\ content[p] = "patched"
             /\ SetFile(p, "base")
             /\ left' = left \ {p}
             /\ UNCHANGED <<rpc, verdict>>
          \/ /\ ~sandboxes \/ content[p] # "patched" \/ GitFails
             /\ Conclude("blocked")
             /\ UNCHANGED left
             /\ \/ UNCHANGED content
                \/ GitFails /\ sandboxes /\ content[p] = "patched" /\ SetFile(p, "base")
  /\ UNCHANGED <<atHead, head, journal, sandboxes, tx, cancelled, rows, bounds>>

RVerify ==
  /\ rpc = "reverse"
  /\ left = {}
  /\ \/ Identity = before /\ Conclude("rolled-back")
     \/ (GitFails \/ Identity # before) /\ Conclude("blocked")
  /\ UNCHANGED <<tree, journal, sandboxes, tx, cancelled, rows, left, bounds>>

\* The recovery record, whose failure is ignored.
RRecord ==
  /\ rpc = "record"
  /\ \E ok \in BOOLEAN : Append(ok, Rec("recovery"))
  /\ rpc' = "idle"
  /\ UNCHANGED <<tree, sandboxes, tx, cancelled, rows, left, verdict, bounds>>

\* The recovering process dies.
RCrash ==
  /\ rpc # "idle"
  /\ crashes < MaxCrashes
  /\ crashes' = crashes + 1
  /\ rpc' = "idle"
  /\ UNCHANGED <<tree, journal, sandboxes, tx, cancelled, rows, left, verdict, edits>>

Recovery == RStart \/ RInspect \/ RReverse \/ RVerify \/ RRecord

Environment ==
  \/ Cancel \/ CleanUp \/ Crash \/ PruneOrphans \/ RCrash \/ UserCommit
  \/ \E f \in File : UserEdit(f)

Next == Transaction \/ Recovery \/ Environment

Spec == Init /\ [][Next]_vars

\* The controller's process runs its transaction to the end, and the runs that
\* follow call the recovery pass as long as an intent is pending; of the passes
\* that come so far, one can write its record.
FairSpec ==
  Spec /\ WF_vars(Transaction) /\ WF_vars(Recovery) /\ SF_vars(RRecord /\ journal' # journal)

-----------------------------------------------------------------------------
\* Properties.

\* A recovery pass that reports "noop" or "rolled-back" leaves no patch of the
\* transaction in the root (recoverOneTransaction).
VerdictTruthful ==
  verdict \in {"noop", "rolled-back"} => \A p \in Patch : content[p] # "patched"

\* A transaction that reports the root unchanged, because the preflight
\* rejected it or because its rollback was clean, leaves none of its patches in
\* the root (runIntegrationTransaction).
OutcomeTruthful ==
  outcome \in {"preflight-rejected", "apply-failed-rolled-back"} =>
    \A p \in Patch : content[p] # "patched"

Unproven == {p \in Patch : content[p] = "patched"
                           /\ PatchRec("patch-applied", p) \notin journal}

\* At every moment, so also wherever the process dies, the journal holds the
\* intent before a patch is in the root, and names every patch in the root but
\* at most one (BEGIN and PATCH_APPLIED).
JournalAhead ==
  /\ (\E p \in Patch : content[p] = "patched") => Logged("begin")
  /\ \A p, q \in Unproven : p = q

\* A transaction returns "integrated" only over a root that holds every patch,
\* or a later edit of its file by the user: never half of the wave.
IntegratedWhole ==
  [][outcome' = "integrated" =>
       outcome = "integrated" \/ \A p \in Patch : content[p] \in {"patched", "user"}]_vars

\* The transaction ends, every loop over the patches included, also the rollback's
\* over failing reversals; and a journaled intent does not stay pending: the
\* transaction or a recovery pass closes it, so no later run examines it again.
TransactionEnds == <>(pc \in Over) /\ (Logged("begin") ~> ~Pending)

\* What the code's comments say, and the runs refute.

\* "EVERY patch applied by this transaction is reversed [...].  A half-integrated
\* wave is a hard error, never a state": where no user interferes, a finished
\* transaction leaves a patch it recorded as applied only if it leaves them all.
NeverHalf ==
  (pc \in {"ended", "threw"} /\ edits = 0) =>
    \A p \in Proven(journal), q \in Patch : content[p] = "patched" => content[q] = "patched"

\* "A later recovery pass can then prove what belongs to the transaction": where
\* no user interferes, recovery is never blocked.
CrashIsRepaired == edits = 0 => verdict # "blocked"

\* The same, where every patch in the root has its record.
ProvenIsRepaired == edits = 0 /\ Unproven = {} => verdict # "blocked"

\* "Never rolls back a COMMITTED transaction".
CompletedStays == outcome = "integrated" => verdict # "rolled-back"

=============================================================================
