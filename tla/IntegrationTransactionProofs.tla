--------------------- MODULE IntegrationTransactionProofs ---------------------
(***************************************************************************)
(* Proofs about IntegrationTransaction, for waves of every size.           *)
(***************************************************************************)
EXTENDS IntegrationTransaction, TLAPS

USE DEF tree, tx, recovery, bounds

-----------------------------------------------------------------------------
(***************************************************************************)
(* Type correctness: neither loop over the patches runs past its end.      *)
(***************************************************************************)
InLoops ==
  /\ pc = "apply" => applied < N
  /\ pc = "undone" => undo > 0

TypeInv == TypeOK /\ InLoops

LEMMA TypeInit == Init => TypeInv
<1> SUFFICES ASSUME Init PROVE TypeInv
  OBVIOUS
<1>1. /\ content \in [File -> {"base", "patched", "user"}]
      /\ atHead \in [File -> {"old", "base", "patched", "user"}]
      /\ before \in [head : Nat, dirty : SUBSET File]
  BY DEF Init
<1>2. /\ journal \subseteq Record /\ rows \subseteq Record /\ left \subseteq Patch
      /\ applied \in 0..N /\ undo \in 0..N
  BY WaveAssumption DEF Init
<1>3. QED
  BY <1>1, <1>2 DEF Init, TypeInv, TypeOK, InLoops, Pc, Outcome, RPc, Verdict

LEMMA RecordType ==
  /\ \A type \in {"begin", "commit", "rollback-begin", "rollback-complete", "recovery"} :
       Rec(type) \in Record
  /\ \A p \in 0..N :
       PatchRec("patch-applied", p) \in Record /\ PatchRec("patch-rolled-back", p) \in Record
  BY WaveAssumption DEF Record, Rec, PatchRec

LEMMA TypeTransaction == TypeInv /\ Transaction => TypeInv'
<1> SUFFICES ASSUME TypeInv, Transaction PROVE TypeInv'
  OBVIOUS
<1> USE WaveAssumption, RecordType
    DEF TypeInv, TypeOK, InLoops, Pc, Outcome, Goto, Append, End, SetFile, Patch, File
<1>1. CASE Capture BY <1>1 DEF Capture, Identity, Dirty
<1>2. CASE Preflight BY <1>2 DEF Preflight
<1>3. CASE Begin BY <1>3 DEF Begin
<1>4. CASE Check BY <1>4 DEF Check
<1>5. CASE ApplyOk BY <1>5 DEF ApplyOk
<1>6. CASE ApplyError BY <1>6 DEF ApplyError
<1>7. CASE RecordPatch BY <1>7 DEF RecordPatch
<1>8. CASE RollbackBegin BY <1>8 DEF RollbackBegin
<1>9. CASE UndoOk BY <1>9 DEF UndoOk
<1>10. CASE UndoError
  <2>1. undo' \in 0..N
    BY <1>10 DEF UndoError
  <2>2. content' \in [File -> {"base", "patched", "user"}]
    BY <1>10 DEF UndoError
  <2>3. QED BY <1>10, <2>1, <2>2 DEF UndoError
<1>11. CASE UndoRecord BY <1>11 DEF UndoRecord
<1>12. CASE UndoDone BY <1>12 DEF UndoDone
<1>13. CASE VerifyRollback BY <1>13 DEF VerifyRollback
<1>14. CASE RollbackComplete BY <1>14 DEF RollbackComplete
<1>15. CASE Post BY <1>15 DEF Post
<1>16. CASE Commit BY <1>16 DEF Commit
<1>17. ASSUME NEW here \in {"start", "preflight", "verify", "post"}, Throws(here)
       PROVE TypeInv'
  BY <1>17 DEF Throws
<1>18. QED
  BY <1>1, <1>2, <1>3, <1>4, <1>5, <1>6, <1>7, <1>8, <1>9, <1>10, <1>11, <1>12, <1>13,
     <1>14, <1>15, <1>16, <1>17 DEF Transaction

LEMMA TypeRest == TypeInv /\ (Recovery \/ Environment \/ UNCHANGED vars) => TypeInv'
<1> SUFFICES ASSUME TypeInv, Recovery \/ Environment \/ UNCHANGED vars PROVE TypeInv'
  OBVIOUS
<1> USE WaveAssumption, RecordType
    DEF TypeInv, TypeOK, InLoops, Pc, RPc, Verdict, Append, SetFile, Conclude, Patch, File
<1>1. CASE RStart BY <1>1 DEF RStart
<1>2. CASE RInspect BY <1>2 DEF RInspect, Proven
<1>3. CASE RReverse BY <1>3 DEF RReverse
<1>4. CASE RVerify BY <1>4 DEF RVerify
<1>5. CASE RRecord BY <1>5 DEF RRecord
<1>6. CASE Cancel BY <1>6 DEF Cancel
<1>7. CASE CleanUp BY <1>7 DEF CleanUp
<1>8. CASE Crash BY <1>8 DEF Crash
<1>9. CASE PruneOrphans BY <1>9 DEF PruneOrphans
<1>10. CASE RCrash BY <1>10 DEF RCrash
<1>11. CASE UserCommit BY <1>11 DEF UserCommit
<1>12. ASSUME NEW f \in File, UserEdit(f) PROVE TypeInv'
  BY <1>12 DEF UserEdit
<1>13. CASE UNCHANGED vars BY <1>13 DEF vars
<1>14. QED
  BY <1>1, <1>2, <1>3, <1>4, <1>5, <1>6, <1>7, <1>8, <1>9, <1>10, <1>11, <1>12, <1>13
     DEF Recovery, Environment

LEMMA TypeStep == TypeInv /\ [Next]_vars => TypeInv'
  BY TypeTransaction, TypeRest DEF Next

\* Every reachable state is well typed: whatever fails, the apply loop and the
\* rollback loop never address a patch outside 1..N.
THEOREM TypeCorrect == Spec => []TypeOK
<1>1. TypeInv => TypeOK BY DEF TypeInv
<1>2. QED BY TypeInit, TypeStep, <1>1, PTL DEF Spec

-----------------------------------------------------------------------------
(***************************************************************************)
(* The journal runs ahead of the root.  Before the intent there is no      *)
(* record and no patch; in the apply loop every patch in the root has its  *)
(* record, but for the one between its git call and its append; from the   *)
(* moment the loop is left no patch is added.                              *)
(***************************************************************************)
Early == {"start", "preflight", "begin"}

InTransaction == Pc \ (Early \cup Over)

JournalInv ==
  /\ pc \in Early => journal = {} /\ \A p \in Patch : content[p] # "patched"
  /\ pc \in InTransaction \/ rpc # "idle" => Logged("begin")
  /\ (\E p \in Patch : content[p] = "patched") => Logged("begin")
  /\ pc \in {"check", "apply"} => Unproven = {}
  /\ pc = "record" => Unproven \subseteq {applied}
  /\ \A p, q \in Unproven : p = q

LEMMA JournalInit == Init => JournalInv
  BY DEF Init, JournalInv, Early, InTransaction, Over, Unproven, File

LEMMA JournalStep ==
  ASSUME TypeInv, JournalInv, [Next]_vars
  PROVE  JournalInv'
<1> USE WaveAssumption
    DEF TypeInv, TypeOK, InLoops, Pc, Goto, Append, End, SetFile, Patch, File, JournalInv,
        Early, InTransaction, Over, Unproven, Logged, Pending, Rec, PatchRec,
        Conclude
<1>1. CASE Capture BY <1>1 DEF Capture
<1>2. CASE Preflight BY <1>2 DEF Preflight
<1>3. CASE Begin BY <1>3 DEF Begin
<1>4. CASE Check BY <1>4 DEF Check
<1>5. CASE ApplyOk BY <1>5 DEF ApplyOk
<1>6. CASE ApplyError BY <1>6 DEF ApplyError
<1>7. CASE RecordPatch BY <1>7 DEF RecordPatch
<1>8. CASE RollbackBegin BY <1>8 DEF RollbackBegin
<1>9. CASE UndoOk BY <1>9 DEF UndoOk
<1>10. CASE UndoError BY <1>10 DEF UndoError
<1>11. CASE UndoRecord BY <1>11 DEF UndoRecord
<1>12. CASE UndoDone BY <1>12 DEF UndoDone
<1>13. CASE VerifyRollback BY <1>13 DEF VerifyRollback
<1>14. CASE RollbackComplete BY <1>14 DEF RollbackComplete
<1>15. CASE Post BY <1>15 DEF Post
<1>16. CASE Commit BY <1>16 DEF Commit
<1>17. CASE RStart BY <1>17 DEF RStart
<1>18. CASE RInspect BY <1>18 DEF RInspect
<1>19. CASE RReverse BY <1>19 DEF RReverse
<1>20. CASE RVerify BY <1>20 DEF RVerify
<1>21. CASE RRecord BY <1>21 DEF RRecord
<1>22. CASE Cancel BY <1>22 DEF Cancel
<1>23. CASE CleanUp BY <1>23 DEF CleanUp
<1>24. CASE Crash BY <1>24 DEF Crash
<1>25. CASE PruneOrphans BY <1>25 DEF PruneOrphans
<1>26. CASE RCrash BY <1>26 DEF RCrash
<1>27. CASE UserCommit BY <1>27 DEF UserCommit
<1>28. ASSUME NEW here \in {"start", "preflight", "verify", "post"}, Throws(here)
       PROVE JournalInv'
  BY <1>28 DEF Throws
<1>29. ASSUME NEW f \in File, UserEdit(f) PROVE JournalInv'
  BY <1>29 DEF UserEdit
<1>30. CASE UNCHANGED vars BY <1>30 DEF vars
<1>31. QED
  BY <1>1, <1>2, <1>3, <1>4, <1>5, <1>6, <1>7, <1>8, <1>9, <1>10, <1>11, <1>12, <1>13,
     <1>14, <1>15, <1>16, <1>17, <1>18, <1>19, <1>20, <1>21, <1>22, <1>23, <1>24, <1>25, <1>26,
     <1>27, <1>28, <1>29, <1>30
     DEF Next, Transaction, Recovery, Environment

\* Wherever the process dies, the journal holds the intent of every patch in the
\* root and the applied record of all of them but at most one.
THEOREM JournalIsAhead == Spec => []JournalAhead
<1>1. JournalInv => JournalAhead BY DEF JournalInv, JournalAhead
<1>2. Init => TypeInv /\ JournalInv BY TypeInit, JournalInit
<1>3. TypeInv /\ JournalInv /\ [Next]_vars => (TypeInv /\ JournalInv)'
  BY TypeStep, JournalStep
<1>4. QED BY <1>1, <1>2, <1>3, PTL DEF Spec

-----------------------------------------------------------------------------
(***************************************************************************)
(* Integrated means the whole wave, when no recovery pass runs beside a    *)
(* live transaction: every patch the apply loop has counted is in the      *)
(* root, or the user has edited its file since.                            *)
(***************************************************************************)
Forward == {"check", "apply", "record", "post", "commit"}

WholeInv ==
  /\ pc \notin Over => rpc = "idle"
  /\ pc \in Early => applied = 0
  /\ pc \in Forward => \A p \in 1..applied : content[p] \in {"patched", "user"}
  /\ pc \in {"post", "commit"} => applied = N

LEMMA WholeInit == Init => WholeInv
  BY DEF Init, WholeInv, Forward, Early

LEMMA WholeStep ==
  ASSUME ~SecondController, TypeInv, WholeInv, [Next]_vars
  PROVE  WholeInv'
<1> USE WaveAssumption
    DEF TypeInv, TypeOK, InLoops, Pc, Goto, Append, End, SetFile, Patch, File,
        WholeInv, Early, Forward, Over, RunOver, Conclude
<1>1. CASE Capture BY <1>1 DEF Capture
<1>2. CASE Preflight BY <1>2 DEF Preflight
<1>3. CASE Begin BY <1>3 DEF Begin
<1>4. CASE Check BY <1>4 DEF Check
<1>5. CASE ApplyOk BY <1>5 DEF ApplyOk
<1>6. CASE ApplyError BY <1>6 DEF ApplyError
<1>7. CASE RecordPatch BY <1>7 DEF RecordPatch
<1>8. CASE RollbackBegin BY <1>8 DEF RollbackBegin
<1>9. CASE UndoOk BY <1>9 DEF UndoOk
<1>10. CASE UndoError BY <1>10 DEF UndoError
<1>11. CASE UndoRecord BY <1>11 DEF UndoRecord
<1>12. CASE UndoDone BY <1>12 DEF UndoDone
<1>13. CASE VerifyRollback BY <1>13 DEF VerifyRollback
<1>14. CASE RollbackComplete BY <1>14 DEF RollbackComplete
<1>15. CASE Post BY <1>15 DEF Post
<1>16. CASE Commit BY <1>16 DEF Commit
<1>17. CASE RStart BY <1>17 DEF RStart
<1>18. CASE RInspect BY <1>18 DEF RInspect
<1>19. CASE RReverse BY <1>19 DEF RReverse
<1>20. CASE RVerify BY <1>20 DEF RVerify
<1>21. CASE RRecord BY <1>21 DEF RRecord
<1>22. CASE Cancel BY <1>22 DEF Cancel
<1>23. CASE CleanUp BY <1>23 DEF CleanUp
<1>24. CASE Crash BY <1>24 DEF Crash
<1>25. CASE PruneOrphans BY <1>25 DEF PruneOrphans
<1>26. CASE RCrash BY <1>26 DEF RCrash
<1>27. CASE UserCommit BY <1>27 DEF UserCommit
<1>28. ASSUME NEW here \in {"start", "preflight", "verify", "post"}, Throws(here)
       PROVE WholeInv'
  BY <1>28 DEF Throws
<1>29. ASSUME NEW f \in File, UserEdit(f) PROVE WholeInv'
  BY <1>29 DEF UserEdit
<1>30. CASE UNCHANGED vars BY <1>30 DEF vars
<1>31. QED
  BY <1>1, <1>2, <1>3, <1>4, <1>5, <1>6, <1>7, <1>8, <1>9, <1>10, <1>11, <1>12, <1>13,
     <1>14, <1>15, <1>16, <1>17, <1>18, <1>19, <1>20, <1>21, <1>22, <1>23, <1>24, <1>25, <1>26,
     <1>27, <1>28, <1>29, <1>30
     DEF Next, Transaction, Recovery, Environment

\* Without a second controller a transaction returns "integrated" only over a
\* root that holds every patch or a later edit of its file.
THEOREM IntegratesWhole ==
  ASSUME ~SecondController
  PROVE  Spec => IntegratedWhole
<1>1. Init => TypeInv /\ WholeInv BY TypeInit, WholeInit
<1>2. TypeInv /\ WholeInv /\ [Next]_vars => (TypeInv /\ WholeInv)'
  BY TypeStep, WholeStep
<1>3. ASSUME WholeInv, [Next]_vars
      PROVE  [outcome' = "integrated" =>
                outcome = "integrated"
                \/ \A p \in Patch : content[p] \in {"patched", "user"}]_vars
  <2> SUFFICES ASSUME Next, outcome' # outcome, outcome' = "integrated"
               PROVE  \A p \in Patch : content[p] \in {"patched", "user"}
    BY <1>3
  <2>1. Commit
    BY DEF Next, Transaction, Recovery, Environment, Capture, Preflight, Begin, Check, ApplyOk,
      ApplyError, RecordPatch, RollbackBegin, UndoOk, UndoError, UndoRecord, UndoDone,
      VerifyRollback, RollbackComplete, Post, Throws, RStart, RInspect, RReverse, RVerify,
      RRecord, Cancel, CleanUp, Crash, PruneOrphans, RCrash, UserCommit, UserEdit, End
  <2>2. QED BY <1>3, <2>1 DEF Commit, Goto, WholeInv, Forward, Patch
<1>4. QED BY <1>1, <1>2, <1>3, PTL DEF Spec, IntegratedWhole

-----------------------------------------------------------------------------
(***************************************************************************)
(* Reports of an unchanged root are truthful when the wave started from a  *)
(* clean root.  The identity only names the dirty files; it decides, since *)
(* with HEAD unmoved a file with a patch in it is dirty, and a file that   *)
(* was dirty when the identity was captured is one the user has edited.    *)
(***************************************************************************)
Untouched == \A p \in Patch : content[p] # "patched"

IdentityInv ==
  /\ head = 0 => atHead = [f \in File |-> "base"]
  /\ pc \in InTransaction \cup {"preflight", "begin"} \/ Logged("begin") => before.head = 0
  /\ before.head = 0 => \A f \in before.dirty : content[f] = "user"
  /\ \A f \in File \ Patch : content[f] # "patched"

LEMMA IdentityDecides ==
  ASSUME TypeOK, IdentityInv, before.head = 0, Identity = before
  PROVE  Untouched
<1> SUFFICES ASSUME NEW p \in Patch, content[p] = "patched" PROVE FALSE
  BY DEF Untouched
<1>1. head = 0 /\ Dirty = before.dirty
  BY DEF Identity
<1>2. p \in Dirty
  BY <1>1 DEF IdentityInv, Dirty, File
<1>3. QED BY <1>1, <1>2 DEF IdentityInv

LEMMA IdentityInit == Inherited = {} /\ Init => IdentityInv
  BY DEF Init, IdentityInv, InTransaction, Over, Early, Logged, Pc

LEMMA IdentityStep ==
  ASSUME TypeInv, JournalInv, IdentityInv, [Next]_vars
  PROVE  IdentityInv'
<1> USE WaveAssumption
    DEF TypeInv, TypeOK, InLoops, Pc, Goto, Append, End, SetFile, Patch, File,
        JournalInv, IdentityInv, Early, InTransaction, Over, Logged, Rec, PatchRec
<1>1. CASE Capture BY <1>1 DEF Capture, Identity, Dirty
<1>2. CASE Preflight BY <1>2 DEF Preflight
<1>3. CASE Begin BY <1>3 DEF Begin
<1>4. CASE Check BY <1>4 DEF Check
<1>5. CASE ApplyOk BY <1>5 DEF ApplyOk, Applies
<1>6. CASE ApplyError BY <1>6 DEF ApplyError, Applies
<1>7. CASE RecordPatch BY <1>7 DEF RecordPatch
<1>8. CASE RollbackBegin BY <1>8 DEF RollbackBegin
<1>9. CASE UndoOk BY <1>9 DEF UndoOk
<1>10. CASE UndoError BY <1>10 DEF UndoError
<1>11. CASE UndoRecord BY <1>11 DEF UndoRecord
<1>12. CASE UndoDone BY <1>12 DEF UndoDone
<1>13. CASE VerifyRollback BY <1>13 DEF VerifyRollback
<1>14. CASE RollbackComplete BY <1>14 DEF RollbackComplete
<1>15. CASE Post BY <1>15 DEF Post
<1>16. CASE Commit BY <1>16 DEF Commit
<1>17. CASE RStart BY <1>17 DEF RStart
<1>18. CASE RInspect BY <1>18 DEF RInspect
<1>19. CASE RReverse BY <1>19 DEF RReverse
<1>20. CASE RVerify BY <1>20 DEF RVerify
<1>21. CASE RRecord BY <1>21 DEF RRecord
<1>22. CASE Cancel BY <1>22 DEF Cancel
<1>23. CASE CleanUp BY <1>23 DEF CleanUp
<1>24. CASE Crash BY <1>24 DEF Crash
<1>25. CASE PruneOrphans BY <1>25 DEF PruneOrphans
<1>26. CASE RCrash BY <1>26 DEF RCrash
<1>27. CASE UserCommit BY <1>27 DEF UserCommit
<1>28. ASSUME NEW here \in {"start", "preflight", "verify", "post"}, Throws(here)
       PROVE IdentityInv'
  BY <1>28 DEF Throws
<1>29. ASSUME NEW f \in File, UserEdit(f) PROVE IdentityInv'
  BY <1>29 DEF UserEdit
<1>30. CASE UNCHANGED vars BY <1>30 DEF vars
<1>31. QED
  BY <1>1, <1>2, <1>3, <1>4, <1>5, <1>6, <1>7, <1>8, <1>9, <1>10, <1>11, <1>12, <1>13,
     <1>14, <1>15, <1>16, <1>17, <1>18, <1>19, <1>20, <1>21, <1>22, <1>23, <1>24, <1>25, <1>26,
     <1>27, <1>28, <1>29, <1>30
     DEF Next, Transaction, Recovery, Environment

\* The outcomes that claim an unchanged root.
Clean == {"preflight-rejected", "apply-failed-rolled-back"}

OutcomeInv ==
  /\ pc \in {"complete", "ended", "dead"} \/ outcome = "none"
  /\ outcome \in Clean => Untouched

LEMMA OutcomeInit == Init => OutcomeInv
  BY DEF Init, OutcomeInv, Clean

LEMMA OutcomeStep ==
  ASSUME TypeInv, JournalInv, IdentityInv, OutcomeInv, [Next]_vars
  PROVE  OutcomeInv'
<1> USE WaveAssumption
    DEF TypeInv, TypeOK, InLoops, Pc, Goto, Append, End, SetFile, Patch, File,
        JournalInv, Early, OutcomeInv, Clean, Untouched, Over
<1>1. CASE Capture BY <1>1 DEF Capture
<1>2. CASE Preflight BY <1>2 DEF Preflight
<1>3. CASE Begin BY <1>3 DEF Begin
<1>4. CASE Check BY <1>4 DEF Check
<1>5. CASE ApplyOk BY <1>5 DEF ApplyOk
<1>6. CASE ApplyError BY <1>6 DEF ApplyError
<1>7. CASE RecordPatch BY <1>7 DEF RecordPatch
<1>8. CASE RollbackBegin BY <1>8 DEF RollbackBegin
<1>9. CASE UndoOk BY <1>9 DEF UndoOk
<1>10. CASE UndoError BY <1>10 DEF UndoError
<1>11. CASE UndoRecord BY <1>11 DEF UndoRecord
<1>12. CASE UndoDone BY <1>12 DEF UndoDone
<1>13. CASE VerifyRollback
  <2>1. before.head = 0
    BY <1>13 DEF VerifyRollback, IdentityInv, InTransaction
  <2>2. Identity = before => Untouched
    BY <2>1, IdentityDecides
  <2>3. QED BY <1>13, <2>2 DEF VerifyRollback
<1>14. CASE RollbackComplete BY <1>14 DEF RollbackComplete
<1>15. CASE Post BY <1>15 DEF Post
<1>16. CASE Commit BY <1>16 DEF Commit
<1>17. CASE RStart BY <1>17 DEF RStart
<1>18. CASE RInspect BY <1>18 DEF RInspect
<1>19. CASE RReverse BY <1>19 DEF RReverse
<1>20. CASE RVerify BY <1>20 DEF RVerify
<1>21. CASE RRecord BY <1>21 DEF RRecord
<1>22. CASE Cancel BY <1>22 DEF Cancel
<1>23. CASE CleanUp BY <1>23 DEF CleanUp
<1>24. CASE Crash BY <1>24 DEF Crash
<1>25. CASE PruneOrphans BY <1>25 DEF PruneOrphans
<1>26. CASE RCrash BY <1>26 DEF RCrash
<1>27. CASE UserCommit BY <1>27 DEF UserCommit
<1>28. ASSUME NEW here \in {"start", "preflight", "verify", "post"}, Throws(here)
       PROVE OutcomeInv'
  BY <1>28 DEF Throws
<1>29. ASSUME NEW f \in File, UserEdit(f) PROVE OutcomeInv'
  BY <1>29 DEF UserEdit
<1>30. CASE UNCHANGED vars BY <1>30 DEF vars
<1>31. QED
  BY <1>1, <1>2, <1>3, <1>4, <1>5, <1>6, <1>7, <1>8, <1>9, <1>10, <1>11, <1>12, <1>13,
     <1>14, <1>15, <1>16, <1>17, <1>18, <1>19, <1>20, <1>21, <1>22, <1>23, <1>24, <1>25, <1>26,
     <1>27, <1>28, <1>29, <1>30
     DEF Next, Transaction, Recovery, Environment

\* A transaction over a clean root that reports it unchanged leaves no patch in it.
THEOREM OutcomeIsTruthful ==
  ASSUME Inherited = {}
  PROVE  Spec => []OutcomeTruthful
<1> DEFINE Inv == TypeInv /\ JournalInv /\ IdentityInv /\ OutcomeInv
<1>1. Inv => OutcomeTruthful
  BY DEF OutcomeInv, OutcomeTruthful, Clean, Untouched
<1>2. Init => Inv
  BY TypeInit, JournalInit, IdentityInit, OutcomeInit
<1>3. Inv /\ [Next]_vars => Inv'
  BY TypeStep, JournalStep, IdentityStep, OutcomeStep
<1>4. QED BY <1>1, <1>2, <1>3, PTL DEF Spec

\* The same of a recovery pass, which only runs once the transaction is over.
VerdictInv ==
  /\ rpc # "idle" \/ verdict # "none" => pc \in Over
  /\ verdict \in {"noop", "rolled-back"} => Untouched

LEMMA VerdictInit == Init => VerdictInv
  BY DEF Init, VerdictInv

LEMMA VerdictStep ==
  ASSUME ~SecondController, TypeInv, JournalInv, IdentityInv, VerdictInv, [Next]_vars
  PROVE  VerdictInv'
<1> USE WaveAssumption
    DEF TypeInv, TypeOK, InLoops, Pc, Goto, Append, End, SetFile, Patch, File,
        VerdictInv, Untouched, Over, RunOver, Conclude
<1>1. CASE Capture BY <1>1 DEF Capture
<1>2. CASE Preflight BY <1>2 DEF Preflight
<1>3. CASE Begin BY <1>3 DEF Begin
<1>4. CASE Check BY <1>4 DEF Check
<1>5. CASE ApplyOk BY <1>5 DEF ApplyOk
<1>6. CASE ApplyError BY <1>6 DEF ApplyError
<1>7. CASE RecordPatch BY <1>7 DEF RecordPatch
<1>8. CASE RollbackBegin BY <1>8 DEF RollbackBegin
<1>9. CASE UndoOk BY <1>9 DEF UndoOk
<1>10. CASE UndoError BY <1>10 DEF UndoError
<1>11. CASE UndoRecord BY <1>11 DEF UndoRecord
<1>12. CASE UndoDone BY <1>12 DEF UndoDone
<1>13. CASE VerifyRollback BY <1>13 DEF VerifyRollback
<1>14. CASE RollbackComplete BY <1>14 DEF RollbackComplete
<1>15. CASE Post BY <1>15 DEF Post
<1>16. CASE Commit BY <1>16 DEF Commit
<1>17. CASE RStart BY <1>17 DEF RStart
<1>18. CASE RInspect
  <2>1. before.head = 0
    BY <1>18 DEF RInspect, JournalInv, IdentityInv
  <2>2. Identity = before => Untouched
    BY <2>1, IdentityDecides
  <2>3. QED BY <1>18, <2>2 DEF RInspect
<1>19. CASE RReverse BY <1>19 DEF RReverse
<1>20. CASE RVerify
  <2>1. before.head = 0
    BY <1>20 DEF RVerify, JournalInv, IdentityInv
  <2>2. Identity = before => Untouched
    BY <2>1, IdentityDecides
  <2>3. QED BY <1>20, <2>2 DEF RVerify
<1>21. CASE RRecord BY <1>21 DEF RRecord
<1>22. CASE Cancel BY <1>22 DEF Cancel
<1>23. CASE CleanUp BY <1>23 DEF CleanUp
<1>24. CASE Crash BY <1>24 DEF Crash
<1>25. CASE PruneOrphans BY <1>25 DEF PruneOrphans
<1>26. CASE RCrash BY <1>26 DEF RCrash
<1>27. CASE UserCommit BY <1>27 DEF UserCommit
<1>28. ASSUME NEW here \in {"start", "preflight", "verify", "post"}, Throws(here)
       PROVE VerdictInv'
  BY <1>28 DEF Throws
<1>29. ASSUME NEW f \in File, UserEdit(f) PROVE VerdictInv'
  BY <1>29 DEF UserEdit
<1>30. CASE UNCHANGED vars BY <1>30 DEF vars
<1>31. QED
  BY <1>1, <1>2, <1>3, <1>4, <1>5, <1>6, <1>7, <1>8, <1>9, <1>10, <1>11, <1>12, <1>13,
     <1>14, <1>15, <1>16, <1>17, <1>18, <1>19, <1>20, <1>21, <1>22, <1>23, <1>24, <1>25, <1>26,
     <1>27, <1>28, <1>29, <1>30
     DEF Next, Transaction, Recovery, Environment

\* A recovery pass over the remains of a transaction that started from a clean
\* root, with no transaction running, reports "noop" or "rolled-back" only when no
\* patch is left in the root.
THEOREM VerdictIsTruthful ==
  ASSUME ~SecondController, Inherited = {}
  PROVE  Spec => []VerdictTruthful
<1> DEFINE Inv == TypeInv /\ JournalInv /\ IdentityInv /\ VerdictInv
<1>1. Inv => VerdictTruthful
  BY DEF VerdictInv, VerdictTruthful, Untouched
<1>2. Init => Inv
  BY TypeInit, JournalInit, IdentityInit, VerdictInit
<1>3. Inv /\ [Next]_vars => Inv'
  BY TypeStep, JournalStep, IdentityStep, VerdictStep
<1>4. QED BY <1>1, <1>2, <1>3, PTL DEF Spec

=============================================================================
