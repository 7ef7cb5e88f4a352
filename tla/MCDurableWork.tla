--------------------------- MODULE MCDurableWork ---------------------------
(* Instances of DurableWork: two processes, two tasks, two plans. *)
EXTENDS DurableWork, TLC

CONSTANTS c1, c2, t1, t2, p1, p2

(* In p1 both tasks touch one file; p2 is strict and t2 follows t1. *)
PlanFiles == (p1 :> [t \in Task |-> {"f"}]) @@ (p2 :> [t \in Task |-> {}])
PlanDeps == (p1 :> [t \in Task |-> {}]) @@ (p2 :> (t1 :> {} @@ t2 :> {t1}))

(* One plan whose first task declares no files. *)
UnknownFiles == p1 :> (t1 :> {} @@ t2 :> {"f"})
NoDeps == [p \in Plan |-> [t \in Task |-> {}]]

AllOps == {"import", "approve", "start", "heartbeat", "receipt", "complete", "fail",
           "recover", "verify", "finalize", "block", "unblock"}
StepsButScope == {"locked", "plan", "evidence", "state", "unlock"}

Clients == Permutations(Client)
=============================================================================
