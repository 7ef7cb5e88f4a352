----------------------------- MODULE LeaseRegister -----------------------------
(***************************************************************************)
(* What src/lib/execution-ownership.mjs promises for one scope: a register *)
(* that holds at most one lease and changes in one step.  Any runtime may  *)
(* take it when it is free, expired or abandoned, each change of owner     *)
(* starts the next generation, and only its owner renews or removes it     *)
(* while it is fresh.                                                      *)
(*                                                                         *)
(* A call decides with the time `at` at which it was made, so `at` may lie *)
(* in the past of the step that takes effect.                              *)
(***************************************************************************)
EXTENDS Integers

CONSTANTS Runtime, TTL, OrphanAge, NoLease

VARIABLES now, alive, lease

regVars == <<now, alive, lease>>

Free(r, at) ==
  \/ lease = NoLease
  \/ lease.owner = r
  \/ lease.heartbeat + TTL <= at
  \/ lease.owner \notin alive

NextGeneration(r) ==
  IF lease = NoLease THEN 1
  ELSE IF lease.owner = r THEN lease.generation ELSE lease.generation + 1

RegInit == now = 0 /\ alive = Runtime /\ lease = NoLease

Claim(r, at) ==
  /\ Free(r, at)
  /\ lease' = [owner |-> r, generation |-> NextGeneration(r), heartbeat |-> at]
  /\ UNCHANGED <<now, alive>>

Renew(r, at) ==
  /\ lease # NoLease
  /\ lease.owner = r
  /\ lease' = [lease EXCEPT !.heartbeat = at]
  /\ UNCHANGED <<now, alive>>

Release(r) ==
  /\ lease # NoLease
  /\ lease.owner = r
  /\ lease' = NoLease
  /\ UNCHANGED <<now, alive>>

Collect(at) ==
  /\ lease # NoLease
  /\ \/ lease.heartbeat + TTL <= at /\ lease.owner \notin alive
     \/ at - lease.heartbeat >= OrphanAge
  /\ lease' = NoLease
  /\ UNCHANGED <<now, alive>>

Die(r) ==
  /\ alive' = alive \ {r}
  /\ UNCHANGED <<now, lease>>

Pass == now' = now + 1 /\ UNCHANGED <<alive, lease>>

RegNext ==
  \/ \E r \in alive, at \in 0..now : Claim(r, at) \/ Renew(r, at)
  \/ \E r \in alive : Release(r)
  \/ \E at \in 0..now : Collect(at)
  \/ \E r \in alive : Die(r)
  \/ Pass

RegSpec == RegInit /\ [][RegNext]_regVars
=============================================================================
