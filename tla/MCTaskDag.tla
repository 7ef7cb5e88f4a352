------------------------------ MODULE MCTaskDag ------------------------------
\* Instances of TaskDag: all graphs of three nodes over some declarations.
EXTENDS TaskDag

Decl(effect, lane, critical, timed, old) ==
  [effect |-> effect, lane |-> lane, critical |-> critical, timed |-> timed, old |-> old]

\* One declaration per case the scheduler distinguishes.
Cases ==
  { Decl("root", "root", TRUE, FALSE, FALSE),
    Decl("root", "root", FALSE, TRUE, FALSE),
    Decl("isolated", "isolated", TRUE, TRUE, FALSE),
    Decl("isolated", "root", TRUE, FALSE, FALSE),
    Decl("read", "read", TRUE, FALSE, FALSE),
    Decl("read", "read", FALSE, FALSE, TRUE) }

Narrow == {[lane \in Lane |-> IF lane = "read" THEN r ELSE 1] : r \in {0, 1}}
=============================================================================
