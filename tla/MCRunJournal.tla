---------------------------- MODULE MCRunJournal ----------------------------
\* Small instances of RunJournal: a parent with two callers, and a child.
EXTENDS RunJournal, TLC

CONSTANTS p1, p2, p3, c1, c2, c3, h1, h2

ParentAndChild == (c1 :> p1) @@ (c2 :> p1) @@ (c3 :> p2)

ThreeProcesses == (c1 :> p1) @@ (c2 :> p2) @@ (c3 :> p3)

\* The payloads are interchangeable, and so are the two callers of the parent.
Interchangeable == Permutations({h1, h2}) \cup Permutations({c1, c2})
=============================================================================
