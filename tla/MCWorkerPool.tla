----------------------------- MODULE MCWorkerPool -----------------------------
EXTENDS WorkerPool

Mode(overlap, faults, mixed) ==
  [overlap |-> overlap, faults |-> faults, mixed |-> mixed]

\* One call of a key at a time, with changing specifications and a failure; several
\* calls of one key at a time without a failure.
Careful == {Mode(FALSE, 1, TRUE), Mode(TRUE, 0, FALSE)}

\* Two calls of one key at a time, one of which fails.
Overlapping == {Mode(TRUE, 1, FALSE)}
=============================================================================
