-------------------------- MODULE MCStructuredPlan --------------------------
(* Instances of StructuredPlan. *)
EXTENDS StructuredPlan

\* A writer beside a reader, then a writer.
TwoWaves == <<<<1, 2>>, <<3>>>>
\* A wave wider than the fleet, and a single pair.
WideWave == <<<<1, 2, 3>>>>
OneWave == <<<<1, 2>>>>
=============================================================================
