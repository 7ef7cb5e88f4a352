--------------------------- MODULE MCWavePlanning ---------------------------
\* Instances of WavePlanning: three tasks over the declarations it distinguishes.
EXTENDS WavePlanning

Base == [writes |-> {}, reads |-> {}, generates |-> {}, services |-> {},
         external |-> FALSE, destructive |-> FALSE, prose |-> {}, high |-> FALSE]

Declarations ==
  { Base,
    [Base EXCEPT !.writes = {"a"}],
    [Base EXCEPT !.reads = {"a"}],
    [Base EXCEPT !.writes = {"b"}, !.reads = {"c"}],
    [Base EXCEPT !.writes = {"c"}, !.services = {"db"}],
    [Base EXCEPT !.writes = {"package"}, !.high = TRUE],
    [Base EXCEPT !.writes = {"lock"}, !.generates = {"b"}],
    [Base EXCEPT !.reads = {"b"}, !.external = TRUE],
    [Base EXCEPT !.writes = {"d"}, !.prose = {"external"}] }

\* All orders of three tasks, a cycle, and a dependency on nobody.
Dependencies ==
  {<<{}, d, e>> : d \in SUBSET {1}, e \in SUBSET {1, 2}}
    \cup { <<{3}, {}, {2}>>, <<{2}, {3}, {1}>>, <<{Nobody}, {}, {}>> }

ThreeTasks == [decl : [1..3 -> Declarations], deps : Dependencies]

Situations ==
  { [width |-> 3, research |-> FALSE, release |-> FALSE, pressure |-> "other"],
    [width |-> 3, research |-> FALSE, release |-> FALSE, pressure |-> "elevated"],
    [width |-> 2, research |-> TRUE, release |-> FALSE, pressure |-> "other"],
    [width |-> 1, research |-> FALSE, release |-> TRUE, pressure |-> "high"] }
=============================================================================
