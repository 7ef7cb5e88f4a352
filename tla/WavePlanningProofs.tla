------------------------- MODULE WavePlanningProofs -------------------------
(***************************************************************************)
(* For every plan: the waves respect the dependencies, hold each task once *)
(* and no two tasks that clash, and the planner is never stuck.  The       *)
(* inductive invariant describes the wave that is being filled: its tasks  *)
(* wait, their dependencies are in earlier waves, and no two of them       *)
(* conflict.                                                               *)
(***************************************************************************)
EXTENDS WavePlanning, SequenceTheorems, FiniteSetTheorems, WellFoundedInduction, TLAPS

Done == Task \ remaining

PlanAccepted == phase \notin {"validate", "refused"} => Valid

OrderTyped ==
  /\ plan \in Plans
  /\ phase \in {"validate", "ready", "select", "compile", "done", "refused", "stuck"}
  /\ remaining \subseteq Task
  /\ candidates \subseteq remaining
  /\ selected \in Seq(Task) /\ Range(selected) \subseteq remaining
  /\ waves \in Seq(Seq(Task))

WaveFilling ==
  /\ phase # "select" => selected = <<>> /\ candidates = {}
  /\ phase = "select" => candidates # {} \/ selected # <<>>
  /\ \A t \in candidates : t \notin Range(selected)
  /\ \A t \in candidates \cup Range(selected) : plan.deps[t] \subseteq Done
  /\ \A i, j \in 1..Len(selected) : selected[i] = selected[j] => i = j

Compatible(s, t) == s # t => ~Clash(s, t)

SelectedIndependent == \A s, t \in Range(selected) : Compatible(s, t)

Waits == phase \in {"ready", "select", "validate"} => remaining # {}

OrderInv ==
  /\ OrderTyped /\ PlanAccepted /\ WaveFilling /\ Waits /\ phase # "stuck"
  /\ WavesOrdered

-----------------------------------------------------------------------------
\* The rules of the conflict graph cover what makes two tasks clash.
LEMMA ConflictCovers ==
  ASSUME NEW s \in Task, NEW t \in Task, ~Conflict(OrderScope(s), OrderScope(t))
  PROVE  ~Clash(s, t) /\ ~Clash(t, s)
BY DEF Conflict, OrderScope, Scope, Clash, Uses, Meets, Silent

LEMMA RangeOfAppend ==
  ASSUME NEW S, NEW s \in Seq(S), NEW e \in S
  PROVE  Range(Append(s, e)) = Range(s) \cup {e}
<1>1. Len(Append(s, e)) = Len(s) + 1 /\ Append(s, e)[Len(s) + 1] = e
      /\ \A i \in 1..Len(s) : Append(s, e)[i] = s[i]
  OBVIOUS
<1>2. DOMAIN s = 1..Len(s) /\ DOMAIN Append(s, e) = 1..(Len(s) + 1) /\ Len(s) \in Nat
  OBVIOUS
<1> QED BY <1>1, <1>2 DEF Range

\* Waves are only ever added to, by CloseWave.
LEMMA OthersKeepOrder ==
  ASSUME OpenRow \/ Probe \/ CloseRow \/ CompileWave
  PROVE  UNCHANGED <<plan, order>> /\ phase = "compile" /\ phase' \in {"compile", "done"}
BY DEF OpenRow, Probe, CloseRow, CompileWave, input, order

LEMMA AtAfterClose ==
  ASSUME OrderTyped, CloseWave, NEW t \in Task
  PROVE  At(t)' = IF t \in Range(selected) THEN At(t) \cup {Len(waves) + 1} ELSE At(t)
<1>1. /\ waves' = Append(waves, selected) /\ Len(waves') = Len(waves) + 1
      /\ waves'[Len(waves) + 1] = selected /\ Len(waves) \in Nat
      /\ \A w \in 1..Len(waves) : waves'[w] = waves[w]
  BY DEF CloseWave, OrderTyped
<1>2. At(t)' = {w \in 1..(Len(waves) + 1) : t \in Range(waves'[w])}
  BY <1>1 DEF At
<1>3. \A w \in 1..(Len(waves) + 1) : w \in 1..Len(waves) \/ w = Len(waves) + 1
  BY <1>1
<1>4. Len(waves) + 1 \notin 1..Len(waves)
  BY <1>1
<1> QED BY <1>1, <1>2, <1>3, <1>4 DEF At

-----------------------------------------------------------------------------
LEMMA OrderInit == Init => OrderInv
<1> SUFFICES ASSUME Init PROVE OrderInv
  OBVIOUS
<1>1. OrderTyped /\ PlanAccepted /\ WaveFilling /\ Waits /\ phase # "stuck"
  BY PlanningAssumption DEF Init, OrderTyped, PlanAccepted, WaveFilling, Waits, Range, Done
<1>2. WavesOrdered
  BY DEF Init, WavesOrdered, At
<1> QED BY <1>1, <1>2 DEF OrderInv

LEMMA OrderOfValidate == OrderInv /\ Validate => OrderInv'
<1> SUFFICES ASSUME OrderInv, Validate PROVE OrderInv'
  OBVIOUS
<1>1. UNCHANGED <<plan, remaining, candidates, selected, waves>> /\ phase = "validate"
      /\ phase' = IF Valid THEN "ready" ELSE "refused"
  BY DEF Validate, input, order
<1>2. WavesOrdered' BY <1>1 DEF OrderInv, WavesOrdered, At
<1>3. OrderTyped' /\ WaveFilling' /\ Waits' /\ phase' # "stuck"
  BY <1>1 DEF OrderInv, OrderTyped, WaveFilling, Waits, Done
<1>4. PlanAccepted'
  BY <1>1 DEF PlanAccepted, Valid, Acyclic
<1> QED BY <1>2, <1>3, <1>4 DEF OrderInv

\* Without cycles some waiting task has all its dependencies in earlier waves.
LEMMA SomeTaskIsReady ==
  ASSUME OrderInv, phase = "ready"
  PROVE  ReadyTasks # {}
<1> SUFFICES ASSUME ReadyTasks = {} PROVE FALSE
  OBVIOUS
<1>1. Valid /\ remaining \in SUBSET Task /\ remaining # {}
  BY DEF OrderInv, PlanAccepted, OrderTyped, Waits
<1>2. \A t \in remaining : Meets(plan.deps[t], remaining)
  BY <1>1 DEF ReadyTasks, Valid, Meets
<1> QED BY <1>1, <1>2 DEF Valid, Acyclic

LEMMA OrderOfCollect == OrderInv /\ CollectReady => OrderInv'
<1> SUFFICES ASSUME OrderInv, CollectReady PROVE OrderInv'
  OBVIOUS
<1>1. /\ UNCHANGED <<plan, remaining, waves>> /\ phase' = "select"
      /\ candidates' = ReadyTasks /\ selected' = <<>> /\ ReadyTasks # {}
      /\ phase = "ready" /\ remaining # {}
  BY SomeTaskIsReady DEF CollectReady, input
<1>2. WavesOrdered' BY <1>1 DEF OrderInv, WavesOrdered, At
<1>3. OrderTyped' /\ WaveFilling' /\ Waits' /\ phase' # "stuck"
  BY <1>1 DEF OrderInv, OrderTyped, WaveFilling, Waits, Done, ReadyTasks, Range
<1>4. PlanAccepted'
  BY <1>1 DEF OrderInv, PlanAccepted, Valid, Acyclic
<1> QED BY <1>2, <1>3, <1>4 DEF OrderInv

LEMMA OrderOfConsider == ASSUME NEW t \in Task, OrderInv, Consider(t) PROVE OrderInv'
<1>1. /\ UNCHANGED <<plan, remaining, waves, phase>> /\ phase = "select"
      /\ candidates' = candidates \ {t} /\ t \in candidates
  BY DEF Consider, input
<1>2. WavesOrdered' BY <1>1 DEF OrderInv, WavesOrdered, At
<1>3. PlanAccepted' /\ Waits' /\ phase' # "stuck"
  BY <1>1 DEF OrderInv, PlanAccepted, Valid, Acyclic, Waits
<1>4. CASE Against(t) = {} /\ selected' = Append(selected, t)
  <2>1. Range(selected') = Range(selected) \cup {t} /\ selected' \in Seq(Task)
    BY <1>4, RangeOfAppend DEF OrderInv, OrderTyped
  <2>2. OrderTyped'
    BY <1>1, <2>1 DEF OrderInv, OrderTyped
  <2>3. \A i, j \in 1..Len(selected') : selected'[i] = selected'[j] => i = j
    BY <1>1, <1>4 DEF OrderInv, WaveFilling, OrderTyped, Range
  <2>4. WaveFilling'
    BY <1>1, <1>4, <2>1, <2>3 DEF OrderInv, WaveFilling, OrderTyped, Done
  <2> QED BY <1>2, <1>3, <2>2, <2>4 DEF OrderInv
<1>5. CASE Against(t) # {} /\ selected' = selected
  <2>1. selected # <<>>
    BY <1>5 DEF Against
  <2>2. OrderTyped' /\ WaveFilling'
    BY <1>1, <1>5, <2>1 DEF OrderInv, OrderTyped, WaveFilling, Done
  <2> QED BY <1>2, <1>3, <2>2 DEF OrderInv
<1> QED BY <1>4, <1>5 DEF Consider

LEMMA OrderOfClose == OrderInv /\ CloseWave => OrderInv'
<1> SUFFICES ASSUME OrderInv, CloseWave PROVE OrderInv'
  OBVIOUS
<1>1. /\ UNCHANGED plan /\ phase = "select" /\ candidates = {} /\ candidates' = {}
      /\ selected' = <<>> /\ remaining' = remaining \ Range(selected)
      /\ waves' = Append(waves, selected)
      /\ phase' = IF remaining' = {} THEN "compile" ELSE "ready"
  BY DEF CloseWave, input
<1>2. OrderTyped' /\ PlanAccepted' /\ WaveFilling' /\ Waits' /\ phase' # "stuck"
  <2>1. Range(selected') = {} /\ Len(selected') = 0 /\ selected' \in Seq(Task)
    BY <1>1 DEF Range
  <2>2. waves' \in Seq(Seq(Task))
    BY <1>1 DEF OrderInv, OrderTyped
  <2>3. OrderTyped' /\ Waits' /\ phase' # "stuck"
    BY <1>1, <2>1, <2>2 DEF OrderInv, OrderTyped, Waits
  <2>4. WaveFilling'
    BY <1>1, <2>1 DEF WaveFilling
  <2>5. PlanAccepted'
    BY <1>1 DEF OrderInv, PlanAccepted, Valid, Acyclic
  <2> QED BY <2>3, <2>4, <2>5
<1>3. \A t \in Task : IF t \in remaining' THEN At(t)' = {} ELSE \E w \in At(t)' : At(t)' = {w}
  <2> SUFFICES ASSUME NEW t \in Task
               PROVE  IF t \in remaining' THEN At(t)' = {} ELSE \E w \in At(t)' : At(t)' = {w}
    OBVIOUS
  <2>1. CASE t \in Range(selected)
    <3>1. t \in remaining /\ t \notin remaining' /\ At(t) = {}
      BY <1>1, <2>1 DEF OrderInv, OrderTyped, WavesOrdered
    <3> QED BY <2>1, <3>1, AtAfterClose DEF OrderInv
  <2>2. CASE t \notin Range(selected)
    BY <1>1, <2>2, AtAfterClose DEF OrderInv, WavesOrdered
  <2> QED BY <2>1, <2>2
<1>4. \A t \in Task \ remaining' : \A d \in plan'.deps[t] :
        d \in Task \ remaining' /\ \A v \in At(d)', w \in At(t)' : v < w
  <2> SUFFICES ASSUME NEW t \in Task \ remaining', NEW d \in plan'.deps[t]
               PROVE  d \in Task \ remaining' /\ \A v \in At(d)', w \in At(t)' : v < w
    OBVIOUS
  <2>1. d \in Task \ remaining
    BY <1>1 DEF OrderInv, WaveFilling, WavesOrdered, Done
  <2>2. d \notin Range(selected) /\ At(d)' = At(d)
    BY <1>1, <2>1, AtAfterClose DEF OrderInv, OrderTyped
  <2>3. At(d) \subseteq 1..Len(waves) /\ Len(waves) \in Nat
    BY DEF At, OrderInv, OrderTyped
  <2>4. CASE t \in Range(selected)
    <3>1. At(t)' = {Len(waves) + 1}
      BY <2>4, AtAfterClose DEF OrderInv, OrderTyped, WavesOrdered
    <3> QED BY <1>1, <2>1, <2>2, <2>3, <3>1
  <2>5. CASE t \notin Range(selected)
    <3>1. At(t)' = At(t) /\ t \notin remaining
      BY <1>1, <2>5, AtAfterClose DEF OrderInv
    <3> QED BY <1>1, <2>1, <2>2, <3>1 DEF OrderInv, WavesOrdered
  <2> QED BY <2>4, <2>5
<1>5. \A w \in 1..Len(waves') : waves'[w] # <<>> /\ IsInjective(waves'[w])
  <2>1. selected # <<>> /\ IsInjective(selected)
    BY <1>1 DEF OrderInv, OrderTyped, WaveFilling, IsInjective
  <2> QED BY <1>1, <2>1 DEF OrderInv, OrderTyped, WavesOrdered
<1>6. WavesOrdered'
  BY <1>3, <1>4, <1>5 DEF WavesOrdered
<1> QED BY <1>2, <1>6 DEF OrderInv

LEMMA OrderOfOthers == ASSUME OrderInv, UNCHANGED <<plan, order>>,
                              \/ phase' = phase
                              \/ phase = "compile" /\ phase' \in {"compile", "done"}
                       PROVE  OrderInv'
<1>1. UNCHANGED <<plan, remaining, candidates, selected, waves>>
  BY DEF order
<1>2. WavesOrdered' BY <1>1 DEF OrderInv, WavesOrdered, At
<1> QED BY <1>1, <1>2
        DEF OrderInv, OrderTyped, PlanAccepted, Valid, Acyclic, WaveFilling, Waits, Done

LEMMA OrderStep == OrderInv /\ [Next]_vars => OrderInv'
<1> SUFFICES ASSUME OrderInv, [Next]_vars PROVE OrderInv'
  OBVIOUS
<1>1. CASE Validate BY <1>1, OrderOfValidate
<1>2. CASE CollectReady BY <1>2, OrderOfCollect
<1>3. CASE CloseWave BY <1>3, OrderOfClose
<1>4. CASE OpenRow \/ Probe \/ CloseRow \/ CompileWave
  BY <1>4, OthersKeepOrder, OrderOfOthers
<1>5. CASE \E t \in Task : Consider(t) BY <1>5, OrderOfConsider
<1>6. CASE UNCHANGED vars BY <1>6, OrderOfOthers DEF vars, input
<1> QED BY <1>1, <1>2, <1>3, <1>4, <1>5, <1>6 DEF Next

\* Every task is planned once, after its dependencies, for plans of any size.
THEOREM OrdersWaves == Spec => []WavesOrdered
<1>1. OrderInv => WavesOrdered BY DEF OrderInv
<1> QED BY <1>1, OrderInit, OrderStep, PTL DEF Spec

\* computeSafeWaves never throws "task graph cannot make progress" for a plan
\* that validatePlan accepts.
THEOREM NeverStuck == Spec => [](phase # "stuck")
<1>1. OrderInv => phase # "stuck" BY DEF OrderInv
<1> QED BY <1>1, OrderInit, OrderStep, PTL DEF Spec

-----------------------------------------------------------------------------
IndependenceInv == SelectedIndependent /\ WavesIndependent

LEMMA IndependenceInit == Init => IndependenceInv
BY DEF Init, IndependenceInv, SelectedIndependent, WavesIndependent, Range

LEMMA ClashIsOfThePlan ==
  ASSUME UNCHANGED plan, NEW s, NEW t
  PROVE  Clash(s, t)' <=> Clash(s, t)
BY DEF Clash, Silent, Of

LEMMA IndependenceOfOthers ==
  ASSUME IndependenceInv, UNCHANGED <<plan, waves>>, selected' = selected \/ selected' = <<>>
  PROVE  IndependenceInv'
<1>1. WavesIndependent'
  BY ClashIsOfThePlan DEF IndependenceInv, WavesIndependent
<1>2. \A s \in Range(selected') : s \in Range(selected)
  BY DEF Range
<1>3. SelectedIndependent'
  BY <1>2, ClashIsOfThePlan DEF IndependenceInv, SelectedIndependent, Compatible
<1> QED BY <1>1, <1>3 DEF IndependenceInv

LEMMA IndependenceOfConsider ==
  ASSUME NEW t \in Task, OrderInv, IndependenceInv, Consider(t)
  PROVE  IndependenceInv'
<1>1. UNCHANGED <<plan, waves>> /\ t \in candidates
  BY DEF Consider, input
<1>2. WavesIndependent'
  BY <1>1, ClashIsOfThePlan DEF IndependenceInv, WavesIndependent
<1>3. \A r, s \in Range(selected) : r # s => ~Clash(r, s)'
  BY <1>1, ClashIsOfThePlan DEF IndependenceInv, SelectedIndependent, Compatible
<1>4. CASE Against(t) = {} /\ selected' = Append(selected, t)
  <2>1. Range(selected') = Range(selected) \cup {t} /\ Range(selected) \subseteq Task
    BY <1>4, RangeOfAppend DEF OrderInv, OrderTyped
  <2>2. \A s \in Range(selected) : ~Conflict(OrderScope(t), OrderScope(s))
    <3>1. \A k \in 1..Len(selected) : ~Conflict(OrderScope(t), OrderScope(selected[k]))
      BY <1>4 DEF Against
    <3>2. DOMAIN selected = 1..Len(selected)
      BY DEF OrderInv, OrderTyped
    <3> QED BY <3>1, <3>2 DEF Range
  <2>3. \A s \in Range(selected) : ~Clash(t, s) /\ ~Clash(s, t)
    BY <2>1, <2>2, ConflictCovers
  <2>4. \A s \in Range(selected) : ~Clash(t, s)' /\ ~Clash(s, t)'
    BY <1>1, <2>3, ClashIsOfThePlan
  <2> QED BY <1>2, <1>3, <2>1, <2>4 DEF IndependenceInv, SelectedIndependent, Compatible
<1>5. CASE selected' = selected
  BY <1>2, <1>3, <1>5 DEF IndependenceInv, SelectedIndependent, Compatible
<1> QED BY <1>4, <1>5 DEF Consider

LEMMA IndependenceStep == OrderInv /\ IndependenceInv /\ [Next]_vars => IndependenceInv'
<1> SUFFICES ASSUME OrderInv, IndependenceInv, [Next]_vars PROVE IndependenceInv'
  OBVIOUS
<1>1. CASE Validate \/ CollectReady
  <2>1. UNCHANGED <<plan, waves>> /\ (selected' = selected \/ selected' = <<>>)
    BY <1>1 DEF Validate, CollectReady, input, order
  <2> QED BY <2>1, IndependenceOfOthers
<1>2. CASE CloseWave
  <2>1. UNCHANGED plan /\ waves' = Append(waves, selected) /\ selected' = <<>>
        /\ waves \in Seq(Seq(Task)) /\ selected \in Seq(Task)
    BY <1>2 DEF CloseWave, input, OrderInv, OrderTyped
  <2>2. \A w \in 1..Len(waves') :
         \/ w \in 1..Len(waves) /\ waves'[w] = waves[w]
         \/ waves'[w] = selected
    BY <2>1
  <2>3. \A s, t : Clash(s, t)' <=> Clash(s, t)
    BY <2>1, ClashIsOfThePlan
  <2>4. WavesIndependent'
    BY <2>2, <2>3 DEF IndependenceInv, SelectedIndependent, Compatible, WavesIndependent
  <2>5. SelectedIndependent'
    BY <2>1 DEF SelectedIndependent, Range
  <2> QED BY <2>4, <2>5 DEF IndependenceInv
<1>3. CASE (OpenRow \/ Probe \/ CloseRow \/ CompileWave) \/ UNCHANGED vars
  <2>1. UNCHANGED <<plan, waves, selected>>
    BY <1>3, OthersKeepOrder DEF vars, input, order
  <2> QED BY <2>1, IndependenceOfOthers
<1>4. CASE \E t \in Task : Consider(t) BY <1>4, IndependenceOfConsider
<1> QED BY <1>1, <1>2, <1>3, <1>4 DEF Next

\* No two tasks of a wave clash, whatever the plan declares and however many
\* tasks compete for the wave.
THEOREM WavesAreIndependent == Spec => []WavesIndependent
<1>1. IndependenceInv => WavesIndependent BY DEF IndependenceInv
<1> QED BY <1>1, OrderInit, OrderStep, IndependenceInit, IndependenceStep, PTL DEF Spec

-----------------------------------------------------------------------------
(* Sequences without repetition, and what FlattenSeq makes of them.        *)

Less == {p \in Nat \X Nat : p[1] < p[2]}

LEMMA LeastNumber ==
  ASSUME NEW S \in SUBSET Nat, S # {}
  PROVE  \E m \in S : \A k \in S : ~(k < m)
<1>1. IsWellFoundedOn(Less, Nat) BY NatLessThanWellFounded DEF OpToRel, Less
<1>2. PICK m \in S : \A k \in S : ~(<<k, m>> \in Less) BY <1>1, WFMin
<1>3. QED BY <1>2 DEF Less

\* What FlattenSeq computes, step by step.
Flattens(f, s, n) == f = [i \in 1..n |-> IF i = 1 THEN s[i] ELSE f[i - 1] \o s[i]]

LEMMA FlattenExists ==
  ASSUME NEW s, NEW n \in Nat
  PROVE  \E f : Flattens(f, s, n)
<1> DEFINE Bad == {m \in 0..n : ~ \E f : Flattens(f, s, m)}
<1> SUFFICES Bad = {}
  OBVIOUS
<1> SUFFICES ASSUME Bad # {} PROVE FALSE
  OBVIOUS
<1>0. Bad \in SUBSET Nat
  OBVIOUS
<1> HIDE DEF Bad
<1>1. PICK m \in Bad : \A k \in Bad : ~(k < m)
  BY <1>0, LeastNumber
<1> USE DEF Bad
<1>2. m \in Nat /\ m <= n /\ ~ \E f : Flattens(f, s, m)
  OBVIOUS
<1>3. m # 0
  <2>1. Flattens([i \in 1..0 |-> i], s, 0)
    BY DEF Flattens
  <2>2. QED BY <1>2, <2>1
<1>4. m - 1 \in 0..n /\ m - 1 \notin Bad
  BY <1>1, <1>2, <1>3
<1>5. PICK g : Flattens(g, s, m - 1)
  BY <1>4
<1> HIDE DEF Bad
<1> DEFINE h == [i \in 1..m |-> IF i < m THEN g[i]
                               ELSE IF i = 1 THEN s[i] ELSE g[i - 1] \o s[i]]
<1>6. \A i \in 1..m : i # m => i \in 1..(m - 1) /\ i < m
  BY <1>2, <1>3
<1>7. \A i \in 1..(m - 1) : g[i] = IF i = 1 THEN s[i] ELSE g[i - 1] \o s[i]
  BY <1>5 DEF Flattens
<1>8. \A i \in 1..m : i # 1 => h[i - 1] = g[i - 1]
  BY <1>2, <1>3
<1>9. ASSUME NEW i \in 1..m PROVE h[i] = IF i = 1 THEN s[i] ELSE h[i - 1] \o s[i]
  <2>1. CASE i = m
    <3>1. h[i] = IF i = 1 THEN s[i] ELSE g[i - 1] \o s[i] BY <1>2, <2>1
    <3>2. QED BY <1>8, <3>1
  <2>2. CASE i # m
    <3>1. h[i] = g[i] /\ i \in 1..(m - 1) BY <1>6, <2>2
    <3>2. QED BY <1>7, <1>8, <3>1
  <2>3. QED BY <2>1, <2>2
<1>10. h = [i \in 1..m |-> h[i]] OBVIOUS
<1> HIDE DEF h
<1>11. Flattens(h, s, m) BY <1>9, <1>10 DEF Flattens
<1>12. QED BY <1>2, <1>11

LEMMA FlattenIs ==
  ASSUME NEW s, Len(s) \in Nat, Len(s) # 0
  PROVE  \E f : Flattens(f, s, Len(s)) /\ FlattenSeq(s) = f[Len(s)]
<1> DEFINE f == CHOOSE f : Flattens(f, s, Len(s))
<1>1. Flattens(f, s, Len(s))
  BY FlattenExists
<1>2. FlattenSeq(s) = f[Len(s)]
  BY DEF FlattenSeq, Flattens
<1>3. QED BY <1>1, <1>2

LEMMA RangeIs == ASSUME NEW S, NEW s \in Seq(S)
  PROVE /\ Len(s) \in Nat
        /\ Range(s) = {s[i] : i \in 1..Len(s)}
        /\ Range(s) \subseteq S
        /\ (IsInjective(s) <=> \A i, j \in 1..Len(s) : s[i] = s[j] => i = j)
BY DEF Range, IsInjective

LEMMA ConcatOfApart ==
  ASSUME NEW S, NEW s \in Seq(S), NEW u \in Seq(S)
  PROVE  /\ s \o u \in Seq(S)
         /\ Range(s \o u) = Range(s) \cup Range(u)
         /\ IsInjective(s) /\ IsInjective(u) /\ Range(s) \cap Range(u) = {} => IsInjective(s \o u)
<1>1. /\ s \o u \in Seq(S)
      /\ Len(s) \in Nat /\ Len(u) \in Nat
      /\ Len(s \o u) = Len(s) + Len(u)
      /\ \A i \in 1..(Len(s) + Len(u)) : (s \o u)[i] = IF i <= Len(s) THEN s[i] ELSE u[i - Len(s)]
  BY ConcatProperties, LenProperties
<1>2. \A i \in 1..(Len(s) + Len(u)) :
        \/ i \in 1..Len(s) /\ (s \o u)[i] = s[i]
        \/ i - Len(s) \in 1..Len(u) /\ (s \o u)[i] = u[i - Len(s)] /\ i \notin 1..Len(s)
  BY <1>1
<1>3. \A i \in 1..Len(s) : i \in 1..(Len(s) + Len(u)) /\ (s \o u)[i] = s[i]
  BY <1>1
<1>4. \A i \in 1..Len(u) : Len(s) + i \in 1..(Len(s) + Len(u)) /\ (s \o u)[Len(s) + i] = u[i]
  BY <1>1
<1> DEFINE c == s \o u
<1>5. c \in Seq(S) /\ Len(c) = Len(s) + Len(u)
  BY <1>1
<1>6. \A i \in 1..Len(c) :
        \/ i \in 1..Len(s) /\ c[i] = s[i]
        \/ i - Len(s) \in 1..Len(u) /\ c[i] = u[i - Len(s)] /\ i \notin 1..Len(s)
  BY <1>1, <1>2
<1>7. (\A i \in 1..Len(s) : i \in 1..Len(c) /\ c[i] = s[i])
      /\ (\A i \in 1..Len(u) : Len(s) + i \in 1..Len(c) /\ c[Len(s) + i] = u[i])
  BY <1>1, <1>3, <1>4
<1> HIDE DEF c
<1>r. /\ Range(s) = {s[i] : i \in 1..Len(s)}
      /\ Range(u) = {u[i] : i \in 1..Len(u)}
      /\ Range(c) = {c[i] : i \in 1..Len(c)}
  BY <1>5, RangeIs
<1>8. Range(c) = Range(s) \cup Range(u)
  <2>1. ASSUME NEW e \in Range(c) PROVE e \in Range(s) \cup Range(u)
    <3>1. PICK i \in 1..Len(c) : e = c[i] BY <1>r
    <3>2. QED BY <1>6, <1>r, <3>1
  <2>2. ASSUME NEW e \in Range(s) PROVE e \in Range(c)
    <3>1. PICK i \in 1..Len(s) : e = s[i] BY <1>r
    <3>2. QED BY <1>7, <1>r, <3>1
  <2>3. ASSUME NEW e \in Range(u) PROVE e \in Range(c)
    <3>1. PICK i \in 1..Len(u) : e = u[i] BY <1>r
    <3>2. QED BY <1>7, <1>r, <3>1
  <2>4. QED BY <2>1, <2>2, <2>3
<1>9. ASSUME IsInjective(s), IsInjective(u), Range(s) \cap Range(u) = {}
      PROVE  IsInjective(c)
  <2>1. \A i, j \in 1..Len(s) : s[i] = s[j] => i = j BY <1>9, RangeIs
  <2>2. \A i, j \in 1..Len(u) : u[i] = u[j] => i = j BY <1>9, RangeIs
  <2>3. \A i \in 1..Len(s), j \in 1..Len(u) : s[i] # u[j]
    <3>1. \A i \in 1..Len(s), j \in 1..Len(u) : s[i] \in Range(s) /\ u[j] \in Range(u) BY <1>r
    <3>2. QED BY <1>9, <3>1
  <2>4. ASSUME NEW i \in 1..Len(c), NEW j \in 1..Len(c), c[i] = c[j] PROVE i = j
    <3>1. CASE i \in 1..Len(s) /\ c[i] = s[i] /\ j \in 1..Len(s) /\ c[j] = s[j]
      BY <2>1, <2>4, <3>1
    <3>2. CASE i - Len(s) \in 1..Len(u) /\ c[i] = u[i - Len(s)] /\ j - Len(s) \in 1..Len(u) /\ c[j] = u[j - Len(s)]
      <4>1. i - Len(s) = j - Len(s) BY <2>2, <2>4, <3>2
      <4>2. i \in Int /\ j \in Int /\ Len(s) \in Int BY <1>1, <1>5
      <4>3. QED BY <4>1, <4>2
    <3>3. CASE i \in 1..Len(s) /\ c[i] = s[i] /\ j - Len(s) \in 1..Len(u) /\ c[j] = u[j - Len(s)]
      BY <2>3, <2>4, <3>3
    <3>4. CASE j \in 1..Len(s) /\ c[j] = s[j] /\ i - Len(s) \in 1..Len(u) /\ c[i] = u[i - Len(s)]
      BY <2>3, <2>4, <3>4
    <3>5. QED BY <1>6, <3>1, <3>2, <3>3, <3>4
  <2>5. QED BY <1>5, <2>4, RangeIs
<1>10. QED BY <1>1, <1>8, <1>9 DEF c

\* A sequence of pairwise disjoint sequences without repetition flattens to one
\* without repetition, of the same elements.
LEMMA FlattenOfApart ==
  ASSUME NEW S, NEW s \in Seq(Seq(S)),
         \A r \in 1..Len(s) : IsInjective(s[r]),
         \A q, r \in 1..Len(s) : q # r => Range(s[q]) \cap Range(s[r]) = {}
  PROVE  /\ FlattenSeq(s) \in Seq(S)
         /\ IsInjective(FlattenSeq(s))
         /\ \A e : e \in Range(FlattenSeq(s)) <=> \E r \in 1..Len(s) : e \in Range(s[r])
<1>0. Len(s) \in Nat /\ \A r \in 1..Len(s) : s[r] \in Seq(S)
  OBVIOUS
<1>1. CASE Len(s) = 0
  <2>1. FlattenSeq(s) = s /\ s = << >> BY <1>1 DEF FlattenSeq
  <2>2. QED BY <1>1, <2>1 DEF IsInjective, Range
<1>2. CASE Len(s) # 0
  <2>1. PICK f : Flattens(f, s, Len(s)) /\ FlattenSeq(s) = f[Len(s)]
    BY <1>0, <1>2, FlattenIs
  <2>2. \A i \in 1..Len(s) : f[i] = IF i = 1 THEN s[i] ELSE f[i - 1] \o s[i]
    BY <2>1 DEF Flattens
  <2> DEFINE Good(n) == /\ f[n] \in Seq(S)
                        /\ IsInjective(f[n])
                        /\ \A e : e \in Range(f[n]) <=> \E r \in 1..n : e \in Range(s[r])
             Bad == {n \in 1..Len(s) : ~Good(n)}
  <2>3. Bad = {}
    <3> SUFFICES ASSUME Bad # {} PROVE FALSE
      OBVIOUS
    <3>1. Bad \in SUBSET Nat
      OBVIOUS
    <3> HIDE DEF Bad
    <3>2. PICK m \in Bad : \A k \in Bad : ~(k < m)
      BY <3>1, LeastNumber
    <3> USE DEF Bad
    <3>3. m \in 1..Len(s) /\ ~Good(m)
      OBVIOUS
    <3>4. m # 1
      <4>0. 1 \in 1..Len(s) BY <1>0, <1>2
      <4>1. f[1] = s[1] BY <2>2, <4>0
      <4>2. Good(1) BY <1>0, <4>1
      <4>3. QED BY <3>3, <4>2
    <3>5. m - 1 \in 1..Len(s) /\ m - 1 < m BY <1>0, <3>3, <3>4
    <3>6. Good(m - 1) BY <3>2, <3>5
    <3>7. f[m] = f[m - 1] \o s[m] BY <2>2, <3>3, <3>4
    <3>8. Range(f[m - 1]) \cap Range(s[m]) = {}
      <4>1. \A r \in 1..(m - 1) : r \in 1..Len(s) /\ r # m BY <1>0, <3>3
      <4>2. ASSUME NEW e \in Range(f[m - 1]), e \in Range(s[m]) PROVE FALSE
        <5>1. PICK r \in 1..(m - 1) : e \in Range(s[r]) BY <3>6
        <5>2. Range(s[r]) \cap Range(s[m]) = {} BY <3>3, <4>1
        <5>3. QED BY <4>2, <5>1, <5>2
      <4>3. QED BY <4>2
    <3>9. \A r \in 1..m : r \in 1..(m - 1) \/ r = m BY <1>0, <3>3
    <3>10. \A r \in 1..(m - 1) : r \in 1..m BY <1>0, <3>3
    <3>11. m \in 1..m BY <1>0, <3>3
    <3>12. f[m] \in Seq(S) /\ IsInjective(f[m]) /\ Range(f[m]) = Range(f[m - 1]) \cup Range(s[m])
      <4>1. /\ f[m - 1] \in Seq(S) /\ s[m] \in Seq(S)
            /\ IsInjective(f[m - 1]) /\ IsInjective(s[m])
        BY <1>0, <3>3, <3>6
      <4>2. /\ f[m - 1] \o s[m] \in Seq(S) /\ IsInjective(f[m - 1] \o s[m])
            /\ Range(f[m - 1] \o s[m]) = Range(f[m - 1]) \cup Range(s[m])
        BY <3>8, <4>1, ConcatOfApart
      <4>3. QED BY <3>7, <4>2
    <3>13. \A e : e \in Range(f[m]) <=> \E r \in 1..m : e \in Range(s[r])
      BY <3>6, <3>9, <3>10, <3>11, <3>12
    <3>14. QED BY <3>3, <3>12, <3>13
  <2>4. Len(s) \in 1..Len(s) BY <1>0, <1>2
  <2>5. Good(Len(s)) BY <2>3, <2>4
  <2>6. QED BY <2>1, <2>5
<1>3. QED BY <1>1, <1>2

LEMMA FrontAndTail ==
  ASSUME NEW S, NEW s \in Seq(S), s # << >>, IsInjective(s)
  PROVE  /\ Head(s) \in S /\ Tail(s) \in Seq(S) /\ IsInjective(Tail(s))
         /\ Range(s) = {Head(s)} \cup Range(Tail(s)) /\ Head(s) \notin Range(Tail(s))
         /\ Last(s) \in S /\ Front(s) \in Seq(S) /\ IsInjective(Front(s))
         /\ Range(s) = {Last(s)} \cup Range(Front(s)) /\ Last(s) \notin Range(Front(s))
<1> DEFINE n == Len(s)
           tail == Tail(s)
           front == Front(s)
<1>1. n \in Nat /\ n # 0 /\ \A i \in 1..n : s[i] \in S
  OBVIOUS
<1>2. /\ Head(s) = s[1] /\ tail \in Seq(S) /\ Len(tail) = n - 1
      /\ \A i \in 1..(n - 1) : tail[i] = s[i + 1]
  OBVIOUS
<1>3. /\ Last(s) = s[n] /\ front \in Seq(S) /\ Len(front) = n - 1
      /\ \A i \in 1..(n - 1) : front[i] = s[i]
  <2>1. /\ SubSeq(s, 1, n - 1) \in Seq(S) /\ Len(SubSeq(s, 1, n - 1)) = IF 1 <= n - 1 THEN (n - 1) - 1 + 1 ELSE 0
        /\ \A i \in 1..((n - 1) - 1 + 1) : SubSeq(s, 1, n - 1)[i] = s[1 + i - 1]
    <3>1. \A i \in 1..(n - 1) : s[i] \in S BY <1>1
    <3>2. 1 \in Int /\ n - 1 \in Int BY <1>1
    <3> HIDE DEF n
    <3>3. QED BY <3>1, <3>2, SubSeqProperties
  <2>2. Front(s) = SubSeq(s, 1, n - 1) /\ Last(s) = s[n]
    BY DEF Front, Last
  <2> HIDE DEF n
  <2>3. \A i \in 1..(n - 1) : i \in 1..((n - 1) - 1 + 1) /\ 1 + i - 1 = i
    BY <1>1
  <2>4. (IF 1 <= n - 1 THEN (n - 1) - 1 + 1 ELSE 0) = n - 1
    BY <1>1
  <2>5. QED BY <2>1, <2>2, <2>3, <2>4
<1>4. /\ Range(s) = {s[i] : i \in 1..n}
      /\ Range(tail) = {tail[i] : i \in 1..(n - 1)}
      /\ Range(front) = {front[i] : i \in 1..(n - 1)}
      /\ \A i, j \in 1..n : s[i] = s[j] => i = j
  <2>1. Range(s) = {s[i] : i \in 1..n} /\ \A i, j \in 1..n : s[i] = s[j] => i = j
    BY RangeIs
  <2> HIDE DEF tail, front
  <2>2. Range(tail) = {tail[i] : i \in 1..Len(tail)} BY <1>2, RangeIs
  <2>3. Range(front) = {front[i] : i \in 1..Len(front)} BY <1>3, RangeIs
  <2>4. QED BY <1>2, <1>3, <2>1, <2>2, <2>3
<1> HIDE DEF n, tail, front
<1>5. /\ \A i \in 1..(n - 1) : i \in 1..n /\ i + 1 \in 1..n /\ i # n /\ i + 1 # 1
      /\ \A i \in 1..n : (i = 1 \/ (i - 1 \in 1..(n - 1) /\ (i - 1) + 1 = i))
                      /\ (i = n \/ i \in 1..(n - 1))
      /\ 1 \in 1..n /\ n \in 1..n
  BY <1>1
<1>6. Range(s) = {s[1]} \cup Range(tail)
  <2>1. ASSUME NEW e \in Range(s) PROVE e = s[1] \/ e \in Range(tail)
    <3>1. PICK i \in 1..n : e = s[i] BY <1>4
    <3>2. CASE i = 1 BY <3>1, <3>2
    <3>3. CASE i - 1 \in 1..(n - 1) /\ (i - 1) + 1 = i
      <4>1. tail[i - 1] = s[i] BY <1>2, <3>3 DEF tail, n
      <4>2. QED BY <1>4, <3>1, <3>3, <4>1
    <3>4. QED BY <1>5, <3>2, <3>3
  <2>2. ASSUME NEW e \in Range(tail) PROVE e \in Range(s)
    <3>1. PICK i \in 1..(n - 1) : e = tail[i] BY <1>4
    <3>2. tail[i] = s[i + 1] BY <1>2 DEF tail, n
    <3>3. QED BY <1>4, <1>5, <3>1, <3>2
  <2>3. s[1] \in Range(s) BY <1>4, <1>5
  <2>4. QED BY <2>1, <2>2, <2>3
<1>7. s[1] \notin Range(tail)
  <2>1. ASSUME NEW i \in 1..(n - 1), s[1] = tail[i] PROVE FALSE
    <3>1. tail[i] = s[i + 1] BY <1>2 DEF tail, n
    <3>2. QED BY <1>4, <1>5, <2>1, <3>1
  <2>2. QED BY <1>4, <2>1
<1>8. Range(s) = {s[n]} \cup Range(front)
  <2>1. \A i \in 1..(n - 1) : front[i] = s[i] BY <1>3 DEF front, n
  <2>2. ASSUME NEW e \in Range(s) PROVE e = s[n] \/ e \in Range(front)
    <3>1. PICK i \in 1..n : e = s[i] BY <1>4
    <3>2. QED BY <1>4, <1>5, <2>1, <3>1
  <2>3. ASSUME NEW e \in Range(front) PROVE e \in Range(s)
    <3>1. PICK i \in 1..(n - 1) : e = front[i] BY <1>4
    <3>2. QED BY <1>4, <1>5, <2>1, <3>1
  <2>4. s[n] \in Range(s) BY <1>4, <1>5
  <2>5. QED BY <2>2, <2>3, <2>4
<1>9. s[n] \notin Range(front)
  <2>1. ASSUME NEW i \in 1..(n - 1), s[n] = front[i] PROVE FALSE
    <3>1. front[i] = s[i] BY <1>3 DEF front, n
    <3>2. QED BY <1>4, <1>5, <2>1, <3>1
  <2>2. QED BY <1>4, <2>1
<1>10. IsInjective(tail)
  <2>1. ASSUME NEW i \in 1..(n - 1), NEW j \in 1..(n - 1), tail[i] = tail[j] PROVE i = j
    <3>1. tail[i] = s[i + 1] /\ tail[j] = s[j + 1] BY <1>2 DEF tail, n
    <3>2. i + 1 = j + 1 BY <1>4, <1>5, <2>1, <3>1
    <3>3. QED BY <1>1, <3>2
  <2>2. QED BY <1>2, <2>1, RangeIs DEF tail, n
<1>11. IsInjective(front)
  <2>1. ASSUME NEW i \in 1..(n - 1), NEW j \in 1..(n - 1), front[i] = front[j] PROVE i = j
    <3>1. front[i] = s[i] /\ front[j] = s[j] BY <1>3 DEF front, n
    <3>2. QED BY <1>4, <1>5, <2>1, <3>1
  <2>2. QED BY <1>3, <2>1, RangeIs DEF front, n
<1>12. s[1] \in S /\ s[n] \in S BY <1>1, <1>5 DEF n
<1>13. Head(s) = s[1] /\ tail \in Seq(S) /\ Last(s) = s[n] /\ front \in Seq(S)
  BY <1>2, <1>3 DEF n, tail, front
<1>14. tail = Tail(s) /\ front = Front(s) BY DEF tail, front
<1>15. QED BY Zenon, <1>6, <1>7, <1>8, <1>9, <1>10, <1>11, <1>12, <1>13, <1>14

LEMMA Single ==
  ASSUME NEW S, NEW e \in S
  PROVE  << e >> \in Seq(S) /\ Len(<< e >>) = 1 /\ Range(<< e >>) = {e} /\ IsInjective(<< e >>)
BY DEF Range, IsInjective

\* A fresh element joins a row at its end, or the rest at its front.
LEMMA Appended ==
  ASSUME NEW S, NEW s \in Seq(S), NEW e \in S, IsInjective(s), e \notin Range(s)
  PROVE  /\ Append(s, e) \in Seq(S) /\ Range(Append(s, e)) = Range(s) \cup {e}
         /\ IsInjective(Append(s, e))
<1> DEFINE one == << e >>
<1>1. one \in Seq(S) /\ Range(one) = {e} /\ IsInjective(one)
  BY Single
<1>2. Append(s, e) = s \o one
  OBVIOUS
<1> HIDE DEF one
<1>3. /\ s \o one \in Seq(S) /\ Range(s \o one) = Range(s) \cup Range(one)
      /\ IsInjective(s \o one)
  BY <1>1, ConcatOfApart
<1>4. QED BY <1>1, <1>2, <1>3

LEMMA Prepended ==
  ASSUME NEW S, NEW s \in Seq(S), NEW e \in S, IsInjective(s), e \notin Range(s)
  PROVE  /\ << e >> \o s \in Seq(S) /\ Range(<< e >> \o s) = Range(s) \cup {e}
         /\ IsInjective(<< e >> \o s)
<1> DEFINE one == << e >>
<1>1. one \in Seq(S) /\ Range(one) = {e} /\ IsInjective(one)
  BY Single
<1> HIDE DEF one
<1>2. /\ one \o s \in Seq(S) /\ Range(one \o s) = Range(one) \cup Range(s)
      /\ IsInjective(one \o s)
  BY <1>1, ConcatOfApart
<1>3. QED BY <1>1, <1>2 DEF one

LEMMA AsManyAsItsElements ==
  ASSUME NEW S, NEW s \in Seq(S), IsInjective(s)
  PROVE  Cardinality(Range(s)) = Len(s)
<1>1. s \in Bijection(1..Len(s), Range(s))
  BY DEF Range, IsInjective, Bijection, Injection, Surjection, IsInjective
<1>2. ExistsBijection(1..Len(s), Range(s)) BY <1>1 DEF ExistsBijection
<1>3. QED BY <1>2, FS_CountingElements, LenProperties

-----------------------------------------------------------------------------
(* The rows of the wave that is being compiled: what is not yet in a row   *)
(* and the rows share no task and together are the wave, and a row of      *)
(* several was allowed.                                                    *)

CompiledWave == [tasks : Seq(Task), decision : Decision, concurrency : Nat,
                 rows : Seq(Seq(Task)), worktrees : BOOLEAN]

PackTyped ==
  /\ ctx \in Contexts
  /\ rest \in Seq(Task) /\ unseen \in Seq(Task) /\ row \in Seq(Task)
  /\ rows \in Seq(Seq(Task))
  /\ compiled \in Seq(CompiledWave)

NothingPacked ==
  /\ phase # "compile" => rest = <<>> /\ unseen = <<>> /\ row = <<>> /\ rows = <<>>
  /\ phase \notin {"compile", "done"} => compiled = <<>>
  /\ row = <<>> => unseen = <<>>

InRows(t) == \E r \in 1..Len(rows) : t \in Range(rows[r])

WaveIsPacked ==
  phase = "compile" =>
    /\ Len(compiled) < Len(waves)
    /\ \A t \in Task : t \in Range(waves[Len(compiled) + 1])
         <=> t \in Range(rest) \cup Range(unseen) \cup Range(row) \/ InRows(t)

PiecesApart ==
  /\ IsInjective(rest) /\ IsInjective(unseen) /\ IsInjective(row)
  /\ Range(rest) \cap Range(unseen) = {} /\ Range(rest) \cap Range(row) = {}
  /\ Range(unseen) \cap Range(row) = {}
  /\ \A r \in 1..Len(rows) :
       /\ IsInjective(rows[r])
       /\ \A t \in Range(rows[r]) : t \notin Range(rest) \cup Range(unseen) \cup Range(row)
       /\ \A s \in 1..Len(rows) : s # r => Range(rows[s]) \cap Range(rows[r]) = {}

Fits(r) == Len(r) > 1 => Allowed(Range(r))

RowsFit == Fits(row) /\ \A r \in 1..Len(rows) : Fits(rows[r])

Follows(c) ==
  /\ \A t \in Range(c.tasks) : \E r \in 1..Len(c.rows) :
       /\ t \in Range(c.rows[r])
       /\ \A s \in 1..Len(c.rows) : t \in Range(c.rows[s]) => s = r
  /\ \A r \in Range(c.rows) : Len(r) > 1 =>
       /\ c.decision = "PARALLEL" /\ IsInjective(r) /\ Len(r) <= ctx.width
       /\ \A t \in Range(r) : /\ ~Of(t).destructive /\ ~Of(t).external
                              /\ Of(t).prose \subseteq {"service"}
       /\ ctx.research => Writers(Range(r)) = {}

PackingInv ==
  /\ PackTyped /\ NothingPacked /\ WaveIsPacked /\ PiecesApart /\ RowsFit
  /\ \A c \in Range(compiled) : Follows(c)

LEMMA RowsAreFollowed == RowsFollowDecision <=> \A c \in Range(compiled) : Follows(c)
BY DEF RowsFollowDecision, Follows

LEMMA EmptyPiece == Range(<<>>) = {} /\ IsInjective(<<>>) /\ Len(<<>>) = 0
BY DEF Range, IsInjective

LEMMA PackingInit == Init => PackingInv
<1> SUFFICES ASSUME Init PROVE PackingInv
  OBVIOUS
<1>1. /\ rest = <<>> /\ unseen = <<>> /\ row = <<>> /\ rows = <<>> /\ compiled = <<>>
      /\ phase = "validate" /\ ctx \in Contexts
  BY DEF Init
<1>2. PackTyped /\ NothingPacked /\ WaveIsPacked
  BY <1>1 DEF PackTyped, NothingPacked, WaveIsPacked
<1>3. PiecesApart /\ RowsFit /\ \A c \in Range(compiled) : Follows(c)
  BY <1>1, EmptyPiece DEF PiecesApart, RowsFit, Fits
<1> QED BY <1>2, <1>3 DEF PackingInv

\* The rules and the plan stay what they are.
LEMMA RulesStay ==
  ASSUME UNCHANGED input
  PROVE  /\ \A tasks : Allowed(tasks)' <=> Allowed(tasks)
         /\ \A c : Follows(c)' <=> Follows(c)
<1>1. plan' = plan /\ ctx' = ctx
  BY DEF input
<1>2. \A tasks : Allowed(tasks)' <=> Allowed(tasks)
  <2>1. \A t : DelegationScope(t)' = DelegationScope(t)
    BY <1>1 DEF DelegationScope, Scope, Of
  <2>2. \A t : SerialOnly(t)' <=> SerialOnly(t)
    BY <2>1 DEF SerialOnly
  <2>3. \A s, t : Conflict(DelegationScope(s), DelegationScope(t))'
                   <=> Conflict(DelegationScope(s), DelegationScope(t))
    BY <2>1 DEF Conflict, Uses, Meets
  <2>4. QED BY <1>1, <2>2, <2>3 DEF Allowed
<1>3. \A c : Follows(c)' <=> Follows(c)
  BY <1>1 DEF Follows, Writers, Of
<1> QED BY <1>2, <1>3

LEMMA PackingOfOrdering ==
  ASSUME PackingInv, UNCHANGED <<input, packing, compiled>>,
         phase # "compile", phase' # "compile",
         phase' = "done" \/ phase # "done"
  PROVE  PackingInv'
<1>1. UNCHANGED <<plan, ctx, rest, unseen, row, rows, compiled>>
  BY DEF input, packing
<1>2. PackTyped' /\ NothingPacked' /\ WaveIsPacked' /\ PiecesApart'
  BY <1>1 DEF PackingInv, PackTyped, NothingPacked, WaveIsPacked, PiecesApart
<1>3. RowsFit' /\ \A c \in Range(compiled') : Follows(c)'
  BY <1>1, RulesStay DEF PackingInv, RowsFit, Fits
<1> QED BY <1>2, <1>3 DEF PackingInv

\* The rows are kept, whatever else moves.
LEMMA RowsStay ==
  ASSUME PackingInv, UNCHANGED <<input, order, rows, compiled>>,
         phase = "compile", phase' = "compile",
         PackTyped', NothingPacked',
         IsInjective(rest'), IsInjective(unseen'), IsInjective(row'),
         Range(rest') \cap Range(unseen') = {}, Range(rest') \cap Range(row') = {},
         Range(unseen') \cap Range(row') = {},
         Range(rest') \cup Range(unseen') \cup Range(row')
           = Range(rest) \cup Range(unseen) \cup Range(row),
         Fits(row')
  PROVE  PackingInv'
<1>1. UNCHANGED <<plan, ctx, waves, rows, compiled>>
  BY DEF input, order
<1>2. PiecesApart'
  BY <1>1 DEF PackingInv, PiecesApart
<1>3. WaveIsPacked'
  BY <1>1 DEF PackingInv, WaveIsPacked, InRows
<1>4. RowsFit'
  BY <1>1, RulesStay DEF PackingInv, RowsFit, Fits
<1>5. \A c \in Range(compiled') : Follows(c)'
  BY <1>1, RulesStay DEF PackingInv
<1> QED BY <1>2, <1>3, <1>4, <1>5 DEF PackingInv

LEMMA PackingOfOpen == PackingInv /\ OpenRow => PackingInv'
<1> SUFFICES ASSUME PackingInv, OpenRow PROVE PackingInv'
  OBVIOUS
<1>1. /\ UNCHANGED <<input, order, rows, compiled>> /\ phase = "compile" /\ phase' = "compile"
      /\ row = <<>> /\ unseen = <<>> /\ rest # <<>> /\ rest' = <<>>
      /\ rest \in Seq(Task) /\ IsInjective(rest)
  BY DEF OpenRow, PackingInv, NothingPacked, PackTyped, PiecesApart
<1> DEFINE one == << Head(rest) >>
           tail == Tail(rest)
<1>2. row' = one /\ unseen' = tail
  BY DEF OpenRow
<1>3. /\ one \in Seq(Task) /\ Len(one) = 1 /\ Range(one) = {Head(rest)} /\ IsInjective(one)
      /\ tail \in Seq(Task) /\ IsInjective(tail) /\ Head(rest) \notin Range(tail)
      /\ Range(rest) = {Head(rest)} \cup Range(tail)
  <2>1. Head(rest) \in Task BY <1>1, FrontAndTail
  <2> QED BY <1>1, <2>1, FrontAndTail, Single
<1> HIDE DEF one, tail
<1>4. PackTyped' /\ NothingPacked'
  <2>1. ctx' = ctx BY <1>1 DEF input
  <2>2. one # <<>> BY <1>3, EmptyPiece
  <2> QED BY <1>1, <1>2, <1>3, <2>1, <2>2, EmptySeq DEF PackingInv, PackTyped, NothingPacked
<1>5. Fits(row') BY <1>2, <1>3 DEF Fits
<1>6. Range(rest') = {} /\ Range(unseen) = {} /\ Range(row) = {} /\ IsInjective(rest')
  BY <1>1, EmptyPiece
<1>7. IsInjective(unseen') /\ IsInjective(row') /\ Range(unseen') \cap Range(row') = {}
      /\ Range(rest') \cup Range(unseen') \cup Range(row')
           = Range(rest) \cup Range(unseen) \cup Range(row)
  BY <1>2, <1>3, <1>6
<1> QED BY <1>1, <1>4, <1>5, <1>6, <1>7, RowsStay

LEMMA PackingOfProbe == PackingInv /\ Probe => PackingInv'
<1> SUFFICES ASSUME PackingInv, Probe PROVE PackingInv'
  OBVIOUS
<1>1. /\ UNCHANGED <<input, order, rows, compiled>> /\ phase = "compile" /\ phase' = "compile"
      /\ unseen # <<>> /\ row # <<>> /\ rest \in Seq(Task)
      /\ unseen \in Seq(Task) /\ row \in Seq(Task)
      /\ IsInjective(rest) /\ IsInjective(unseen) /\ IsInjective(row)
      /\ Range(rest) \cap Range(unseen) = {} /\ Range(rest) \cap Range(row) = {}
      /\ Range(unseen) \cap Range(row) = {} /\ Fits(row)
  BY DEF Probe, PackingInv, NothingPacked, PackTyped, PiecesApart, RowsFit
<1> DEFINE last == Last(unseen)
           front == Front(unseen)
           more == Append(row, last)
           back == << last >> \o rest
<1>2. /\ unseen' = front
      /\ \/ Allowed(Range(row) \cup {last}) /\ row' = more /\ rest' = rest
         \/ row' = row /\ rest' = back
  BY DEF Probe
<1>3. /\ last \in Task /\ front \in Seq(Task) /\ IsInjective(front)
      /\ Range(unseen) = {last} \cup Range(front) /\ last \notin Range(front)
  BY <1>1, FrontAndTail
<1> HIDE DEF last, front
<1>4. last \notin Range(row) /\ last \notin Range(rest)
  BY <1>1, <1>3
<1>5. /\ more \in Seq(Task) /\ Range(more) = Range(row) \cup {last} /\ IsInjective(more)
      /\ more # <<>>
  <2>1. more # <<>> BY <1>1, <1>3
  <2>2. row \in Seq(Task) /\ last \in Task /\ IsInjective(row) /\ last \notin Range(row)
    BY <1>1, <1>3, <1>4
  <2>3. /\ Append(row, last) \in Seq(Task) /\ IsInjective(Append(row, last))
        /\ Range(Append(row, last)) = Range(row) \cup {last}
    BY <2>2, Appended
  <2> QED BY Zenon, <2>1, <2>3
<1>6. back \in Seq(Task) /\ Range(back) = Range(rest) \cup {last} /\ IsInjective(back)
  <2>1. rest \in Seq(Task) /\ last \in Task /\ IsInjective(rest) /\ last \notin Range(rest)
    BY <1>1, <1>3, <1>4
  <2> QED BY Zenon, <2>1, Prepended
<1> HIDE DEF more, back
<1>7. ctx' = ctx BY <1>1 DEF input
<1>8. PackTyped' /\ NothingPacked'
  BY <1>1, <1>2, <1>3, <1>5, <1>6, <1>7 DEF PackingInv, PackTyped, NothingPacked
<1>9. Fits(row')
  BY <1>1, <1>2, <1>5 DEF Fits
<1>10. /\ IsInjective(rest') /\ IsInjective(unseen') /\ IsInjective(row')
       /\ Range(rest') \cap Range(unseen') = {} /\ Range(rest') \cap Range(row') = {}
       /\ Range(unseen') \cap Range(row') = {}
       /\ Range(rest') \cup Range(unseen') \cup Range(row')
            = Range(rest) \cup Range(unseen) \cup Range(row)
  BY <1>1, <1>2, <1>3, <1>4, <1>5, <1>6
<1> QED BY <1>1, <1>8, <1>9, <1>10, RowsStay

LEMMA PackingOfCloseRow == PackingInv /\ CloseRow => PackingInv'
<1> SUFFICES ASSUME PackingInv, CloseRow PROVE PackingInv'
  OBVIOUS
<1>1. /\ UNCHANGED <<plan, ctx, waves, rest, unseen, compiled>> /\ UNCHANGED input
      /\ phase = "compile" /\ phase' = "compile"
      /\ unseen = <<>> /\ row # <<>> /\ row' = <<>> /\ rows' = Append(rows, row)
      /\ row \in Seq(Task) /\ rows \in Seq(Seq(Task))
  BY DEF CloseRow, PackingInv, PackTyped, input, order
<1> DEFINE n == Len(rows)
           more == Append(rows, row)
<1>2. /\ n \in Nat /\ more \in Seq(Seq(Task)) /\ Len(more) = n + 1 /\ more[n + 1] = row
      /\ \A r \in 1..n : more[r] = rows[r]
  BY <1>1
<1> HIDE DEF n, more
<1>3. /\ rows' = more /\ Len(rows') = n + 1
      /\ \A r \in 1..(n + 1) : (r \in 1..n /\ r # n + 1 /\ rows'[r] = rows[r])
                               \/ (r = n + 1 /\ rows'[r] = row)
      /\ \A r \in 1..n : r \in 1..(n + 1) /\ rows'[r] = rows[r]
      /\ n + 1 \in 1..(n + 1)
  BY <1>1, <1>2 DEF more
<1>4. PackTyped' /\ NothingPacked'
  BY <1>1, <1>2, <1>3, EmptySeq DEF PackingInv, PackTyped, NothingPacked
<1>5. Range(unseen) = {} /\ Range(row') = {} /\ IsInjective(row') /\ Len(row') = 0
  BY <1>1, EmptyPiece
<1>6. ASSUME NEW t \in Task PROVE InRows(t)' <=> InRows(t) \/ t \in Range(row)
  BY <1>3 DEF InRows, n
<1>7. WaveIsPacked'
  BY <1>1, <1>5, <1>6 DEF PackingInv, WaveIsPacked
<1>8. PiecesApart'
  <2>1. /\ IsInjective(rest) /\ IsInjective(unseen) /\ IsInjective(row)
        /\ Range(rest) \cap Range(row) = {}
        /\ \A r \in 1..n :
             /\ IsInjective(rows[r])
             /\ \A t \in Range(rows[r]) : t \notin Range(rest) /\ t \notin Range(row)
             /\ \A s \in 1..n : s # r => Range(rows[s]) \cap Range(rows[r]) = {}
    BY DEF PackingInv, PiecesApart, n
  <2>2. ASSUME NEW r \in 1..(n + 1)
        PROVE  /\ IsInjective(rows'[r])
               /\ \A t \in Range(rows'[r]) : t \notin Range(rest)
               /\ \A s \in 1..(n + 1) : s # r => Range(rows'[s]) \cap Range(rows'[r]) = {}
    <3>1. CASE r \in 1..n /\ r # n + 1 /\ rows'[r] = rows[r]
      <4>1. ASSUME NEW s \in 1..(n + 1), s # r PROVE Range(rows'[s]) \cap Range(rows'[r]) = {}
        BY <1>3, <2>1, <3>1, <4>1
      <4> QED BY <2>1, <3>1, <4>1
    <3>2. CASE r = n + 1 /\ rows'[r] = row
      <4>1. ASSUME NEW s \in 1..(n + 1), s # r PROVE Range(rows'[s]) \cap Range(rows'[r]) = {}
        BY <1>3, <2>1, <3>2, <4>1
      <4> QED BY <2>1, <3>2, <4>1
    <3> QED BY <1>3, <3>1, <3>2
  <2>3. IsInjective(rest') /\ IsInjective(unseen') /\ rest' = rest /\ Range(unseen') = {}
    BY <1>1, <1>5, <2>1
  <2> QED BY <1>3, <1>5, <2>2, <2>3 DEF PiecesApart
<1>9. RowsFit'
  <2>1. Fits(row) /\ \A r \in 1..n : Fits(rows[r])
    BY DEF PackingInv, RowsFit, n
  <2>2. Fits(row') BY <1>5 DEF Fits
  <2>3. \A r \in 1..(n + 1) : Fits(rows'[r]) BY <1>3, <2>1
  <2> QED BY <1>1, <1>3, <2>2, <2>3, RulesStay DEF RowsFit, Fits
<1>10. \A c \in Range(compiled') : Follows(c)'
  BY <1>1, RulesStay DEF PackingInv
<1> QED BY <1>4, <1>7, <1>8, <1>9, <1>10 DEF PackingInv

LEMMA PackingOfCloseWave == OrderInv /\ PackingInv /\ CloseWave => PackingInv'
<1> SUFFICES ASSUME OrderInv, PackingInv, CloseWave PROVE PackingInv'
  OBVIOUS
<1>1. /\ UNCHANGED input /\ UNCHANGED <<ctx, unseen, row, rows, compiled>>
      /\ phase = "select" /\ waves' = Append(waves, selected) /\ waves \in Seq(Seq(Task))
      /\ selected \in Seq(Task)
      /\ \/ phase' = "compile" /\ rest' = waves'[1]
         \/ phase' = "ready" /\ rest' = <<>>
      /\ rest = <<>> /\ unseen = <<>> /\ row = <<>> /\ rows = <<>> /\ compiled = <<>>
  BY DEF CloseWave, input, OrderInv, OrderTyped, PackingInv, NothingPacked
<1>2. /\ Len(waves') \in Nat /\ Len(waves') > 0 /\ waves' \in Seq(Seq(Task))
      /\ waves'[1] \in Seq(Task)
  BY <1>1
<1>3. IsInjective(waves'[1])
  <2>1. WavesOrdered' BY OrderOfClose DEF OrderInv
  <2> QED BY <1>2, <2>1 DEF WavesOrdered
<1>4. PackTyped' /\ NothingPacked'
  BY <1>1, <1>2, EmptySeq DEF PackingInv, PackTyped, NothingPacked
<1>5. WaveIsPacked'
  <2>1. Len(compiled) = 0 /\ Len(rows) = 0 /\ Range(unseen) = {} /\ Range(row) = {}
    BY <1>1, EmptyPiece
  <2>2. \A t : ~InRows(t)' BY <1>1, <2>1 DEF InRows
  <2> QED BY <1>1, <1>2, <2>1, <2>2 DEF WaveIsPacked
<1>6. PiecesApart' /\ RowsFit'
  <2>1. Len(rows) = 0 /\ Range(unseen) = {} /\ Range(row) = {} /\ Len(row) = 0
        /\ IsInjective(unseen) /\ IsInjective(row)
    BY <1>1, EmptyPiece
  <2>2. IsInjective(rest') BY <1>1, <1>3, EmptyPiece
  <2> QED BY <1>1, <2>1, <2>2 DEF PiecesApart, RowsFit, Fits
<1>7. \A c \in Range(compiled') : Follows(c)'
  BY <1>1, RulesStay DEF PackingInv
<1> QED BY <1>4, <1>5, <1>6, <1>7 DEF PackingInv

-----------------------------------------------------------------------------
\* What decideParallelExecution and compileWave make of the finished rows.

LEMMA AllowedRow ==
  ASSUME plan \in Plans, ctx \in Contexts, NEW r \in Seq(Task), IsInjective(r),
         Fits(r), Len(r) > 1
  PROVE  /\ Len(r) <= ctx.width
         /\ \A t \in Range(r) : /\ ~Of(t).destructive /\ ~Of(t).external
                                /\ Of(t).prose \subseteq {"service"}
<1>1. Allowed(Range(r)) /\ Cardinality(Range(r)) = Len(r)
  BY AsManyAsItsElements DEF Fits
<1>2. ASSUME NEW t \in Range(r)
      PROVE  ~Of(t).destructive /\ ~Of(t).external /\ Of(t).prose \subseteq {"service"}
  <2>1. ~DelegationScope(t).destructive /\ ~DelegationScope(t).external
    BY <1>1 DEF Allowed, SerialOnly
  <2>2. /\ ~(Of(t).destructive \/ "destructive" \in Of(t).prose)
        /\ ~(Of(t).external \/ "external" \in Of(t).prose)
    BY <2>1 DEF DelegationScope, Scope
  <2>3. t \in Task BY RangeIs
  <2>4. Of(t).prose \subseteq Hint
    BY <2>3, PlanningAssumption DEF Of, Declaration
  <2> QED BY <2>2, <2>4 DEF Hint
<1> QED BY <1>1, <1>2 DEF Allowed

\* Kept as they are packed, the rows serve a wave that may overlap.
LEMMA ParallelFollows ==
  ASSUME OrderInv, PackingInv, NEW wave \in Seq(Task),
         \A t \in Task : t \in Range(wave) <=> InRows(t),
         ctx.research => Writers(Range(wave)) = {},
         NEW c \in CompiledWave,
         c.tasks = wave, c.decision = "PARALLEL", c.rows = rows
  PROVE  Follows(c)
<1>1. /\ plan \in Plans /\ ctx \in Contexts /\ rows \in Seq(Seq(Task))
      /\ \A r \in 1..Len(rows) : /\ IsInjective(rows[r]) /\ Fits(rows[r])
                                 /\ \A s \in 1..Len(rows) : s # r => Range(rows[s]) \cap Range(rows[r]) = {}
  BY DEF OrderInv, OrderTyped, PackingInv, PackTyped, PiecesApart, RowsFit
<1>2. \A r \in 1..Len(rows) : rows[r] \in Seq(Task)
  BY <1>1
<1>3. \A t \in Range(wave) : t \in Task
  BY RangeIs
<1>4. ASSUME NEW t \in Range(c.tasks)
      PROVE  \E r \in 1..Len(c.rows) :
               /\ t \in Range(c.rows[r])
               /\ \A s \in 1..Len(c.rows) : t \in Range(c.rows[s]) => s = r
  <2>1. PICK r \in 1..Len(rows) : t \in Range(rows[r])
    BY <1>3 DEF InRows
  <2>2. \A s \in 1..Len(rows) : t \in Range(rows[s]) => s = r
    BY <1>1, <2>1
  <2> QED BY <2>1, <2>2
<1>5. ASSUME NEW row0 \in Range(c.rows), Len(row0) > 1
      PROVE  /\ IsInjective(row0) /\ Len(row0) <= ctx.width
             /\ \A t \in Range(row0) : /\ ~Of(t).destructive /\ ~Of(t).external
                                       /\ Of(t).prose \subseteq {"service"}
             /\ ctx.research => Writers(Range(row0)) = {}
  <2>1. PICK r \in 1..Len(rows) : row0 = rows[r]
    BY <1>1, RangeIs
  <2>2. row0 \in Seq(Task) /\ IsInjective(row0) /\ Fits(row0)
    BY <1>1, <1>2, <2>1
  <2>3. \A t \in Range(row0) : t \in Range(wave)
    <3>1. \A t \in Range(row0) : t \in Task BY <2>2, RangeIs
    <3> QED BY <2>1, <3>1 DEF InRows
  <2>4. ctx.research => Writers(Range(row0)) = {}
    BY <2>3 DEF Writers
  <2> QED BY <1>1, <1>5, <2>2, <2>4, AllowedRow
<1> QED BY <1>4, <1>5 DEF Follows

\* Packed again one to a row, they serve every other wave.
LEMMA SerialFollows ==
  ASSUME OrderInv, PackingInv, NEW wave \in Seq(Task),
         \A t \in Task : t \in Range(wave) <=> InRows(t),
         NEW c, c.tasks = wave,
         c.rows = [k \in 1..Len(FlattenSeq(rows)) |-> << FlattenSeq(rows)[k] >>]
  PROVE  Follows(c) /\ c.rows \in Seq(Seq(Task))
<1> DEFINE tasks == FlattenSeq(rows)
           n == Len(tasks)
<1>1. /\ tasks \in Seq(Task) /\ IsInjective(tasks)
      /\ \A e : e \in Range(tasks) <=> \E r \in 1..Len(rows) : e \in Range(rows[r])
  BY FlattenOfApart DEF PackingInv, PackTyped, PiecesApart
<1>2. c.rows = [k \in 1..n |-> << tasks[k] >>]
  OBVIOUS
<1> HIDE DEF tasks
<1>3. /\ n \in Nat /\ \A k \in 1..n : tasks[k] \in Task
      /\ Range(tasks) = {tasks[k] : k \in 1..n}
      /\ \A j, k \in 1..n : tasks[j] = tasks[k] => j = k
  BY <1>1, RangeIs
<1> HIDE DEF n
<1>4. \A k \in 1..n : << tasks[k] >> \in Seq(Task)
  BY <1>3
<1>5. /\ c.rows \in Seq(Seq(Task)) /\ Len(c.rows) = n
      /\ \A k \in 1..n : c.rows[k] = << tasks[k] >>
  BY <1>2, <1>3, <1>4
<1>6. \A k \in 1..n : Len(c.rows[k]) = 1 /\ Range(c.rows[k]) = {tasks[k]}
  BY <1>3, <1>5, Single
<1>7. ASSUME NEW t \in Range(c.tasks)
      PROVE  \E r \in 1..Len(c.rows) :
               /\ t \in Range(c.rows[r])
               /\ \A s \in 1..Len(c.rows) : t \in Range(c.rows[s]) => s = r
  <2>1. t \in Task BY RangeIs
  <2>2. t \in Range(tasks) BY <1>1, <2>1 DEF InRows
  <2>3. PICK r \in 1..n : t = tasks[r] BY <1>3, <2>2
  <2>4. ASSUME NEW s \in 1..n, t \in Range(c.rows[s]) PROVE s = r
    <3>1. t \in {tasks[s]} BY Zenon, <1>6, <2>4
    <3>2. tasks[r] = tasks[s] BY <2>3, <3>1
    <3> QED BY <1>3, <3>2
  <2>5. t \in Range(c.rows[r])
    <3>1. Range(c.rows[r]) = {tasks[r]} BY Zenon, <1>6
    <3> QED BY Zenon, <2>3, <3>1
  <2>6. Len(c.rows) = n BY Zenon, <1>5
  <2> QED BY Zenon, <2>4, <2>5, <2>6
<1>8. ASSUME NEW r \in Range(c.rows), Len(r) > 1 PROVE FALSE
  <2> DEFINE packed == c.rows
  <2>a. packed \in Seq(Seq(Task)) /\ Len(packed) = n /\ r \in Range(packed)
    BY Zenon, <1>5, <1>8
  <2> HIDE DEF packed
  <2>b. Range(packed) = {packed[k] : k \in 1..n}
    BY <2>a, RangeIs
  <2>1. PICK k \in 1..n : r = c.rows[k]
    BY <2>a, <2>b DEF packed
  <2>2. Len(r) = 1 BY Zenon, <1>6, <2>1
  <2> QED BY <1>8, <2>2
<1> QED BY <1>5, <1>7, <1>8 DEF Follows

LEMMA DecisionIsKnown ==
  ASSUME NEW wave, NEW thrifty \in BOOLEAN
  PROVE  /\ Decided(wave, thrifty) \in Decision
         /\ Decided(wave, thrifty) = "PARALLEL"
              => ~(ctx.research /\ Writers(Range(wave)) # {})
<1>1. CASE Shape(Range(wave)) = "SMALL"
  <2>1. ~Overlaps(Range(wave), thrifty)
    BY <1>1 DEF Overlaps
  <2>2. Decided(wave, thrifty) = "PARENT_DIRECT"
    BY <1>1, <2>1 DEF Decided
  <2> QED BY <2>2 DEF Decision
<1>2. CASE Shape(Range(wave)) # "SMALL" /\ Overlaps(Range(wave), thrifty)
  <2>1. Decided(wave, thrifty) \in {"PARALLEL", "SERIAL"}
    BY <1>2 DEF Decided
  <2>2. ~(ctx.research /\ Writers(Range(wave)) # {})
    BY <1>2 DEF Overlaps
  <2> QED BY <2>1, <2>2 DEF Decision
<1>3. CASE Shape(Range(wave)) # "SMALL" /\ ~Overlaps(Range(wave), thrifty)
  <2>1. Decided(wave, thrifty) = "SERIAL"
    BY <1>3 DEF Decided
  <2> QED BY <2>1 DEF Decision
<1> QED BY <1>1, <1>2, <1>3

LEMMA CompiledWaveFollows ==
  ASSUME OrderInv, PackingInv, CompileWave
  PROVE  \E c \in CompiledWave : compiled' = Append(compiled, c) /\ Follows(c)
<1> DEFINE k == Len(compiled) + 1
           wave == waves[k]
<1>1. /\ phase = "compile" /\ rest = <<>> /\ row = <<>> /\ unseen = <<>>
      /\ Len(compiled) \in Nat /\ Len(compiled) < Len(waves) /\ waves \in Seq(Seq(Task))
      /\ rows \in Seq(Seq(Task))
  BY DEF CompileWave, PackingInv, PackTyped, NothingPacked, WaveIsPacked, OrderInv, OrderTyped
<1>2. wave \in Seq(Task)
  BY <1>1
<1>3. \A t \in Task : t \in Range(wave) <=> InRows(t)
  BY <1>1, EmptyPiece DEF PackingInv, WaveIsPacked
<1>4. PICK thrifty \in BOOLEAN, refused \in BOOLEAN :
        LET decision == IF refused THEN "SERIAL" ELSE Decided(waves[Len(compiled) + 1], thrifty)
        IN  compiled' = Append(compiled,
              [tasks |-> waves[Len(compiled) + 1], decision |-> decision,
               concurrency |-> Concurrency(decision), rows |-> Packed(decision),
               worktrees |-> /\ decision # "PARENT_DIRECT"
                             /\ Writers(Range(waves[Len(compiled) + 1])) # {}])
  BY DEF CompileWave
<1> HIDE DEF wave
<1>5. PICK decision \in Decision, worktrees \in BOOLEAN :
        /\ compiled' = Append(compiled, [tasks |-> wave, decision |-> decision,
               concurrency |-> Concurrency(decision), rows |-> Packed(decision),
               worktrees |-> worktrees])
        /\ decision = "PARALLEL" => ~(ctx.research /\ Writers(Range(wave)) # {})
  <2> DEFINE chosen == IF refused THEN "SERIAL" ELSE Decided(wave, thrifty)
             apart == chosen # "PARENT_DIRECT" /\ Writers(Range(wave)) # {}
  <2>1. compiled' = Append(compiled, [tasks |-> wave, decision |-> chosen,
               concurrency |-> Concurrency(chosen), rows |-> Packed(chosen),
               worktrees |-> apart])
    BY <1>4 DEF wave
  <2>2. /\ chosen \in Decision
        /\ chosen = "PARALLEL" => ~(ctx.research /\ Writers(Range(wave)) # {})
    BY DecisionIsKnown DEF Decision
  <2>3. apart \in BOOLEAN OBVIOUS
  <2> HIDE DEF chosen, apart
  <2> QED BY <2>1, <2>2, <2>3
<1>6. Concurrency(decision) = 1
  BY DEF Concurrency, EconomyConcurrency
<1> DEFINE c == [tasks |-> wave, decision |-> decision, concurrency |-> 1,
                 rows |-> Packed(decision), worktrees |-> worktrees]
<1>7. /\ compiled' = Append(compiled, c)
      /\ c.tasks = wave /\ c.decision = decision
      /\ c.rows = Packed(decision) /\ c.worktrees = worktrees
      /\ Packed(decision) \in Seq(Seq(Task)) => c \in CompiledWave
  BY <1>2, <1>5, <1>6 DEF CompiledWave
<1> HIDE DEF c, k
<1>8. CASE decision = "PARALLEL"
  <2>1. Packed(decision) = rows BY <1>8 DEF Packed
  <2>2. c \in CompiledWave BY <1>1, <1>7, <2>1
  <2>3. Follows(c)
    BY <1>2, <1>3, <1>5, <1>7, <1>8, <2>1, <2>2, ParallelFollows
  <2> QED BY <1>7, <2>2, <2>3
<1>9. CASE decision # "PARALLEL"
  <2>1. c.rows = [j \in 1..Len(FlattenSeq(rows)) |-> << FlattenSeq(rows)[j] >>]
    BY <1>7, <1>9 DEF Packed
  <2>2. Follows(c) /\ c.rows \in Seq(Seq(Task))
    BY <1>2, <1>3, <1>7, <2>1, SerialFollows
  <2> QED BY <1>7, <2>2
<1> QED BY <1>8, <1>9

LEMMA PackingOfCompile == OrderInv /\ PackingInv /\ CompileWave => PackingInv'
<1> SUFFICES ASSUME OrderInv, PackingInv, CompileWave PROVE PackingInv'
  OBVIOUS
<1>1. /\ UNCHANGED input /\ UNCHANGED <<ctx, waves, unseen, row>> /\ phase = "compile"
      /\ rest = <<>> /\ row = <<>> /\ unseen = <<>> /\ rows' = <<>>
      /\ compiled \in Seq(CompiledWave) /\ Len(compiled) < Len(waves)
      /\ waves \in Seq(Seq(Task))
      /\ \A w \in 1..Len(waves) : IsInjective(waves[w])
      /\ IF Len(compiled) + 1 = Len(waves) THEN phase' = "done" /\ rest' = rest
         ELSE phase' = "compile" /\ rest' = waves[Len(compiled) + 2]
  <2>1. (Len(compiled) + 1) + 1 = Len(compiled) + 2
    BY DEF PackingInv, PackTyped
  <2> QED BY <2>1 DEF CompileWave, PackingInv, PackTyped, NothingPacked, WaveIsPacked,
                      OrderInv, OrderTyped, WavesOrdered, input, order
<1>2. PICK c \in CompiledWave : compiled' = Append(compiled, c) /\ Follows(c)
  BY CompiledWaveFollows
<1>3. /\ compiled' \in Seq(CompiledWave) /\ Len(compiled') = Len(compiled) + 1
      /\ Range(compiled') = Range(compiled) \cup {c}
  BY <1>1, <1>2, RangeOfAppend
<1>4. \A d \in Range(compiled') : Follows(d)'
  BY <1>1, <1>2, <1>3, RulesStay DEF PackingInv
<1>5. /\ Range(<<>>) = {} /\ IsInjective(<<>>) /\ Len(<<>>) = 0
      /\ Len(compiled) \in Nat /\ Len(waves) \in Nat
  BY <1>1, EmptyPiece
<1>6. CASE Len(compiled) + 1 = Len(waves)
  <2>1. phase' = "done" /\ rest' = <<>> BY <1>1, <1>6
  <2>2. PackTyped' /\ NothingPacked' /\ WaveIsPacked'
    BY <1>1, <1>3, <2>1, EmptySeq DEF PackingInv, PackTyped, NothingPacked, WaveIsPacked
  <2>3. PiecesApart' /\ RowsFit'
    BY <1>1, <1>5, <2>1 DEF PiecesApart, RowsFit, Fits
  <2> QED BY <1>4, <2>2, <2>3 DEF PackingInv
<1>7. CASE Len(compiled) + 1 # Len(waves)
  <2>1. /\ phase' = "compile" /\ rest' = waves[Len(compiled) + 2]
        /\ Len(compiled) + 2 \in 1..Len(waves)
        /\ Len(compiled') + 1 = Len(compiled) + 2
    BY <1>1, <1>3, <1>5, <1>7
  <2>2. rest' \in Seq(Task) /\ IsInjective(rest')
    BY <1>1, <2>1
  <2>3. PackTyped' /\ NothingPacked'
    BY <1>1, <1>3, <2>1, <2>2, EmptySeq DEF PackingInv, PackTyped, NothingPacked
  <2>4. WaveIsPacked'
    <3>1. \A t : ~InRows(t)' BY <1>1, <1>5 DEF InRows
    <3>2. Len(compiled') < Len(waves') BY <1>1, <1>3, <1>5, <1>7
    <3>3. waves'[Len(compiled') + 1] = rest' BY <1>1, <2>1
    <3> QED BY <1>1, <1>5, <3>1, <3>2, <3>3 DEF WaveIsPacked
  <2>5. PiecesApart' /\ RowsFit'
    BY <1>1, <1>5, <2>2 DEF PiecesApart, RowsFit, Fits
  <2> QED BY <1>4, <2>3, <2>4, <2>5 DEF PackingInv
<1> QED BY <1>6, <1>7

LEMMA PackingStep == OrderInv /\ PackingInv /\ [Next]_vars => PackingInv'
<1> SUFFICES ASSUME OrderInv, PackingInv, [Next]_vars PROVE PackingInv'
  OBVIOUS
<1>1. CASE Validate \/ CollectReady
  <2>1. /\ UNCHANGED <<input, packing, compiled>> /\ phase # "compile" /\ phase # "done"
        /\ phase' # "compile"
    BY <1>1 DEF Validate, CollectReady
  <2> QED BY <2>1, PackingOfOrdering
<1>2. CASE \E t \in Task : Consider(t)
  <2>1. UNCHANGED <<input, packing, compiled>> /\ phase = "select" /\ phase' = "select"
    BY <1>2 DEF Consider
  <2> QED BY <2>1, PackingOfOrdering
<1>3. CASE CloseWave BY <1>3, PackingOfCloseWave
<1>4. CASE OpenRow BY <1>4, PackingOfOpen
<1>5. CASE Probe BY <1>5, PackingOfProbe
<1>6. CASE CloseRow BY <1>6, PackingOfCloseRow
<1>7. CASE CompileWave BY <1>7, PackingOfCompile
<1>8. CASE UNCHANGED vars
  <2>1. /\ UNCHANGED input
        /\ UNCHANGED <<plan, ctx, phase, waves, rest, unseen, row, rows, compiled>>
    BY <1>8 DEF vars, input, order, packing
  <2>2. PackTyped' /\ NothingPacked' /\ WaveIsPacked' /\ PiecesApart'
    BY <2>1 DEF PackingInv, PackTyped, NothingPacked, WaveIsPacked, PiecesApart, InRows
  <2>3. RowsFit' /\ \A c \in Range(compiled') : Follows(c)'
    BY <2>1, RulesStay DEF PackingInv, RowsFit, Fits
  <2> QED BY <2>2, <2>3 DEF PackingInv
<1> QED BY <1>1, <1>2, <1>3, <1>4, <1>5, <1>6, <1>7, <1>8 DEF Next

\* However many tasks a wave has and however they are packed, the compiled wave
\* has each of them in one row, and a row of several only after a decision to
\* run in parallel, within the width and without a task that must be alone.
THEOREM RowsAreAsDecided == Spec => []RowsFollowDecision
<1>1. PackingInv => RowsFollowDecision
  BY RowsAreFollowed DEF PackingInv
<1> QED BY <1>1, OrderInit, OrderStep, PackingInit, PackingStep, PTL DEF Spec

-----------------------------------------------------------------------------
PairsTyped == serialized \subseteq Task \X Task

LEMMA PairsStep == OrderInv /\ PairsTyped /\ [Next]_vars => PairsTyped'
<1> SUFFICES ASSUME OrderInv, PairsTyped, [Next]_vars PROVE PairsTyped'
  OBVIOUS
<1>1. CASE \E t \in Task : Consider(t)
  <2>1. PICK t \in Task : Consider(t)
    BY <1>1
  <2>2. CASE serialized' = serialized
    BY <2>2 DEF PairsTyped
  <2>3. CASE \E k \in Against(t) : serialized' = serialized \cup {<<t, selected[k]>>}
    <3>1. PICK k \in Against(t) : serialized' = serialized \cup {<<t, selected[k]>>}
      BY <2>3
    <3>2. selected[k] \in Task
      BY <3>1 DEF Against, OrderInv, OrderTyped
    <3> QED BY <3>1, <3>2 DEF PairsTyped
  <2> QED BY <2>1, <2>2, <2>3 DEF Consider
<1>2. CASE ~\E t \in Task : Consider(t)
  <2>1. serialized' = serialized
    BY <1>2 DEF Next, vars, order, Validate, CollectReady, CloseWave, OpenRow, Probe,
                CloseRow, CompileWave
  <2> QED BY <2>1 DEF PairsTyped
<1> QED BY <1>1, <1>2

\* Every variable of the planner keeps its type, for any plan and context.
THEOREM TypeCorrect == Spec => []TypeOK
<1>1. Init => PairsTyped BY DEF Init, PairsTyped
<1>2. OrderInv /\ PackingInv /\ PairsTyped => TypeOK
  <2> SUFFICES ASSUME OrderInv, PackingInv, PairsTyped PROVE TypeOK
    OBVIOUS
  <2>1. selected \in Seq(remaining)
    <3>1. /\ selected \in Seq(Task) /\ \A i \in 1..Len(selected) : selected[i] \in Range(selected)
          /\ Range(selected) \subseteq remaining
      BY RangeIs DEF OrderInv, OrderTyped
    <3> QED BY <3>1
  <2> QED BY <2>1 DEF OrderInv, OrderTyped, PackingInv, PackTyped, CompiledWave, PairsTyped, TypeOK
<1> QED BY <1>1, <1>2, OrderInit, OrderStep, PackingInit, PackingStep, PairsStep, PTL DEF Spec

=============================================================================
