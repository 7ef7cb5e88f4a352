-------------------------- MODULE WorkerPoolProofs --------------------------
(***************************************************************************)
(* What the pool of RPC workers keeps for any number of calls, keys,       *)
(* specifications, workers and processes.                                  *)
(*                                                                         *)
(* BaseInv relates the two threads of a run and the objects they share:    *)
(* a call that waits on a worker is in the queue of that worker, only the  *)
(* run at the head of a queue has begun, and a worker by whose name nobody *)
(* goes yet is blank.  HeldInv adds what the reservations count, CalmInv   *)
(* which worker or which stop answers for every process.  The steps of the *)
(* model come in three shapes, each with a lemma of its own: a run goes on *)
(* (GoesOn), a call leaves the line (Leaves) and a pool's thread moves or  *)
(* joins a worker's queue (Moves, Joins).                                  *)
(***************************************************************************)
EXTENDS WorkerPool, SequenceTheorems, FiniteSetTheorems, WellFoundedInduction, TLAPS

-----------------------------------------------------------------------------
(* Sequences without repetition: the pool and the queues.                  *)

LEMMA SeqFacts ==
  ASSUME NEW S, NEW s \in Seq(S)
  PROVE  /\ Len(s) \in Nat /\ DOMAIN s = 1..Len(s)
         /\ ToSet(s) = {s[i] : i \in 1..Len(s)}
         /\ ToSet(s) \subseteq S
         /\ IsInjective(s) <=> \A i, j \in 1..Len(s) : s[i] = s[j] => i = j
BY DEF ToSet, IsInjective

LEMMA EmptyQueue == ToSet(<< >>) = {} /\ IsInjective(<< >>) /\ Len(<< >>) = 0
BY DEF ToSet, IsInjective

LEMMA Appended ==
  ASSUME NEW S, NEW s \in Seq(S), NEW e \in S, IsInjective(s), e \notin ToSet(s)
  PROVE  /\ Append(s, e) \in Seq(S) /\ ToSet(Append(s, e)) = ToSet(s) \cup {e}
         /\ IsInjective(Append(s, e))
         /\ Append(s, e) # << >> /\ Len(Append(s, e)) = Len(s) + 1
         /\ Head(Append(s, e)) = IF s = << >> THEN e ELSE Head(s)
<1> DEFINE n == Len(s)
           t == Append(s, e)
<1>1. /\ t \in Seq(S) /\ Len(t) = n + 1 /\ t[n + 1] = e /\ n \in Nat
      /\ \A i \in 1..n : t[i] = s[i]
  OBVIOUS
<1>2. t # << >> /\ Head(t) = t[1]
  BY <1>1
<1>3. s # << >> => Head(s) = s[1] /\ n > 0
  OBVIOUS
<1>4. s = << >> => n = 0
  OBVIOUS
<1>5. /\ ToSet(s) = {s[i] : i \in 1..n}
      /\ \A i, j \in 1..n : s[i] = s[j] => i = j
  BY SeqFacts
<1> HIDE DEF t, n
<1>6. ToSet(t) = {t[i] : i \in 1..(n + 1)}
  BY <1>1, SeqFacts
<1>7. \A i \in 1..(n + 1) : (i \in 1..n /\ t[i] = s[i]) \/ (i = n + 1 /\ t[i] = e)
  BY <1>1
<1>8. \A i \in 1..n : i \in 1..(n + 1) /\ t[i] = s[i]
  BY <1>1
<1>9. ToSet(t) = ToSet(s) \cup {e}
  <2>1. \A x \in ToSet(t) : x \in ToSet(s) \cup {e} BY <1>5, <1>6, <1>7
  <2>2. \A x \in ToSet(s) : x \in ToSet(t) BY <1>5, <1>6, <1>8
  <2>3. e \in ToSet(t) BY <1>1, <1>6
  <2> QED BY <2>1, <2>2, <2>3
<1>10. \A i \in 1..n : s[i] # e
  BY <1>5
<1>11. IsInjective(t)
  <2>1. ASSUME NEW i \in 1..(n + 1), NEW j \in 1..(n + 1), t[i] = t[j] PROVE i = j
    BY <1>5, <1>7, <1>10, <2>1
  <2> QED BY <1>1, <2>1, SeqFacts
<1>12. Head(t) = IF s = << >> THEN e ELSE Head(s)
  <2>1. CASE s = << >>
    BY <1>1, <1>2, <1>4, <2>1
  <2>2. CASE s # << >>
    <3>1. 1 \in 1..n BY <1>1, <1>3, <2>2
    <3> QED BY <1>2, <1>3, <1>8, <2>2, <3>1
  <2> QED BY <2>1, <2>2
<1> QED BY <1>1, <1>2, <1>9, <1>11, <1>12 DEF t, n

\* What is left when the element at one place is taken out.
LEMMA RemovedAt ==
  ASSUME NEW S, NEW s \in Seq(S), IsInjective(s), NEW k \in 1..Len(s)
  PROVE  /\ RemoveAt(s, k) \in Seq(S) /\ ToSet(RemoveAt(s, k)) = ToSet(s) \ {s[k]}
         /\ IsInjective(RemoveAt(s, k)) /\ Len(RemoveAt(s, k)) = Len(s) - 1
         /\ k = 1 => RemoveAt(s, k) = Tail(s)
         /\ k # 1 => RemoveAt(s, k)[1] = s[1]
<1> DEFINE n == Len(s)
           a == SubSeq(s, 1, k - 1)
           b == SubSeq(s, k + 1, n)
           t == RemoveAt(s, k)
<1>1. n \in Nat /\ k \in 1..n /\ s # << >> /\ \A i \in 1..n : s[i] \in S
  OBVIOUS
<1>2. t = a \o b
  BY DEF RemoveAt
<1>3. /\ a \in Seq(S) /\ Len(a) = k - 1 /\ \A i \in 1..(k - 1) : a[i] = s[i]
  <2>1. \A i \in 1..(k - 1) : s[i] \in S BY <1>1
  <2> HIDE DEF n
  <2>2. /\ SubSeq(s, 1, k - 1) \in Seq(S)
        /\ Len(SubSeq(s, 1, k - 1)) = IF 1 <= k - 1 THEN (k - 1) - 1 + 1 ELSE 0
        /\ \A i \in 1..((k - 1) - 1 + 1) : SubSeq(s, 1, k - 1)[i] = s[1 + i - 1]
    <3>1. 1 \in Int /\ k - 1 \in Int BY <1>1
    <3> QED BY <2>1, <3>1, SubSeqProperties
  <2>3. (IF 1 <= k - 1 THEN (k - 1) - 1 + 1 ELSE 0) = k - 1 BY <1>1
  <2>4. \A i \in 1..(k - 1) : i \in 1..((k - 1) - 1 + 1) /\ 1 + i - 1 = i BY <1>1
  <2> QED BY <2>2, <2>3, <2>4
<1>4. /\ b \in Seq(S) /\ Len(b) = n - k /\ \A i \in 1..(n - k) : b[i] = s[k + i]
  <2>1. \A i \in (k + 1)..n : s[i] \in S BY <1>1
  <2> HIDE DEF n
  <2>2. /\ SubSeq(s, k + 1, n) \in Seq(S)
        /\ Len(SubSeq(s, k + 1, n)) = IF k + 1 <= n THEN n - (k + 1) + 1 ELSE 0
        /\ \A i \in 1..(n - (k + 1) + 1) : SubSeq(s, k + 1, n)[i] = s[(k + 1) + i - 1]
    <3>1. k + 1 \in Int /\ n \in Int BY <1>1
    <3> QED BY <2>1, <3>1, SubSeqProperties
  <2>3. (IF k + 1 <= n THEN n - (k + 1) + 1 ELSE 0) = n - k BY <1>1
  <2>4. \A i \in 1..(n - k) : i \in 1..(n - (k + 1) + 1) /\ (k + 1) + i - 1 = k + i BY <1>1
  <2> QED BY <2>2, <2>3, <2>4
<1>5. k = 1 => t = Tail(s)
  <2> SUFFICES ASSUME k = 1 PROVE t = Tail(s)
    OBVIOUS
  <2>1. a = << >> BY <1>3
  <2>2. b = Tail(s)
    <3>1. Tail(s) = SubSeq(s, 2, n) BY <1>1, TailIsSubSeq
    <3> QED BY <3>1
  <2> HIDE DEF a, b
  <2>3. t = b BY <1>2, <1>4, <2>1, ConcatEmptySeq
  <2> QED BY <2>2, <2>3
<1> HIDE DEF a, b, t
<1>6. /\ t \in Seq(S) /\ Len(t) = n - 1
      /\ \A i \in 1..(n - 1) : t[i] = IF i < k THEN s[i] ELSE s[i + 1]
  <2>1. /\ a \o b \in Seq(S) /\ Len(a \o b) = Len(a) + Len(b)
        /\ \A i \in 1..(Len(a) + Len(b)) : (a \o b)[i] = IF i <= Len(a) THEN a[i] ELSE b[i - Len(a)]
    BY <1>3, <1>4, ConcatProperties
  <2> HIDE DEF n
  <2>2. Len(a) + Len(b) = n - 1 BY <1>1, <1>3, <1>4
  <2>3. ASSUME NEW i \in 1..(n - 1) PROVE t[i] = IF i < k THEN s[i] ELSE s[i + 1]
    <3>1. t[i] = IF i <= k - 1 THEN a[i] ELSE b[i - (k - 1)]
      BY <1>2, <1>3, <2>1, <2>2
    <3>2. CASE i < k
      <4>1. i \in 1..(k - 1) /\ i <= k - 1 BY <1>1, <3>2
      <4> QED BY <1>3, <3>1, <3>2, <4>1
    <3>3. CASE ~(i < k)
      <4>1. i - (k - 1) \in 1..(n - k) /\ ~(i <= k - 1) /\ k + (i - (k - 1)) = i + 1
        BY <1>1, <3>3
      <4> QED BY <1>4, <3>1, <3>3, <4>1
    <3> QED BY <3>2, <3>3
  <2> QED BY <1>2, <2>1, <2>2, <2>3
<1>7. /\ ToSet(s) = {s[i] : i \in 1..n}
      /\ \A i, j \in 1..n : s[i] = s[j] => i = j
  BY SeqFacts
<1> HIDE DEF n
<1>8. ToSet(t) = {t[i] : i \in 1..(n - 1)}
  BY <1>6, SeqFacts
<1>9. \A i \in 1..(n - 1) :
        \/ i < k /\ i \in 1..n /\ i # k /\ t[i] = s[i]
        \/ ~(i < k) /\ i + 1 \in 1..n /\ i + 1 # k /\ t[i] = s[i + 1]
  BY <1>1, <1>6
<1>10. \A i \in 1..n : \/ i < k /\ i \in 1..(n - 1)
                       \/ i = k
                       \/ i > k /\ i - 1 \in 1..(n - 1) /\ ~(i - 1 < k) /\ (i - 1) + 1 = i
  BY <1>1
<1>11. ToSet(t) = ToSet(s) \ {s[k]}
  <2>1. ASSUME NEW x \in ToSet(t) PROVE x \in ToSet(s) \ {s[k]}
    <3>1. PICK i \in 1..(n - 1) : x = t[i] BY <1>8
    <3> QED BY <1>1, <1>7, <1>9, <3>1
  <2>2. ASSUME NEW x \in ToSet(s) \ {s[k]} PROVE x \in ToSet(t)
    <3>1. PICK i \in 1..n : x = s[i] BY <1>7
    <3>2. CASE i < k /\ i \in 1..(n - 1)
      <4>1. t[i] = s[i] BY <1>6, <3>2
      <4> QED BY <1>8, <3>1, <3>2, <4>1
    <3>3. CASE i > k /\ i - 1 \in 1..(n - 1) /\ ~(i - 1 < k) /\ (i - 1) + 1 = i
      <4>1. t[i - 1] = s[i] BY <1>6, <3>3
      <4> QED BY <1>8, <3>1, <3>3, <4>1
    <3> QED BY <1>10, <2>2, <3>1, <3>2, <3>3
  <2> QED BY <2>1, <2>2
<1>12. IsInjective(t)
  <2>1. ASSUME NEW i \in 1..(n - 1), NEW j \in 1..(n - 1), t[i] = t[j] PROVE i = j
    <3>0. i \in Int /\ j \in Int /\ k \in Int BY <1>1
    <3>1. CASE i < k /\ j < k
      BY <1>7, <1>9, <2>1, <3>1
    <3>2. CASE ~(i < k) /\ ~(j < k)
      <4>1. i + 1 = j + 1 BY <1>7, <1>9, <2>1, <3>2
      <4> QED BY <3>0, <4>1
    <3>3. CASE i < k /\ ~(j < k)
      <4>1. i = j + 1 BY <1>7, <1>9, <2>1, <3>3
      <4> QED BY <3>0, <3>3, <4>1
    <3>4. CASE ~(i < k) /\ j < k
      <4>1. i + 1 = j BY <1>7, <1>9, <2>1, <3>4
      <4> QED BY <3>0, <3>4, <4>1
    <3> QED BY <3>1, <3>2, <3>3, <3>4
  <2> QED BY <1>6, <2>1, SeqFacts
<1>13. k # 1 => t[1] = s[1]
  BY <1>1, <1>6
<1> QED BY <1>5, <1>6, <1>11, <1>12, <1>13 DEF t, n

LEMMA TailFacts ==
  ASSUME NEW S, NEW s \in Seq(S), IsInjective(s), s # << >>
  PROVE  /\ Head(s) \in ToSet(s) /\ Tail(s) \in Seq(S) /\ IsInjective(Tail(s))
         /\ ToSet(Tail(s)) = ToSet(s) \ {Head(s)}
<1>1. 1 \in 1..Len(s) /\ Head(s) = s[1]
  OBVIOUS
<1>2. RemoveAt(s, 1) = Tail(s) /\ RemoveAt(s, 1) \in Seq(S) /\ IsInjective(RemoveAt(s, 1))
      /\ ToSet(RemoveAt(s, 1)) = ToSet(s) \ {s[1]}
  BY <1>1, RemovedAt
<1>3. s[1] \in ToSet(s)
  BY <1>1, SeqFacts
<1> QED BY <1>1, <1>2, <1>3

LEMMA LeastPlace ==
  ASSUME NEW n \in Nat, NEW P \in SUBSET (1..n), NEW k \in P, P = {k}
  PROVE  Min(P) = k
BY DEF Min

LEMMA RemovedFirst ==
  ASSUME NEW S, NEW s \in Seq(S), IsInjective(s), NEW e
  PROVE  /\ Without(s, e) \in Seq(S) /\ ToSet(Without(s, e)) = ToSet(s) \ {e}
         /\ IsInjective(Without(s, e)) /\ Len(Without(s, e)) <= Len(s)
         /\ e \notin ToSet(s) => Without(s, e) = s
         /\ s # << >> /\ e = Head(s) => Without(s, e) = Tail(s)
         /\ e \in ToSet(s) => \E k \in 1..Len(s) : s[k] = e /\ Without(s, e) = RemoveAt(s, k)
<1>0. /\ Len(s) \in Nat /\ ToSet(s) = {s[i] : i \in 1..Len(s)}
      /\ \A i, j \in 1..Len(s) : s[i] = s[j] => i = j
  BY SeqFacts
<1>1. CASE e \notin ToSet(s)
  <2>1. ~ \E i \in 1..Len(s) : s[i] = e BY <1>0, <1>1
  <2>2. Without(s, e) = s BY <2>1 DEF Without, RemoveFirst
  <2>3. s # << >> => Head(s) \in ToSet(s) BY TailFacts
  <2> QED BY <1>0, <1>1, <2>2, <2>3
<1>2. CASE e \in ToSet(s)
  <2>1. PICK k \in 1..Len(s) : s[k] = e BY <1>0, <1>2
  <2> DEFINE places == {i \in 1..Len(s) : s[i] = e}
  <2>2. places = {k} BY <1>0, <2>1
  <2>3. Min(places) = k
    <3>1. places \in SUBSET (1..Len(s)) OBVIOUS
    <3> HIDE DEF places
    <3> QED BY <1>0, <2>2, <3>1, LeastPlace
  <2>4. SelectInSeq(s, LAMBDA v : v = e) = IF places # {} THEN Min(places) ELSE 0
    BY DEF SelectInSeq
  <2>5. SelectInSeq(s, LAMBDA v : v = e) = k
    BY <2>2, <2>3, <2>4
  <2>6. Without(s, e) = RemoveAt(s, k)
    BY <2>1, <2>5 DEF Without, RemoveFirst
  <2>7. /\ RemoveAt(s, k) \in Seq(S) /\ ToSet(RemoveAt(s, k)) = ToSet(s) \ {s[k]}
        /\ IsInjective(RemoveAt(s, k)) /\ Len(RemoveAt(s, k)) = Len(s) - 1
        /\ k = 1 => RemoveAt(s, k) = Tail(s)
    BY RemovedAt
  <2>8. s # << >> /\ e = Head(s) => k = 1
    <3> SUFFICES ASSUME s # << >>, e = Head(s) PROVE k = 1
      OBVIOUS
    <3>1. 1 \in 1..Len(s) /\ Head(s) = s[1] OBVIOUS
    <3> QED BY <1>0, <2>1, <3>1
  <2>9. Len(s) - 1 <= Len(s) BY <1>0
  <2> QED BY <1>2, <2>1, <2>6, <2>7, <2>8, <2>9
<1> QED BY <1>1, <1>2

\* Taking out another element than the first leaves the first where it is.
LEMMA HeadStays ==
  ASSUME NEW S, NEW s \in Seq(S), IsInjective(s), NEW e, s # << >>, e # Head(s)
  PROVE  Without(s, e) # << >> /\ Head(Without(s, e)) = Head(s)
<1>0. /\ Len(s) \in Nat /\ ToSet(s) = {s[i] : i \in 1..Len(s)}
      /\ 1 \in 1..Len(s) /\ Head(s) = s[1]
  BY SeqFacts
<1>1. CASE e \notin ToSet(s)
  BY <1>1, RemovedFirst
<1>2. CASE e \in ToSet(s)
  <2>1. PICK k \in 1..Len(s) : s[k] = e /\ Without(s, e) = RemoveAt(s, k)
    BY <1>2, RemovedFirst
  <2>2. k # 1 BY <1>0, <2>1
  <2>3. RemoveAt(s, k) \in Seq(S) /\ Len(RemoveAt(s, k)) = Len(s) - 1 /\ RemoveAt(s, k)[1] = s[1]
    BY <2>2, RemovedAt
  <2>4. Len(s) - 1 >= 1 BY <1>0, <2>2
  <2> QED BY <1>0, <2>1, <2>3, <2>4
<1> QED BY <1>1, <1>2

PoolKeys ==
  /\ IsInjective(pool)
  /\ \A w \in ToSet(pool) : req[w] # None
  /\ \A v, w \in ToSet(pool) : KeyOf(v) = KeyOf(w) => v = w

\* Map.delete(key): at most the one worker of that key goes.
LEMMA Forgotten ==
  ASSUME pool \in Seq(Call), PoolKeys, NEW k
  PROVE  /\ Forgetting(k) \in Seq(Call)
         /\ ToSet(Forgetting(k)) = {w \in ToSet(pool) : KeyOf(w) # k}
         /\ IsInjective(Forgetting(k)) /\ Len(Forgetting(k)) <= Len(pool)
<1>0. /\ Len(pool) \in Nat /\ ToSet(pool) = {pool[i] : i \in 1..Len(pool)}
      /\ \A i, j \in 1..Len(pool) : pool[i] = pool[j] => i = j
      /\ \A v, w \in ToSet(pool) : KeyOf(v) = KeyOf(w) => v = w
      /\ IsInjective(pool)
  BY SeqFacts DEF PoolKeys
<1> DEFINE places == {i \in 1..Len(pool) : KeyOf(pool[i]) = k}
<1>1. CASE places = {}
  <2>1. ~ \E i \in 1..Len(pool) : KeyOf(pool[i]) = k BY <1>1
  <2>2. Forgetting(k) = pool BY <2>1 DEF Forgetting, RemoveFirstMatch
  <2>3. \A w \in ToSet(pool) : KeyOf(w) # k BY <1>0, <2>1
  <2> QED BY <1>0, <2>2, <2>3
<1>2. CASE places # {}
  <2>1. PICK p \in 1..Len(pool) : KeyOf(pool[p]) = k BY <1>2
  <2>2. places = {p} BY <1>0, <2>1
  <2>3. Min(places) = p
    <3>1. places \in SUBSET (1..Len(pool)) OBVIOUS
    <3> HIDE DEF places
    <3> QED BY <1>0, <2>2, <3>1, LeastPlace
  <2>4. SelectInSeq(pool, LAMBDA w : KeyOf(w) = k) = IF places # {} THEN Min(places) ELSE 0
    BY DEF SelectInSeq
  <2>5. SelectInSeq(pool, LAMBDA w : KeyOf(w) = k) = p
    BY <2>2, <2>3, <2>4
  <2>6. Forgetting(k) = RemoveAt(pool, p)
    BY <2>1, <2>5 DEF Forgetting, RemoveFirstMatch
  <2>7. /\ RemoveAt(pool, p) \in Seq(Call) /\ ToSet(RemoveAt(pool, p)) = ToSet(pool) \ {pool[p]}
        /\ IsInjective(RemoveAt(pool, p)) /\ Len(RemoveAt(pool, p)) = Len(pool) - 1
    BY <1>0, RemovedAt
  <2>8. Len(pool) - 1 <= Len(pool) BY <1>0
  <2>9. \A w \in ToSet(pool) : w # pool[p] <=> KeyOf(w) # k
    BY <1>0, <2>1
  <2> QED BY <2>6, <2>7, <2>8, <2>9
<1> QED BY <1>1, <1>2

\* Map.set(key): a new worker comes in the place of the one of that key, if any.
LEMMA Published ==
  ASSUME pool \in Seq(Call), PoolKeys, NEW k, NEW c \in Call, c \notin ToSet(pool)
  PROVE  /\ Publish(pool, k, c) \in Seq(Call)
         /\ ToSet(Publish(pool, k, c)) = {w \in ToSet(pool) : KeyOf(w) # k} \cup {c}
         /\ IsInjective(Publish(pool, k, c))
<1>0. /\ Len(pool) \in Nat /\ ToSet(pool) = {pool[i] : i \in 1..Len(pool)}
      /\ \A i, j \in 1..Len(pool) : pool[i] = pool[j] => i = j
      /\ \A v, w \in ToSet(pool) : KeyOf(v) = KeyOf(w) => v = w
      /\ IsInjective(pool) /\ DOMAIN pool = 1..Len(pool)
      /\ \A i \in 1..Len(pool) : pool[i] \in Call
  BY SeqFacts DEF PoolKeys
<1>1. CASE Tracked(k) = {}
  <2>1. Publish(pool, k, c) = Append(pool, c) BY <1>1 DEF Publish
  <2>2. \A w \in ToSet(pool) : KeyOf(w) # k BY <1>1 DEF Tracked
  <2>3. /\ Append(pool, c) \in Seq(Call) /\ ToSet(Append(pool, c)) = ToSet(pool) \cup {c}
        /\ IsInjective(Append(pool, c))
    BY <1>0, Appended
  <2>4. {w \in ToSet(pool) : KeyOf(w) # k} = ToSet(pool)
    BY <2>2
  <2> QED BY Zenon, <2>1, <2>3, <2>4
<1>2. CASE Tracked(k) # {}
  <2>1. PICK p \in 1..Len(pool) : KeyOf(pool[p]) = k BY <1>0, <1>2 DEF Tracked
  <2>2. \A i \in 1..Len(pool) : KeyOf(pool[i]) = k <=> i = p BY <1>0, <2>1
  <2> DEFINE t == [i \in 1..Len(pool) |-> IF KeyOf(pool[i]) = k THEN c ELSE pool[i]]
  <2>3. Publish(pool, k, c) = t
    <3>1. DOMAIN pool = 1..Len(pool) BY <1>0
    <3>2. Publish(pool, k, c) = [i \in DOMAIN pool |-> IF KeyOf(pool[i]) = k THEN c ELSE pool[i]]
      BY <1>2 DEF Publish
    <3> QED BY Zenon, <3>1, <3>2
  <2>4. t \in Seq(Call) /\ Len(t) = Len(pool) BY <1>0
  <2>5. \A i \in 1..Len(pool) : t[i] = IF i = p THEN c ELSE pool[i] BY <2>2
  <2> HIDE DEF t
  <2>6. ToSet(t) = {t[i] : i \in 1..Len(pool)} BY <2>4, SeqFacts
  <2>7. ASSUME NEW x \in ToSet(t) PROVE x = c \/ (x \in ToSet(pool) /\ KeyOf(x) # k)
    <3>1. PICK i \in 1..Len(pool) : x = t[i] BY <2>6
    <3> QED BY <1>0, <2>2, <2>5, <3>1
  <2>8. c \in ToSet(t) BY <2>5, <2>6
  <2>9. ASSUME NEW x \in ToSet(pool), KeyOf(x) # k PROVE x \in ToSet(t)
    <3>1. PICK i \in 1..Len(pool) : x = pool[i] BY <1>0
    <3>2. t[i] = x BY <2>2, <2>5, <2>9, <3>1
    <3> QED BY <2>6, <3>2
  <2>10. IsInjective(t)
    <3>1. \A i \in 1..Len(pool) : pool[i] # c BY <1>0
    <3>2. \A i, j \in 1..Len(pool) : t[i] = t[j] => i = j BY <1>0, <2>5, <3>1
    <3> QED BY <2>4, <3>2, SeqFacts
  <2> QED BY <2>3, <2>4, <2>7, <2>8, <2>9, <2>10
<1> QED BY <1>1, <1>2

LEMMA Touched ==
  ASSUME pool \in Seq(Call), IsInjective(pool), NEW w \in ToSet(pool)
  PROVE  Touch(w) \in Seq(Call) /\ ToSet(Touch(w)) = ToSet(pool) /\ IsInjective(Touch(w))
<1> DEFINE t == Without(pool, w)
<1>1. t \in Seq(Call) /\ ToSet(t) = ToSet(pool) \ {w} /\ IsInjective(t)
  BY RemovedFirst
<1>2. w \in Call BY SeqFacts
<1> HIDE DEF t
<1>3. /\ Append(t, w) \in Seq(Call) /\ ToSet(Append(t, w)) = ToSet(t) \cup {w}
      /\ IsInjective(Append(t, w))
  <2>1. w \notin ToSet(t) BY <1>1
  <2> QED BY <1>1, <1>2, <2>1, Appended
<1>4. Touch(w) = Append(t, w) BY DEF Touch, t
<1>5. ToSet(t) \cup {w} = ToSet(pool) BY <1>1
<1> QED BY Zenon, <1>3, <1>4, <1>5

-----------------------------------------------------------------------------
(* What every run of the pool keeps, however the calls overlap: types, who *)
(* owns which worker, what the reservations count, and the queues.         *)

WorkerRecord == [proc : 0..MaxProcs, dead : BOOLEAN, ran : BOOLEAN,
                 queue : Seq(Call), talk : 0..2]
StopRecord == [w : Call, proc : 1..MaxProcs, by : Call, why : Why, killed : BOOLEAN]

CallsTyped ==
  /\ req \in [Call -> Request \cup {None}]
  /\ pc \in [Call -> Pc]
  /\ mine \in [Call -> Call \cup {None}]
  /\ pool \in Seq(Call)
  /\ reserved \in [Key -> Nat]

WorkersTyped ==
  /\ mode \in [overlap : BOOLEAN, faults : Nat, mixed : BOOLEAN]
  /\ exec \in [Call -> Exec]
  /\ worker \in [Call -> WorkerRecord]
  /\ live \subseteq Call \X (1..MaxProcs)
  /\ stops \subseteq StopRecord

\* Where a run waits on its worker.
Line == {"queued", "starting", "restarting", "clearing", "reprompting", "running", "stopping"}

\* A worker that is not there.
Blank(w) ==
  /\ worker[w] = [proc |-> 0, dead |-> FALSE, ran |-> FALSE, queue |-> << >>, talk |-> 0]
  /\ w \notin ToSet(pool)
  /\ \A d \in Call : mine[d] # w
  /\ \A s \in stops : s.w # w
  /\ \A p \in live : p[1] # w

Using == {"run", "resume", "prewarm"}

Asked ==
  \A c \in Call :
    /\ pc[c] = "idle" <=> req[c] = None
    /\ pc[c] \in {"prune", "await", "warm", "replace", "failed", "pruneAll", "finish"} =>
         req[c].kind \in Using
    /\ pc[c] = "await" => req[c].kind # "prewarm"
    /\ pc[c] = "await" \/ (pc[c] = "prune" /\ req[c].kind # "prewarm") => mine[c] # None
    /\ pc[c] = "warm" => req[c].kind = "prewarm" /\ mine[c] = c

\* A call uses a worker of its key, and one that it did not create only while the
\* worker of its own name is not there.
Owned ==
  \A c \in Call :
    /\ mine[c] # None =>
         /\ pc[c] \in {"prune", "await", "warm", "failed", "pruneAll", "finish"}
         /\ req[mine[c]] # None /\ KeyOf(mine[c]) = KeyOf(c)
    /\ mine[c] # None /\ mine[c] # c => Blank(c)
    /\ pc[c] \in {"idle", "replace"} => Blank(c)
    /\ mine[c] = None => exec[c] = "none"

\* A run in the line is in the queue of its worker; a prewarm waits for the start.
Lined ==
  \A c \in Call :
    exec[c] \in Line =>
      \/ /\ req[c].kind \in {"run", "resume"} /\ pc[c] \in {"prune", "await"}
         /\ mine[c] # None /\ c \in ToSet(worker[mine[c]].queue)
      \/ exec[c] = "starting" /\ pc[c] = "warm"

\* Only the run at the head has begun.
Queues ==
  \A w \in Call :
    /\ IsInjective(worker[w].queue)
    /\ \A d \in ToSet(worker[w].queue) :
         /\ mine[d] = w /\ exec[d] \in Line
         /\ req[d].kind \in {"run", "resume"} /\ pc[d] \in {"prune", "await"}
         /\ d # Head(worker[w].queue) => exec[d] = "queued"

\* A worker that has not run a prompt has no conversation; a run whose process has been
\* replaced has none yet, and one that does not resume has its own only.
Fresh ==
  /\ \A w \in Call : ~worker[w].ran => worker[w].talk = 0
  /\ \A c \in Call :
       /\ exec[c] = "reprompting" => worker[mine[c]].talk = 0
       /\ exec[c] = "running" /\ req[c].kind = "run" => worker[mine[c]].talk = 1

BaseInv == CallsTyped /\ WorkersTyped /\ PoolKeys /\ Asked /\ Owned /\ Lined /\ Queues /\ Fresh

LEMMA Constants == None \notin Call /\ IsFiniteSet(Call) /\ MaxWorkers \in Nat \ {0}
                   /\ MaxProcs \in Nat \ {0}
<1>1. Calls \in Nat BY PoolAssumption
<1>2. IsFiniteSet(1..Calls) BY <1>1, FS_Interval
<1> QED BY <1>2, PoolAssumption DEF Call

\* A worker that a call uses, that is in the pool or that is being stopped is there.
LEMMA InUseIsThere ==
  ASSUME BaseInv, NEW w
  PROVE  /\ w \in ToSet(pool) => ~Blank(w)
         /\ \A c \in Call : mine[c] = w => ~Blank(w)
         /\ \A s \in stops : s.w = w => ~Blank(w)
         /\ \A p \in live : p[1] = w => ~Blank(w)
BY DEF Blank

\* A run in the line has a worker.
LEMMA InLine ==
  ASSUME BaseInv, NEW c \in Call, exec[c] \in Line
  PROVE  /\ mine[c] \in Call /\ ~Blank(mine[c]) /\ req[c].kind \in Using
         /\ pc[c] \in {"prune", "await", "warm"}
         /\ req[c].kind = "prewarm" => /\ exec[c] = "starting" /\ pc[c] = "warm" /\ mine[c] = c
                                       /\ \A w \in Call : c \notin ToSet(worker[w].queue)
         /\ req[c].kind # "prewarm" =>
              /\ c \in ToSet(worker[mine[c]].queue)
              /\ worker[mine[c]].queue # << >>
              /\ exec[c] # "queued" => c = Head(worker[mine[c]].queue)
<1>1. mine[c] # None /\ mine[c] \in Call
  <2>1. mine[c] # None BY DEF BaseInv, Lined, Asked, Owned
  <2> QED BY <2>1 DEF BaseInv, CallsTyped
<1>2. ~Blank(mine[c]) BY <1>1, InUseIsThere
<1>3. CASE exec[c] = "starting" /\ pc[c] = "warm"
  <2>1. req[c].kind = "prewarm" /\ mine[c] = c BY <1>3 DEF BaseInv, Asked
  <2>2. \A w \in Call : c \notin ToSet(worker[w].queue) BY <1>3 DEF BaseInv, Queues
  <2> QED BY <1>1, <1>2, <1>3, <2>1, <2>2 DEF Using
<1>4. CASE /\ req[c].kind \in {"run", "resume"} /\ pc[c] \in {"prune", "await"}
           /\ mine[c] # None /\ c \in ToSet(worker[mine[c]].queue)
  <2>1. worker[mine[c]].queue # << >> BY <1>4, EmptyQueue
  <2>2. exec[c] # "queued" => c = Head(worker[mine[c]].queue) BY <1>1, <1>4 DEF BaseInv, Queues
  <2> QED BY <1>1, <1>2, <1>4, <2>1, <2>2 DEF Using
<1> QED BY <1>3, <1>4 DEF BaseInv, Lined

\* Two runs of one worker have not both begun.
LEMMA OneBegun ==
  ASSUME BaseInv, NEW c \in Call, NEW d \in Call, mine[c] = mine[d],
         exec[c] \in Line \ {"queued"}, exec[d] \in Line \ {"queued"},
         req[c].kind # "prewarm", req[d].kind # "prewarm"
  PROVE  c = d
BY InLine

-----------------------------------------------------------------------------
\* What a new process changes.

Spawned(w, W) ==
  /\ worker' \in [Call -> WorkerRecord]
  /\ \A u \in Call : u # w => worker'[u] = worker[u]
  /\ worker'[w].queue = W.queue /\ worker'[w].ran = W.ran
  /\ worker'[w].dead = FALSE /\ worker'[w].talk = 0
  /\ worker'[w].proc \in 1..MaxProcs
  /\ live' = live \cup {<<w, worker'[w].proc>>}
  /\ <<w, worker'[w].proc>> \notin live
  /\ \A s \in stops : s.w = w => s.proc # worker'[w].proc

LEMMA SpawnFacts ==
  ASSUME WorkersTyped, NEW w \in Call, NEW W \in WorkerRecord, Spawn(w, W)
  PROVE  Spawned(w, W)
<1>1. PICK n \in Unused(w) :
        /\ worker' = [worker EXCEPT ![w] = [W EXCEPT !.proc = n, !.dead = FALSE, !.talk = 0]]
        /\ live' = live \cup {<<w, n>>}
  BY Zenon DEF Spawn
<1> DEFINE A == [W EXCEPT !.proc = n]
           B == [A EXCEPT !.dead = FALSE]
           R == [B EXCEPT !.talk = 0]
<1>2. /\ n \in 1..MaxProcs /\ <<w, n>> \notin live
      /\ \A s \in stops : s.w = w => s.proc # n
  BY DEF Unused
<1>3. n \in 0..MaxProcs BY <1>2, Constants
<1>4. worker' = [worker EXCEPT ![w] = R] BY Zenon, <1>1
<1>5. /\ A \in WorkerRecord /\ A.proc = n
      /\ A.ran = W.ran /\ A.queue = W.queue
  BY <1>3 DEF WorkerRecord
<1> HIDE DEF A
<1>6. /\ B \in WorkerRecord /\ B.proc = n /\ B.dead = FALSE
      /\ B.ran = W.ran /\ B.queue = W.queue
  BY <1>5 DEF WorkerRecord
<1> HIDE DEF B
<1>7. /\ R \in WorkerRecord /\ R.proc = n /\ R.dead = FALSE /\ R.talk = 0
      /\ R.ran = W.ran /\ R.queue = W.queue
  <2>1. 0 \in 0..2 OBVIOUS
  <2> QED BY <1>6, <2>1 DEF WorkerRecord
<1> HIDE DEF R
<1>8. /\ worker' \in [Call -> WorkerRecord] /\ worker'[w] = R
      /\ \A u \in Call : u # w => worker'[u] = worker[u]
  BY <1>4, <1>7 DEF WorkersTyped
<1>9. worker'[w].proc = n BY <1>7, <1>8
<1> QED BY Zenon, <1>1, <1>2, <1>7, <1>8, <1>9 DEF Spawned

-----------------------------------------------------------------------------
(* The worker's thread.                                                     *)

\* The run at the head of the queue of worker w goes on.
GoesOn(c, w) ==
  /\ worker' \in [Call -> WorkerRecord]
  /\ \A u \in Call : u # w => worker'[u] = worker[u]
  /\ worker'[w].queue = worker[w].queue /\ worker'[w].dead = FALSE
  /\ ~worker'[w].ran => worker'[w].talk = 0
  /\ \/ live' = live /\ worker'[w].proc = worker[w].proc /\ ~worker[w].dead
     \/ /\ worker[w].proc = 0 \/ worker[w].dead
        /\ worker'[w].proc \in 1..MaxProcs /\ live' = live \cup {<<w, worker'[w].proc>>}
        /\ <<w, worker'[w].proc>> \notin live
        /\ \A s \in stops : s.w = w => s.proc # worker'[w].proc
  /\ \E e \in Line \ {"queued", "stopping"} :
       /\ exec' = [exec EXCEPT ![c] = e]
       /\ e = "reprompting" => worker'[w].talk = 0
       /\ e = "running" /\ req[c].kind = "run" => worker'[w].talk = 1

LEMMA Prompted ==
  ASSUME BaseInv, NEW c \in Call, mine[c] \in Call, NEW W \in WorkerRecord, Prompt(c, W),
         W.queue = worker[mine[c]].queue, W.dead = worker[mine[c]].dead,
         W.proc = worker[mine[c]].proc,
         req[c].kind = "run" /\ ~W.dead => W.talk = 0
  PROVE  GoesOn(c, mine[c])
<1> DEFINE w == mine[c]
           R == [W EXCEPT !.ran = TRUE]
<1>0. WorkersTyped BY DEF BaseInv
<1>1. R \in WorkerRecord /\ R.ran = TRUE /\ R.queue = W.queue /\ R.talk = W.talk /\ R.dead = W.dead
      /\ R.proc = W.proc
  BY DEF WorkerRecord
<1>2. CASE W.dead
  <2>1. Spawn(w, R) /\ exec' = [exec EXCEPT ![c] = "reprompting"]
    BY Zenon, <1>2 DEF Prompt
  <2>2. worker[w].dead BY <1>2
  <2> HIDE DEF R
  <2>3. Spawned(w, R) BY <1>0, <1>1, <2>1, SpawnFacts
  <2>4. "reprompting" \in Line \ {"queued", "stopping"} BY DEF Line
  <2> HIDE DEF w
  <2>5. GoesOn(c, w)
    BY <1>1, <2>1, <2>2, <2>3, <2>4 DEF GoesOn, Spawned, w
  <2> QED BY <2>5 DEF w
<1>3. CASE ~W.dead
  <2> DEFINE t == IF W.talk = 0 THEN 1 ELSE 2
             Q == [R EXCEPT !.talk = t]
  <2>1. /\ worker' = [worker EXCEPT ![w] = [W EXCEPT !.ran = TRUE, !.talk = IF @ = 0 THEN 1 ELSE 2]]
        /\ exec' = [exec EXCEPT ![c] = "running"] /\ live' = live
    BY Zenon, <1>3 DEF Prompt
  <2>2. worker' = [worker EXCEPT ![w] = Q]
    <3>1. [W EXCEPT !.ran = TRUE, !.talk = IF @ = 0 THEN 1 ELSE 2] = Q
      <4>1. W.talk = R.talk BY <1>1
      <4> QED BY Zenon, <4>1
    <3> QED BY Zenon, <2>1, <3>1
  <2>3. t \in 0..2 OBVIOUS
  <2> HIDE DEF R
  <2>4. Q \in WorkerRecord /\ Q.ran = TRUE /\ Q.queue = W.queue /\ Q.talk = t /\ Q.dead = W.dead
        /\ Q.proc = W.proc
    <3> HIDE DEF t
    <3> QED BY <1>1, <2>3 DEF WorkerRecord
  <2>5. req[c].kind = "run" => t = 1 BY <1>3
  <2> HIDE DEF Q, t, w
  <2>6. w \in Call BY DEF w
  <2>7. /\ worker' \in [Call -> WorkerRecord] /\ worker'[w] = Q
        /\ \A u \in Call : u # w => worker'[u] = worker[u]
    BY <1>0, <2>2, <2>4, <2>6 DEF WorkersTyped
  <2>8. "running" \in Line \ {"queued", "stopping"} BY DEF Line
  <2>9. W.dead \in BOOLEAN BY DEF WorkerRecord
  <2>10. GoesOn(c, w)
    BY <1>3, <2>1, <2>4, <2>5, <2>7, <2>8, <2>9 DEF GoesOn, w
  <2> QED BY <2>10 DEF w
<1> QED BY <1>2, <1>3

LEMMA RecordOf ==
  ASSUME BaseInv, NEW w \in Call
  PROVE  worker[w] \in WorkerRecord /\ worker[w].dead \in BOOLEAN /\ worker[w].queue \in Seq(Call)
<1>1. worker[w] \in WorkerRecord BY DEF BaseInv, WorkersTyped
<1> QED BY <1>1 DEF WorkerRecord

LEMMA Started ==
  ASSUME BaseInv, NEW c \in Call, mine[c] \in Call, AfterStart(c)
  PROVE  GoesOn(c, mine[c])
<1> DEFINE w == mine[c]
<1>0. WorkersTyped /\ worker[w] \in WorkerRecord /\ worker[w].dead \in BOOLEAN
      /\ (~worker[w].ran => worker[w].talk = 0)
  BY RecordOf DEF BaseInv, Fresh
<1>1. CASE ~NeedsClear(c)
  <2>1. Prompt(c, worker[w]) BY Zenon, <1>1 DEF AfterStart
  <2>2. req[c].kind = "run" /\ ~worker[w].dead => worker[w].talk = 0
    BY <1>0, <1>1 DEF NeedsClear
  <2> HIDE DEF w
  <2>3. w = mine[c] BY DEF w
  <2> QED BY <1>0, <2>1, <2>2, <2>3, Prompted
<1>2. CASE NeedsClear(c) /\ worker[w].dead
  <2>1. Spawn(w, worker[w]) /\ exec' = [exec EXCEPT ![c] = "restarting"]
    BY Zenon, <1>2 DEF AfterStart
  <2>2. Spawned(w, worker[w]) BY <1>0, <2>1, SpawnFacts
  <2>3. "restarting" \in Line \ {"queued", "stopping"} BY DEF Line
  <2>4. worker[w].dead BY <1>2
  <2> HIDE DEF w
  <2>5. GoesOn(c, w) BY <2>1, <2>2, <2>3, <2>4 DEF GoesOn, Spawned
  <2> QED BY <2>5 DEF w
<1>3. CASE NeedsClear(c) /\ ~worker[w].dead
  <2>1. worker' = worker /\ live' = live /\ exec' = [exec EXCEPT ![c] = "clearing"]
    BY Zenon, <1>3 DEF AfterStart
  <2>2. "clearing" \in Line \ {"queued", "stopping"} BY DEF Line
  <2>3. worker' \in [Call -> WorkerRecord] BY <1>0, <2>1 DEF WorkersTyped
  <2> HIDE DEF w
  <2>4. GoesOn(c, w) BY <1>0, <1>3, <2>1, <2>2, <2>3 DEF GoesOn
  <2> QED BY <2>4 DEF w
<1> QED BY <1>1, <1>2, <1>3

-----------------------------------------------------------------------------
\* A step of a worker's thread leaves the pool's threads where they are, and the workers
\* that are not there.
Elsewhere ==
  /\ CallsUnchanged
  /\ \A u \in Call : Blank(u) =>
       /\ worker'[u] = worker[u]
       /\ \A p \in live' : p[1] # u
       /\ \A s \in stops' : s.w # u
  /\ \A c \in Call : exec[c] = "none" => exec'[c] = "none"

LEMMA CallsKept ==
  ASSUME BaseInv, Elsewhere
  PROVE  CallsTyped' /\ PoolKeys' /\ Asked' /\ Owned'
<1>1. req' = req /\ pc' = pc /\ mine' = mine /\ pool' = pool /\ reserved' = reserved
  BY DEF Elsewhere, CallsUnchanged
<1>2. CallsTyped' BY <1>1 DEF BaseInv, CallsTyped
<1>3. PoolKeys' BY <1>1 DEF BaseInv, PoolKeys, KeyOf
<1>4. Asked' BY <1>1 DEF BaseInv, Asked
<1>5. ASSUME NEW u \in Call, Blank(u) PROVE Blank(u)'
  BY <1>1, <1>5 DEF Elsewhere, Blank
<1>6. Owned'
  BY <1>1, <1>5 DEF BaseInv, Owned, Elsewhere, KeyOf
<1> QED BY <1>2, <1>3, <1>4, <1>6

\* The queues stay as they are and the run at the head of one goes on.
LEMMA HeadGoesOn ==
  ASSUME BaseInv, CallsUnchanged, NEW c \in Call, exec[c] \in Line, req[c].kind # "prewarm",
         c = Head(worker[mine[c]].queue), NEW e \in Line \ {"queued"}, exec' = [exec EXCEPT ![c] = e],
         \A u \in Call : worker'[u].queue = worker[u].queue
  PROVE  Lined' /\ Queues'
<1>1. req' = req /\ pc' = pc /\ mine' = mine
  BY DEF CallsUnchanged
<1>2. exec'[c] = e /\ \A d \in Call : d # c => exec'[d] = exec[d]
  BY DEF BaseInv, WorkersTyped
<1>3. mine[c] \in Call /\ c \in ToSet(worker[mine[c]].queue) BY InLine
<1>4. Lined'
  <2> SUFFICES ASSUME NEW d \in Call, exec'[d] \in Line
               PROVE  \/ /\ req[d].kind \in {"run", "resume"} /\ pc[d] \in {"prune", "await"}
                         /\ mine[d] # None /\ d \in ToSet(worker'[mine[d]].queue)
                      \/ exec'[d] = "starting" /\ pc[d] = "warm"
    BY <1>1 DEF Lined
  <2>1. CASE d = c
    <3>1. req[c].kind \in {"run", "resume"} /\ pc[c] \in {"prune", "await"}
      BY <1>3 DEF BaseInv, Queues
    <3>2. mine[c] # None BY <1>3, Constants
    <3> QED BY <1>3, <2>1, <3>1, <3>2
  <2>2. CASE d # c
    <3>1. exec[d] \in Line /\ exec'[d] = exec[d] BY <1>2, <2>2
    <3>2. mine[d] \in Call BY <3>1, InLine
    <3> QED BY <3>1, <3>2 DEF BaseInv, Lined
  <2> QED BY <2>1, <2>2
<1>5. Queues'
  <2> SUFFICES ASSUME NEW w \in Call
               PROVE  /\ IsInjective(worker[w].queue)
                      /\ \A d \in ToSet(worker[w].queue) :
                           /\ mine[d] = w /\ exec'[d] \in Line
                           /\ req[d].kind \in {"run", "resume"} /\ pc[d] \in {"prune", "await"}
                           /\ d # Head(worker[w].queue) => exec'[d] = "queued"
    BY <1>1 DEF Queues
  <2>1. \A d \in ToSet(worker[w].queue) : d \in Call
    BY RecordOf, SeqFacts
  <2>2. c \in ToSet(worker[w].queue) => c = Head(worker[w].queue)
    BY DEF BaseInv, Queues
  <2> QED BY <1>2, <2>1, <2>2 DEF BaseInv, Queues
<1> QED BY <1>4, <1>5

\* A call that waits on a worker leaves the queue, if it is in it, with its outcome.
Leaves(c, result) ==
  /\ exec' = [exec EXCEPT ![c] = result]
  /\ \A u \in Call : worker'[u].queue =
       IF u = mine[c] THEN Without(worker[u].queue, c) ELSE worker[u].queue

LEMMA QueueLeft ==
  ASSUME BaseInv, CallsUnchanged, NEW c \in Call, mine[c] \in Call,
         NEW result \in {"ok", "failed"}, Leaves(c, result)
  PROVE  Lined' /\ Queues'
<1>1. req' = req /\ pc' = pc /\ mine' = mine
  BY DEF CallsUnchanged
<1>2. /\ exec'[c] = result /\ result \notin Line
      /\ \A d \in Call : d # c => exec'[d] = exec[d]
  BY DEF BaseInv, WorkersTyped, Leaves, Line
<1> DEFINE Q(u) == worker[u].queue
           R(u) == Without(Q(u), c)
<1>3. ASSUME NEW u \in Call
      PROVE  /\ Q(u) \in Seq(Call) /\ IsInjective(Q(u)) /\ IsInjective(R(u))
             /\ ToSet(R(u)) = ToSet(Q(u)) \ {c}
             /\ Q(u) # << >> /\ c = Head(Q(u)) => R(u) = Tail(Q(u))
             /\ R(u) # << >> /\ c # Head(Q(u)) => Head(R(u)) = Head(Q(u))
  <2>1. Q(u) \in Seq(Call) /\ IsInjective(Q(u))
    BY RecordOf DEF BaseInv, Queues
  <2> HIDE DEF Q
  <2>2. /\ Without(Q(u), c) \in Seq(Call) /\ ToSet(Without(Q(u), c)) = ToSet(Q(u)) \ {c}
        /\ IsInjective(Without(Q(u), c))
        /\ Q(u) # << >> /\ c = Head(Q(u)) => Without(Q(u), c) = Tail(Q(u))
        /\ Q(u) # << >> /\ Without(Q(u), c) # << >> /\ c # Head(Q(u)) => Head(Without(Q(u), c)) = Head(Q(u))
    BY <2>1, RemovedFirst, HeadStays
  <2>3. Q(u) = << >> => ToSet(R(u)) = {} BY <2>2, EmptyQueue
  <2>4. R(u) # << >> => Q(u) # << >>
    <3>1. R(u) # << >> => Head(R(u)) \in ToSet(R(u)) BY <2>2, TailFacts
    <3> QED BY <2>3, <3>1
  <2> QED BY <2>1, <2>2, <2>4
<1>4. \A u \in Call : Q(u)' = IF u = mine[c] THEN R(u) ELSE Q(u)
  BY DEF Leaves
<1>5. \A u \in Call : u # mine[c] => c \notin ToSet(Q(u))
  BY DEF BaseInv, Queues
<1> HIDE DEF R
<1>6. Lined'
  <2> SUFFICES ASSUME NEW d \in Call, exec'[d] \in Line
               PROVE  \/ /\ req[d].kind \in {"run", "resume"} /\ pc[d] \in {"prune", "await"}
                         /\ mine[d] # None /\ d \in ToSet(worker'[mine[d]].queue)
                      \/ exec'[d] = "starting" /\ pc[d] = "warm"
    BY <1>1 DEF Lined
  <2>1. d # c /\ exec[d] \in Line /\ exec'[d] = exec[d] BY <1>2
  <2>2. mine[d] \in Call BY <2>1, InLine
  <2>3. d \in ToSet(Q(mine[d])) => d \in ToSet(worker'[mine[d]].queue)
    BY <1>3, <1>4, <2>1, <2>2
  <2> QED BY <2>1, <2>3 DEF BaseInv, Lined
<1>7. Queues'
  <2> SUFFICES ASSUME NEW w \in Call
               PROVE  /\ IsInjective(worker'[w].queue)
                      /\ \A d \in ToSet(worker'[w].queue) :
                           /\ mine[d] = w /\ exec'[d] \in Line
                           /\ req[d].kind \in {"run", "resume"} /\ pc[d] \in {"prune", "await"}
                           /\ d # Head(worker'[w].queue) => exec'[d] = "queued"
    BY <1>1 DEF Queues
  <2>1. CASE w # mine[c]
    <3>1. worker'[w].queue = Q(w) /\ c \notin ToSet(Q(w)) BY <1>4, <1>5, <2>1
    <3>2. \A d \in ToSet(Q(w)) : d \in Call /\ exec'[d] = exec[d] BY <1>2, <1>3, <3>1, SeqFacts
    <3> QED BY <3>1, <3>2 DEF BaseInv, Queues
  <2>2. CASE w = mine[c]
    <3>1. worker'[w].queue = R(w) /\ ToSet(R(w)) = ToSet(Q(w)) \ {c} /\ IsInjective(R(w))
      BY <1>3, <1>4, <2>2
    <3>2. \A d \in ToSet(R(w)) : d \in Call /\ exec'[d] = exec[d] /\ d \in ToSet(Q(w)) /\ d # c
      BY <1>2, <1>3, <3>1, SeqFacts
    <3>3. ASSUME NEW d \in ToSet(R(w)), d # Head(R(w)) PROVE exec[d] = "queued"
      <4>1. R(w) # << >> BY <3>3, EmptyQueue
      <4>2. CASE c = Head(Q(w))
        BY <3>2, <4>2 DEF BaseInv, Queues
      <4>3. CASE c # Head(Q(w))
        <5>1. Head(R(w)) = Head(Q(w)) BY <1>3, <4>1, <4>3
        <5> QED BY <3>2, <3>3, <5>1 DEF BaseInv, Queues
      <4> QED BY <4>2, <4>3
    <3>4. \A d \in ToSet(Q(w)) : /\ mine[d] = w /\ exec[d] \in Line
                                 /\ req[d].kind \in {"run", "resume"} /\ pc[d] \in {"prune", "await"}
      BY DEF BaseInv, Queues
    <3> HIDE DEF Q
    <3> QED BY <3>1, <3>2, <3>3, <3>4
  <2> QED BY <2>1, <2>2
<1> QED BY <1>6, <1>7

\* Whoever waits on a worker that fails: the run that has begun, and a prewarm.
Hit(w) == IF worker[w].dead THEN {} ELSE {c \in Call : mine[c] = w /\ exec[c] \in Pending}

LEMMA FailFacts ==
  ASSUME BaseInv, NEW w \in Call, NEW gone, Fail(w, gone)
  PROVE  /\ live' = live \ gone
         /\ exec' \in [Call -> Exec]
         /\ \A c \in Call : exec'[c] = IF c \in Hit(w) THEN "failed" ELSE exec[c]
         /\ worker' \in [Call -> WorkerRecord]
         /\ \A u \in Call : u # w => worker'[u] = worker[u]
         /\ worker'[w].dead = TRUE /\ worker'[w].proc = worker[w].proc
         /\ worker'[w].ran = worker[w].ran /\ worker'[w].talk = worker[w].talk
         /\ worker'[w].queue =
              IF worker[w].queue # << >> /\ Head(worker[w].queue) \in Hit(w)
              THEN Tail(worker[w].queue) ELSE worker[w].queue
<1> DEFINE q == IF worker[w].queue # << >> /\ Head(worker[w].queue) \in Hit(w)
                THEN Tail(worker[w].queue) ELSE worker[w].queue
           A == [worker[w] EXCEPT !.dead = TRUE]
           B == [A EXCEPT !.queue = q]
<1>0. worker[w] \in WorkerRecord /\ worker[w].queue \in Seq(Call)
  BY RecordOf
<1>1. /\ live' = live \ gone
      /\ exec' = [c \in Call |-> IF c \in Hit(w) THEN "failed" ELSE exec[c]]
      /\ worker' = [worker EXCEPT ![w].dead = TRUE,
                         ![w].queue = IF @ # << >> /\ Head(@) \in Hit(w) THEN Tail(@) ELSE @]
  BY Zenon DEF Fail, Hit
<1>2. q \in Seq(Call)
  BY <1>0
<1>3. \A u \in Call : u # w => worker'[u] = worker[u]
  BY <1>1 DEF BaseInv, WorkersTyped
<1>4. worker' = [worker EXCEPT ![w] = B]
  <2>1. worker \in [Call -> WorkerRecord] BY DEF BaseInv, WorkersTyped
  <2>2. A.queue = worker[w].queue BY <1>0 DEF WorkerRecord
  <2> QED BY <1>1, <2>1, <2>2
<1> HIDE DEF q
<1>5. A \in WorkerRecord /\ A.dead = TRUE /\ A.proc = worker[w].proc /\ A.ran = worker[w].ran
      /\ A.talk = worker[w].talk
  BY <1>0 DEF WorkerRecord
<1> HIDE DEF A
<1>6. B \in WorkerRecord /\ B.dead = TRUE /\ B.proc = worker[w].proc /\ B.ran = worker[w].ran
      /\ B.talk = worker[w].talk /\ B.queue = q
  BY <1>2, <1>5 DEF WorkerRecord
<1> HIDE DEF B
<1>7. worker' \in [Call -> WorkerRecord] /\ worker'[w] = B
  BY <1>4, <1>6 DEF BaseInv, WorkersTyped
<1>8. /\ exec' \in [Call -> Exec]
      /\ \A c \in Call : exec'[c] = IF c \in Hit(w) THEN "failed" ELSE exec[c]
  <2>1. \A c \in Call : exec[c] \in Exec BY DEF BaseInv, WorkersTyped
  <2>2. "failed" \in Exec BY DEF Exec
  <2> HIDE DEF Hit
  <2> QED BY <1>1, <2>1, <2>2
<1> QED BY <1>1, <1>3, <1>6, <1>7, <1>8 DEF q

LEMMA QueueFails ==
  ASSUME BaseInv, CallsUnchanged, NEW w \in Call, NEW gone, Fail(w, gone)
  PROVE  Lined' /\ Queues'
<1>1. req' = req /\ pc' = pc /\ mine' = mine
  BY DEF CallsUnchanged
<1> DEFINE q == worker[w].queue
<1>2. /\ \A c \in Call : exec'[c] = IF c \in Hit(w) THEN "failed" ELSE exec[c]
      /\ \A u \in Call : u # w => worker'[u] = worker[u]
      /\ worker'[w].queue = IF q # << >> /\ Head(q) \in Hit(w) THEN Tail(q) ELSE q
  BY FailFacts
<1>3. q \in Seq(Call) /\ IsInjective(q) /\ \A u \in Call : \A d \in ToSet(worker[u].queue) : d \in Call
  BY RecordOf, SeqFacts DEF BaseInv, Queues
<1>4. "failed" \notin Line /\ Pending \subseteq Line \ {"queued"}
  BY DEF Line, Pending
<1>5. \A d \in Hit(w) : d \in Call /\ mine[d] = w /\ exec[d] \in Pending
  BY DEF Hit
<1>6. \A d \in ToSet(q) : d \in Hit(w) => d = Head(q)
  BY <1>4, <1>5 DEF BaseInv, Queues
<1>7. q # << >> => /\ Head(q) \in ToSet(q) /\ IsInjective(Tail(q)) /\ ToSet(Tail(q)) = ToSet(q) \ {Head(q)}
  BY <1>3, TailFacts
<1>8. ToSet(<< >>) = {} BY EmptyQueue
<1>9. /\ ToSet(worker'[w].queue) = ToSet(q) \ Hit(w)
      /\ IsInjective(worker'[w].queue)
  <2>1. CASE q # << >> /\ Head(q) \in Hit(w)
    <3>1. worker'[w].queue = Tail(q) BY <1>2, <2>1
    <3> HIDE DEF q
    <3> QED BY <1>6, <1>7, <2>1, <3>1
  <2>2. CASE ~(q # << >> /\ Head(q) \in Hit(w))
    <3>1. worker'[w].queue = q BY <1>2, <2>2
    <3>2. \A d \in ToSet(q) : d \notin Hit(w)
      <4> HIDE DEF q
      <4> QED BY <1>6, <1>8, <2>2
    <3> HIDE DEF q
    <3> QED BY <1>3, <3>1, <3>2
  <2> QED BY <2>1, <2>2
<1>10. \A d \in ToSet(worker'[w].queue) :
         exec[d] # "queued" => worker'[w].queue = q /\ d = Head(q)
  <2>1. ASSUME NEW d \in ToSet(worker'[w].queue), exec[d] # "queued"
        PROVE  worker'[w].queue = q /\ d = Head(q)
    <3>1. d \in ToSet(q) /\ d \notin Hit(w) BY <1>9, <2>1
    <3>2. d = Head(q) BY <2>1, <3>1 DEF BaseInv, Queues
    <3> QED BY <1>2, <3>1, <3>2
  <2> QED BY <2>1
<1>11. Lined'
  <2> SUFFICES ASSUME NEW d \in Call, exec'[d] \in Line
               PROVE  \/ /\ req[d].kind \in {"run", "resume"} /\ pc[d] \in {"prune", "await"}
                         /\ mine[d] # None /\ d \in ToSet(worker'[mine[d]].queue)
                      \/ exec'[d] = "starting" /\ pc[d] = "warm"
    BY <1>1 DEF Lined
  <2>1. d \notin Hit(w) /\ exec[d] \in Line /\ exec'[d] = exec[d] BY <1>2, <1>4
  <2>2. mine[d] \in Call BY <2>1, InLine
  <2>3. d \in ToSet(worker[mine[d]].queue) => d \in ToSet(worker'[mine[d]].queue)
    BY <1>2, <1>9, <2>1, <2>2
  <2> QED BY <2>1, <2>3 DEF BaseInv, Lined
<1>12. Queues'
  <2> SUFFICES ASSUME NEW u \in Call
               PROVE  /\ IsInjective(worker'[u].queue)
                      /\ \A d \in ToSet(worker'[u].queue) :
                           /\ mine[d] = u /\ exec'[d] \in Line
                           /\ req[d].kind \in {"run", "resume"} /\ pc[d] \in {"prune", "await"}
                           /\ d # Head(worker'[u].queue) => exec'[d] = "queued"
    BY <1>1 DEF Queues
  <2>1. \A d \in ToSet(worker[u].queue) :
           /\ d \in Call /\ mine[d] = u /\ exec[d] \in Line
           /\ req[d].kind \in {"run", "resume"} /\ pc[d] \in {"prune", "await"}
    BY <1>3 DEF BaseInv, Queues
  <2>2. CASE u # w
    <3>1. worker'[u] = worker[u] BY <1>2, <2>2
    <3>2. \A d \in ToSet(worker[u].queue) : d \notin Hit(w) /\ exec'[d] = exec[d] BY <1>2, <1>5, <2>1, <2>2
    <3> QED BY <2>1, <3>1, <3>2 DEF BaseInv, Queues
  <2>3. CASE u = w
    <3>1. \A d \in ToSet(worker'[w].queue) : d \in ToSet(q) /\ d \notin Hit(w) BY <1>9
    <3>2. \A d \in ToSet(worker'[w].queue) : exec'[d] = exec[d] BY <1>2, <2>1, <2>3, <3>1
    <3> QED BY <1>9, <1>10, <2>1, <2>3, <3>1, <3>2
  <2> QED BY <2>2, <2>3
<1> QED BY <1>11, <1>12

\* The conversations stay as they are while no prompt is sent and no process started.
LEMMA FreshKept ==
  ASSUME BaseInv, CallsUnchanged,
         \A u \in Call : worker'[u].ran = worker[u].ran /\ worker'[u].talk = worker[u].talk,
         \A d \in Call : exec'[d] \in {"reprompting", "running"} => exec'[d] = exec[d]
  PROVE  Fresh'
<1>1. req' = req /\ mine' = mine
  BY DEF CallsUnchanged
<1>2. \A d \in Call : exec[d] \in {"reprompting", "running"} => mine[d] \in Call
  BY InLine DEF Line
<1> QED BY <1>1, <1>2 DEF BaseInv, Fresh

LEMMA FaultTyped ==
  ASSUME BaseInv, Fault
  PROVE  /\ mode' \in [overlap : BOOLEAN, faults : Nat, mixed : BOOLEAN]
         /\ mode'.overlap = mode.overlap /\ mode'.mixed = mode.mixed /\ mode.faults > 0
BY DEF BaseInv, WorkersTyped, Fault

LEMMA GoingOn ==
  ASSUME BaseInv, CallsUnchanged, mode' = mode, stops' = stops, NEW c \in Call,
         exec[c] \in Line, req[c].kind # "prewarm", c = Head(worker[mine[c]].queue),
         GoesOn(c, mine[c])
  PROVE  BaseInv'
<1> DEFINE w == mine[c]
<1>1. PICK e \in Line \ {"queued", "stopping"} :
        /\ exec' = [exec EXCEPT ![c] = e]
        /\ e = "reprompting" => worker'[w].talk = 0
        /\ e = "running" /\ req[c].kind = "run" => worker'[w].talk = 1
  BY DEF GoesOn
<1>2. /\ worker' \in [Call -> WorkerRecord]
      /\ \A u \in Call : u # w => worker'[u] = worker[u]
      /\ worker'[w].queue = worker[w].queue
      /\ ~worker'[w].ran => worker'[w].talk = 0
      /\ live' = live \/ (worker'[w].proc \in 1..MaxProcs /\ live' = live \cup {<<w, worker'[w].proc>>})
  BY DEF GoesOn
<1>3. w \in Call /\ ~Blank(w)
  BY InLine
<1>4. exec'[c] = e /\ \A d \in Call : d # c => exec'[d] = exec[d]
  BY <1>1 DEF BaseInv, WorkersTyped
<1>5. req' = req /\ mine' = mine
  BY DEF CallsUnchanged
<1>6. Elsewhere
  <2>1. \A p \in live' : p \in live \/ p[1] = w BY <1>2
  <2>2. "none" \notin Line BY DEF Line
  <2> HIDE DEF w
  <2>3. \A u \in Call : Blank(u) => /\ worker'[u] = worker[u]
                                    /\ \A p \in live' : p[1] # u
                                    /\ \A s \in stops' : s.w # u
    BY <1>2, <1>3, <2>1 DEF Blank
  <2> QED BY <1>4, <2>2, <2>3 DEF Elsewhere
<1>7. WorkersTyped'
  <2>1. e \in Exec BY DEF Line, Exec
  <2>2. exec' \in [Call -> Exec] BY <1>1, <2>1 DEF BaseInv, WorkersTyped
  <2>3. live' \subseteq Call \X (1..MaxProcs) BY <1>2, <1>3 DEF BaseInv, WorkersTyped
  <2> QED BY <1>2, <2>2, <2>3 DEF BaseInv, WorkersTyped
<1>8. Lined' /\ Queues'
  <2>1. \A u \in Call : worker'[u].queue = worker[u].queue BY <1>2
  <2> QED BY <1>1, <2>1, HeadGoesOn
<1>9. Fresh'
  <2>1. ASSUME NEW d \in Call, d # c, exec'[d] \in {"reprompting", "running"}
        PROVE  exec'[d] = exec[d] /\ worker'[mine[d]] = worker[mine[d]]
    <3>1. exec'[d] = exec[d] /\ exec[d] \in Line /\ exec[d] # "queued" /\ exec[d] # "starting"
      BY <1>4, <2>1 DEF Line
    <3>2. mine[d] \in Call /\ d = Head(worker[mine[d]].queue) BY <3>1, InLine
    <3>3. mine[d] # w BY <2>1, <3>2
    <3> QED BY <1>2, <3>1, <3>2, <3>3
  <2>2. \A u \in Call : ~worker'[u].ran => worker'[u].talk = 0
    BY <1>2 DEF BaseInv, Fresh
  <2>3. ASSUME NEW d \in Call
        PROVE  /\ exec'[d] = "reprompting" => worker'[mine[d]].talk = 0
               /\ exec'[d] = "running" /\ req[d].kind = "run" => worker'[mine[d]].talk = 1
    <3>1. CASE d = c BY <1>1, <1>4, <3>1
    <3>2. CASE d # c
      <4> HIDE DEF w
      <4> QED BY <2>1, <3>2 DEF BaseInv, Fresh
    <3> QED BY <3>1, <3>2
  <2> QED BY <1>5, <2>2, <2>3 DEF Fresh
<1> QED BY <1>6, <1>7, <1>8, <1>9, CallsKept DEF BaseInv

\* A call leaves the worker it waited for; the processes stay.
LEMMA Leaving ==
  ASSUME BaseInv, CallsUnchanged, live' = live, NEW c \in Call, exec[c] \in Line,
         mode' \in [overlap : BOOLEAN, faults : Nat, mixed : BOOLEAN],
         NEW result \in {"ok", "failed"}, Outcome(c, result),
         stops' \subseteq StopRecord, \A s \in stops' : s \in stops \/ s.w = mine[c]
  PROVE  BaseInv' /\ Leaves(c, result)
<1> DEFINE w == mine[c]
           q == Without(worker[w].queue, c)
           R == [worker[w] EXCEPT !.queue = q]
<1>1. w \in Call /\ ~Blank(w)
  BY InLine
<1>2. exec' = [exec EXCEPT ![c] = result] /\ worker' = [worker EXCEPT ![w] = R]
  <2>1. worker' = [worker EXCEPT ![mine[c]].queue = Without(@, c)] /\ exec' = [exec EXCEPT ![c] = result]
    BY DEF Outcome
  <2>2. worker \in [Call -> WorkerRecord] BY DEF BaseInv, WorkersTyped
  <2> QED BY <1>1, <2>1, <2>2
<1>3. q \in Seq(Call)
  <2>1. worker[w].queue \in Seq(Call) /\ IsInjective(worker[w].queue)
    BY <1>1, RecordOf DEF BaseInv, Queues
  <2> QED BY <2>1, RemovedFirst
<1>4. worker[w] \in WorkerRecord BY <1>1, RecordOf
<1> HIDE DEF q
<1>5. R \in WorkerRecord /\ R.queue = q /\ R.ran = worker[w].ran /\ R.talk = worker[w].talk
  BY <1>3, <1>4 DEF WorkerRecord
<1> HIDE DEF R
<1>6. /\ worker' \in [Call -> WorkerRecord] /\ worker'[w] = R
      /\ \A u \in Call : u # w => worker'[u] = worker[u]
  BY <1>1, <1>2, <1>5 DEF BaseInv, WorkersTyped
<1>7. exec'[c] = result /\ \A d \in Call : d # c => exec'[d] = exec[d]
  BY <1>2 DEF BaseInv, WorkersTyped
<1>8. Leaves(c, result)
  BY <1>2, <1>5, <1>6 DEF Leaves, q
<1>9. Elsewhere
  <2>1. "none" \notin Line BY DEF Line
  <2> HIDE DEF w
  <2>2. \A u \in Call : Blank(u) => /\ worker'[u] = worker[u]
                                    /\ \A p \in live' : p[1] # u
                                    /\ \A s \in stops' : s.w # u
    BY <1>1, <1>6 DEF Blank, w
  <2> QED BY <1>7, <2>1, <2>2 DEF Elsewhere
<1>10. WorkersTyped'
  <2>1. result \in Exec BY DEF Exec
  <2>2. exec' \in [Call -> Exec] BY <1>2, <2>1 DEF BaseInv, WorkersTyped
  <2> QED BY <1>6, <2>2 DEF BaseInv, WorkersTyped
<1>11. Lined' /\ Queues'
  BY <1>1, <1>8, QueueLeft
<1>12. Fresh'
  <2>1. \A u \in Call : worker'[u].ran = worker[u].ran /\ worker'[u].talk = worker[u].talk
    BY <1>5, <1>6
  <2>2. \A d \in Call : exec'[d] \in {"reprompting", "running"} => exec'[d] = exec[d]
    BY <1>7
  <2> QED BY <2>1, <2>2, FreshKept
<1> QED BY <1>8, <1>9, <1>10, <1>11, <1>12, CallsKept DEF BaseInv

\* A call of stop on worker w, or none if it has no process.
StopsBy(N, w, c, why) ==
  /\ \A s \in N : /\ s \in StopRecord /\ s.w = w /\ s.by = c /\ s.why = why
                  /\ s.proc = worker[w].proc /\ s.killed = FALSE
  /\ N = {} <=> worker[w].proc = 0

LEMMA StopOfFacts ==
  ASSUME BaseInv, NEW w \in Call, NEW c \in Call, NEW why \in Why
  PROVE  StopsBy(StopOf(w, c, why), w, c, why)
<1>1. worker[w].proc \in 0..MaxProcs
  BY DEF BaseInv, WorkersTyped, WorkerRecord
<1>2. CASE worker[w].proc = 0
  BY <1>2 DEF StopOf, StopsBy
<1>3. CASE worker[w].proc # 0
  <2> DEFINE s == [w |-> w, proc |-> worker[w].proc, by |-> c, why |-> why, killed |-> FALSE]
  <2>1. worker[w].proc \in 1..MaxProcs BY <1>1, <1>3
  <2>2. /\ s \in StopRecord /\ s.w = w /\ s.by = c /\ s.why = why
        /\ s.proc = worker[w].proc /\ s.killed = FALSE
    BY <2>1 DEF StopRecord
  <2>3. StopOf(w, c, why) = {s} BY <1>3 DEF StopOf
  <2> HIDE DEF s
  <2> QED BY <1>3, <2>2, <2>3 DEF StopsBy
<1> QED BY <1>2, <1>3

\* Requests to abort have become kills of the same workers; other stops go on.
Converts(S, T) ==
  /\ T \subseteq StopRecord
  /\ \A t \in T : t \in S \/ (t.why = "kill" /\ t.killed = FALSE /\ \E u \in S : t.w = u.w)
  /\ \A t \in S : t.why # "abort" => t \in T

LEMMA RejectingConverts ==
  ASSUME BaseInv, NEW w \in Call, NEW S \in SUBSET StopRecord
  PROVE  Converts(S, Rejecting(w, S))
<1> DEFINE hit == IF worker[w].dead THEN {} ELSE {s \in S : s.w = w /\ s.why = "abort"}
           N == UNION {StopOf(w, s.by, "kill") : s \in hit}
<1>1. Rejecting(w, S) = (S \ hit) \cup N BY DEF Rejecting
<1>2. \A s \in hit : s \in S /\ s.w = w /\ s.why = "abort" /\ s.by \in Call
  BY DEF StopRecord
<1>3. ASSUME NEW t \in N
      PROVE  t \in StopRecord /\ t.why = "kill" /\ t.killed = FALSE /\ \E u \in S : t.w = u.w
  <2>1. PICK s \in hit : t \in StopOf(w, s.by, "kill") BY <1>3
  <2>2. "kill" \in Why BY DEF Why
  <2>3. s.by \in Call /\ s \in S /\ s.w = w BY <1>2, <2>1
  <2> HIDE DEF N, hit
  <2>4. StopsBy(StopOf(w, s.by, "kill"), w, s.by, "kill") BY Zenon, <2>2, <2>3, StopOfFacts
  <2>5. PICK M : M = StopOf(w, s.by, "kill") OBVIOUS
  <2>6. StopsBy(M, w, s.by, "kill") /\ t \in M BY Zenon, <2>1, <2>4, <2>5
  <2> QED BY <2>3, <2>6 DEF StopsBy
<1> HIDE DEF N, hit
<1> QED BY <1>1, <1>2, <1>3 DEF Converts

LEMMA Failing ==
  ASSUME BaseInv, CallsUnchanged, NEW w \in Call, ~Blank(w), NEW gone, Fail(w, gone),
         mode' \in [overlap : BOOLEAN, faults : Nat, mixed : BOOLEAN],
         stops' \subseteq StopRecord, \A s \in stops' : \E t \in stops : s.w = t.w
  PROVE  BaseInv'
<1>1. /\ live' = live \ gone
      /\ exec' \in [Call -> Exec]
      /\ \A c \in Call : exec'[c] = IF c \in Hit(w) THEN "failed" ELSE exec[c]
      /\ worker' \in [Call -> WorkerRecord]
      /\ \A u \in Call : u # w => worker'[u] = worker[u]
      /\ worker'[w].ran = worker[w].ran /\ worker'[w].talk = worker[w].talk
  BY FailFacts
<1>2. Elsewhere
  <2>1. \A c \in Hit(w) : exec[c] # "none" BY DEF Hit, Pending
  <2>2. \A u \in Call : Blank(u) => /\ worker'[u] = worker[u]
                                    /\ \A p \in live' : p[1] # u
                                    /\ \A s \in stops' : s.w # u
    BY <1>1 DEF Blank
  <2> QED BY <1>1, <2>1, <2>2 DEF Elsewhere
<1>3. WorkersTyped'
  BY <1>1 DEF BaseInv, WorkersTyped
<1>4. Lined' /\ Queues'
  BY QueueFails
<1>5. Fresh'
  BY <1>1, FreshKept
<1> QED BY <1>2, <1>3, <1>4, <1>5, CallsKept DEF BaseInv

\* The queues, the runs and the conversations stay as they are.
LEMMA OnlyStops ==
  ASSUME BaseInv, PoolUnchanged, exec' = exec, live' = live,
         worker' \in [Call -> WorkerRecord],
         \A u \in Call : /\ worker'[u].ran = worker[u].ran /\ worker'[u].talk = worker[u].talk
                         /\ worker'[u].queue = worker[u].queue
                         /\ Blank(u) => worker'[u] = worker[u],
         stops' \subseteq StopRecord, \A s \in stops' : \E t \in stops : s.w = t.w
  PROVE  BaseInv'
<1>1. CallsUnchanged /\ mode' = mode /\ req' = req /\ pc' = pc /\ mine' = mine
  BY DEF PoolUnchanged, CallsUnchanged
<1>2. Elsewhere
  BY <1>1 DEF Elsewhere, Blank
<1>3. WorkersTyped'
  BY <1>1 DEF BaseInv, WorkersTyped
<1>4. Lined'
  <2>1. \A d \in Call : mine[d] # None => mine[d] \in Call BY DEF BaseInv, CallsTyped
  <2> QED BY <1>1, <2>1 DEF BaseInv, Lined
<1>5. Queues'
  BY <1>1 DEF BaseInv, Queues
<1>6. Fresh'
  BY <1>1, FreshKept
<1> QED BY <1>2, <1>3, <1>4, <1>5, <1>6, CallsKept DEF BaseInv

-----------------------------------------------------------------------------
LEMMA ExecStartKeeps ==
  ASSUME BaseInv, NEW c \in Call, ExecStart(c)
  PROVE  GoesOn(c, mine[c]) /\ BaseInv' /\ worker'[mine[c]].proc # 0
<1>1. /\ exec[c] = "queued" /\ exec[c] \in Line /\ c = Head(worker[mine[c]].queue)
      /\ CallsUnchanged /\ mode' = mode /\ stops' = stops
  BY DEF ExecStart, UpNext, Line, PoolUnchanged
<1>2. mine[c] \in Call /\ req[c].kind # "prewarm"
  BY <1>1, InLine
<1>3. GoesOn(c, mine[c])
  <2>1. CASE NeedsProcess(mine[c])
    <3>1. Spawn(mine[c], worker[mine[c]]) /\ exec' = [exec EXCEPT ![c] = "starting"]
      BY Zenon, <2>1 DEF ExecStart
    <3>2. Spawned(mine[c], worker[mine[c]])
      BY <1>2, <3>1, SpawnFacts, RecordOf DEF BaseInv
    <3>3. "starting" \in Line \ {"queued", "stopping"} BY DEF Line
    <3>4. /\ ~worker[mine[c]].ran => worker[mine[c]].talk = 0
          /\ worker[mine[c]].proc = 0 \/ worker[mine[c]].dead
      BY <1>2, <2>1 DEF BaseInv, Fresh, NeedsProcess
    <3> QED BY <3>1, <3>2, <3>3, <3>4 DEF GoesOn, Spawned
  <2>2. CASE ~NeedsProcess(mine[c])
    <3>1. AfterStart(c) BY Zenon, <2>2 DEF ExecStart
    <3> QED BY <1>2, <3>1, Started
  <2> QED BY <2>1, <2>2
<1>4. worker'[mine[c]].proc # 0
  <2>1. CASE NeedsProcess(mine[c])
    <3>1. Spawn(mine[c], worker[mine[c]]) BY Zenon, <2>1 DEF ExecStart
    <3>2. Spawned(mine[c], worker[mine[c]])
      BY <1>2, <3>1, SpawnFacts, RecordOf DEF BaseInv
    <3> QED BY <3>2, Constants DEF Spawned
  <2>2. CASE ~NeedsProcess(mine[c])
    <3>1. worker[mine[c]].proc # 0 BY <2>2 DEF NeedsProcess
    <3> QED BY <1>3, <3>1, Constants DEF GoesOn
  <2> QED BY <2>1, <2>2
<1> QED BY <1>1, <1>2, <1>3, <1>4, GoingOn

\* What an answer may do.
LEMMA AnsweredFacts ==
  ASSUME BaseInv, NEW c \in Call, Answered(c)
  PROVE  /\ exec[c] \in Pending \ {"running"} /\ exec[c] \in Line /\ mine[c] \in Call
         /\ Process(mine[c]) \in live
         /\ CallsUnchanged /\ mode' = mode /\ stops' = stops
         /\ \/ /\ req[c].kind = "prewarm" /\ exec' = [exec EXCEPT ![c] = "ok"]
               /\ worker' = worker /\ live' = live
            \/ /\ req[c].kind # "prewarm" /\ worker[mine[c]].dead
               /\ Outcome(c, "failed") /\ live' = live
            \/ req[c].kind # "prewarm" /\ GoesOn(c, mine[c])
<1> DEFINE w == mine[c]
<1>1. /\ exec[c] \in Pending \ {"running"} /\ exec[c] \in Line
      /\ Process(w) \in live
      /\ CallsUnchanged /\ mode' = mode /\ stops' = stops
  BY DEF Answered, Pending, Line, PoolUnchanged
<1>2. w \in Call /\ (req[c].kind = "prewarm" => exec[c] = "starting")
  BY <1>1, InLine
<1>3. worker[w] \in WorkerRecord /\ worker[w].dead \in BOOLEAN
  BY <1>2, RecordOf
<1>4. CASE exec[c] = "starting" /\ req[c].kind = "prewarm"
  <2>1. exec' = [exec EXCEPT ![c] = "ok"] /\ UNCHANGED <<worker, live>>
    BY Zenon, <1>4 DEF Answered
  <2> QED BY <1>1, <1>2, <1>4, <2>1
<1>5. CASE exec[c] = "starting" /\ req[c].kind # "prewarm"
  <2>1. ~(exec[c] = "starting" /\ req[c].kind = "prewarm") BY <1>5
  <2>2. "starting" \notin {"restarting", "reprompting"} /\ "starting" # "restarting" /\ "starting" # "clearing"
    OBVIOUS
  <2>3. AfterStart(c) BY <1>5, <2>2 DEF Answered
  <2> QED BY <1>1, <1>2, <1>5, <2>3, Started
<1>6. CASE exec[c] \in {"restarting", "reprompting"} /\ worker[w].dead
  <2>1. Outcome(c, "failed") /\ UNCHANGED live
    BY <1>6 DEF Answered
  <2> QED BY <1>1, <1>2, <1>6, <2>1
<1>7. CASE exec[c] = "restarting" /\ ~worker[w].dead
  <2>1. worker' = worker /\ live' = live /\ exec' = [exec EXCEPT ![c] = "clearing"]
    BY <1>7 DEF Answered
  <2>2. "clearing" \in Line \ {"queued", "stopping"} BY DEF Line
  <2>3. worker \in [Call -> WorkerRecord] /\ (~worker[w].ran => worker[w].talk = 0)
    BY <1>2 DEF BaseInv, WorkersTyped, Fresh
  <2> HIDE DEF w
  <2>4. GoesOn(c, w) BY <1>3, <1>7, <2>1, <2>2, <2>3 DEF GoesOn
  <2>5. req[c].kind # "prewarm" BY <1>2, <1>7
  <2> QED BY <1>1, <1>2, <2>4, <2>5 DEF w
<1>8. CASE exec[c] = "clearing"
  <2> DEFINE W == [worker[w] EXCEPT !.talk = 0]
  <2>1. Prompt(c, W) BY <1>8 DEF Answered
  <2>2. W \in WorkerRecord /\ W.queue = worker[w].queue /\ W.dead = worker[w].dead
        /\ W.proc = worker[w].proc /\ W.talk = 0
    <3>1. 0 \in 0..2 OBVIOUS
    <3> HIDE DEF w
    <3> QED BY <1>3, <3>1 DEF WorkerRecord
  <2> HIDE DEF W
  <2>3. GoesOn(c, w) BY <1>2, <2>1, <2>2, Prompted
  <2> QED BY <1>1, <1>2, <1>8, <2>3
<1>9. CASE exec[c] = "reprompting" /\ ~worker[w].dead
  <2>1. Prompt(c, worker[w]) BY <1>9 DEF Answered
  <2>2. worker[w].talk = 0 BY <1>9 DEF BaseInv, Fresh
  <2>3. GoesOn(c, w) BY <1>2, <1>3, <2>1, <2>2, Prompted
  <2> QED BY <1>1, <1>2, <1>9, <2>3
<1> QED BY <1>1, <1>4, <1>5, <1>6, <1>7, <1>8, <1>9 DEF Pending

LEMMA AnsweredKeeps ==
  ASSUME BaseInv, NEW c \in Call, Answered(c)
  PROVE  BaseInv'
<1>0. /\ exec[c] \in Line /\ exec[c] # "queued" /\ mine[c] \in Call
      /\ CallsUnchanged /\ mode' = mode /\ stops' = stops
      /\ mode' \in [overlap : BOOLEAN, faults : Nat, mixed : BOOLEAN]
  BY AnsweredFacts DEF Pending, BaseInv, WorkersTyped
<1>1. CASE /\ req[c].kind = "prewarm" /\ exec' = [exec EXCEPT ![c] = "ok"]
           /\ worker' = worker /\ live' = live
  <2>1. exec'[c] = "ok" /\ \A d \in Call : d # c => exec'[d] = exec[d]
    BY <1>1 DEF BaseInv, WorkersTyped
  <2>2. \A w \in Call : Without(worker[w].queue, c) = worker[w].queue
    <3>1. \A w \in Call : c \notin ToSet(worker[w].queue) BY <1>0, <1>1, InLine
    <3>2. \A w \in Call : worker[w].queue \in Seq(Call) /\ IsInjective(worker[w].queue)
      BY RecordOf DEF BaseInv, Queues
    <3> QED BY <3>1, <3>2, RemovedFirst
  <2>3. Leaves(c, "ok") BY <1>1, <2>2 DEF Leaves
  <2>4. Lined' /\ Queues'
    BY <1>0, <2>3, QueueLeft
  <2>5. Elsewhere
    <3>1. "none" \notin Line BY DEF Line
    <3> QED BY <1>0, <1>1, <2>1, <3>1 DEF Elsewhere, Blank
  <2>6. WorkersTyped'
    <3>1. "ok" \in Exec BY DEF Exec
    <3> QED BY <1>0, <1>1, <3>1 DEF BaseInv, WorkersTyped
  <2>7. Fresh' BY <1>0, <1>1, <2>1, FreshKept
  <2> QED BY <2>4, <2>5, <2>6, <2>7, CallsKept DEF BaseInv
<1>2. CASE Outcome(c, "failed") /\ live' = live
  <2>1. stops' \subseteq StopRecord /\ \A s \in stops' : s \in stops
    BY <1>0 DEF BaseInv, WorkersTyped
  <2> QED BY <1>0, <1>2, <2>1, Leaving
<1>3. CASE req[c].kind # "prewarm" /\ GoesOn(c, mine[c])
  <2>1. c = Head(worker[mine[c]].queue) BY <1>0, <1>3, InLine
  <2> QED BY <1>0, <1>3, <2>1, GoingOn
<1> QED BY <1>1, <1>2, <1>3, AnsweredFacts

LEMMA OutcomesKeep ==
  ASSUME BaseInv, NEW c \in Call,
         Settles(c) \/ TimesOut(c) \/ StartupStopped(c) \/ Aborted(c)
  PROVE  /\ BaseInv' /\ exec[c] \in Line /\ CallsUnchanged /\ live' = live
         /\ \E result \in {"ok", "failed"} : Outcome(c, result) /\ Leaves(c, result)
         /\ \A s \in stops' : s \in stops \/ (s.w = mine[c] /\ s.why = "abort" /\ Aborted(c))
<1>1. /\ exec[c] \in Line /\ CallsUnchanged /\ live' = live
      /\ \E result \in {"ok", "failed"} : Outcome(c, result)
  BY DEF Settles, TimesOut, StartupStopped, Aborted, PoolUnchanged, Line, Pending, UpNext
<1>2. mode' \in [overlap : BOOLEAN, faults : Nat, mixed : BOOLEAN]
  <2>1. mode' = mode \/ Fault
    BY DEF Settles, TimesOut, StartupStopped, Aborted, PoolUnchanged
  <2> QED BY <2>1, FaultTyped DEF BaseInv, WorkersTyped
<1>3. mine[c] \in Call
  BY <1>1, InLine
<1>4. /\ stops' \subseteq StopRecord
      /\ \A s \in stops' : s \in stops \/ (s.w = mine[c] /\ s.why = "abort" /\ Aborted(c))
  <2>1. stops \subseteq StopRecord BY DEF BaseInv, WorkersTyped
  <2>2. CASE Aborted(c)
    <3>1. "abort" \in Why BY DEF Why
    <3>2. stops' = stops \cup (IF worker[mine[c]].dead THEN {} ELSE StopOf(mine[c], c, "abort"))
      BY <2>2 DEF Aborted
    <3> DEFINE N == StopOf(mine[c], c, "abort")
    <3>3. StopsBy(N, mine[c], c, "abort")
      BY Zenon, <1>3, <3>1, StopOfFacts
    <3>4. stops' = stops \/ stops' = stops \cup N
      BY Zenon, <3>2
    <3> HIDE DEF N
    <3> QED BY <2>1, <2>2, <3>3, <3>4 DEF StopsBy
  <2>3. CASE Settles(c) \/ TimesOut(c) \/ StartupStopped(c)
    <3>1. stops' = stops BY <2>3 DEF Settles, TimesOut, StartupStopped
    <3> QED BY <2>1, <3>1
  <2> QED BY <2>2, <2>3
<1>5. PICK result \in {"ok", "failed"} : Outcome(c, result)
  BY <1>1
<1>6. BaseInv' /\ Leaves(c, result)
  BY <1>1, <1>2, <1>4, <1>5, Leaving
<1> QED BY <1>1, <1>4, <1>5, <1>6

LEMMA StartupTimesOutKeeps ==
  ASSUME BaseInv, NEW c \in Call, StartupTimesOut(c)
  PROVE  /\ BaseInv' /\ exec[c] \in Line /\ exec' = [exec EXCEPT ![c] = "stopping"]
         /\ CallsUnchanged /\ worker' = worker /\ live' = live
         /\ \A s \in stops' : s \in stops \/ (s.w = mine[c] /\ s.why = "exec")
<1>1. /\ exec[c] \in Line \ {"queued"} /\ req[c].kind # "prewarm"
      /\ exec' = [exec EXCEPT ![c] = "stopping"]
      /\ CallsUnchanged /\ worker' = worker /\ live' = live
      /\ stops' = stops \cup StopOf(mine[c], c, "exec")
  BY DEF StartupTimesOut, Line
<1>2. mine[c] \in Call /\ ~Blank(mine[c]) /\ c = Head(worker[mine[c]].queue)
  BY <1>1, InLine
<1>3. mode' \in [overlap : BOOLEAN, faults : Nat, mixed : BOOLEAN]
  BY FaultTyped DEF StartupTimesOut
<1> DEFINE N == StopOf(mine[c], c, "exec")
<1>4. \A s \in N : s \in StopRecord /\ s.w = mine[c] /\ s.why = "exec"
  <2>1. "exec" \in Why BY DEF Why
  <2>2. StopsBy(N, mine[c], c, "exec") BY Zenon, <1>2, <2>1, StopOfFacts
  <2> HIDE DEF N
  <2> QED BY <2>2 DEF StopsBy
<1>5. stops' = stops \cup N
  BY <1>1
<1> HIDE DEF N
<1>6. exec'[c] = "stopping" /\ \A d \in Call : d # c => exec'[d] = exec[d]
  BY <1>1 DEF BaseInv, WorkersTyped
<1>7. Elsewhere
  <2>1. "none" \notin Line BY DEF Line
  <2> QED BY <1>1, <1>2, <1>4, <1>5, <1>6, <2>1 DEF Elsewhere, Blank
<1>8. WorkersTyped'
  <2>1. "stopping" \in Exec BY DEF Exec
  <2> QED BY <1>1, <1>3, <1>4, <1>5, <2>1 DEF BaseInv, WorkersTyped
<1>9. Lined' /\ Queues'
  <2>1. "stopping" \in Line \ {"queued"} BY DEF Line
  <2> QED BY <1>1, <1>2, <2>1, HeadGoesOn
<1>10. Fresh' BY <1>1, <1>6, FreshKept
<1> QED BY <1>1, <1>4, <1>5, <1>7, <1>8, <1>9, <1>10, CallsKept DEF BaseInv

LEMMA StopKillKeeps ==
  ASSUME BaseInv, NEW s \in stops, StopKill(s)
  PROVE  /\ BaseInv' /\ CallsUnchanged /\ mode' = mode
         /\ Converts((stops \ {s}) \cup {[s EXCEPT !.killed = TRUE]}, stops')
<1> DEFINE r == [s EXCEPT !.killed = TRUE]
           ended == (stops \ {s}) \cup {r}
<1>1. /\ PoolUnchanged /\ stops' \in {ended, Rejecting(s.w, ended)}
  BY DEF StopKill
<1>2. s \in StopRecord /\ r \in StopRecord /\ r.w = s.w /\ s.w \in Call
  BY DEF BaseInv, WorkersTyped, StopRecord
<1>3. CallsUnchanged /\ mode' \in [overlap : BOOLEAN, faults : Nat, mixed : BOOLEAN] /\ mode' = mode
  BY <1>1 DEF PoolUnchanged, BaseInv, WorkersTyped
<1> HIDE DEF r
<1>a. ended \subseteq StopRecord /\ \A t \in ended : \E u \in stops : t.w = u.w
  BY <1>2 DEF BaseInv, WorkersTyped
<1> HIDE DEF ended
<1>b. Converts(ended, stops')
  <2>1. Converts(ended, ended) BY <1>a DEF Converts
  <2>2. Converts(ended, Rejecting(s.w, ended)) BY <1>2, <1>a, RejectingConverts
  <2> QED BY <1>1, <2>1, <2>2
<1>4. /\ stops' \subseteq StopRecord
      /\ \A t \in stops' : \E u \in stops : t.w = u.w
  BY <1>a, <1>b DEF Converts
<1>c. Converts((stops \ {s}) \cup {[s EXCEPT !.killed = TRUE]}, stops')
  BY <1>b DEF ended, r
<1>5. CASE <<s.w, s.proc>> \in live
  <2>1. Fail(s.w, {<<s.w, s.proc>>}) BY <1>5 DEF StopKill
  <2>2. ~Blank(s.w) BY InUseIsThere
  <2>3. BaseInv' BY <1>2, <1>3, <1>4, <2>1, <2>2, Failing
  <2> QED BY <1>3, <1>c, <2>3
<1>6. CASE <<s.w, s.proc>> \notin live
  <2>1. worker' = worker /\ exec' = exec /\ live' = live
    BY <1>6 DEF StopKill, WorkerUnchanged
  <2>2. worker' \in [Call -> WorkerRecord]
    BY <2>1 DEF BaseInv, WorkersTyped
  <2>3. BaseInv' BY <1>1, <1>4, <2>1, <2>2, OnlyStops
  <2> QED BY <1>3, <1>c, <2>3
<1> QED BY <1>5, <1>6

\* The end of a stop touches one worker: it is dead, and has no process if it was that one.
LEMMA StopEndFacts ==
  ASSUME BaseInv, NEW s \in stops, StopEnd(s)
  PROVE  /\ s \in StopRecord /\ s.w \in Call /\ s.killed /\ stops' = stops \ {s}
         /\ PoolUnchanged /\ live' = live /\ exec' = exec
         /\ worker' \in [Call -> WorkerRecord]
         /\ \A u \in Call : u # s.w => worker'[u] = worker[u]
         /\ worker'[s.w].dead = TRUE /\ worker'[s.w].ran = worker[s.w].ran
         /\ worker'[s.w].talk = worker[s.w].talk /\ worker'[s.w].queue = worker[s.w].queue
         /\ worker'[s.w].proc =
              IF worker[s.w].proc = s.proc /\ s.why # "kill" THEN 0 ELSE worker[s.w].proc
<1> DEFINE w == s.w
           n == IF worker[w].proc = s.proc /\ s.why # "kill" THEN 0 ELSE worker[w].proc
           A == [worker[w] EXCEPT !.dead = TRUE]
           B == [A EXCEPT !.proc = n]
<1>1. s \in StopRecord /\ w \in Call
  BY DEF BaseInv, WorkersTyped, StopRecord
<1>2. worker[w] \in WorkerRecord /\ worker \in [Call -> WorkerRecord]
  BY <1>1 DEF BaseInv, WorkersTyped
<1>3. worker' = [worker EXCEPT ![w].dead = TRUE,
                   ![w].proc = IF @ = s.proc /\ s.why # "kill" THEN 0 ELSE @]
  BY Zenon DEF StopEnd
<1>4. s.killed /\ stops' = stops \ {s} /\ PoolUnchanged /\ live' = live /\ exec' = exec
  BY DEF StopEnd
<1>5. worker' = [worker EXCEPT ![w] = B]
  <2>1. A.proc = worker[w].proc BY <1>2 DEF WorkerRecord
  <2> QED BY <1>1, <1>2, <1>3, <2>1
<1>6. n \in 0..MaxProcs
  <2>1. worker[w].proc \in 0..MaxProcs BY <1>2 DEF WorkerRecord
  <2> QED BY <2>1, Constants
<1> HIDE DEF n
<1>7. A \in WorkerRecord /\ A.dead = TRUE /\ A.queue = worker[w].queue /\ A.ran = worker[w].ran
      /\ A.talk = worker[w].talk
  BY <1>2 DEF WorkerRecord
<1> HIDE DEF A
<1>8. B \in WorkerRecord /\ B.dead = TRUE /\ B.queue = worker[w].queue /\ B.ran = worker[w].ran
      /\ B.talk = worker[w].talk /\ B.proc = n
  BY <1>6, <1>7 DEF WorkerRecord
<1> HIDE DEF B, w
<1>9. /\ worker' \in [Call -> WorkerRecord] /\ worker'[w] = B
      /\ \A u \in Call : u # w => worker'[u] = worker[u]
  BY <1>1, <1>2, <1>5, <1>8
<1> QED BY <1>1, <1>4, <1>8, <1>9 DEF n, w

\* A request to abort that fails becomes a kill; a worker without a process is dead.
LEMMA AbortFailsFacts ==
  ASSUME BaseInv, NEW s \in stops, AbortFails(s)
  PROVE  /\ s.w \in Call /\ PoolUnchanged /\ live' = live /\ exec' = exec
         /\ Converts(stops, stops')
         /\ worker' \in [Call -> WorkerRecord]
         /\ \A u \in Call : u # s.w => worker'[u] = worker[u]
         /\ worker' = worker \/ worker'[s.w].dead = TRUE
         /\ worker'[s.w].proc = worker[s.w].proc /\ worker'[s.w].ran = worker[s.w].ran
         /\ worker'[s.w].talk = worker[s.w].talk /\ worker'[s.w].queue = worker[s.w].queue
<1> DEFINE N == StopOf(s.w, s.by, "kill")
           w == s.w
<1>1. /\ s.why = "abort" /\ PoolUnchanged /\ live' = live /\ exec' = exec
      /\ stops' = (stops \ {s}) \cup N
      /\ worker' = [worker EXCEPT ![w].dead = TRUE] \/ worker' = worker
  BY DEF AbortFails
<1>2. w \in Call /\ s.by \in Call /\ stops \subseteq StopRecord
  BY DEF BaseInv, WorkersTyped, StopRecord
<1>3. StopsBy(N, w, s.by, "kill")
  <2>1. "kill" \in Why BY DEF Why
  <2> QED BY Zenon, <1>2, <2>1, StopOfFacts
<1> HIDE DEF N
<1>4. Converts(stops, stops')
  <2>1. \A t \in N : t \in StopRecord /\ t.why = "kill" /\ t.killed = FALSE /\ t.w = s.w
    BY <1>3 DEF StopsBy
  <2> QED BY <1>1, <1>2, <2>1 DEF Converts
<1> HIDE DEF w
<1>5. worker \in [Call -> WorkerRecord] /\ worker[w] \in WorkerRecord
  BY <1>2 DEF BaseInv, WorkersTyped
<1>6. CASE worker' = worker BY <1>1, <1>2, <1>4, <1>5, <1>6 DEF w
<1>7. CASE worker' = [worker EXCEPT ![w].dead = TRUE]
  <2> DEFINE A == [worker[w] EXCEPT !.dead = TRUE]
  <2>1. A \in WorkerRecord /\ A.dead = TRUE /\ A.proc = worker[w].proc /\ A.ran = worker[w].ran
        /\ A.talk = worker[w].talk /\ A.queue = worker[w].queue
    BY <1>5 DEF WorkerRecord
  <2>2. worker' = [worker EXCEPT ![w] = A] BY <1>7
  <2> HIDE DEF A
  <2>3. /\ worker' \in [Call -> WorkerRecord] /\ worker'[w] = A
        /\ \A u \in Call : u # w => worker'[u] = worker[u]
    BY <1>2, <1>5, <2>1, <2>2
  <2> QED BY <1>1, <1>2, <1>4, <2>1, <2>3 DEF w
<1> QED BY <1>1, <1>6, <1>7

LEMMA StopStepKeeps ==
  ASSUME BaseInv, NEW s \in stops, StopStep(s)
  PROVE  BaseInv'
<1>1. CASE StopKill(s)
  BY <1>1, StopKillKeeps
<1>2. CASE StopEnd(s)
  <2> DEFINE w == s.w
  <2>1. /\ stops' = stops \ {s} /\ PoolUnchanged /\ live' = live /\ exec' = exec
        /\ worker' \in [Call -> WorkerRecord] /\ w \in Call
        /\ \A u \in Call : u # w => worker'[u] = worker[u]
        /\ worker'[w].ran = worker[w].ran
        /\ worker'[w].talk = worker[w].talk /\ worker'[w].queue = worker[w].queue
    BY <1>2, StopEndFacts
  <2>2. ~Blank(w) BY InUseIsThere
  <2>3. stops' \subseteq StopRecord /\ \A t \in stops' : t \in stops
    BY <2>1 DEF BaseInv, WorkersTyped
  <2> HIDE DEF w
  <2>4. \A u \in Call : /\ worker'[u].ran = worker[u].ran /\ worker'[u].talk = worker[u].talk
                        /\ worker'[u].queue = worker[u].queue
                        /\ Blank(u) => worker'[u] = worker[u]
    BY <2>1, <2>2
  <2> QED BY <2>1, <2>3, <2>4, OnlyStops
<1>3. CASE AbortAccepted(s)
  <2>1. /\ stops' = stops \ {s} /\ PoolUnchanged /\ live' = live /\ exec' = exec
        /\ worker' = worker
    BY <1>3 DEF AbortAccepted, WorkerUnchanged
  <2>2. stops' \subseteq StopRecord /\ worker' \in [Call -> WorkerRecord]
    BY <2>1 DEF BaseInv, WorkersTyped
  <2> QED BY <2>1, <2>2, OnlyStops
<1>4. CASE AbortFails(s)
  <2> DEFINE w == s.w
  <2>1. /\ w \in Call /\ PoolUnchanged /\ live' = live /\ exec' = exec /\ Converts(stops, stops')
        /\ worker' \in [Call -> WorkerRecord]
        /\ \A u \in Call : u # w => worker'[u] = worker[u]
        /\ worker'[w].ran = worker[w].ran
        /\ worker'[w].talk = worker[w].talk /\ worker'[w].queue = worker[w].queue
    BY <1>4, AbortFailsFacts
  <2>2. ~Blank(w) BY InUseIsThere
  <2>3. stops' \subseteq StopRecord /\ \A t \in stops' : \E u \in stops : t.w = u.w
    BY <2>1 DEF Converts
  <2> HIDE DEF w
  <2>4. \A u \in Call : /\ worker'[u].ran = worker[u].ran /\ worker'[u].talk = worker[u].talk
                        /\ worker'[u].queue = worker[u].queue
                        /\ Blank(u) => worker'[u] = worker[u]
    BY <2>1, <2>2
  <2> QED BY <2>1, <2>3, <2>4, OnlyStops
<1> QED BY <1>1, <1>2, <1>3, <1>4 DEF StopStep

\* A process that ends and a pipe that breaks reject what waits on the worker.
LEMMA Losses ==
  ASSUME BaseInv,
         (\E p \in live : ProcessExits(p)) \/ (\E w \in Call : PipeBreaks(w))
  PROVE  /\ Turn /\ CallsUnchanged /\ Fault /\ Converts(stops, stops')
         /\ \E w \in Call : ~Blank(w) /\ \E gone : Fail(w, gone) /\ \A q \in gone : q[1] = w
<1>1. Turn /\ CallsUnchanged /\ Fault BY DEF ProcessExits, PipeBreaks
<1>2. stops \in SUBSET StopRecord BY DEF BaseInv, WorkersTyped
<1>3. ASSUME NEW p \in live, ProcessExits(p)
      PROVE  /\ Converts(stops, stops')
             /\ \E w \in Call : ~Blank(w) /\ \E gone : Fail(w, gone) /\ \A q \in gone : q[1] = w
  <2>1. p[1] \in Call BY DEF BaseInv, WorkersTyped
  <2>2. ~Blank(p[1]) BY InUseIsThere
  <2>3. Fail(p[1], {p}) /\ stops' = Rejecting(p[1], stops) BY <1>3 DEF ProcessExits
  <2>4. \A q \in {p} : q[1] = p[1] OBVIOUS
  <2>5. Converts(stops, stops') BY <1>2, <2>1, <2>3, RejectingConverts
  <2> QED BY <2>1, <2>2, <2>3, <2>4, <2>5
<1>4. ASSUME NEW w \in Call, PipeBreaks(w)
      PROVE  /\ Converts(stops, stops')
             /\ ~Blank(w) /\ \E gone : Fail(w, gone) /\ \A q \in gone : q[1] = w
  <2>1. Fail(w, {}) /\ stops' = Rejecting(w, stops) /\ \E c \in Call : mine[c] = w
    BY <1>4 DEF PipeBreaks
  <2>2. ~Blank(w) BY <2>1, InUseIsThere
  <2>3. Converts(stops, stops') BY <1>2, <2>1, RejectingConverts
  <2> QED BY <2>1, <2>2, <2>3
<1> QED BY <1>1, <1>3, <1>4

LEMMA LossKeeps ==
  ASSUME BaseInv,
         (\E p \in live : ProcessExits(p)) \/ (\E w \in Call : PipeBreaks(w))
  PROVE  BaseInv'
<1>1. /\ CallsUnchanged /\ Fault /\ Converts(stops, stops')
      /\ \E w \in Call : ~Blank(w) /\ \E gone : Fail(w, gone)
  BY Losses
<1>2. /\ mode' \in [overlap : BOOLEAN, faults : Nat, mixed : BOOLEAN]
      /\ stops' \subseteq StopRecord /\ \A t \in stops' : \E u \in stops : t.w = u.w
  BY <1>1, FaultTyped DEF Converts
<1> QED BY <1>1, <1>2, Failing

LEMMA WorkerStepsKeep ==
  ASSUME BaseInv,
         \/ \E c \in Call : ExecStep(c)
         \/ \E s \in stops : StopStep(s)
         \/ \E p \in live : ProcessExits(p)
         \/ \E w \in Call : PipeBreaks(w)
  PROVE  BaseInv'
<1>1. ASSUME NEW c \in Call, ExecStep(c) PROVE BaseInv'
  <2>1. \/ ExecStart(c) \/ Answered(c) \/ StartupTimesOut(c)
        \/ (Settles(c) \/ TimesOut(c) \/ StartupStopped(c) \/ Aborted(c))
    BY <1>1 DEF ExecStep
  <2> QED BY <2>1, ExecStartKeeps, AnsweredKeeps, StartupTimesOutKeeps, OutcomesKeep
<1> QED BY <1>1, StopStepKeeps, LossKeeps

-----------------------------------------------------------------------------
(* The pool's thread.                                                       *)

LEMMA BegunBy ==
  ASSUME BaseInv, NEW c \in Call, NEW k \in Key, NEW f \in Fence, NEW kind \in Kind,
         Begin(c, k, f, kind)
  PROVE  /\ pc[c] = "idle" /\ Blank(c) /\ mine[c] = None /\ exec[c] = "none" /\ mode' = mode
         /\ c \notin ToSet(pool)
         /\ req' \in [Call -> Request \cup {None}] /\ req'[c] \in Request
         /\ req'[c].kind = kind /\ req'[c].key = k /\ req'[c].spec = f
         /\ \A d \in Call : d # c => req'[d] = req[d]
<1> DEFINE r == [kind |-> kind, key |-> k, spec |-> f]
<1>1. pc[c] = "idle" /\ req' = [req EXCEPT ![c] = r] /\ mode' = mode
  BY DEF Begin, MayBegin
<1>2. r \in Request /\ r.kind = kind /\ r.key = k /\ r.spec = f
  BY DEF Request
<1> HIDE DEF r
<1>3. Blank(c) /\ mine[c] = None /\ exec[c] = "none" /\ c \notin ToSet(pool)
  BY <1>1 DEF BaseInv, Owned, Blank
<1> QED BY <1>1, <1>2, <1>3 DEF BaseInv, CallsTyped

\* A thread of the pool goes on to `p` without touching a worker: it begins, forgets
\* workers or calls their stop.
Moves(c, p) ==
  /\ worker' = worker /\ live' = live /\ exec' = exec /\ mine' = mine /\ mode' = mode
  /\ \/ req' = req /\ pc[c] # "idle"
     \/ /\ pc[c] = "idle"
        /\ req' \in [Call -> Request \cup {None}] /\ req'[c] \in Request
        /\ \A d \in Call : d # c => req'[d] = req[d]
  /\ reserved' \in [Key -> Nat]
  /\ pc' = [pc EXCEPT ![c] = p]
  /\ pool' \in Seq(Call) /\ IsInjective(pool') /\ ToSet(pool') \subseteq ToSet(pool)
  /\ stops' \subseteq StopRecord
  /\ \A s \in stops' : s \in stops \/ ~Blank(s.w)

LEMMA Moving ==
  ASSUME BaseInv, NEW c \in Call, NEW p \in Pc \ {"idle", "warm"}, Moves(c, p),
         p \in {"prune", "await", "replace", "failed", "pruneAll", "finish"} => req'[c].kind \in Using,
         p = "await" \/ (p = "prune" /\ req'[c].kind # "prewarm") => mine[c] # None,
         p = "await" => req'[c].kind # "prewarm",
         p = "replace" => Blank(c),
         mine[c] # None => p \in {"prune", "await", "failed", "pruneAll", "finish"},
         exec[c] \in Line => pc[c] \in {"prune", "await"} /\ p \in {"prune", "await"}
  PROVE  BaseInv'
<1>1. /\ worker' = worker /\ live' = live /\ exec' = exec /\ mine' = mine /\ mode' = mode
      /\ pc' = [pc EXCEPT ![c] = p]
      /\ pool' \in Seq(Call) /\ IsInjective(pool') /\ ToSet(pool') \subseteq ToSet(pool)
      /\ stops' \subseteq StopRecord
      /\ \A s \in stops' : s \in stops \/ ~Blank(s.w)
  BY DEF Moves
<1>2. pc'[c] = p /\ \A d \in Call : d # c => pc'[d] = pc[d]
  BY <1>1 DEF BaseInv, CallsTyped
<1>3. /\ \A d \in Call : req[d] # None => req'[d] = req[d]
      /\ \A d \in Call : d # c => req'[d] = req[d]
      /\ req'[c] # None
  <2>1. pc[c] = "idle" <=> req[c] = None BY DEF BaseInv, Asked
  <2>2. None \notin Request BY NoneAssumption
  <2> QED BY <2>1, <2>2 DEF Moves
<1>4. CallsTyped'
  <2>1. req' \in [Call -> Request \cup {None}] BY DEF Moves, BaseInv, CallsTyped
  <2>2. pc' \in [Call -> Pc] BY <1>1 DEF BaseInv, CallsTyped
  <2>3. reserved' \in [Key -> Nat] BY DEF Moves
  <2> QED BY <1>1, <2>1, <2>2, <2>3 DEF BaseInv, CallsTyped
<1>5. WorkersTyped'
  BY <1>1 DEF BaseInv, WorkersTyped
<1>6. \A w \in ToSet(pool) : w \in Call /\ req[w] # None
  <2>1. pool \in Seq(Call) BY DEF BaseInv, CallsTyped
  <2> QED BY <2>1, SeqFacts DEF BaseInv, PoolKeys
<1>7. PoolKeys'
  <2>1. \A w \in ToSet(pool) : req'[w] = req[w] /\ req[w] # None BY <1>3, <1>6
  <2>2. \A v, w \in ToSet(pool) : req[v].key = req[w].key => v = w BY DEF BaseInv, PoolKeys, KeyOf
  <2> QED BY <1>1, <2>1, <2>2 DEF PoolKeys, KeyOf
<1>8. ASSUME NEW u \in Call, Blank(u) PROVE Blank(u)'
  <2>1. \A s \in stops' : s.w # u BY <1>1, <1>8 DEF Blank
  <2> QED BY <1>1, <1>8, <2>1 DEF Blank
<1>9. Asked'
  <2> SUFFICES ASSUME NEW d \in Call
               PROVE  /\ pc'[d] = "idle" <=> req'[d] = None
                      /\ pc'[d] \in {"prune", "await", "warm", "replace", "failed", "pruneAll", "finish"} =>
                           req'[d].kind \in Using
                      /\ pc'[d] = "await" => req'[d].kind # "prewarm"
                      /\ pc'[d] = "await" \/ (pc'[d] = "prune" /\ req'[d].kind # "prewarm") => mine'[d] # None
                      /\ pc'[d] = "warm" => req'[d].kind = "prewarm" /\ mine'[d] = d
    BY DEF Asked
  <2>1. CASE d = c BY <1>1, <1>2, <1>3, <2>1
  <2>2. CASE d # c BY <1>1, <1>2, <1>3, <2>2 DEF BaseInv, Asked
  <2> QED BY <2>1, <2>2
<1>10. Owned'
  <2> SUFFICES ASSUME NEW d \in Call
               PROVE  /\ mine[d] # None =>
                           /\ pc'[d] \in {"prune", "await", "warm", "failed", "pruneAll", "finish"}
                           /\ req'[mine[d]] # None /\ req'[mine[d]].key = req'[d].key
                      /\ mine[d] # None /\ mine[d] # d => Blank(d)
                      /\ pc'[d] \in {"idle", "replace"} => Blank(d)
                      /\ mine[d] = None => exec[d] = "none"
    BY <1>1, <1>8 DEF Owned, KeyOf
  <2>1. /\ mine[d] # None => /\ pc[d] \in {"prune", "await", "warm", "failed", "pruneAll", "finish"}
                             /\ req[mine[d]] # None /\ req[mine[d]].key = req[d].key
                             /\ mine[d] \in Call /\ req[d] # None
        /\ mine[d] # None /\ mine[d] # d => Blank(d)
        /\ pc[d] \in {"idle", "replace"} => Blank(d)
        /\ mine[d] = None => exec[d] = "none"
    BY DEF BaseInv, Owned, KeyOf, CallsTyped, Asked
  <2>2. mine[d] # None => req'[mine[d]] = req[mine[d]] /\ req'[d] = req[d]
    BY <1>3, <2>1
  <2>3. CASE d = c BY <1>2, <2>1, <2>2, <2>3
  <2>4. CASE d # c BY <1>2, <2>1, <2>2, <2>4
  <2> QED BY <2>3, <2>4
<1>11. \A d \in Call : exec[d] \in Line => req'[d] = req[d]
  <2>1. \A d \in Call : exec[d] \in Line => pc[d] # "idle" BY InLine
  <2> QED BY <1>3, <2>1 DEF BaseInv, Asked
<1>12. Lined'
  <2> SUFFICES ASSUME NEW d \in Call, exec[d] \in Line
               PROVE  \/ /\ req'[d].kind \in {"run", "resume"} /\ pc'[d] \in {"prune", "await"}
                         /\ mine[d] # None /\ d \in ToSet(worker[mine[d]].queue)
                      \/ exec[d] = "starting" /\ pc'[d] = "warm"
    BY <1>1 DEF Lined
  <2>1. CASE d = c BY <1>2, <1>11, <2>1 DEF BaseInv, Lined
  <2>2. CASE d # c BY <1>2, <1>11, <2>2 DEF BaseInv, Lined
  <2> QED BY <2>1, <2>2
<1>13. Queues'
  <2> SUFFICES ASSUME NEW w \in Call, NEW d \in ToSet(worker[w].queue)
               PROVE  /\ mine[d] = w /\ exec[d] \in Line
                      /\ req'[d].kind \in {"run", "resume"} /\ pc'[d] \in {"prune", "await"}
                      /\ d # Head(worker[w].queue) => exec[d] = "queued"
    BY <1>1 DEF BaseInv, Queues
  <2>1. /\ d \in Call /\ mine[d] = w /\ exec[d] \in Line
        /\ req[d].kind \in {"run", "resume"} /\ pc[d] \in {"prune", "await"}
        /\ d # Head(worker[w].queue) => exec[d] = "queued"
    BY RecordOf, SeqFacts DEF BaseInv, Queues
  <2> QED BY <1>2, <1>11, <2>1
<1>14. Fresh'
  <2>1. \A d \in Call : exec[d] = "running" => exec[d] \in Line BY DEF Line
  <2> QED BY <1>1, <1>11, <2>1 DEF BaseInv, Fresh
<1> QED BY <1>4, <1>5, <1>7, <1>9, <1>10, <1>12, <1>13, <1>14 DEF BaseInv

\* Every stop of the workers in W by call c.
StopsOf(N, W, c, why) ==
  \A s \in N : /\ s \in StopRecord /\ s.w \in W /\ s.by = c /\ s.why = why
               /\ s.proc = worker[s.w].proc /\ s.killed = FALSE /\ ~Blank(s.w)

LEMMA ManyStops ==
  ASSUME BaseInv, NEW c \in Call, NEW why \in Why, NEW W \in SUBSET ToSet(pool)
  PROVE  StopsOf(UNION {StopOf(w, c, why) : w \in W}, W, c, why)
<1> SUFFICES ASSUME NEW w \in W, NEW s \in StopOf(w, c, why)
             PROVE  /\ s \in StopRecord /\ s.w \in W /\ s.by = c /\ s.why = why
                    /\ s.proc = worker[s.w].proc /\ s.killed = FALSE /\ ~Blank(s.w)
  BY DEF StopsOf
<1>1. w \in ToSet(pool) /\ w \in Call
  <2>1. pool \in Seq(Call) BY DEF BaseInv, CallsTyped
  <2> QED BY <2>1, SeqFacts
<1>2. StopsBy(StopOf(w, c, why), w, c, why)
  BY <1>1, StopOfFacts
<1>3. ~Blank(w)
  BY <1>1, InUseIsThere
<1> QED BY <1>2, <1>3 DEF StopsBy

LEMMA TrackedFacts ==
  ASSUME BaseInv, NEW k
  PROVE  /\ Tracked(k) \in SUBSET ToSet(pool)
         /\ \A w \in Tracked(k) : w \in Call /\ KeyOf(w) = k /\ req[w] # None /\ ~Blank(w)
         /\ \A v, w \in Tracked(k) : v = w
<1>1. pool \in Seq(Call) /\ PoolKeys BY DEF BaseInv, CallsTyped
<1>2. \A w \in ToSet(pool) : w \in Call /\ ~Blank(w) BY <1>1, SeqFacts, InUseIsThere
<1> QED BY <1>1, <1>2 DEF Tracked, PoolKeys

LEMMA ReserveTyped ==
  ASSUME BaseInv, NEW k \in Key, Reserve(k) \/ Release(k) \/ UNCHANGED reserved
  PROVE  reserved' \in [Key -> Nat]
<1>1. reserved \in [Key -> Nat] BY DEF BaseInv, CallsTyped
<1>2. CASE Reserve(k) BY <1>1, <1>2 DEF Reserve
<1>3. CASE Release(k)
  <2>1. reserved[k] \in Nat BY <1>1
  <2>2. (IF reserved[k] > 0 THEN reserved[k] - 1 ELSE 0) \in Nat BY <2>1
  <2> QED BY <1>1, <1>3, <2>2 DEF Release
<1> QED BY <1>1, <1>2, <1>3

LEMMA PoolTyped ==
  ASSUME BaseInv
  PROVE  /\ pool \in Seq(Call) /\ IsInjective(pool) /\ PoolKeys
         /\ \A w \in ToSet(pool) : w \in Call
BY SeqFacts DEF BaseInv, CallsTyped, PoolKeys

-----------------------------------------------------------------------------
LEMMA ResumeRefusedMoves ==
  ASSUME BaseInv, NEW c \in Call, NEW k \in Key, NEW f \in Fence, ResumeRefused(c, k, f)
  PROVE  /\ BaseInv' /\ Moves(c, "failed") /\ Reserve(k) /\ pc[c] = "idle"
         /\ req'[c].key = k /\ req'[c].kind = "resume" /\ req'[c].spec = f
         /\ \A s \in stops' : s \in stops \/ s.why = "own"
<1>1. /\ Begin(c, k, f, "resume") /\ Reserve(k) /\ Goto(c, "failed") /\ pool' = Forgetting(k)
      /\ UNCHANGED <<mine, worker, live, exec>>
      /\ stops' = stops \cup UNION {StopOf(w, c, "own") : w \in Tracked(k)}
  BY DEF ResumeRefused
<1>2. /\ pc[c] = "idle" /\ Blank(c) /\ mine[c] = None /\ exec[c] = "none" /\ mode' = mode
      /\ req' \in [Call -> Request \cup {None}] /\ req'[c] \in Request
      /\ req'[c].kind = "resume" /\ req'[c].key = k /\ req'[c].spec = f
      /\ \A d \in Call : d # c => req'[d] = req[d]
  <2>1. "resume" \in Kind BY DEF Kind
  <2> QED BY <1>1, <2>1, BegunBy
<1>3. pool' \in Seq(Call) /\ IsInjective(pool') /\ ToSet(pool') \subseteq ToSet(pool)
  BY <1>1, PoolTyped, Forgotten
<1>4. /\ stops' \subseteq StopRecord
      /\ \A s \in stops' : s \in stops \/ (~Blank(s.w) /\ s.why = "own")
  <2>1. "own" \in Why BY DEF Why
  <2>2. Tracked(k) \in SUBSET ToSet(pool) BY TrackedFacts
  <2> DEFINE N == UNION {StopOf(w, c, "own") : w \in Tracked(k)}
  <2>3. StopsOf(N, Tracked(k), c, "own") BY Zenon, <2>1, <2>2, ManyStops
  <2>4. stops' = stops \cup N BY <1>1
  <2> HIDE DEF N
  <2> QED BY <2>3, <2>4 DEF StopsOf, BaseInv, WorkersTyped
<1>5. Moves(c, "failed")
  BY <1>1, <1>2, <1>3, <1>4, ReserveTyped DEF Moves, Goto
<1>6. "failed" \in Pc \ {"idle", "warm"} /\ "none" \notin Line /\ "resume" \in Using
  BY DEF Pc, Line, Using
<1> QED BY <1>1, <1>2, <1>4, <1>5, <1>6, Moving

LEMMA ReplacesMoves ==
  ASSUME BaseInv, NEW c \in Call, NEW k \in Key, NEW f \in Fence, NEW kind \in Using,
         Replaces(c, k, f, kind)
  PROVE  /\ BaseInv' /\ Moves(c, "replace") /\ Reserve(k) /\ pc[c] = "idle"
         /\ req'[c].key = k /\ req'[c].kind = kind /\ req'[c].spec = f
         /\ \A s \in stops' : s \in stops \/ s.why = "own"
<1>1. /\ Begin(c, k, f, kind) /\ Reserve(k) /\ Goto(c, "replace")
      /\ UNCHANGED <<mine, worker, live, exec>>
      /\ \E w \in Tracked(k) : pool' = Without(pool, w) /\ stops' = stops \cup StopOf(w, c, "own")
  BY DEF Replaces
<1>2. /\ pc[c] = "idle" /\ Blank(c) /\ mine[c] = None /\ exec[c] = "none" /\ mode' = mode
      /\ req' \in [Call -> Request \cup {None}] /\ req'[c] \in Request
      /\ req'[c].kind = kind /\ req'[c].key = k /\ req'[c].spec = f
      /\ \A d \in Call : d # c => req'[d] = req[d]
  <2>1. kind \in Kind BY DEF Kind, Using
  <2> QED BY <1>1, <2>1, BegunBy
<1>3. PICK w \in Tracked(k) : pool' = Without(pool, w) /\ stops' = stops \cup StopOf(w, c, "own")
  BY <1>1
<1>4. w \in Call /\ ~Blank(w)
  BY TrackedFacts
<1>5. pool' \in Seq(Call) /\ IsInjective(pool') /\ ToSet(pool') \subseteq ToSet(pool)
  BY <1>3, PoolTyped, RemovedFirst
<1>6. /\ stops' \subseteq StopRecord
      /\ \A s \in stops' : s \in stops \/ (~Blank(s.w) /\ s.why = "own")
  <2> DEFINE N == StopOf(w, c, "own")
  <2>1. "own" \in Why BY DEF Why
  <2>2. StopsBy(N, w, c, "own") BY Zenon, <1>4, <2>1, StopOfFacts
  <2>3. stops' = stops \cup N BY <1>3
  <2> HIDE DEF N
  <2> QED BY <1>4, <2>2, <2>3 DEF StopsBy, BaseInv, WorkersTyped
<1>7. Moves(c, "replace")
  BY <1>1, <1>2, <1>5, <1>6, ReserveTyped DEF Moves, Goto
<1>8. "replace" \in Pc \ {"idle", "warm"} /\ "none" \notin Line
  BY DEF Pc, Line
<1> QED BY <1>1, <1>2, <1>6, <1>7, <1>8, Moving

LEMMA PrewarmReusesMoves ==
  ASSUME BaseInv, NEW c \in Call, NEW k \in Key, NEW f \in Fence, PrewarmReuses(c, k, f)
  PROVE  /\ BaseInv' /\ Moves(c, "prune") /\ Reserve(k) /\ pc[c] = "idle" /\ stops' = stops
         /\ req'[c].key = k /\ req'[c].kind = "prewarm" /\ req'[c].spec = f
<1>1. /\ Begin(c, k, f, "prewarm") /\ Reserve(k) /\ Goto(c, "prune")
      /\ UNCHANGED <<mine, stops>> /\ WorkerUnchanged
      /\ \E w \in Tracked(k) : pool' = Touch(w)
  BY DEF PrewarmReuses
<1>2. /\ pc[c] = "idle" /\ Blank(c) /\ mine[c] = None /\ exec[c] = "none" /\ mode' = mode
      /\ req' \in [Call -> Request \cup {None}] /\ req'[c] \in Request
      /\ req'[c].kind = "prewarm" /\ req'[c].key = k /\ req'[c].spec = f
      /\ \A d \in Call : d # c => req'[d] = req[d]
  <2>1. "prewarm" \in Kind BY DEF Kind
  <2> QED BY <1>1, <2>1, BegunBy
<1>3. pool' \in Seq(Call) /\ IsInjective(pool') /\ ToSet(pool') \subseteq ToSet(pool)
  <2>1. PICK w \in Tracked(k) : pool' = Touch(w) BY <1>1
  <2>2. w \in ToSet(pool) BY TrackedFacts
  <2> QED BY <2>1, <2>2, PoolTyped, Touched
<1>4. Moves(c, "prune")
  BY <1>1, <1>2, <1>3, ReserveTyped DEF Moves, Goto, WorkerUnchanged, BaseInv, WorkersTyped
<1>5. "prune" \in Pc \ {"idle", "warm"} /\ "none" \notin Line /\ "prewarm" \in Using
  BY DEF Pc, Line, Using
<1> QED BY <1>1, <1>2, <1>4, <1>5, Moving

LEMMA DropsMove ==
  ASSUME BaseInv, NEW c \in Call, NEW k \in Key, NEW f \in Fence,
         Discards(c, k, f) \/ StopsAll(c, k, f)
  PROVE  /\ BaseInv' /\ Moves(c, "drop") /\ pc[c] = "idle"
         /\ \A s \in stops' : s \in stops \/ s.why = "own"
<1> DEFINE W == IF Discards(c, k, f) THEN Tracked(k) ELSE ToSet(pool)
<1>1. /\ \E kind \in {"discard", "stopAll"} : Begin(c, k, f, kind)
      /\ Goto(c, "drop") /\ mine' = mine /\ WorkerUnchanged
      /\ stops' = stops \cup UNION {StopOf(w, c, "own") : w \in W}
  BY DEF Discards, StopsAll
<1>2. /\ pc[c] = "idle" /\ Blank(c) /\ mine[c] = None /\ exec[c] = "none" /\ mode' = mode
      /\ req' \in [Call -> Request \cup {None}] /\ req'[c] \in Request
      /\ \A d \in Call : d # c => req'[d] = req[d]
  <2>1. {"discard", "stopAll"} \subseteq Kind BY DEF Kind
  <2> QED BY <1>1, <2>1, BegunBy
<1>3. pool' \in Seq(Call) /\ IsInjective(pool') /\ ToSet(pool') \subseteq ToSet(pool)
  <2>1. CASE Discards(c, k, f)
    <3>1. pool' = Forgetting(k) BY <2>1 DEF Discards
    <3> QED BY <3>1, PoolTyped, Forgotten
  <2>2. CASE StopsAll(c, k, f)
    <3>1. pool' = << >> BY <2>2 DEF StopsAll
    <3> QED BY <3>1, EmptyQueue
  <2> QED BY <2>1, <2>2
<1>4. W \in SUBSET ToSet(pool)
  BY TrackedFacts
<1> HIDE DEF W
<1>5. /\ stops' \subseteq StopRecord /\ \A s \in stops' : s \in stops \/ (~Blank(s.w) /\ s.why = "own")
  <2>1. "own" \in Why BY DEF Why
  <2> DEFINE N == UNION {StopOf(w, c, "own") : w \in W}
  <2>2. StopsOf(N, W, c, "own") BY Zenon, <1>4, <2>1, ManyStops
  <2>3. stops' = stops \cup N BY <1>1
  <2> HIDE DEF N
  <2> QED BY <2>2, <2>3 DEF StopsOf, BaseInv, WorkersTyped
<1>6. reserved' \in [Key -> Nat]
  BY DEF Discards, StopsAll, BaseInv, CallsTyped
<1>7. Moves(c, "drop")
  BY <1>1, <1>2, <1>3, <1>5, <1>6 DEF Moves, Goto, WorkerUnchanged
<1>8. "drop" \in Pc \ {"idle", "warm"} /\ "none" \notin Line
  BY DEF Pc, Line
<1> QED BY <1>2, <1>5, <1>7, <1>8, Moving

Less == {xy \in Nat \X Nat : xy[1] < xy[2]}

LEMMA LeastNumber ==
  ASSUME NEW S \in SUBSET Nat, S # {}
  PROVE  \E m \in S : \A k \in S : ~(k < m)
<1>1. IsWellFoundedOn(Less, Nat) BY NatLessThanWellFounded DEF OpToRel, Less
<1>2. PICK m \in S : \A k \in S : <<k, m>> \notin Less BY <1>1, WFMin
<1> QED BY <1>2 DEF Less

-----------------------------------------------------------------------------
\* Which worker goes, and that nothing holds its key.
LEMMA EvictsFacts ==
  ASSUME BaseInv, NEW c \in Call, Evicts(c)
  PROVE  \E w \in ToSet(pool) :
           /\ w \in Call /\ reserved[KeyOf(w)] = 0
           /\ worker[w].dead \/ ~Active(w)
           /\ pool' = Without(pool, w) /\ stops' = stops \cup StopOf(w, c, "prune")
<1> DEFINE least == CHOOSE i \in Evictable(c) : \A j \in Evictable(c) : i <= j
<1>1. pool' = Without(pool, pool[least]) /\ stops' = stops \cup StopOf(pool[least], c, "prune")
  BY Zenon DEF Evicts
<1>2. pool \in Seq(Call) /\ DOMAIN pool = 1..Len(pool) /\ Len(pool) \in Nat
  BY SeqFacts DEF BaseInv, CallsTyped
<1>3. \E i \in Evictable(c) : \A j \in Evictable(c) : i <= j
  <2>1. Evictable(c) \subseteq 1..Len(pool) /\ Evictable(c) # {}
    BY <1>2 DEF Evictable, Evicts, Crowded
  <2> HIDE DEF least
  <2> DEFINE E == Evictable(c)
  <2>2. E \subseteq Nat /\ E # {} BY <1>2, <2>1
  <2> HIDE DEF E
  <2>3. \E i \in E : \A j \in E : i <= j
    <3>1. PICK i \in E : \A j \in E : ~(j < i) BY <2>2, LeastNumber
    <3> QED BY <2>2, <3>1
  <2> QED BY <2>3 DEF E
<1>4. least \in Evictable(c)
  BY <1>3
<1> HIDE DEF least
<1>5. least \in 1..Len(pool) /\ reserved[KeyOf(pool[least])] = 0
      /\ (worker[pool[least]].dead \/ ~Active(pool[least]))
  BY <1>2, <1>4 DEF Evictable
<1>6. pool[least] \in ToSet(pool) /\ pool[least] \in Call
  BY <1>2, <1>5, SeqFacts
<1> QED BY <1>1, <1>5, <1>6

LEMMA EvictsMoves ==
  ASSUME BaseInv, NEW c \in Call, Evicts(c)
  PROVE  BaseInv' /\ Moves(c, pc[c]) /\ pc[c] # "idle" /\ reserved' = reserved /\ req' = req
<1>1. /\ UNCHANGED <<mode, req, pc, mine, reserved>> /\ WorkerUnchanged
      /\ pc[c] \in {"prune", "pruneAll", "finish"}
  BY DEF Evicts, Pruning
<1>2. PICK w \in ToSet(pool) :
        w \in Call /\ pool' = Without(pool, w) /\ stops' = stops \cup StopOf(w, c, "prune")
  BY EvictsFacts
<1>3. pool' \in Seq(Call) /\ IsInjective(pool') /\ ToSet(pool') \subseteq ToSet(pool)
  BY <1>2, PoolTyped, RemovedFirst
<1>4. /\ stops' \subseteq StopRecord /\ \A s \in stops' : s \in stops \/ ~Blank(s.w)
  <2> DEFINE N == StopOf(w, c, "prune")
  <2>1. "prune" \in Why BY DEF Why
  <2>2. StopsBy(N, w, c, "prune") BY Zenon, <1>2, <2>1, StopOfFacts
  <2>3. stops' = stops \cup N BY <1>2
  <2>4. ~Blank(w) BY InUseIsThere
  <2> HIDE DEF N
  <2> QED BY <2>2, <2>3, <2>4 DEF StopsBy, BaseInv, WorkersTyped
<1>5. Moves(c, pc[c])
  <2>1. pc' = [pc EXCEPT ![c] = pc[c]] BY <1>1 DEF BaseInv, CallsTyped
  <2>2. pc[c] # "idle" /\ reserved' \in [Key -> Nat] BY <1>1 DEF BaseInv, CallsTyped
  <2> QED BY <1>1, <1>3, <1>4, <2>1, <2>2 DEF Moves, WorkerUnchanged
<1>6. pc[c] \in Pc \ {"idle", "warm"}
  BY <1>1 DEF Pc
<1>7. /\ req'[c].kind \in Using /\ (pc[c] = "prune" /\ req'[c].kind # "prewarm" => mine[c] # None)
  BY <1>1 DEF BaseInv, Asked
<1>8. exec[c] \in Line => pc[c] \in {"prune", "await"}
  BY <1>1 DEF BaseInv, Lined
<1> QED BY <1>1, <1>5, <1>6, <1>7, <1>8, Moving

\* The other steps of a call that has begun, up to the last.
LEMMA GoesOnTo ==
  ASSUME BaseInv, NEW c \in Call, NEW p \in Pc \ {"idle", "warm", "replace"}, pc[c] # "idle",
         pc' = [pc EXCEPT ![c] = p], UNCHANGED <<mode, req, mine, pool, stops>>, WorkerUnchanged,
         reserved' \in [Key -> Nat],
         p \in {"prune", "await", "failed", "pruneAll", "finish"} => req[c].kind \in Using,
         p = "await" => mine[c] # None /\ req[c].kind # "prewarm",
         p = "prune" => req[c].kind = "prewarm",
         mine[c] # None => p \in {"prune", "await", "failed", "pruneAll", "finish"},
         exec[c] \in Line => pc[c] \in {"prune", "await"} /\ p \in {"prune", "await"}
  PROVE  BaseInv' /\ Moves(c, p)
<1>1. /\ pool' \in Seq(Call) /\ IsInjective(pool') /\ ToSet(pool') \subseteq ToSet(pool)
      /\ stops' \subseteq StopRecord
  BY PoolTyped DEF BaseInv, WorkersTyped
<1>2. Moves(c, p)
  BY <1>1 DEF Moves, WorkerUnchanged
<1>3. req' = req /\ p \in Pc \ {"idle", "warm"} /\ p # "replace"
  OBVIOUS
<1> QED BY <1>2, <1>3, Moving

LEMMA FailedMoves ==
  ASSUME BaseInv, NEW c \in Call, Failed(c)
  PROVE  /\ BaseInv' /\ Moves(c, "failed") /\ reserved' = reserved /\ req' = req
         /\ \A s \in stops' : s \in stops \/ s.why = "own"
<1>1. /\ pc[c] \in {"await", "warm"} /\ exec[c] = "failed" /\ Goto(c, "failed")
      /\ UNCHANGED <<mode, req, mine, reserved>> /\ WorkerUnchanged
      /\ pool' = Without(pool, mine[c]) /\ stops' = stops \cup Ousted(c)
  BY DEF Failed
<1>2. mine[c] \in Call /\ req[c].kind \in Using
  <2>1. mine[c] # None /\ req[c].kind \in Using
    BY <1>1, Constants DEF BaseInv, Asked, CallsTyped
  <2> QED BY <2>1 DEF BaseInv, CallsTyped
<1>3. pool' \in Seq(Call) /\ IsInjective(pool') /\ ToSet(pool') \subseteq ToSet(pool)
  BY <1>1, PoolTyped, RemovedFirst
<1>4. /\ stops' \subseteq StopRecord
      /\ \A s \in stops' : s \in stops \/ (~Blank(s.w) /\ s.why = "own")
  <2> DEFINE N == StopOf(mine[c], c, "own")
  <2>1. "own" \in Why BY DEF Why
  <2>2. StopsBy(N, mine[c], c, "own") BY Zenon, <1>2, <2>1, StopOfFacts
  <2>3. Ousted(c) = {} \/ Ousted(c) = N BY DEF Ousted
  <2>4. ~Blank(mine[c]) BY InUseIsThere
  <2> HIDE DEF N
  <2> QED BY <1>1, <2>2, <2>3, <2>4 DEF StopsBy, BaseInv, WorkersTyped
<1>5. Moves(c, "failed")
  BY <1>1, <1>3, <1>4 DEF Moves, WorkerUnchanged, Goto, BaseInv, CallsTyped
<1>6. "failed" \in Pc \ {"idle", "warm"} /\ exec[c] \notin Line
  BY <1>1 DEF Pc, Line
<1> QED BY <1>1, <1>2, <1>4, <1>5, <1>6, Moving

\* The last step of a call: it lets go of its worker.
LEMMA Ending ==
  ASSUME BaseInv, NEW c \in Call, Pruned(c), pc[c] = "finish"
  PROVE  /\ BaseInv' /\ pc' = [pc EXCEPT ![c] = "done"] /\ exec' = [exec EXCEPT ![c] = "none"]
         /\ mine' = [mine EXCEPT ![c] = None]
         /\ UNCHANGED <<mode, req, pool, stops, worker, live, reserved>>
<1>1. /\ pc' = [pc EXCEPT ![c] = "done"] /\ mine' = [mine EXCEPT ![c] = None]
      /\ exec' = [exec EXCEPT ![c] = "none"]
      /\ req' = req /\ pool' = pool /\ stops' = stops /\ worker' = worker /\ live' = live
      /\ reserved' = reserved /\ mode' = mode
  BY DEF Pruned, Goto
<1>2. /\ pc'[c] = "done" /\ mine'[c] = None /\ exec'[c] = "none"
      /\ \A d \in Call : d # c => pc'[d] = pc[d] /\ mine'[d] = mine[d] /\ exec'[d] = exec[d]
  BY <1>1 DEF BaseInv, CallsTyped, WorkersTyped
<1>3. CallsTyped' /\ WorkersTyped'
  <2>1. "done" \in Pc /\ "none" \in Exec BY DEF Pc, Exec
  <2> QED BY <1>1, <2>1 DEF BaseInv, CallsTyped, WorkersTyped
<1>4. PoolKeys' BY <1>1 DEF BaseInv, PoolKeys, KeyOf
<1>5. ASSUME NEW u \in Call, Blank(u) PROVE Blank(u)'
  <2>1. \A d \in Call : mine'[d] # u
    <3>1. u # None BY Constants
    <3> QED BY <1>2, <1>5, <3>1 DEF Blank
  <2> QED BY <1>1, <1>5, <2>1 DEF Blank
<1>6. Asked'
  BY <1>1, <1>2 DEF BaseInv, Asked
<1>7. Owned'
  BY <1>1, <1>2, <1>5 DEF BaseInv, Owned, KeyOf
<1>8. Lined' /\ Queues' /\ Fresh'
  <2>1. "none" \notin Line /\ "none" \notin {"reprompting", "running"} BY DEF Line
  <2>2. \A w \in Call : \A d \in ToSet(worker[w].queue) : d \in Call /\ d # c
    BY RecordOf, SeqFacts DEF BaseInv, Queues
  <2>3. Lined' BY <1>1, <1>2, <2>1 DEF BaseInv, Lined
  <2>4. Queues' BY <1>1, <1>2, <2>2 DEF BaseInv, Queues
  <2>5. Fresh' BY <1>1, <1>2, <2>1 DEF BaseInv, Fresh
  <2> QED BY <2>3, <2>4, <2>5
<1> QED BY <1>1, <1>3, <1>4, <1>6, <1>7, <1>8 DEF BaseInv

-----------------------------------------------------------------------------
\* A call that has no worker yet, c, gets worker w and goes on to `p`.
Joins(c, w, p) ==
  /\ pc[c] \in {"idle", "replace"} /\ pc' = [pc EXCEPT ![c] = p]
  /\ mine' = [mine EXCEPT ![c] = w] /\ mode' = mode
  /\ \/ req' = req /\ pc[c] # "idle"
     \/ /\ pc[c] = "idle"
        /\ req' \in [Call -> Request \cup {None}] /\ req'[c] \in Request
        /\ \A d \in Call : d # c => req'[d] = req[d]
  /\ reserved' \in [Key -> Nat]
  /\ pool' \in Seq(Call) /\ PoolKeys'
  /\ ToSet(pool') \subseteq ToSet(pool) \cup {c} /\ (c \in ToSet(pool') => w = c)
  /\ w = c \/ (w \in ToSet(pool) /\ KeyOf(w) = req'[c].key)
  /\ stops' \subseteq StopRecord
  /\ \A s \in stops' : s \in stops \/ ~Blank(s.w)

LEMMA JoinsFacts ==
  ASSUME BaseInv, NEW c \in Call, NEW w \in Call, NEW p \in {"prune", "warm"}, Joins(c, w, p),
         req'[c].kind \in Using, p = "warm" <=> req'[c].kind = "prewarm", p = "warm" => w = c,
         \A u \in Call : u # w => worker'[u] = worker[u],
         \A q \in live' : q \in live \/ q[1] = w
  PROVE  /\ Blank(c) /\ mine[c] = None /\ exec[c] = "none"
         /\ CallsTyped' /\ PoolKeys' /\ Asked'
         /\ \A d \in Call : req[d] # None => req'[d] = req[d]
         /\ mine'[c] = w /\ pc'[c] = p
         /\ \A d \in Call : d # c => mine'[d] = mine[d] /\ pc'[d] = pc[d] /\ req'[d] = req[d]
         /\ (\A d \in Call : d # c => exec'[d] = exec[d]) => Owned'
<1>1. Blank(c) /\ mine[c] = None /\ exec[c] = "none" /\ (pc[c] # "idle" => req[c] # None)
  BY DEF Joins, BaseInv, Owned, Asked
<1>2. /\ mine'[c] = w /\ pc'[c] = p
      /\ \A d \in Call : d # c => mine'[d] = mine[d] /\ pc'[d] = pc[d] /\ req'[d] = req[d]
  BY DEF Joins, BaseInv, CallsTyped
<1>3. req'[c] # None /\ \A d \in Call : req[d] # None => req'[d] = req[d]
  <2>1. pc[c] = "idle" <=> req[c] = None BY DEF BaseInv, Asked
  <2> QED BY <2>1, NoneAssumption DEF Joins
<1>4. CallsTyped'
  <2>1. req' \in [Call -> Request \cup {None}] BY DEF Joins, BaseInv, CallsTyped
  <2>2. p \in Pc BY DEF Pc
  <2>3. pc' \in [Call -> Pc] BY <2>2 DEF Joins, BaseInv, CallsTyped
  <2>4. mine' \in [Call -> Call \cup {None}] BY DEF Joins, BaseInv, CallsTyped
  <2> QED BY <2>1, <2>3, <2>4 DEF CallsTyped, Joins
<1>5. PoolKeys' BY DEF Joins
<1>6. Asked'
  <2> SUFFICES ASSUME NEW d \in Call
               PROVE  /\ pc'[d] = "idle" <=> req'[d] = None
                      /\ pc'[d] \in {"prune", "await", "warm", "replace", "failed", "pruneAll", "finish"} =>
                           req'[d].kind \in Using
                      /\ pc'[d] = "await" => req'[d].kind # "prewarm"
                      /\ pc'[d] = "await" \/ (pc'[d] = "prune" /\ req'[d].kind # "prewarm") => mine'[d] # None
                      /\ pc'[d] = "warm" => req'[d].kind = "prewarm" /\ mine'[d] = d
    BY DEF Asked
  <2>1. CASE d = c BY <1>2, <1>3, <2>1, Constants
  <2>2. CASE d # c BY <1>2, <2>2 DEF BaseInv, Asked
  <2> QED BY <2>1, <2>2
<1>7. w = c \/ ~Blank(w)
  BY InUseIsThere DEF Joins
<1>8. ASSUME NEW u \in Call, Blank(u), u # w, u # c PROVE Blank(u)'
  <2>1. worker'[u] = worker[u] /\ \A q \in live' : q[1] # u BY <1>8 DEF Blank
  <2>2. u \notin ToSet(pool') BY <1>8 DEF Blank, Joins
  <2>3. \A d \in Call : mine'[d] # u BY <1>2, <1>8 DEF Blank
  <2>4. \A s \in stops' : s.w # u BY <1>8 DEF Blank, Joins
  <2> QED BY <1>8, <2>1, <2>2, <2>3, <2>4 DEF Blank
<1>9. w # c => Blank(c)'
  <2> SUFFICES ASSUME w # c PROVE Blank(c)'
    OBVIOUS
  <2>1. worker'[c] = worker[c] /\ \A q \in live' : q[1] # c BY <1>1 DEF Blank
  <2>2. c \notin ToSet(pool') BY DEF Joins
  <2>3. \A d \in Call : mine'[d] # c BY <1>1, <1>2 DEF Blank
  <2>4. \A s \in stops' : s.w # c BY <1>1 DEF Blank, Joins
  <2> QED BY <1>1, <2>1, <2>2, <2>3, <2>4 DEF Blank
<1>10. ASSUME \A d \in Call : d # c => exec'[d] = exec[d] PROVE Owned'
  <2> SUFFICES ASSUME NEW d \in Call
               PROVE  /\ mine'[d] # None =>
                           /\ pc'[d] \in {"prune", "await", "warm", "failed", "pruneAll", "finish"}
                           /\ req'[mine'[d]] # None /\ req'[mine'[d]].key = req'[d].key
                      /\ mine'[d] # None /\ mine'[d] # d => Blank(d)'
                      /\ pc'[d] \in {"idle", "replace"} => Blank(d)'
                      /\ mine'[d] = None => exec'[d] = "none"
    BY DEF Owned, KeyOf
  <2>1. CASE d = c
    <3>1. req'[w] # None /\ req'[w].key = req'[c].key
      <4>1. CASE w = c BY <1>3, <4>1
      <4>2. CASE w # c
        <5>1. w \in ToSet(pool) /\ KeyOf(w) = req'[c].key BY <4>2 DEF Joins
        <5>2. req[w] # None BY <5>1 DEF BaseInv, PoolKeys
        <5> QED BY <1>3, <5>1, <5>2 DEF KeyOf
      <4> QED BY <4>1, <4>2
    <3>2. w # None BY Constants
    <3> QED BY <1>2, <1>9, <2>1, <3>1, <3>2
  <2>2. CASE d # c
    <3>1. /\ mine[d] # None => /\ pc[d] \in {"prune", "await", "warm", "failed", "pruneAll", "finish"}
                               /\ req[mine[d]] # None /\ req[mine[d]].key = req[d].key
                               /\ mine[d] \in Call
          /\ mine[d] # None /\ mine[d] # d => Blank(d)
          /\ pc[d] \in {"idle", "replace"} => Blank(d)
          /\ mine[d] = None => exec[d] = "none"
      BY DEF BaseInv, Owned, KeyOf, CallsTyped
    <3>2. mine[d] # None => req'[mine[d]] = req[mine[d]] BY <1>3, <3>1
    <3>3. Blank(d) => Blank(d)' BY <1>7, <1>8, <2>2
    <3> QED BY <1>2, <1>10, <2>2, <3>1, <3>2, <3>3
  <2> QED BY <2>1, <2>2
<1> QED BY <1>1, <1>2, <1>3, <1>4, <1>5, <1>6, <1>10

LEMMA EnqueueFacts ==
  ASSUME BaseInv, NEW c \in Call, NEW w \in Call, Enqueue(c, w)
  PROVE  /\ worker' \in [Call -> WorkerRecord] /\ exec' \in [Call -> Exec]
         /\ \A u \in Call : u # w => worker'[u] = worker[u]
         /\ worker'[w].queue = Append(worker[w].queue, c)
         /\ worker'[w].proc = worker[w].proc /\ worker'[w].dead = worker[w].dead
         /\ worker'[w].ran = worker[w].ran /\ worker'[w].talk = worker[w].talk
         /\ exec'[c] = "queued" /\ \A d \in Call : d # c => exec'[d] = exec[d]
<1> DEFINE q == Append(worker[w].queue, c)
           R == [worker[w] EXCEPT !.queue = q]
<1>1. worker[w] \in WorkerRecord /\ worker[w].queue \in Seq(Call)
  BY RecordOf
<1>2. q \in Seq(Call)
  BY <1>1
<1>3. worker \in [Call -> WorkerRecord] /\ exec \in [Call -> Exec]
  BY DEF BaseInv, WorkersTyped
<1>4. worker' = [worker EXCEPT ![w] = R] /\ exec' = [exec EXCEPT ![c] = "queued"]
  <2>1. worker' = [worker EXCEPT ![w].queue = Append(@, c)] /\ exec' = [exec EXCEPT ![c] = "queued"]
    BY DEF Enqueue
  <2> QED BY <1>3, <2>1
<1> HIDE DEF q
<1>5. R \in WorkerRecord /\ R.queue = q /\ R.proc = worker[w].proc /\ R.dead = worker[w].dead
      /\ R.ran = worker[w].ran /\ R.talk = worker[w].talk
  BY <1>1, <1>2 DEF WorkerRecord
<1> HIDE DEF R
<1>6. /\ worker' \in [Call -> WorkerRecord] /\ worker'[w] = R
      /\ \A u \in Call : u # w => worker'[u] = worker[u]
  BY <1>3, <1>4, <1>5
<1>7. "queued" \in Exec BY DEF Exec
<1>8. /\ exec' \in [Call -> Exec] /\ exec'[c] = "queued"
      /\ \A d \in Call : d # c => exec'[d] = exec[d]
  BY <1>3, <1>4, <1>7
<1> QED BY <1>5, <1>6, <1>8 DEF q

LEMMA Enqueuing ==
  ASSUME BaseInv, NEW c \in Call, NEW w \in Call, Joins(c, w, "prune"), Enqueue(c, w), live' = live,
         req'[c].kind \in {"run", "resume"}
  PROVE  BaseInv'
<1>1. /\ worker' \in [Call -> WorkerRecord] /\ exec' \in [Call -> Exec]
      /\ \A u \in Call : u # w => worker'[u] = worker[u]
      /\ worker'[w].queue = Append(worker[w].queue, c)
      /\ worker'[w].ran = worker[w].ran /\ worker'[w].talk = worker[w].talk
      /\ exec'[c] = "queued" /\ \A d \in Call : d # c => exec'[d] = exec[d]
  BY EnqueueFacts
<1>2. /\ Blank(c) /\ mine[c] = None /\ exec[c] = "none"
      /\ CallsTyped' /\ PoolKeys' /\ Asked' /\ Owned'
      /\ \A d \in Call : req[d] # None => req'[d] = req[d]
      /\ mine'[c] = w /\ pc'[c] = "prune"
      /\ \A d \in Call : d # c => mine'[d] = mine[d] /\ pc'[d] = pc[d] /\ req'[d] = req[d]
  <2>1. req'[c].kind \in Using /\ req'[c].kind # "prewarm" BY DEF Using
  <2>2. "prune" # "warm" /\ "prune" \in {"prune", "warm"} OBVIOUS
  <2> QED BY <1>1, <2>1, <2>2, JoinsFacts
<1>3. WorkersTyped'
  BY <1>1 DEF Joins, BaseInv, WorkersTyped
<1> DEFINE q == worker[w].queue
<1>4. /\ q \in Seq(Call) /\ IsInjective(q) /\ c \notin ToSet(q)
  <2>1. "none" \notin Line BY DEF Line
  <2> QED BY <1>2, <2>1, RecordOf DEF BaseInv, Queues
<1>5. /\ ToSet(Append(q, c)) = ToSet(q) \cup {c} /\ IsInjective(Append(q, c))
      /\ Head(Append(q, c)) = IF q = << >> THEN c ELSE Head(q)
  <2> HIDE DEF q
  <2> QED BY <1>4, Appended
<1>6. \A d \in ToSet(q) : d \in Call /\ d # c /\ q # << >>
  <2>1. \A d \in ToSet(q) : d \in Call BY <1>4, SeqFacts
  <2> HIDE DEF q
  <2> QED BY <1>4, <2>1, EmptyQueue
<1>7. "queued" \in Line BY DEF Line
<1>8. Queues'
  <2> SUFFICES ASSUME NEW u \in Call
               PROVE  /\ IsInjective(worker'[u].queue)
                      /\ \A d \in ToSet(worker'[u].queue) :
                           /\ mine'[d] = u /\ exec'[d] \in Line
                           /\ req'[d].kind \in {"run", "resume"} /\ pc'[d] \in {"prune", "await"}
                           /\ d # Head(worker'[u].queue) => exec'[d] = "queued"
    BY DEF Queues
  <2>1. \A d \in ToSet(worker[u].queue) :
           /\ d \in Call /\ d # c /\ mine[d] = u /\ exec[d] \in Line
           /\ req[d].kind \in {"run", "resume"} /\ pc[d] \in {"prune", "await"}
           /\ d # Head(worker[u].queue) => exec[d] = "queued"
    <3>1. \A d \in ToSet(worker[u].queue) : d \in Call BY RecordOf, SeqFacts
    <3>2. "none" \notin Line BY DEF Line
    <3> QED BY <1>2, <3>1, <3>2 DEF BaseInv, Queues
  <2>2. CASE u # w
    <3>1. worker'[u] = worker[u] BY <1>1, <2>2
    <3> QED BY <1>1, <1>2, <2>1, <3>1 DEF BaseInv, Queues
  <2>3. CASE u = w
    <3>1. worker'[u].queue = Append(q, c) BY <1>1, <2>3
    <3>2. ToSet(worker'[u].queue) = ToSet(q) \cup {c} /\ IsInjective(worker'[u].queue)
          /\ Head(worker'[u].queue) = IF q = << >> THEN c ELSE Head(q)
      BY Zenon, <1>5, <3>1
    <3> QED BY <1>1, <1>2, <1>6, <1>7, <2>1, <2>3, <3>2
  <2> QED BY <2>2, <2>3
<1>9. Lined'
  <2> SUFFICES ASSUME NEW d \in Call, exec'[d] \in Line
               PROVE  \/ /\ req'[d].kind \in {"run", "resume"} /\ pc'[d] \in {"prune", "await"}
                         /\ mine'[d] # None /\ d \in ToSet(worker'[mine'[d]].queue)
                      \/ exec'[d] = "starting" /\ pc'[d] = "warm"
    BY DEF Lined
  <2>1. ToSet(worker'[w].queue) = ToSet(q) \cup {c} BY Zenon, <1>1, <1>5
  <2>2. CASE d = c BY <1>2, <2>1, <2>2, Constants
  <2>3. CASE d # c
    <3>1. exec[d] \in Line /\ exec'[d] = exec[d] BY <1>1, <2>3
    <3>2. mine[d] \in Call BY <3>1, InLine
    <3>3. d \in ToSet(worker[mine[d]].queue) => d \in ToSet(worker'[mine[d]].queue)
      BY <1>1, <2>1, <3>2
    <3> QED BY <1>2, <2>3, <3>1, <3>3 DEF BaseInv, Lined
  <2> QED BY <2>2, <2>3
<1>10. Fresh'
  <2>1. \A u \in Call : worker'[u].ran = worker[u].ran /\ worker'[u].talk = worker[u].talk
    BY <1>1
  <2>2. \A d \in Call : exec'[d] \in {"reprompting", "running"} =>
           d # c /\ exec'[d] = exec[d] /\ mine[d] \in Call
    BY <1>1, InLine DEF Line
  <2> QED BY <1>2, <2>1, <2>2 DEF BaseInv, Fresh
<1> QED BY <1>2, <1>3, <1>8, <1>9, <1>10 DEF BaseInv

\* A prewarm creates its worker and starts it.
LEMMA Warming ==
  ASSUME BaseInv, NEW c \in Call, Joins(c, c, "warm"), Spawn(c, worker[c]),
         exec' = [exec EXCEPT ![c] = "starting"], req'[c].kind = "prewarm"
  PROVE  BaseInv' /\ Spawned(c, worker[c]) /\ Blank(c)
<1>1. Spawned(c, worker[c])
  BY SpawnFacts, RecordOf DEF BaseInv
<1>2. exec'[c] = "starting" /\ \A d \in Call : d # c => exec'[d] = exec[d]
  BY DEF BaseInv, WorkersTyped
<1>3. /\ Blank(c) /\ mine[c] = None /\ exec[c] = "none"
      /\ CallsTyped' /\ PoolKeys' /\ Asked' /\ Owned'
      /\ \A d \in Call : req[d] # None => req'[d] = req[d]
      /\ mine'[c] = c /\ pc'[c] = "warm"
      /\ \A d \in Call : d # c => mine'[d] = mine[d] /\ pc'[d] = pc[d] /\ req'[d] = req[d]
  <2>1. req'[c].kind \in Using BY DEF Using
  <2>2. "warm" \in {"prune", "warm"} OBVIOUS
  <2>3. \A u \in Call : u # c => worker'[u] = worker[u] BY <1>1 DEF Spawned
  <2>4. \A q \in live' : q \in live \/ q[1] = c BY <1>1 DEF Spawned
  <2> QED BY <1>2, <2>1, <2>2, <2>3, <2>4, JoinsFacts
<1>4. WorkersTyped'
  <2>1. "starting" \in Exec BY DEF Exec
  <2>2. exec' \in [Call -> Exec] BY <2>1 DEF BaseInv, WorkersTyped
  <2>3. live' \subseteq Call \X (1..MaxProcs) BY <1>1 DEF Spawned, BaseInv, WorkersTyped
  <2> QED BY <1>1, <2>2, <2>3 DEF Joins, Spawned, BaseInv, WorkersTyped
<1>5. \A u \in Call : worker'[u].queue = worker[u].queue
  BY <1>1 DEF Spawned
<1>6. \A u \in Call : \A d \in ToSet(worker[u].queue) : d \in Call /\ d # c /\ mine[d] # None
  <2>1. \A u \in Call : \A d \in ToSet(worker[u].queue) : d \in Call BY RecordOf, SeqFacts
  <2>2. "none" \notin Line BY DEF Line
  <2> QED BY <1>3, <2>1, <2>2, Constants DEF BaseInv, Queues
<1>7. Queues'
  BY <1>2, <1>3, <1>5, <1>6 DEF BaseInv, Queues
<1>8. Lined'
  <2> SUFFICES ASSUME NEW d \in Call, exec'[d] \in Line
               PROVE  \/ /\ req'[d].kind \in {"run", "resume"} /\ pc'[d] \in {"prune", "await"}
                         /\ mine'[d] # None /\ d \in ToSet(worker'[mine'[d]].queue)
                      \/ exec'[d] = "starting" /\ pc'[d] = "warm"
    BY DEF Lined
  <2>1. CASE d = c BY <1>2, <1>3, <2>1
  <2>2. CASE d # c
    <3>1. exec[d] \in Line /\ exec'[d] = exec[d] BY <1>2, <2>2
    <3>2. mine[d] \in Call BY <3>1, InLine
    <3> QED BY <1>3, <1>5, <2>2, <3>1, <3>2 DEF BaseInv, Lined
  <2> QED BY <2>1, <2>2
<1>9. Fresh'
  <2>1. \A u \in Call : ~worker'[u].ran => worker'[u].talk = 0
    BY <1>1 DEF Spawned, BaseInv, Fresh
  <2>2. \A d \in Call : exec'[d] \in {"reprompting", "running"} =>
           /\ d # c /\ exec'[d] = exec[d] /\ mine[d] \in Call /\ mine[d] # c
    BY <1>2, <1>3, InLine DEF Line, Blank
  <2>3. \A u \in Call : u # c => worker'[u] = worker[u] BY <1>1 DEF Spawned
  <2> QED BY <1>3, <2>1, <2>2, <2>3 DEF BaseInv, Fresh
<1> QED BY <1>1, <1>3, <1>4, <1>7, <1>8, <1>9 DEF BaseInv

-----------------------------------------------------------------------------
LEMMA SameRequests ==
  ASSUME BaseInv, NEW c \in Call,
         \/ req' = req /\ pc[c] # "idle"
         \/ pc[c] = "idle" /\ req'[c] \in Request /\ \A d \in Call : d # c => req'[d] = req[d]
  PROVE  req'[c] # None /\ \A d \in Call : req[d] # None => req'[d] = req[d]
<1>1. pc[c] = "idle" <=> req[c] = None BY DEF BaseInv, Asked
<1> QED BY <1>1, NoneAssumption

LEMMA KeysShrink ==
  ASSUME BaseInv, \A d \in Call : req[d] # None => req'[d] = req[d],
         IsInjective(pool'), ToSet(pool') \subseteq ToSet(pool)
  PROVE  PoolKeys'
<1>1. \A w \in ToSet(pool) : w \in Call /\ req[w] # None /\ req'[w] = req[w]
  BY PoolTyped DEF PoolKeys
<1> QED BY <1>1 DEF BaseInv, PoolKeys, KeyOf

LEMMA KeysGrow ==
  ASSUME BaseInv, \A d \in Call : req[d] # None => req'[d] = req[d],
         NEW c \in Call, c \notin ToSet(pool), req'[c] # None, NEW k, req'[c].key = k,
         IsInjective(pool'), ToSet(pool') = {w \in ToSet(pool) : KeyOf(w) # k} \cup {c}
  PROVE  PoolKeys'
<1>1. \A w \in ToSet(pool) : w \in Call /\ req[w] # None /\ req'[w] = req[w] /\ w # c
  BY PoolTyped DEF PoolKeys
<1>2. \A v, w \in ToSet(pool) : req[v].key = req[w].key => v = w
  BY DEF BaseInv, PoolKeys, KeyOf
<1>3. \A w \in ToSet(pool') : \/ w = c
                              \/ w \in ToSet(pool) /\ req[w].key # k
  BY DEF KeyOf
<1>4. \A w \in ToSet(pool') : req'[w] # None
  BY <1>1, <1>3
<1>5. \A v, w \in ToSet(pool') : req'[v].key = req'[w].key => v = w
  BY <1>1, <1>2, <1>3
<1> QED BY <1>4, <1>5 DEF PoolKeys, KeyOf

LEMMA RunReusesKeeps ==
  ASSUME BaseInv, NEW c \in Call, NEW k \in Key, NEW f \in Fence, NEW kind \in {"run", "resume"},
         RunReuses(c, k, f, kind)
  PROVE  /\ BaseInv' /\ stops' = stops /\ live' = live /\ Reserve(k) /\ pc[c] = "idle"
         /\ req'[c].key = k /\ req'[c].kind = kind /\ req'[c].spec = f
         /\ \E w \in Tracked(k) : /\ Joins(c, w, "prune") /\ Enqueue(c, w) /\ Reusable(w, f)
                                  /\ pool' = Touch(w)
<1>1. PICK w \in Tracked(k) : /\ mine' = [mine EXCEPT ![c] = w] /\ pool' = Touch(w)
                              /\ Enqueue(c, w) /\ Reusable(w, f)
  BY DEF RunReuses
<1>2. /\ Begin(c, k, f, kind) /\ Reserve(k) /\ Goto(c, "prune") /\ live' = live /\ stops' = stops
  BY DEF RunReuses
<1>3. /\ pc[c] = "idle" /\ Blank(c) /\ mode' = mode /\ c \notin ToSet(pool)
      /\ req' \in [Call -> Request \cup {None}] /\ req'[c] \in Request
      /\ req'[c].kind = kind /\ req'[c].key = k /\ req'[c].spec = f
      /\ \A d \in Call : d # c => req'[d] = req[d]
  <2>1. kind \in Kind BY DEF Kind
  <2> QED BY <1>2, <2>1, BegunBy
<1>4. w \in Call /\ w \in ToSet(pool) /\ KeyOf(w) = k
  BY TrackedFacts
<1>5. pool' \in Seq(Call) /\ IsInjective(pool') /\ ToSet(pool') = ToSet(pool)
  BY <1>1, <1>4, PoolTyped, Touched
<1>6. PoolKeys'
  <2>1. \A d \in Call : req[d] # None => req'[d] = req[d] BY <1>3, SameRequests
  <2> QED BY <1>5, <2>1, KeysShrink
<1>7. Joins(c, w, "prune")
  <2>1. reserved' \in [Key -> Nat] BY <1>2, ReserveTyped
  <2>2. stops' \subseteq StopRecord BY <1>2 DEF BaseInv, WorkersTyped
  <2> QED BY <1>1, <1>2, <1>3, <1>4, <1>5, <1>6, <2>1, <2>2 DEF Joins, Goto
<1>8. BaseInv'
  BY <1>1, <1>2, <1>3, <1>4, <1>7, Enqueuing
<1> QED BY <1>1, <1>2, <1>3, <1>7, <1>8

LEMMA RunCreatesKeeps ==
  ASSUME BaseInv, NEW c \in Call, NEW k \in Key, NEW f \in Fence, RunCreates(c, k, f)
  PROVE  /\ BaseInv' /\ Joins(c, c, "prune") /\ Enqueue(c, c) /\ live' = live /\ Reserve(k)
         /\ pc[c] = "idle"
         /\ req'[c].key = k /\ req'[c].kind = "run" /\ req'[c].spec = f
         /\ ToSet(pool') = {w \in ToSet(pool) : KeyOf(w) # k} \cup {c}
         /\ stops' = stops \cup UNION {StopOf(w, c, "stale") : w \in Tracked(k)}
         /\ \A s \in stops' : s \in stops \/ s.why = "stale"
<1>1. /\ Begin(c, k, f, "run") /\ Reserve(k) /\ Goto(c, "prune") /\ live' = live
      /\ pool' = Append(Forgetting(k), c) /\ mine' = [mine EXCEPT ![c] = c] /\ Enqueue(c, c)
      /\ stops' = stops \cup UNION {StopOf(w, c, "stale") : w \in Tracked(k)}
  BY DEF RunCreates
<1>2. /\ pc[c] = "idle" /\ Blank(c) /\ mode' = mode /\ c \notin ToSet(pool)
      /\ req' \in [Call -> Request \cup {None}] /\ req'[c] \in Request
      /\ req'[c].kind = "run" /\ req'[c].key = k /\ req'[c].spec = f
      /\ \A d \in Call : d # c => req'[d] = req[d]
  <2>1. "run" \in Kind BY DEF Kind
  <2> QED BY <1>1, <2>1, BegunBy
<1>3. /\ pool' \in Seq(Call) /\ IsInjective(pool')
      /\ ToSet(pool') = {w \in ToSet(pool) : KeyOf(w) # k} \cup {c}
  <2> DEFINE t == Forgetting(k)
  <2>1. t \in Seq(Call) /\ ToSet(t) = {w \in ToSet(pool) : KeyOf(w) # k} /\ IsInjective(t)
    BY PoolTyped, Forgotten
  <2>2. c \notin ToSet(t) BY <1>2, <2>1
  <2>3. pool' = Append(t, c) BY <1>1
  <2> HIDE DEF t
  <2>4. /\ Append(t, c) \in Seq(Call) /\ ToSet(Append(t, c)) = ToSet(t) \cup {c}
        /\ IsInjective(Append(t, c))
    BY <2>1, <2>2, Appended
  <2> QED BY Zenon, <2>1, <2>3, <2>4
<1>4. PoolKeys'
  <2>1. req'[c] # None /\ \A d \in Call : req[d] # None => req'[d] = req[d] BY <1>2, SameRequests
  <2> QED BY <1>2, <1>3, <2>1, KeysGrow
<1>5. /\ stops' \subseteq StopRecord
      /\ \A s \in stops' : s \in stops \/ (~Blank(s.w) /\ s.why = "stale")
  <2>1. "stale" \in Why BY DEF Why
  <2>2. Tracked(k) \in SUBSET ToSet(pool) BY TrackedFacts
  <2> DEFINE N == UNION {StopOf(w, c, "stale") : w \in Tracked(k)}
  <2>3. StopsOf(N, Tracked(k), c, "stale") BY Zenon, <2>1, <2>2, ManyStops
  <2>4. stops' = stops \cup N BY <1>1
  <2> HIDE DEF N
  <2> QED BY <2>3, <2>4 DEF StopsOf, BaseInv, WorkersTyped
<1>6. Joins(c, c, "prune")
  <2>1. reserved' \in [Key -> Nat] BY <1>1, ReserveTyped
  <2>2. ToSet(pool') \subseteq ToSet(pool) \cup {c} BY <1>3
  <2> QED BY <1>1, <1>2, <1>3, <1>4, <1>5, <2>1, <2>2 DEF Joins, Goto
<1>7. BaseInv'
  BY <1>1, <1>2, <1>6, Enqueuing
<1> QED BY <1>1, <1>2, <1>3, <1>5, <1>6, <1>7

\* The pool publishes a worker for a call that found none or has awaited its end.
LEMMA CreateJoins ==
  ASSUME BaseInv, NEW c \in Call, NEW k \in Key, Create(c, k, pool), mode' = mode, stops' = stops,
         pc[c] \in {"idle", "replace"}, NEW p \in {"prune", "warm"}, Goto(c, p),
         reserved' \in [Key -> Nat],
         \/ req' = req /\ pc[c] # "idle"
         \/ /\ pc[c] = "idle"
            /\ req' \in [Call -> Request \cup {None}] /\ req'[c] \in Request
            /\ \A d \in Call : d # c => req'[d] = req[d],
         req'[c].key = k
  PROVE  Joins(c, c, p) /\ ToSet(pool') = {w \in ToSet(pool) : KeyOf(w) # k} \cup {c}
<1>1. Blank(c) /\ c \notin ToSet(pool)
  BY DEF BaseInv, Owned, Blank
<1>2. pool' = Publish(pool, k, c) /\ mine' = [mine EXCEPT ![c] = c]
  BY DEF Create
<1>3. /\ pool' \in Seq(Call) /\ IsInjective(pool')
      /\ ToSet(pool') = {w \in ToSet(pool) : KeyOf(w) # k} \cup {c}
  BY <1>1, <1>2, PoolTyped, Published
<1>4. req'[c] # None /\ \A d \in Call : req[d] # None => req'[d] = req[d]
  BY SameRequests
<1>5. PoolKeys'
  BY <1>1, <1>3, <1>4, KeysGrow
<1>6. ToSet(pool') \subseteq ToSet(pool) \cup {c} BY <1>3
<1>7. stops' \subseteq StopRecord BY DEF BaseInv, WorkersTyped
<1> QED BY <1>2, <1>3, <1>5, <1>6, <1>7 DEF Joins, Goto

LEMMA PrewarmCreatesKeeps ==
  ASSUME BaseInv, NEW c \in Call, NEW k \in Key, NEW f \in Fence, PrewarmCreates(c, k, f)
  PROVE  /\ BaseInv' /\ Joins(c, c, "warm") /\ Spawned(c, worker[c]) /\ Reserve(k)
         /\ pc[c] = "idle"
         /\ exec' = [exec EXCEPT ![c] = "starting"] /\ stops' = stops
         /\ req'[c].key = k /\ req'[c].kind = "prewarm"
         /\ ToSet(pool') = {w \in ToSet(pool) : KeyOf(w) # k} \cup {c}
<1>1. /\ Begin(c, k, f, "prewarm") /\ Create(c, k, pool) /\ Spawn(c, worker[c])
      /\ exec' = [exec EXCEPT ![c] = "starting"] /\ Goto(c, "warm") /\ Reserve(k) /\ stops' = stops
  BY Zenon DEF PrewarmCreates, Prewarms
<1>2. /\ pc[c] = "idle" /\ mode' = mode
      /\ req' \in [Call -> Request \cup {None}] /\ req'[c] \in Request
      /\ req'[c].kind = "prewarm" /\ req'[c].key = k
      /\ \A d \in Call : d # c => req'[d] = req[d]
  <2>1. "prewarm" \in Kind BY DEF Kind
  <2> QED BY <1>1, <2>1, BegunBy
<1>3. Joins(c, c, "warm") /\ ToSet(pool') = {w \in ToSet(pool) : KeyOf(w) # k} \cup {c}
  <2>1. "warm" \in {"prune", "warm"} OBVIOUS
  <2>2. reserved' \in [Key -> Nat] BY <1>1, ReserveTyped
  <2> QED BY <1>1, <1>2, <2>1, <2>2, CreateJoins
<1> QED BY <1>1, <1>2, <1>3, Warming

LEMMA ReplacedKeeps ==
  ASSUME BaseInv, NEW c \in Call, Replaced(c)
  PROVE  /\ BaseInv' /\ pc[c] = "replace" /\ req' = req /\ reserved' = reserved /\ stops' = stops
         /\ mode' = mode
         /\ \/ /\ req[c].kind = "run" /\ Joins(c, c, "prune") /\ Enqueue(c, c) /\ live' = live
               /\ ToSet(pool') = {w \in ToSet(pool) : KeyOf(w) # KeyOf(c)} \cup {c}
            \/ /\ req[c].kind = "resume" /\ Moves(c, "pruneAll") /\ pool' = pool
            \/ /\ req[c].kind = "prewarm" /\ Joins(c, c, "warm") /\ Spawned(c, worker[c])
               /\ exec' = [exec EXCEPT ![c] = "starting"]
               /\ ToSet(pool') = {w \in ToSet(pool) : KeyOf(w) # KeyOf(c)} \cup {c}
<1>1. /\ pc[c] = "replace" /\ mode' = mode /\ req' = req /\ reserved' = reserved /\ stops' = stops
  BY DEF Replaced
<1>2. /\ req[c].kind \in Using /\ req[c] # None /\ mine[c] = None /\ exec[c] = "none" /\ Blank(c)
  BY <1>1 DEF BaseInv, Asked, Owned
<1>3. req[c] \in Request /\ KeyOf(c) \in Key
  BY <1>2 DEF BaseInv, CallsTyped, Request, KeyOf
<1>4. reserved' \in [Key -> Nat] /\ req'[c].key = KeyOf(c)
  BY <1>1 DEF BaseInv, CallsTyped, KeyOf
<1>5. CASE req[c].kind = "run"
  <2>1. Create(c, KeyOf(c), pool) /\ Enqueue(c, c) /\ Goto(c, "prune") /\ live' = live
    BY <1>5 DEF Replaced
  <2>2. "prune" \in {"prune", "warm"} OBVIOUS
  <2>3. Joins(c, c, "prune") /\ ToSet(pool') = {w \in ToSet(pool) : KeyOf(w) # KeyOf(c)} \cup {c}
    BY <1>1, <1>3, <1>4, <2>1, <2>2, CreateJoins
  <2>4. BaseInv' BY <1>1, <1>5, <2>1, <2>3, Enqueuing
  <2> QED BY <1>1, <1>5, <2>1, <2>3, <2>4
<1>6. CASE req[c].kind = "prewarm"
  <2>1. Create(c, KeyOf(c), pool) /\ Spawn(c, worker[c]) /\ Goto(c, "warm")
        /\ exec' = [exec EXCEPT ![c] = "starting"]
    <3>1. Prewarms(c, KeyOf(c)) BY <1>6 DEF Replaced
    <3> QED BY Zenon, <3>1 DEF Prewarms
  <2>2. "warm" \in {"prune", "warm"} OBVIOUS
  <2>3. Joins(c, c, "warm") /\ ToSet(pool') = {w \in ToSet(pool) : KeyOf(w) # KeyOf(c)} \cup {c}
    BY <1>1, <1>3, <1>4, <2>1, <2>2, CreateJoins
  <2>4. BaseInv' /\ Spawned(c, worker[c]) BY <1>1, <1>6, <2>1, <2>3, Warming
  <2> QED BY <1>1, <1>6, <2>1, <2>3, <2>4
<1>7. CASE req[c].kind = "resume"
  <2>1. pc' = [pc EXCEPT ![c] = "pruneAll"] /\ UNCHANGED <<mine, pool>> /\ WorkerUnchanged
    BY <1>7 DEF Replaced, Goto
  <2>2. "pruneAll" \in Pc \ {"idle", "warm", "replace"} /\ "none" \notin Line BY DEF Pc, Line
  <2>3. BaseInv' /\ Moves(c, "pruneAll")
    BY <1>1, <1>2, <1>4, <2>1, <2>2, GoesOnTo
  <2> QED BY <1>1, <1>7, <2>1, <2>3
<1> QED BY <1>2, <1>5, <1>6, <1>7 DEF Using

\* Steps that only take the thread of a call further.
Further(c) ==
  Dropped(c) \/ (Pruned(c) /\ pc[c] # "finish") \/ Succeeded(c) \/ FailedStopped(c)

LEMMA FurtherMoves ==
  ASSUME BaseInv, NEW c \in Call, Further(c)
  PROVE  /\ BaseInv' /\ req' = req /\ pool' = pool /\ stops' = stops /\ mode' = mode /\ mine' = mine
         /\ WorkerUnchanged
         /\ \/ /\ reserved' = reserved
               /\ \/ pc[c] = "drop" /\ pc' = [pc EXCEPT ![c] = "done"]
                  \/ pc[c] = "prune" /\ pc' = [pc EXCEPT ![c] = "await"] /\ ~Waits(c, "prune")
                  \/ /\ pc[c] = "warm" /\ pc' = [pc EXCEPT ![c] = "prune"] /\ exec[c] = "ok"
                  \/ /\ pc[c] = "failed" /\ pc' = [pc EXCEPT ![c] = "pruneAll"] /\ ~Waits(c, "own")
            \/ /\ pc[c] \in {"prune", "pruneAll", "await", "failed"} /\ Finish(c)
               /\ pc[c] = "prune" => req[c].kind = "prewarm"
               /\ pc[c] = "await" => exec[c] = "ok"
               /\ pc[c] = "failed" => ~Waits(c, "own")
         /\ pc[c] \in {"prune", "pruneAll"} => ~Crowded(c)
         /\ \E p \in Pc : Moves(c, p)
<1>0. /\ req' = req /\ pool' = pool /\ stops' = stops /\ mode' = mode /\ mine' = mine
      /\ WorkerUnchanged /\ UNCHANGED <<mode, req, mine, pool, stops>>
  BY DEF Further, Dropped, Pruned, Succeeded, FailedStopped, Finish, WorkerUnchanged, Goto
<1>1. /\ "ok" \notin Line
      /\ {"done", "await", "prune", "pruneAll", "finish"} \subseteq Pc \ {"idle", "warm", "replace"}
  BY DEF Line, Pc
<1>2. CASE reserved' = reserved /\ pc[c] = "drop" /\ pc' = [pc EXCEPT ![c] = "done"]
  <2>1. reserved' \in [Key -> Nat] /\ mine[c] = None /\ exec[c] \notin Line
    BY <1>2 DEF BaseInv, CallsTyped, Owned, Lined
  <2>2. BaseInv' /\ Moves(c, "done") BY <1>0, <1>1, <1>2, <2>1, GoesOnTo
  <2> QED BY <1>0, <1>1, <1>2, <2>2
<1>3. CASE /\ reserved' = reserved /\ pc[c] = "prune" /\ pc' = [pc EXCEPT ![c] = "await"]
           /\ req[c].kind # "prewarm" /\ ~Waits(c, "prune") /\ ~Crowded(c)
  <2>1. reserved' \in [Key -> Nat] /\ mine[c] # None /\ req[c].kind \in Using
    BY <1>3 DEF BaseInv, CallsTyped, Asked
  <2>2. BaseInv' /\ Moves(c, "await") BY <1>0, <1>1, <1>3, <2>1, GoesOnTo
  <2> QED BY <1>0, <1>1, <1>3, <2>2
<1>4. CASE reserved' = reserved /\ pc[c] = "warm" /\ pc' = [pc EXCEPT ![c] = "prune"] /\ exec[c] = "ok"
  <2>1. reserved' \in [Key -> Nat] /\ req[c].kind = "prewarm"
    BY <1>4 DEF BaseInv, CallsTyped, Asked
  <2>2. BaseInv' /\ Moves(c, "prune")
    <3>1. "prewarm" \in Using BY DEF Using
    <3> QED BY <1>0, <1>1, <1>4, <2>1, <3>1, GoesOnTo
  <2> QED BY <1>0, <1>1, <1>4, <2>2
<1>5. CASE /\ reserved' = reserved /\ pc[c] = "failed" /\ pc' = [pc EXCEPT ![c] = "pruneAll"]
           /\ ~Waits(c, "own")
  <2>1. reserved' \in [Key -> Nat] /\ req[c].kind \in Using /\ exec[c] \notin Line
    BY <1>5 DEF BaseInv, CallsTyped, Asked, Lined
  <2>2. BaseInv' /\ Moves(c, "pruneAll") BY <1>0, <1>1, <1>5, <2>1, GoesOnTo
  <2> QED BY <1>0, <1>1, <1>5, <2>2
<1>6. CASE /\ pc[c] \in {"prune", "pruneAll", "await", "failed"} /\ Finish(c)
           /\ pc[c] = "prune" => req[c].kind = "prewarm"
           /\ pc[c] = "await" => exec[c] = "ok"
           /\ pc[c] = "failed" => ~Waits(c, "own")
           /\ pc[c] \in {"prune", "pruneAll"} => ~Crowded(c)
  <2>1. /\ req[c].kind \in Using /\ exec[c] \notin Line
    BY <1>1, <1>6 DEF BaseInv, Asked, Lined
  <2>2. req[c] # None /\ KeyOf(c) \in Key
    BY <1>6, NoneAssumption DEF BaseInv, CallsTyped, Asked, Request, KeyOf
  <2>3. reserved' \in [Key -> Nat] BY <1>6, <2>2, ReserveTyped DEF Finish
  <2>4. pc' = [pc EXCEPT ![c] = "finish"] BY <1>6 DEF Finish, Goto
  <2>5. BaseInv' /\ Moves(c, "finish") BY <1>0, <1>1, <1>6, <2>1, <2>3, <2>4, GoesOnTo
  <2> QED BY <1>0, <1>1, <1>6, <2>5
<1>7. Dropped(c) => reserved' = reserved /\ pc[c] = "drop" /\ pc' = [pc EXCEPT ![c] = "done"]
  BY DEF Dropped, Goto
<1>8. Pruned(c) /\ pc[c] = "prune" /\ req[c].kind # "prewarm" =>
        /\ reserved' = reserved /\ pc' = [pc EXCEPT ![c] = "await"] /\ ~Waits(c, "prune") /\ ~Crowded(c)
  BY DEF Pruned, Goto, Pruning
<1>9. Pruned(c) /\ pc[c] # "finish" /\ ~(pc[c] = "prune" /\ req[c].kind # "prewarm") =>
        /\ pc[c] \in {"prune", "pruneAll"} /\ Finish(c) /\ ~Crowded(c)
        /\ pc[c] = "prune" => req[c].kind = "prewarm"
  BY DEF Pruned, Pruning
<1>10. Succeeded(c) => /\ exec[c] = "ok"
                       /\ \/ pc[c] = "await" /\ Finish(c)
                          \/ pc[c] = "warm" /\ pc' = [pc EXCEPT ![c] = "prune"] /\ reserved' = reserved
  BY DEF Succeeded, Goto
<1>11. FailedStopped(c) => /\ pc[c] = "failed" /\ ~Waits(c, "own")
                           /\ Finish(c) \/ (reserved' = reserved /\ pc' = [pc EXCEPT ![c] = "pruneAll"])
  BY DEF FailedStopped, Goto
<1>12. CASE Dropped(c) BY <1>2, <1>7, <1>12
<1>13. CASE Pruned(c) /\ pc[c] # "finish"
  <2>1. CASE pc[c] = "prune" /\ req[c].kind # "prewarm" BY <1>3, <1>8, <1>13, <2>1
  <2>2. CASE ~(pc[c] = "prune" /\ req[c].kind # "prewarm") BY <1>6, <1>9, <1>13, <2>2
  <2> QED BY <2>1, <2>2
<1>14. CASE Succeeded(c) BY <1>4, <1>6, <1>10, <1>14
<1>15. CASE FailedStopped(c) BY <1>5, <1>6, <1>11, <1>15
<1> QED BY <1>12, <1>13, <1>14, <1>15 DEF Further

-----------------------------------------------------------------------------
LEMMA PoolStepsKeep ==
  ASSUME BaseInv, NEW c \in Call, BeginStep(c) \/ PoolStep(c)
  PROVE  BaseInv'
<1>1. CASE BeginStep(c)
  <2>1. PICK k \in Key, f \in Fence :
          \/ \E kind \in {"run", "resume"} : RunReuses(c, k, f, kind)
          \/ RunCreates(c, k, f)
          \/ ResumeRefused(c, k, f)
          \/ \E kind \in {"run", "resume", "prewarm"} : Replaces(c, k, f, kind)
          \/ PrewarmCreates(c, k, f)
          \/ PrewarmReuses(c, k, f)
          \/ Discards(c, k, f)
          \/ StopsAll(c, k, f)
    BY Zenon, <1>1 DEF BeginStep
  <2>2. CASE \E kind \in {"run", "resume"} : RunReuses(c, k, f, kind)
    BY <2>2, RunReusesKeeps
  <2>3. CASE \E kind \in {"run", "resume", "prewarm"} : Replaces(c, k, f, kind)
    BY <2>3, ReplacesMoves DEF Using
  <2> QED BY <2>1, <2>2, <2>3, RunCreatesKeeps, ResumeRefusedMoves, PrewarmCreatesKeeps,
             PrewarmReusesMoves, DropsMove
<1>2. CASE PoolStep(c)
  <2>1. CASE Further(c) BY <2>1, FurtherMoves
  <2>2. CASE Pruned(c) /\ pc[c] = "finish" BY <2>2, Ending
  <2> QED BY <1>2, <2>1, <2>2, ReplacedKeeps, EvictsMoves, FailedMoves DEF PoolStep, Further
<1> QED BY <1>1, <1>2

LEMMA StutterKeeps == BaseInv /\ UNCHANGED vars => BaseInv'
<1> SUFFICES ASSUME BaseInv, UNCHANGED vars PROVE BaseInv'
  OBVIOUS
<1>1. /\ mode' = mode /\ req' = req /\ pc' = pc /\ exec' = exec /\ mine' = mine /\ pool' = pool
      /\ reserved' = reserved /\ worker' = worker /\ live' = live /\ stops' = stops
  BY DEF vars
<1>2. CallsTyped' /\ WorkersTyped' BY <1>1 DEF BaseInv, CallsTyped, WorkersTyped
<1>3. PoolKeys' /\ Asked' BY <1>1 DEF BaseInv, PoolKeys, Asked, KeyOf
<1>4. \A u \in Call : Blank(u) => Blank(u)' BY <1>1 DEF Blank
<1>5. Owned' BY <1>1, <1>4 DEF BaseInv, Owned, KeyOf
<1>6. Lined' /\ Queues' /\ Fresh' BY <1>1 DEF BaseInv, Lined, Queues, Fresh
<1> QED BY <1>2, <1>3, <1>5, <1>6 DEF BaseInv

LEMMA BaseStep == BaseInv /\ [Next]_vars => BaseInv'
<1> SUFFICES ASSUME BaseInv, Next PROVE BaseInv'
  BY StutterKeeps
<1>1. CASE \E c \in Call : BeginStep(c) \/ PoolStep(c)
  BY <1>1, PoolStepsKeep
<1>2. CASE \/ \E c \in Call : ExecStep(c)
           \/ \E s \in stops : StopStep(s)
           \/ \E p \in live : ProcessExits(p)
           \/ \E w \in Call : PipeBreaks(w)
  BY <1>2, WorkerStepsKeep
<1> QED BY <1>1, <1>2 DEF Next

LEMMA BaseInit == Init => BaseInv
<1> SUFFICES ASSUME Init PROVE BaseInv
  OBVIOUS
<1> DEFINE R == [proc |-> 0, dead |-> FALSE, ran |-> FALSE, queue |-> << >>, talk |-> 0]
<1>1. /\ mode \in Modes /\ req = [c \in Call |-> None] /\ pc = [c \in Call |-> "idle"]
      /\ exec = [c \in Call |-> "none"] /\ mine = [c \in Call |-> None] /\ pool = << >>
      /\ reserved = [k \in Key |-> 0] /\ live = {} /\ stops = {}
      /\ worker = [c \in Call |-> R]
  BY Zenon DEF Init
<1>2. R \in WorkerRecord
  <2>1. 0 \in 0..MaxProcs /\ 0 \in 0..2 BY Constants
  <2>2. << >> \in Seq(Call) OBVIOUS
  <2> QED BY <2>1, <2>2 DEF WorkerRecord
<1>3. ToSet(pool) = {} /\ IsInjective(pool)
  BY <1>1, EmptyQueue
<1>4. \A w \in Call : worker[w] = R /\ R.queue = << >> /\ R.talk = 0
  BY <1>1
<1> HIDE DEF R
<1>5. CallsTyped
  <2>1. "idle" \in Pc BY DEF Pc
  <2> QED BY <1>1, <2>1 DEF CallsTyped
<1>6. WorkersTyped
  <2>1. "none" \in Exec BY DEF Exec
  <2> QED BY <1>1, <1>2, <2>1, PoolAssumption DEF WorkersTyped
<1>7. PoolKeys BY <1>3 DEF PoolKeys
<1>8. Asked BY <1>1 DEF Asked
<1>9. ASSUME NEW w \in Call PROVE Blank(w)
  <2>1. w # None BY Constants
  <2>2. worker[w] = R /\ w \notin ToSet(pool) /\ (\A d \in Call : mine[d] # w)
        /\ (\A s \in stops : s.w # w) /\ (\A p \in live : p[1] # w)
    BY <1>1, <1>3, <1>4, <2>1
  <2> QED BY Zenon, <2>2 DEF Blank, R
<1>10. Owned BY <1>1, <1>9 DEF Owned
<1>11. Lined BY <1>1 DEF Lined, Line
<1>12. Queues
  <2>1. \A w \in Call : worker[w].queue = << >> BY <1>4
  <2>2. \A w \in Call : ToSet(worker[w].queue) = {} /\ IsInjective(worker[w].queue)
    BY Zenon, <2>1, EmptyQueue
  <2> QED BY <2>2 DEF Queues
<1>13. Fresh BY <1>1, <1>4 DEF Fresh
<1> QED BY <1>5, <1>6, <1>7, <1>8, <1>10, <1>11, <1>12, <1>13 DEF BaseInv

\* The variables keep their types, and the map of workers never holds two of one key:
\* Map.set and Map.delete, wherever the calls put a worker in and take it out.
THEOREM TypeCorrect == Spec => []TypeOK
<1>1. BaseInv => TypeOK
  <2> SUFFICES ASSUME BaseInv PROVE TypeOK
    OBVIOUS
  <2>1. CallsTyped /\ WorkersTyped BY DEF BaseInv
  <2>2. \A i, j \in DOMAIN pool : req[pool[i]].key = req[pool[j]].key => i = j
    <3>1. pool \in Seq(Call) /\ PoolKeys BY PoolTyped
    <3>2. /\ DOMAIN pool = 1..Len(pool) /\ ToSet(pool) = {pool[i] : i \in 1..Len(pool)}
          /\ \A i, j \in 1..Len(pool) : pool[i] = pool[j] => i = j
      BY <3>1, SeqFacts DEF PoolKeys
    <3> QED BY <3>1, <3>2 DEF PoolKeys, KeyOf
  <2> QED BY <2>1, <2>2 DEF TypeOK, CallsTyped, WorkersTyped, WorkerRecord, StopRecord
<1>2. Init => BaseInv BY BaseInit
<1>3. BaseInv /\ [Next]_vars => BaseInv' BY BaseStep
<1> QED BY <1>1, <1>2, <1>3, PTL DEF Spec

\* A run that does not resume a session is alone in the conversation of its process:
\* RpcWorker.run asks for a new session of a worker that ran before, starts a process
\* that died meanwhile and sends its prompt once.
THEOREM SessionsStartFresh == Spec => []FreshSession
<1>1. BaseInv => FreshSession BY DEF BaseInv, Fresh, FreshSession
<1>2. Init => BaseInv BY BaseInit
<1>3. BaseInv /\ [Next]_vars => BaseInv' BY BaseStep
<1> QED BY <1>1, <1>2, <1>3, PTL DEF Spec

-----------------------------------------------------------------------------
(* Pruning.  The calls that hold a reservation of a key are the ones between *)
(* reserve and release; a worker that is pruned is out of the map at once.   *)

Holder(c) == pc[c] \in {"replace", "prune", "await", "failed", "warm", "pruneAll"}
Holders(k) == {c \in Call : Holder(c) /\ KeyOf(c) = k}
Counted == \A k \in Key : reserved[k] = Cardinality(Holders(k))

PruneGone == \A s \in stops : s.why = "prune" => s.w \notin ToSet(pool)

HeldInv == BaseInv /\ Counted /\ PruneGone /\ PruneSpares

\* Only call c moves.
OthersStay(c) == \A d \in Call : d # c => pc'[d] = pc[d] /\ req'[d] = req[d]

LEMMA HoldersFinite == \A k : IsFiniteSet(Holders(k))
<1> TAKE k
<1>1. Holders(k) \subseteq Call BY DEF Holders
<1> QED BY <1>1, Constants, FS_Subset

LEMMA HolderKeeps ==
  ASSUME Counted, NEW c \in Call, OthersStay(c), reserved' = reserved,
         Holder(c)' <=> Holder(c), Holder(c) => req'[c] = req[c]
  PROVE  Counted'
<1>1. ASSUME NEW k \in Key PROVE Holders(k)' = Holders(k)
  <2>1. \A d \in Call : d \in Holders(k)' <=> d \in Holders(k)
    <3>1. \A d \in Call : d # c => (Holder(d)' <=> Holder(d)) /\ KeyOf(d)' = KeyOf(d)
      BY DEF OthersStay, Holder, KeyOf
    <3>2. Holder(c) => KeyOf(c)' = KeyOf(c) BY DEF KeyOf
    <3> QED BY <3>1, <3>2 DEF Holders
  <2>2. Holders(k)' \subseteq Call /\ Holders(k) \subseteq Call BY DEF Holders
  <2> QED BY <2>1, <2>2
<1> QED BY <1>1 DEF Counted

LEMMA HolderGains ==
  ASSUME BaseInv, Counted, NEW c \in Call, OthersStay(c), ~Holder(c), Holder(c)',
         NEW k \in Key, req'[c].key = k, Reserve(k)
  PROVE  Counted'
<1>1. \A d \in Call : d # c => (Holder(d)' <=> Holder(d)) /\ KeyOf(d)' = KeyOf(d)
  BY DEF OthersStay, Holder, KeyOf
<1>2. Holders(k)' = Holders(k) \cup {c} /\ c \notin Holders(k)
  <2>1. KeyOf(c)' = k BY DEF KeyOf
  <2>2. \A d \in Call : d \in Holders(k)' <=> d \in Holders(k) \cup {c} BY <1>1, <2>1 DEF Holders
  <2>3. Holders(k)' \subseteq Call /\ Holders(k) \subseteq Call BY DEF Holders
  <2> QED BY <2>2, <2>3 DEF Holders
<1>3. ASSUME NEW j \in Key, j # k PROVE Holders(j)' = Holders(j)
  <2>1. KeyOf(c)' = k BY DEF KeyOf
  <2>2. \A d \in Call : d \in Holders(j)' <=> d \in Holders(j) BY <1>1, <1>3, <2>1 DEF Holders
  <2>3. Holders(j)' \subseteq Call /\ Holders(j) \subseteq Call BY DEF Holders
  <2> QED BY <2>2, <2>3
<1>4. Cardinality(Holders(k) \cup {c}) = Cardinality(Holders(k)) + 1
  BY <1>2, HoldersFinite, FS_AddElement
<1>5. reserved'[k] = reserved[k] + 1 /\ \A j \in Key : j # k => reserved'[j] = reserved[j]
  BY DEF Reserve, BaseInv, CallsTyped
<1>6. \A j \in Key : reserved'[j] = Cardinality(Holders(j)')
  BY <1>2, <1>3, <1>4, <1>5 DEF Counted
<1> QED BY <1>6 DEF Counted

LEMMA HolderLoses ==
  ASSUME BaseInv, Counted, NEW c \in Call, OthersStay(c), req'[c] = req[c], Holder(c), ~Holder(c)',
         KeyOf(c) \in Key, Release(KeyOf(c))
  PROVE  Counted'
<1>0. PICK k \in Key : k = KeyOf(c)
  OBVIOUS
<1>1. \A d \in Call : KeyOf(d)' = KeyOf(d) /\ (d # c => (Holder(d)' <=> Holder(d)))
  BY DEF OthersStay, Holder, KeyOf
<1>2. Holders(k)' = Holders(k) \ {c} /\ c \in Holders(k)
  <2>1. \A d \in Call : d \in Holders(k)' <=> d \in Holders(k) \ {c} BY <1>0, <1>1 DEF Holders
  <2>2. Holders(k)' \subseteq Call /\ Holders(k) \subseteq Call BY DEF Holders
  <2> QED BY <1>0, <2>1, <2>2 DEF Holders
<1>3. ASSUME NEW j \in Key, j # k PROVE Holders(j)' = Holders(j)
  <2>1. \A d \in Call : d \in Holders(j)' <=> d \in Holders(j) BY <1>0, <1>1, <1>3 DEF Holders
  <2>2. Holders(j)' \subseteq Call /\ Holders(j) \subseteq Call BY DEF Holders
  <2> QED BY <2>1, <2>2
<1>4. /\ Cardinality(Holders(k) \ {c}) = Cardinality(Holders(k)) - 1
      /\ Cardinality(Holders(k)) \in Nat
  BY <1>2, HoldersFinite, FS_RemoveElement, FS_CardinalityType
<1>5. Cardinality(Holders(k)) # 0
  BY <1>2, HoldersFinite, FS_EmptySet
<1>7. /\ reserved'[k] = IF reserved[k] > 0 THEN reserved[k] - 1 ELSE 0
      /\ \A j \in Key : j # k => reserved'[j] = reserved[j]
  BY <1>0 DEF Release, BaseInv, CallsTyped
<1>8. reserved'[k] = Cardinality(Holders(k) \ {c})
  <2>1. reserved[k] = Cardinality(Holders(k)) BY DEF Counted
  <2> QED BY <1>4, <1>5, <1>7, <2>1
<1>9. \A j \in Key : reserved'[j] = Cardinality(Holders(j)')
  BY <1>2, <1>3, <1>7, <1>8 DEF Counted
<1> QED BY <1>9 DEF Counted

\* While a call reserves a key, its count is not zero.
LEMMA HeldIsCounted ==
  ASSUME BaseInv, Counted, NEW c \in Call, Holder(c)
  PROVE  KeyOf(c) \in Key /\ reserved[KeyOf(c)] # 0
<1>1. KeyOf(c) \in Key
  BY DEF Holder, BaseInv, Asked, CallsTyped, KeyOf, Request
<1>2. c \in Holders(KeyOf(c)) BY DEF Holders
<1> DEFINE H == Holders(KeyOf(c))
<1>3. Cardinality(H) # 0
  <2>1. IsFiniteSet(H) BY HoldersFinite
  <2>2. c \in H BY <1>2
  <2> HIDE DEF H
  <2> QED BY <2>1, <2>2, FS_EmptySet
<1> QED BY <1>1, <1>3 DEF Counted

-----------------------------------------------------------------------------
LEMMA SparesUnheld ==
  ASSUME BaseInv, Counted, NEW w \in ToSet(pool), reserved[KeyOf(w)] = 0
  PROVE  worker[w].queue = << >> /\ exec[w] # "starting"
<1>1. w \in Call BY PoolTyped
<1>2. worker[w].queue \in Seq(Call) /\ IsInjective(worker[w].queue)
  BY <1>1, RecordOf DEF BaseInv, Queues
<1>3. worker[w].queue = << >>
  <2> SUFFICES ASSUME worker[w].queue # << >> PROVE FALSE
    OBVIOUS
  <2>1. PICK d \in ToSet(worker[w].queue) : d \in Call BY <1>2, TailFacts, SeqFacts
  <2>2. mine[d] = w /\ pc[d] \in {"prune", "await"} BY <1>1, <2>1 DEF BaseInv, Queues
  <2>3. KeyOf(d) = KeyOf(w)
    <3>1. w # None BY <1>1, Constants
    <3> QED BY <2>1, <2>2, <3>1 DEF BaseInv, Owned
  <2>4. Holder(d) BY <2>2 DEF Holder
  <2> QED BY <2>1, <2>3, <2>4, HeldIsCounted
<1>4. exec[w] # "starting"
  <2> SUFFICES ASSUME exec[w] = "starting" PROVE FALSE
    OBVIOUS
  <2>1. pc[w] \in {"prune", "await", "warm"} BY <1>1, InLine DEF Line
  <2>2. Holder(w) BY <2>1 DEF Holder
  <2> QED BY <1>1, <2>2, HeldIsCounted
<1> QED BY <1>3, <1>4

LEMMA MovesStay ==
  ASSUME BaseInv, NEW c \in Call, NEW p \in Pc, Moves(c, p)
  PROVE  OthersStay(c) /\ pc'[c] = p /\ (pc[c] # "idle" => req'[c] = req[c])
BY DEF Moves, OthersStay, BaseInv, CallsTyped

LEMMA JoinsStay ==
  ASSUME BaseInv, NEW c \in Call, NEW w \in Call, NEW p \in Pc, Joins(c, w, p)
  PROVE  OthersStay(c) /\ pc'[c] = p /\ (pc[c] # "idle" => req'[c] = req[c])
BY DEF Joins, OthersStay, BaseInv, CallsTyped

LEMMA MovesHold ==
  ASSUME HeldInv, BaseInv', Counted', NEW c \in Call, NEW p \in Pc, Moves(c, p),
         \A s \in stops' : s.why = "prune" =>
           \/ s \in stops
           \/ s.w \notin ToSet(pool') /\ worker[s.w].queue = << >> /\ exec[s.w] # "starting"
  PROVE  HeldInv'
<1>1. /\ worker' = worker /\ exec' = exec /\ ToSet(pool') \subseteq ToSet(pool)
  BY DEF Moves
<1>2. PruneGone' BY <1>1 DEF HeldInv, PruneGone
<1>3. PruneSpares' BY <1>1 DEF HeldInv, PruneSpares
<1> QED BY <1>2, <1>3 DEF HeldInv

LEMMA JoinsHold ==
  ASSUME HeldInv, BaseInv', Counted', NEW c \in Call, NEW w \in Call, NEW p, Joins(c, w, p),
         \A u \in Call : u # w => worker'[u] = worker[u],
         \A d \in Call : d # c => exec'[d] = exec[d],
         \A s \in stops' : s.why = "prune" => s \in stops
  PROVE  HeldInv'
<1>1. Blank(c)
  BY DEF Joins, HeldInv, BaseInv, Owned
<1>2. ASSUME NEW s \in stops', s.why = "prune"
      PROVE  /\ s \in stops /\ s.w \in Call /\ s.w # c /\ s.w # w /\ s.w \notin ToSet(pool)
  <2>1. s \in stops BY <1>2
  <2>2. s.w \in Call BY <2>1 DEF HeldInv, BaseInv, WorkersTyped, StopRecord
  <2>3. s.w # c BY <1>1, <2>1 DEF Blank
  <2>4. s.w \notin ToSet(pool) BY <1>2, <2>1 DEF HeldInv, PruneGone
  <2>5. s.w # w BY <2>3, <2>4 DEF Joins
  <2> QED BY <2>1, <2>2, <2>3, <2>4, <2>5
<1>3. PruneGone'
  BY <1>2 DEF PruneGone, Joins
<1>4. PruneSpares'
  BY <1>2 DEF HeldInv, PruneSpares
<1> QED BY <1>3, <1>4 DEF HeldInv

LEMMA WorkersHold ==
  ASSUME HeldInv, BaseInv', CallsUnchanged,
         \A d \in Call : exec'[d] \in Line => exec[d] \in Line,
         \A s \in stops' : s.why = "prune" => \E t \in stops : t.why = "prune" /\ t.w = s.w
  PROVE  HeldInv'
<1>1. req' = req /\ pc' = pc /\ mine' = mine /\ pool' = pool /\ reserved' = reserved
  BY DEF CallsUnchanged
<1>2. BaseInv BY DEF HeldInv
<1>3. Counted'
  <2>1. \A k : Holders(k)' = Holders(k) BY <1>1 DEF Holders, Holder, KeyOf
  <2> QED BY <1>1, <2>1 DEF HeldInv, Counted
<1>4. PruneGone' BY <1>1 DEF HeldInv, PruneGone
<1>5. PruneSpares'
  <2> SUFFICES ASSUME NEW s \in stops', s.why = "prune"
               PROVE  worker'[s.w].queue = << >> /\ exec'[s.w] # "starting"
    BY DEF PruneSpares
  <2>1. PICK t \in stops : t.why = "prune" /\ t.w = s.w OBVIOUS
  <2>2. worker[s.w].queue = << >> /\ exec[s.w] # "starting"
    BY <2>1 DEF HeldInv, PruneSpares
  <2>3. s.w \in Call /\ ~Blank(s.w)
    <3>1. t.w \in Call BY DEF HeldInv, BaseInv, WorkersTyped, StopRecord
    <3> QED BY <1>2, <2>1, <3>1, InUseIsThere
  <2>4. worker'[s.w].queue = << >>
    <3> SUFFICES ASSUME worker'[s.w].queue # << >> PROVE FALSE
      OBVIOUS
    <3>1. worker'[s.w].queue \in Seq(Call) /\ IsInjective(worker'[s.w].queue)
      BY <2>3 DEF BaseInv, WorkersTyped, WorkerRecord, Queues
    <3>2. PICK d \in ToSet(worker'[s.w].queue) : d \in Call
      <4> DEFINE q == worker'[s.w].queue
      <4> HIDE DEF q
      <4>1. Head(q) \in ToSet(q) /\ ToSet(q) \subseteq Call BY <3>1, TailFacts, SeqFacts DEF q
      <4> QED BY <4>1 DEF q
    <3>3. /\ mine[d] = s.w /\ exec'[d] \in Line /\ req[d].kind \in {"run", "resume"}
      BY <1>1, <2>3, <3>2 DEF BaseInv, Queues
    <3>4. exec[d] \in Line BY <3>2, <3>3
    <3>5. d \in ToSet(worker[s.w].queue) BY <1>2, <3>2, <3>3, <3>4, InLine
    <3> QED BY <2>2, <3>5, EmptyQueue
  <2>5. exec'[s.w] # "starting"
    <3> SUFFICES ASSUME exec'[s.w] = "starting" PROVE FALSE
      OBVIOUS
    <3>1. exec[s.w] \in Line BY <2>3 DEF Line
    <3>2. req[s.w].kind # "prewarm" /\ mine[s.w] \in Call /\ s.w \in ToSet(worker[mine[s.w]].queue)
      BY <1>2, <2>2, <2>3, <3>1, InLine
    <3>3. mine[s.w] = s.w
      <4>1. mine[s.w] # None BY <3>2, Constants
      <4> QED BY <2>3, <4>1 DEF HeldInv, BaseInv, Owned
    <3> QED BY <2>2, <3>2, <3>3, EmptyQueue
  <2> QED BY <2>4, <2>5
<1> QED BY <1>3, <1>4, <1>5 DEF HeldInv

-----------------------------------------------------------------------------
LEMMA BeginHolds ==
  ASSUME HeldInv, NEW c \in Call, NEW k \in Key, NEW f \in Fence,
         \/ \E kind \in {"run", "resume"} : RunReuses(c, k, f, kind)
         \/ RunCreates(c, k, f)
         \/ ResumeRefused(c, k, f)
         \/ \E kind \in Using : Replaces(c, k, f, kind)
         \/ PrewarmCreates(c, k, f)
         \/ PrewarmReuses(c, k, f)
  PROVE  HeldInv'
<1>0. BaseInv /\ Counted BY DEF HeldInv
<1>1. /\ pc[c] = "idle" => ~Holder(c)
      /\ {"prune", "warm", "replace", "failed"} \subseteq Pc
      /\ pc'[c] \in {"prune", "warm", "replace", "failed"} => Holder(c)'
  BY DEF Holder, Pc
<1>2. CASE \E kind \in {"run", "resume"} : RunReuses(c, k, f, kind)
  <2>1. /\ BaseInv' /\ stops' = stops /\ Reserve(k) /\ pc[c] = "idle" /\ req'[c].key = k
        /\ \E w \in Tracked(k) : Joins(c, w, "prune") /\ Enqueue(c, w)
    BY <1>0, <1>2, RunReusesKeeps
  <2>2. PICK w \in Tracked(k) : Joins(c, w, "prune") /\ Enqueue(c, w) BY <2>1
  <2>3. w \in Call BY <1>0, TrackedFacts
  <2>4. OthersStay(c) /\ pc'[c] = "prune" BY <1>0, <1>1, <2>2, <2>3, JoinsStay
  <2>5. Counted' BY <1>0, <1>1, <2>1, <2>4, HolderGains
  <2>6. /\ \A u \in Call : u # w => worker'[u] = worker[u]
        /\ \A d \in Call : d # c => exec'[d] = exec[d]
    BY <1>0, <2>2, <2>3, EnqueueFacts
  <2> QED BY <2>1, <2>2, <2>3, <2>5, <2>6, JoinsHold
<1>3. CASE RunCreates(c, k, f)
  <2>1. /\ BaseInv' /\ Reserve(k) /\ pc[c] = "idle" /\ req'[c].key = k
        /\ Joins(c, c, "prune") /\ Enqueue(c, c)
        /\ \A s \in stops' : s \in stops \/ s.why = "stale"
    BY <1>0, <1>3, RunCreatesKeeps
  <2>2. OthersStay(c) /\ pc'[c] = "prune" BY <1>0, <1>1, <2>1, JoinsStay
  <2>3. Counted' BY <1>0, <1>1, <2>1, <2>2, HolderGains
  <2>4. /\ \A u \in Call : u # c => worker'[u] = worker[u]
        /\ \A d \in Call : d # c => exec'[d] = exec[d]
    BY <1>0, <2>1, EnqueueFacts
  <2>5. \A s \in stops' : s.why = "prune" => s \in stops BY <2>1
  <2> QED BY <2>1, <2>3, <2>4, <2>5, JoinsHold
<1>4. CASE PrewarmCreates(c, k, f)
  <2>1. /\ BaseInv' /\ Reserve(k) /\ pc[c] = "idle" /\ req'[c].key = k /\ stops' = stops
        /\ Joins(c, c, "warm") /\ Spawned(c, worker[c]) /\ exec' = [exec EXCEPT ![c] = "starting"]
    BY <1>0, <1>4, PrewarmCreatesKeeps
  <2>2. OthersStay(c) /\ pc'[c] = "warm" BY <1>0, <1>1, <2>1, JoinsStay
  <2>3. Counted' BY <1>0, <1>1, <2>1, <2>2, HolderGains
  <2>4. /\ \A u \in Call : u # c => worker'[u] = worker[u]
        /\ \A d \in Call : d # c => exec'[d] = exec[d]
    BY <1>0, <2>1 DEF Spawned, BaseInv, WorkersTyped
  <2> QED BY <2>1, <2>3, <2>4, JoinsHold
<1>5. CASE \/ ResumeRefused(c, k, f) \/ PrewarmReuses(c, k, f)
           \/ \E kind \in Using : Replaces(c, k, f, kind)
  <2>1. /\ BaseInv' /\ Reserve(k) /\ pc[c] = "idle" /\ req'[c].key = k
        /\ \E p \in {"prune", "replace", "failed"} : Moves(c, p)
        /\ \A s \in stops' : s \in stops \/ s.why = "own"
    BY <1>0, <1>5, ResumeRefusedMoves, ReplacesMoves, PrewarmReusesMoves
  <2>2. PICK p \in {"prune", "replace", "failed"} : Moves(c, p) BY <2>1
  <2>3. OthersStay(c) /\ pc'[c] = p /\ p \in Pc BY <1>0, <1>1, <2>2, MovesStay
  <2>4. Counted' BY <1>0, <1>1, <2>1, <2>3, HolderGains
  <2>5. \A s \in stops' : s.why = "prune" => s \in stops BY <2>1
  <2> QED BY <2>1, <2>2, <2>3, <2>4, <2>5, MovesHold
<1> QED BY <1>2, <1>3, <1>4, <1>5

LEMMA DropsHold ==
  ASSUME HeldInv, NEW c \in Call, NEW k \in Key, NEW f \in Fence,
         Discards(c, k, f) \/ StopsAll(c, k, f)
  PROVE  HeldInv'
<1>0. BaseInv /\ Counted BY DEF HeldInv
<1>1. /\ BaseInv' /\ Moves(c, "drop") /\ pc[c] = "idle"
      /\ \A s \in stops' : s \in stops \/ s.why = "own"
  BY <1>0, DropsMove
<1>2. "drop" \in Pc BY DEF Pc
<1>3. OthersStay(c) /\ pc'[c] = "drop" BY <1>0, <1>1, <1>2, MovesStay
<1>4. ~Holder(c) /\ ~Holder(c)' BY <1>1, <1>3 DEF Holder
<1>5. Counted'
  <2>1. CASE Discards(c, k, f)
    <3>1. reserved' = reserved BY <2>1 DEF Discards
    <3> QED BY <1>0, <1>3, <1>4, <3>1, HolderKeeps
  <2>2. CASE StopsAll(c, k, f)
    <3>1. reserved' = [key \in Key |-> 0] BY <2>2 DEF StopsAll
    <3>2. \A d \in Call : ~InFlight(d)
      BY <2>2 DEF StopsAll
    <3>3. \A d \in Call : d # c => ~Holder(d)'
      BY <1>3, <3>2 DEF InFlight, Holder, OthersStay
    <3>4. ASSUME NEW j \in Key PROVE Holders(j)' = {}
      BY <1>4, <3>3 DEF Holders
    <3>5. Cardinality({}) = 0 BY FS_EmptySet
    <3>6. \A j \in Key : reserved'[j] = Cardinality(Holders(j)')
      BY <3>1, <3>4, <3>5
    <3> QED BY <3>6 DEF Counted
  <2> QED BY <2>1, <2>2
<1>6. \A s \in stops' : s.why = "prune" => s \in stops BY <1>1
<1> QED BY <1>1, <1>2, <1>5, <1>6, MovesHold

LEMMA PoolHolds ==
  ASSUME HeldInv, NEW c \in Call, PoolStep(c)
  PROVE  HeldInv'
<1>0. BaseInv /\ Counted BY DEF HeldInv
<1>1. CASE Further(c)
  <2>1. /\ BaseInv' /\ req' = req /\ stops' = stops
        /\ \/ /\ reserved' = reserved
              /\ \/ pc[c] = "drop" /\ pc' = [pc EXCEPT ![c] = "done"]
                 \/ pc[c] = "prune" /\ pc' = [pc EXCEPT ![c] = "await"]
                 \/ pc[c] = "warm" /\ pc' = [pc EXCEPT ![c] = "prune"]
                 \/ pc[c] = "failed" /\ pc' = [pc EXCEPT ![c] = "pruneAll"]
           \/ pc[c] \in {"prune", "pruneAll", "await", "failed"} /\ Finish(c)
        /\ \E p \in Pc : Moves(c, p)
    BY <1>0, <1>1, FurtherMoves
  <2>2. PICK p \in Pc : Moves(c, p) BY <2>1
  <2>3. OthersStay(c) /\ pc'[c] = p BY <1>0, <2>2, MovesStay
  <2>4. pc \in [Call -> Pc] BY <1>0 DEF BaseInv, CallsTyped
  <2>5. CASE /\ reserved' = reserved
             /\ \/ pc[c] = "drop" /\ pc' = [pc EXCEPT ![c] = "done"]
                \/ pc[c] = "prune" /\ pc' = [pc EXCEPT ![c] = "await"]
                \/ pc[c] = "warm" /\ pc' = [pc EXCEPT ![c] = "prune"]
                \/ pc[c] = "failed" /\ pc' = [pc EXCEPT ![c] = "pruneAll"]
    <3>1. Holder(c)' <=> Holder(c) BY <2>4, <2>5 DEF Holder
    <3>2. Counted' BY <1>0, <2>1, <2>3, <2>5, <3>1, HolderKeeps
    <3> QED BY <2>1, <2>2, <3>2, MovesHold
  <2>6. CASE pc[c] \in {"prune", "pruneAll", "await", "failed"} /\ Finish(c)
    <3>1. Holder(c) /\ ~Holder(c)' BY <2>4, <2>6 DEF Holder, Finish, Goto
    <3>2. KeyOf(c) \in Key BY <1>0, <3>1, HeldIsCounted
    <3>3. Counted' BY <1>0, <2>1, <2>3, <2>6, <3>1, <3>2, HolderLoses DEF Finish
    <3> QED BY <2>1, <2>2, <3>3, MovesHold
  <2> QED BY <2>1, <2>5, <2>6
<1>2. CASE Replaced(c)
  <2>1. /\ BaseInv' /\ pc[c] = "replace" /\ req' = req /\ reserved' = reserved /\ stops' = stops
        /\ \/ Joins(c, c, "prune") /\ Enqueue(c, c)
           \/ Moves(c, "pruneAll")
           \/ /\ Joins(c, c, "warm") /\ Spawned(c, worker[c])
              /\ exec' = [exec EXCEPT ![c] = "starting"]
    BY <1>0, <1>2, ReplacedKeeps
  <2>2. "prune" \in Pc /\ "warm" \in Pc /\ "pruneAll" \in Pc BY DEF Pc
  <2>3. OthersStay(c) /\ pc'[c] \in {"prune", "warm", "pruneAll"}
    BY <1>0, <2>1, <2>2, JoinsStay, MovesStay
  <2>4. Holder(c)' /\ Holder(c) BY <2>1, <2>3 DEF Holder
  <2>5. Counted' BY <1>0, <2>1, <2>3, <2>4, HolderKeeps
  <2>6. CASE Joins(c, c, "prune") /\ Enqueue(c, c)
    <3>1. /\ \A u \in Call : u # c => worker'[u] = worker[u]
          /\ \A d \in Call : d # c => exec'[d] = exec[d]
      BY <1>0, <2>6, EnqueueFacts
    <3> QED BY <2>1, <2>5, <2>6, <3>1, JoinsHold
  <2>7. CASE Moves(c, "pruneAll") BY <2>1, <2>2, <2>5, <2>7, MovesHold
  <2>8. CASE /\ Joins(c, c, "warm") /\ Spawned(c, worker[c])
             /\ exec' = [exec EXCEPT ![c] = "starting"]
    <3>1. /\ \A u \in Call : u # c => worker'[u] = worker[u]
          /\ \A d \in Call : d # c => exec'[d] = exec[d]
      BY <1>0, <2>8 DEF Spawned, BaseInv, WorkersTyped
    <3> QED BY <2>1, <2>5, <2>8, <3>1, JoinsHold
  <2> QED BY <2>1, <2>6, <2>7, <2>8
<1>3. CASE Evicts(c)
  <2>1. BaseInv' /\ Moves(c, pc[c]) /\ pc[c] # "idle" /\ reserved' = reserved /\ req' = req
    BY <1>0, <1>3, EvictsMoves
  <2>2. pc[c] \in Pc BY <1>0 DEF BaseInv, CallsTyped
  <2>3. OthersStay(c) /\ pc'[c] = pc[c] BY <1>0, <2>1, <2>2, MovesStay
  <2>4. Holder(c)' <=> Holder(c) BY <2>3 DEF Holder
  <2>5. Counted' BY <1>0, <2>1, <2>3, <2>4, HolderKeeps
  <2>6. PICK w \in ToSet(pool) : /\ w \in Call /\ reserved[KeyOf(w)] = 0
                                 /\ pool' = Without(pool, w)
                                 /\ stops' = stops \cup StopOf(w, c, "prune")
    BY <1>0, <1>3, EvictsFacts
  <2>7. worker[w].queue = << >> /\ exec[w] # "starting" BY <1>0, <2>6, SparesUnheld
  <2>8. w \notin ToSet(pool')
    <3>1. ToSet(pool') = ToSet(pool) \ {w} BY <1>0, <2>6, PoolTyped, RemovedFirst
    <3> QED BY <3>1
  <2> DEFINE N == StopOf(w, c, "prune")
  <2>9. StopsBy(N, w, c, "prune")
    <3>1. "prune" \in Why BY DEF Why
    <3> QED BY Zenon, <1>0, <2>6, <3>1, StopOfFacts
  <2>10. stops' = stops \cup N BY <2>6
  <2> HIDE DEF N
  <2>11. \A s \in stops' : s.why = "prune" =>
           \/ s \in stops
           \/ s.w \notin ToSet(pool') /\ worker[s.w].queue = << >> /\ exec[s.w] # "starting"
    BY <2>7, <2>8, <2>9, <2>10 DEF StopsBy
  <2> QED BY <2>1, <2>2, <2>5, <2>11, MovesHold
<1>4. CASE Failed(c)
  <2>1. /\ BaseInv' /\ Moves(c, "failed") /\ reserved' = reserved /\ req' = req
        /\ \A s \in stops' : s \in stops \/ s.why = "own"
    BY <1>0, <1>4, FailedMoves
  <2>2. "failed" \in Pc BY DEF Pc
  <2>3. OthersStay(c) /\ pc'[c] = "failed" BY <1>0, <2>1, <2>2, MovesStay
  <2>4. Holder(c)' /\ Holder(c) BY <1>4, <2>3 DEF Holder, Failed
  <2>5. Counted' BY <1>0, <2>1, <2>3, <2>4, HolderKeeps
  <2>6. \A s \in stops' : s.why = "prune" => s \in stops BY <2>1
  <2> QED BY <2>1, <2>2, <2>5, <2>6, MovesHold
<1>5. CASE Pruned(c) /\ pc[c] = "finish"
  <2>1. /\ BaseInv' /\ pc' = [pc EXCEPT ![c] = "done"] /\ exec' = [exec EXCEPT ![c] = "none"]
        /\ UNCHANGED <<mode, req, pool, stops, worker, live, reserved>>
    BY <1>0, <1>5, Ending
  <2>2. /\ pc'[c] = "done" /\ exec'[c] = "none"
        /\ \A d \in Call : d # c => pc'[d] = pc[d] /\ exec'[d] = exec[d]
    BY <1>0, <2>1 DEF BaseInv, CallsTyped, WorkersTyped
  <2>3. OthersStay(c) BY <2>1, <2>2 DEF OthersStay
  <2>4. ~Holder(c) /\ ~Holder(c)' BY <1>5, <2>2 DEF Holder
  <2>5. Counted' BY <1>0, <2>1, <2>3, <2>4, HolderKeeps
  <2>6. PruneGone' BY <2>1 DEF HeldInv, PruneGone
  <2>7. PruneSpares'
    <3>1. \A s \in stops : s.w \in Call BY <1>0 DEF BaseInv, WorkersTyped, StopRecord
    <3> QED BY <2>1, <2>2, <3>1 DEF HeldInv, PruneSpares
  <2> QED BY <2>1, <2>5, <2>6, <2>7 DEF HeldInv
<1> QED BY <1>1, <1>2, <1>3, <1>4, <1>5 DEF PoolStep, Further

-----------------------------------------------------------------------------
\* No run joins the line in a step of a worker, and no worker is pruned.
LEMMA WorkerStepsHold ==
  ASSUME HeldInv,
         \/ \E c \in Call : ExecStep(c)
         \/ \E s \in stops : StopStep(s)
         \/ \E p \in live : ProcessExits(p)
         \/ \E w \in Call : PipeBreaks(w)
  PROVE  HeldInv'
<1>0. BaseInv /\ BaseInv' BY WorkerStepsKeep DEF HeldInv
<1>1. exec \in [Call -> Exec] BY <1>0 DEF BaseInv, WorkersTyped
<1>2. "ok" \notin Line /\ "failed" \notin Line BY DEF Line
<1>3. ASSUME NEW c \in Call, ExecStep(c) PROVE HeldInv'
  <2>1. CASE ExecStart(c)
    <3>1. /\ GoesOn(c, mine[c]) /\ exec[c] \in Line /\ CallsUnchanged /\ stops' = stops
      BY <1>0, <2>1, ExecStartKeeps DEF ExecStart, UpNext, Line, PoolUnchanged
    <3>2. \A d \in Call : exec'[d] \in Line => exec[d] \in Line BY <1>1, <3>1 DEF GoesOn
    <3> QED BY <1>0, <3>1, <3>2, WorkersHold
  <2>2. CASE Answered(c)
    <3>1. /\ exec[c] \in Line /\ CallsUnchanged /\ stops' = stops
          /\ exec' = [exec EXCEPT ![c] = "ok"] \/ Outcome(c, "failed") \/ GoesOn(c, mine[c])
      BY <1>0, <2>2, AnsweredFacts
    <3>2. \E e : exec' = [exec EXCEPT ![c] = e]
      BY <3>1 DEF GoesOn, Outcome
    <3>3. \A d \in Call : exec'[d] \in Line => exec[d] \in Line BY <1>1, <3>1, <3>2
    <3> QED BY <1>0, <3>1, <3>3, WorkersHold
  <2>3. CASE Settles(c) \/ TimesOut(c) \/ StartupStopped(c) \/ Aborted(c)
    <3>1. /\ CallsUnchanged /\ exec[c] \in Line
          /\ \E result \in {"ok", "failed"} : Outcome(c, result)
          /\ \A s \in stops' : s \in stops \/ s.why = "abort"
      BY <1>0, <2>3, OutcomesKeep
    <3>2. \A d \in Call : exec'[d] \in Line => exec[d] \in Line BY <1>1, <3>1 DEF Outcome
    <3>3. \A s \in stops' : s.why = "prune" => s \in stops BY <3>1
    <3> QED BY <1>0, <3>1, <3>2, <3>3, WorkersHold
  <2>4. CASE StartupTimesOut(c)
    <3>1. /\ CallsUnchanged /\ exec[c] \in Line /\ exec' = [exec EXCEPT ![c] = "stopping"]
          /\ \A s \in stops' : s \in stops \/ s.why = "exec"
      BY <1>0, <2>4, StartupTimesOutKeeps
    <3>2. \A d \in Call : exec'[d] \in Line => exec[d] \in Line BY <1>1, <3>1
    <3>3. \A s \in stops' : s.why = "prune" => s \in stops BY <3>1
    <3> QED BY <1>0, <3>1, <3>2, <3>3, WorkersHold
  <2> QED BY <1>3, <2>1, <2>2, <2>3, <2>4 DEF ExecStep
\* A failure takes runs out of the line and leaves the others where they are.
<1>4. ASSUME NEW w, NEW gone, Fail(w, gone)
      PROVE  \A d \in Call : exec'[d] \in Line => exec[d] \in Line
  <2> DEFINE hit == IF worker[w].dead THEN {} ELSE {c \in Call : mine[c] = w /\ exec[c] \in Pending}
  <2>1. exec' = [c \in Call |-> IF c \in hit THEN "failed" ELSE exec[c]]
    BY <1>4 DEF Fail
  <2> HIDE DEF hit
  <2> QED BY <1>2, <2>1
<1>5. ASSUME NEW s \in stops, StopStep(s) PROVE HeldInv'
  <2>1. CASE StopKill(s)
    <3>1. CallsUnchanged /\ Converts((stops \ {s}) \cup {[s EXCEPT !.killed = TRUE]}, stops')
      BY <1>0, <2>1, StopKillKeeps
    <3>2. \A d \in Call : exec'[d] \in Line => exec[d] \in Line
      <4>1. Fail(s.w, {<<s.w, s.proc>>}) \/ WorkerUnchanged BY <2>1 DEF StopKill
      <4> QED BY <1>4, <4>1 DEF WorkerUnchanged
    <3>3. s \in StopRecord BY <1>0 DEF BaseInv, WorkersTyped
    <3>4. [s EXCEPT !.killed = TRUE].w = s.w /\ [s EXCEPT !.killed = TRUE].why = s.why
      BY <3>3 DEF StopRecord
    <3>5. \A r \in stops' : r.why = "prune" => \E t \in stops : t.why = "prune" /\ t.w = r.w
      <4> DEFINE q == [s EXCEPT !.killed = TRUE]
      <4>1. q.w = s.w /\ q.why = s.why BY <3>4
      <4>2. Converts((stops \ {s}) \cup {q}, stops') BY <3>1
      <4> HIDE DEF q
      <4>3. \A r \in stops' : r.why = "prune" => r \in stops \/ r = q
        BY <4>2 DEF Converts
      <4> QED BY <4>1, <4>3
    <3> QED BY <1>0, <3>1, <3>2, <3>5, WorkersHold
  <2>2. CASE StopEnd(s) \/ AbortAccepted(s)
    <3>1. CallsUnchanged /\ exec' = exec /\ stops' = stops \ {s}
      BY <2>2 DEF StopEnd, AbortAccepted, PoolUnchanged, WorkerUnchanged
    <3> QED BY <1>0, <3>1, WorkersHold
  <2>3. CASE AbortFails(s)
    <3>1. CallsUnchanged /\ exec' = exec /\ Converts(stops, stops')
      BY <1>0, <2>3, AbortFailsFacts DEF PoolUnchanged
    <3>2. \A r \in stops' : r.why = "prune" => r \in stops BY <3>1 DEF Converts
    <3> QED BY <1>0, <3>1, <3>2, WorkersHold
  <2> QED BY <1>5, <2>1, <2>2, <2>3 DEF StopStep
<1>6. ASSUME (\E p \in live : ProcessExits(p)) \/ (\E w \in Call : PipeBreaks(w)) PROVE HeldInv'
  <2>1. CallsUnchanged /\ Converts(stops, stops') /\ \E w, gone : Fail(w, gone)
    BY <1>0, <1>6, Losses
  <2>2. \A d \in Call : exec'[d] \in Line => exec[d] \in Line BY <1>4, <2>1
  <2>3. \A r \in stops' : r.why = "prune" => r \in stops BY <2>1 DEF Converts
  <2> QED BY <1>0, <2>1, <2>2, <2>3, WorkersHold
<1> QED BY <1>3, <1>5, <1>6

LEMMA HeldStep == HeldInv /\ [Next]_vars => HeldInv'
<1> SUFFICES ASSUME HeldInv, [Next]_vars PROVE HeldInv'
  OBVIOUS
<1>1. CASE UNCHANGED vars
  <2>1. CallsUnchanged /\ exec' = exec /\ stops' = stops
    BY <1>1 DEF vars, CallsUnchanged
  <2>2. BaseInv' BY <1>1, StutterKeeps DEF HeldInv
  <2> QED BY <2>1, <2>2, WorkersHold
<1>2. ASSUME NEW c \in Call, BeginStep(c) PROVE HeldInv'
  <2>1. PICK k \in Key, f \in Fence :
          \/ \E kind \in {"run", "resume"} : RunReuses(c, k, f, kind)
          \/ RunCreates(c, k, f)
          \/ ResumeRefused(c, k, f)
          \/ \E kind \in {"run", "resume", "prewarm"} : Replaces(c, k, f, kind)
          \/ PrewarmCreates(c, k, f)
          \/ PrewarmReuses(c, k, f)
          \/ Discards(c, k, f)
          \/ StopsAll(c, k, f)
    BY Zenon, <1>2 DEF BeginStep
  <2>2. CASE Discards(c, k, f) \/ StopsAll(c, k, f) BY <2>2, DropsHold
  <2>3. CASE ~(Discards(c, k, f) \/ StopsAll(c, k, f))
    <3>1. \/ \E kind \in {"run", "resume"} : RunReuses(c, k, f, kind)
          \/ RunCreates(c, k, f)
          \/ ResumeRefused(c, k, f)
          \/ \E kind \in Using : Replaces(c, k, f, kind)
          \/ PrewarmCreates(c, k, f)
          \/ PrewarmReuses(c, k, f)
      BY Zenon, <2>1, <2>3 DEF Using
    <3> QED BY <3>1, BeginHolds
  <2> QED BY <2>2, <2>3
<1>3. CASE \E c \in Call : PoolStep(c)
  BY <1>3, PoolHolds
<1>4. CASE \/ \E c \in Call : ExecStep(c)
           \/ \E s \in stops : StopStep(s)
           \/ \E p \in live : ProcessExits(p)
           \/ \E w \in Call : PipeBreaks(w)
  BY <1>4, WorkerStepsHold
<1> QED BY Zenon, <1>1, <1>2, <1>3, <1>4 DEF Next

LEMMA HeldInit == Init => HeldInv
<1> SUFFICES ASSUME Init PROVE HeldInv
  OBVIOUS
<1>1. BaseInv BY BaseInit
<1>2. Counted
  <2>1. ASSUME NEW k \in Key PROVE Holders(k) = {}
    BY DEF Init, Holders, Holder
  <2>2. Cardinality({}) = 0 BY FS_EmptySet
  <2>3. \A k \in Key : reserved[k] = 0 BY DEF Init
  <2> QED BY <2>1, <2>2, <2>3 DEF Counted
<1>3. stops = {} BY DEF Init
<1> QED BY <1>1, <1>2, <1>3 DEF HeldInv, PruneGone, PruneSpares

\* pruneIdleWorkers spares a worker that a run is queued or executing on and one that a
\* prewarm starts, however the calls overlap: the reservations count the calls between
\* run's or prewarm's first line and its finally clause.
THEOREM PruningSparesWorkersInUse == Spec => []PruneSpares
<1>1. HeldInv => PruneSpares BY DEF HeldInv
<1>2. Init => HeldInv BY HeldInit
<1>3. HeldInv /\ [Next]_vars => HeldInv' BY HeldStep
<1> QED BY <1>1, <1>2, <1>3, PTL DEF Spec

-----------------------------------------------------------------------------
(* What is left of the processes, when calls of one key do not overlap or   *)
(* nothing fails while they do and a key has one specification.             *)

Apart == \A m \in Modes : m.overlap => m.faults = 0 /\ ~m.mixed

Calm == mode.overlap => mode.faults = 0 /\ ~mode.mixed
OnePerKey ==
  ~mode.overlap =>
    \A c, d \in Call : InFlight(c) /\ InFlight(d) /\ KeyOf(c) = KeyOf(d) => c = d
OneSpec ==
  ~mode.mixed =>
    \A c, d \in Call : req[c] # None /\ req[d] # None /\ KeyOf(c) = KeyOf(d) => req[c].spec = req[d].spec

\* A worker that is not marked dead has its process.
Alive == \A w \in Call : worker[w].proc # 0 /\ ~worker[w].dead => <<w, worker[w].proc>> \in live

\* A run or a start that is served, and not about to be given up.
Serving == Line \ {"stopping"}

\* The pool knows the workers that serve a call, and they are not dead.
Served ==
  \A c \in Call : exec[c] \in Serving =>
    /\ mine[c] \in ToSet(pool) /\ ~worker[mine[c]].dead
    /\ exec[c] # "queued" => worker[mine[c]].proc # 0

\* A worker is stopped while it is in the pool only for the failure of its one call.
GivesUp(c, w) ==
  mine[c] = w /\ exec[c] \in {"failed", "stopping"} /\ pc[c] \in {"prune", "await", "warm"}
StopsOfPool == \A s \in stops : s.w \in ToSet(pool) => \E c \in Call : GivesUp(c, s.w)
Warmed == \A c \in Call : pc[c] = "prune" /\ req[c].kind = "prewarm" => exec[c] \in {"ok", "none"}

NoFailure ==
  mode.overlap => /\ \A c \in Call : exec[c] \notin {"failed", "stopping"} /\ pc[c] # "replace"
                  /\ \A w \in ToSet(pool) : ~worker[w].dead
Vacant == \A c \in Call : pc[c] = "replace" => \A w \in ToSet(pool) : KeyOf(w) # KeyOf(c)

\* A process is the one of a worker in the pool, or about to be killed.
Kills(s, p) == s.w = p[1] /\ s.proc = p[2] /\ s.killed = FALSE /\ s.why # "abort"
KilledGone == \A s \in stops : s.killed => <<s.w, s.proc>> \notin live
LiveKnown ==
  \A p \in live : \/ p[1] \in ToSet(pool) /\ p[2] = worker[p[1]].proc
                  \/ \E s \in stops : Kills(s, p)

\* A pool beyond its limit has a call that will prune it.
Tends(c) == Holder(c) \/ pc[c] = "finish"
WillPrune == Len(pool) > MaxWorkers => \E c \in Call : Tends(c)

CalmInv == /\ HeldInv /\ Calm /\ OnePerKey /\ OneSpec /\ Alive /\ Warmed /\ Served /\ StopsOfPool
           /\ NoFailure /\ Vacant /\ KilledGone /\ LiveKnown /\ WillPrune

-----------------------------------------------------------------------------
LEMMA Shorter ==
  ASSUME NEW s \in Seq(Call), NEW t \in Seq(Call), IsInjective(s), ToSet(s) \subseteq ToSet(t)
  PROVE  Len(s) <= Len(t)
<1>1. ASSUME NEW r \in Seq(Call)
      PROVE  /\ r \in [1..Len(r) -> Call] /\ Len(r) \in Nat
             /\ ToSet(r) = {r[i] : i \in 1..Len(r)}
             /\ IsInjective(r) <=> \A i, j \in 1..Len(r) : r[i] = r[j] => i = j
  BY SeqFacts
<1> DEFINE m == Len(s)
           n == Len(t)
<1>2. /\ IsFiniteSet(1..m) /\ Cardinality(1..m) = m /\ IsFiniteSet(1..n) /\ Cardinality(1..n) = n
      /\ m \in Nat /\ n \in Nat
  <2>1. m \in Nat /\ n \in Nat BY <1>1
  <2> HIDE DEF m, n
  <2>2. ASSUME NEW k \in Nat PROVE IsFiniteSet(1..k) /\ Cardinality(1..k) = k
    <3>1. IsFiniteSet(1..k) /\ Cardinality(1..k) = IF 1 > k THEN 0 ELSE k - 1 + 1
      BY FS_Interval
    <3> QED BY <3>1
  <2> QED BY <2>1, <2>2
<1>3. \A i \in 1..m : \E j \in 1..n : t[j] = s[i]
  <2>1. \A i \in 1..m : s[i] \in ToSet(t) BY <1>1
  <2> QED BY <1>1, <2>1
<1> DEFINE f == [i \in 1..m |-> CHOOSE j \in 1..n : t[j] = s[i]]
<1>4. \A i \in 1..m : f[i] \in 1..n /\ t[f[i]] = s[i]
  BY <1>3
<1>5. \A i, j \in 1..m : s[i] = s[j] => i = j
  BY <1>1
<1> HIDE DEF f, m, n
<1>6. f \in Injection(1..m, 1..n)
  <2>1. f \in [1..m -> 1..n] BY <1>4 DEF f
  <2>2. \A i, j \in 1..m : f[i] = f[j] => i = j BY <1>4, <1>5
  <2> QED BY <2>1, <2>2 DEF Injection, IsInjective
<1>7. Cardinality(1..m) <= Cardinality(1..n)
  BY <1>2, <1>6, FS_Injection
<1> QED BY <1>2, <1>7 DEF m, n

\* Who serves a call is not being stopped.
LEMMA ServedIsSpared ==
  ASSUME CalmInv, NEW d \in Call, exec[d] \in Serving, NEW s \in stops
  PROVE  s.w # mine[d]
<1> SUFFICES ASSUME s.w = mine[d] PROVE FALSE
  OBVIOUS
<1>1. mine[d] \in ToSet(pool) /\ mine[d] # None
  BY Constants, PoolTyped DEF CalmInv, HeldInv, Served
<1>2. PICK c \in Call : GivesUp(c, s.w)
  BY <1>1 DEF CalmInv, StopsOfPool
<1>3. mine[c] = mine[d] /\ c # d /\ ~mode.overlap
  <2>1. /\ mine[c] = mine[d] /\ exec[c] \in {"failed", "stopping"}
    BY <1>2 DEF GivesUp
  <2>2. exec[d] \notin {"failed", "stopping"} BY DEF Serving, Line
  <2>3. exec[c] \in {"failed", "stopping"} => ~mode.overlap BY DEF CalmInv, NoFailure
  <2> QED BY <2>1, <2>2, <2>3
<1>4. KeyOf(c) = KeyOf(d)
  BY <1>1, <1>3 DEF CalmInv, HeldInv, BaseInv, Owned
<1>5. InFlight(c) /\ InFlight(d)
  <2>1. pc[d] \in {"prune", "await", "warm", "failed", "pruneAll", "finish"}
    BY <1>1 DEF CalmInv, HeldInv, BaseInv, Owned
  <2> QED BY <1>2, <2>1 DEF GivesUp, InFlight
<1> QED BY <1>3, <1>4, <1>5 DEF CalmInv, OnePerKey

\* What a step of the pool's threads leaves alone of who uses which key.
LEMMA Staying ==
  ASSUME CalmInv, NEW c \in Call, OthersStay(c), req' = req, mode' = mode,
         InFlight(c)' => InFlight(c)
  PROVE  OnePerKey' /\ OneSpec'
<1>1. \A d \in Call : InFlight(d)' => InFlight(d) BY DEF OthersStay, InFlight
<1>2. \A d \in Call : KeyOf(d)' = KeyOf(d) BY DEF KeyOf
<1>3. OnePerKey' BY <1>1, <1>2 DEF CalmInv, OnePerKey
<1>4. OneSpec' BY <1>2 DEF CalmInv, OneSpec
<1> QED BY <1>3, <1>4

LEMMA Beginning ==
  ASSUME CalmInv, NEW c \in Call, NEW k \in Key, NEW f \in Fence, NEW kind \in Kind,
         Begin(c, k, f, kind), OthersStay(c)
  PROVE  /\ OnePerKey' /\ OneSpec'
         /\ \A d \in Call : InFlight(d) /\ KeyOf(d) = k => mode.overlap /\ kind \in {"run", "prewarm"}
         /\ \A d \in Call : req[d] # None /\ KeyOf(d) = k => mode.mixed \/ req[d].spec = f
         /\ \A d \in Call : pc[d] = "replace" => KeyOf(d) # k
<1>1. /\ mode' = mode /\ req'[c].kind = kind /\ req'[c].key = k /\ req'[c].spec = f
      /\ \A d \in Call : d # c => req'[d] = req[d]
  BY BegunBy DEF CalmInv, HeldInv
<1>2. /\ \A d \in Call : InFlight(d) /\ KeyOf(d) = k => mode.overlap /\ kind \in {"run", "prewarm"}
      /\ \A d \in Call : req[d] # None /\ KeyOf(d) = k => mode.mixed \/ req[d].spec = f
  BY DEF Begin, MayBegin
<1>3. \A d \in Call : d # c => /\ InFlight(d)' <=> InFlight(d)
                               /\ KeyOf(d)' = KeyOf(d)
  BY <1>1 DEF OthersStay, InFlight, KeyOf
<1>4. KeyOf(c)' = k BY <1>1 DEF KeyOf
<1>5. OnePerKey'
  <2> SUFFICES ASSUME ~mode.overlap, NEW d \in Call, NEW e \in Call,
                      InFlight(d)', InFlight(e)', KeyOf(d)' = KeyOf(e)'
               PROVE  d = e
    BY <1>1 DEF OnePerKey
  <2>1. CASE d = c \/ e = c BY <1>2, <1>3, <1>4, <2>1
  <2>2. CASE d # c /\ e # c BY <1>3, <2>2 DEF CalmInv, OnePerKey
  <2> QED BY <2>1, <2>2
<1>6. OneSpec'
  <2> SUFFICES ASSUME ~mode.mixed, NEW d \in Call, NEW e \in Call,
                      req'[d] # None, req'[e] # None, req'[d].key = req'[e].key
               PROVE  req'[d].spec = req'[e].spec
    BY <1>1 DEF OneSpec, KeyOf
  <2>1. CASE d = c \/ e = c BY <1>1, <1>2, <2>1 DEF KeyOf
  <2>2. CASE d # c /\ e # c BY <1>1, <2>2 DEF CalmInv, OneSpec, KeyOf
  <2> QED BY <2>1, <2>2
<1>7. \A d \in Call : pc[d] = "replace" => KeyOf(d) # k
  BY <1>2 DEF InFlight, CalmInv, NoFailure
<1> QED BY <1>2, <1>5, <1>6, <1>7

\* Failures and timeouts are spent on calls of different keys only.
LEMMA CalmKept ==
  ASSUME CalmInv, mode' = mode \/ Fault
  PROVE  /\ Calm' /\ mode'.overlap = mode.overlap /\ mode'.mixed = mode.mixed
         /\ Fault => ~mode.overlap
<1>1. CASE mode' = mode
  <2>1. Calm' BY <1>1 DEF CalmInv, Calm
  <2>2. Fault => mode.faults > 0 BY DEF Fault
  <2>3. mode.overlap => mode.faults = 0 BY DEF CalmInv, Calm
  <2> QED BY <1>1, <2>1, <2>2, <2>3
<1>2. CASE Fault
  <2>1. mode'.overlap = mode.overlap /\ mode'.mixed = mode.mixed /\ mode.faults > 0
    BY <1>2, FaultTyped DEF CalmInv, HeldInv
  <2>2. ~mode.overlap BY <2>1 DEF CalmInv, Calm
  <2> QED BY <2>1, <2>2 DEF Calm
<1> QED BY <1>1, <1>2

\* A thread moves on: nobody is served by a worker that it takes out of the map, and
\* what it takes out it stops.
LEMMA CalmMoves ==
  ASSUME CalmInv, HeldInv', OnePerKey', OneSpec', NEW c \in Call, NEW p \in Pc, Moves(c, p),
         \A d \in Call : exec[d] \in Serving => mine[d] \in ToSet(pool'),
         \A w : GivesUp(c, w) => w \notin ToSet(pool') \/ p \in {"prune", "await", "warm"},
         p = "prune" /\ req'[c].kind = "prewarm" => exec[c] \in {"ok", "none"},
         p = "replace" => ~mode.overlap /\ \A w \in ToSet(pool') : KeyOf(w) # req'[c].key,
         \A s \in stops : s \in stops',
         \A s \in stops' : s \in stops \/ (s.w \notin ToSet(pool') /\ s.killed = FALSE),
         \A w \in ToSet(pool) \ ToSet(pool') :
            worker[w].proc # 0 => \E s \in stops' : Kills(s, <<w, worker[w].proc>>),
         Tends(c) => p \in {"replace", "prune", "await", "failed", "warm", "pruneAll", "finish"}
  PROVE  CalmInv'
<1>0. BaseInv BY DEF CalmInv, HeldInv
<1>1. /\ worker' = worker /\ live' = live /\ exec' = exec /\ mine' = mine /\ mode' = mode
      /\ pool' \in Seq(Call) /\ IsInjective(pool') /\ ToSet(pool') \subseteq ToSet(pool)
  BY DEF Moves
<1>2. /\ pc'[c] = p /\ \A d \in Call : d # c => pc'[d] = pc[d] /\ req'[d] = req[d]
      /\ \A d \in Call : req[d] # None => req'[d] = req[d]
  <2>1. OthersStay(c) /\ pc'[c] = p BY <1>0, MovesStay
  <2>2. \A d \in Call : req[d] # None => req'[d] = req[d]
    BY <1>0, SameRequests DEF Moves
  <2> QED BY <2>1, <2>2 DEF OthersStay
<1>3. \A w \in ToSet(pool) : w \in Call /\ KeyOf(w)' = KeyOf(w)
  <2>1. \A w \in ToSet(pool) : w \in Call /\ req[w] # None BY <1>0, PoolTyped DEF PoolKeys
  <2> QED BY <1>2, <2>1 DEF KeyOf
<1>4. Calm' /\ Alive' BY <1>1 DEF CalmInv, Calm, Alive
<1>5. Served' BY <1>1 DEF CalmInv, Served
<1>6. StopsOfPool'
  <2> SUFFICES ASSUME NEW s \in stops', s.w \in ToSet(pool')
               PROVE  \E d \in Call : GivesUp(d, s.w)'
    BY DEF StopsOfPool
  <2>1. PICK d \in Call : GivesUp(d, s.w) BY <1>1 DEF CalmInv, StopsOfPool
  <2>2. pc'[d] \in {"prune", "await", "warm"} BY <1>2, <2>1 DEF GivesUp
  <2> QED BY <1>1, <2>1, <2>2 DEF GivesUp
<1>7. Warmed' BY <1>1, <1>2 DEF CalmInv, Warmed
<1>8. NoFailure' BY <1>1, <1>2 DEF CalmInv, NoFailure
<1>9. Vacant'
  <2> SUFFICES ASSUME NEW d \in Call, pc'[d] = "replace", NEW w \in ToSet(pool')
               PROVE  KeyOf(w)' # KeyOf(d)'
    BY DEF Vacant
  <2>1. w \in ToSet(pool) /\ KeyOf(w)' = KeyOf(w) BY <1>1, <1>3
  <2>2. CASE d = c BY <1>2, <2>1, <2>2 DEF KeyOf
  <2>3. CASE d # c BY <1>2, <2>1, <2>3 DEF CalmInv, Vacant, KeyOf
  <2> QED BY <2>2, <2>3
<1>10. KilledGone' BY <1>1 DEF CalmInv, KilledGone
<1>11. LiveKnown'
  <2> SUFFICES ASSUME NEW q \in live
               PROVE  \/ q[1] \in ToSet(pool') /\ q[2] = worker[q[1]].proc
                      \/ \E s \in stops' : Kills(s, q)
    BY <1>1 DEF LiveKnown, Kills
  <2>1. q[2] # 0 /\ q = <<q[1], q[2]>>
    <3>1. q \in Call \X (1..MaxProcs) BY <1>0 DEF BaseInv, WorkersTyped
    <3> QED BY <3>1, Constants
  <2>2. CASE \E s \in stops : Kills(s, q) BY <2>2
  <2>3. CASE q[1] \in ToSet(pool) /\ q[2] = worker[q[1]].proc
    <3>1. q[1] \notin ToSet(pool') => \E s \in stops' : Kills(s, <<q[1], worker[q[1]].proc>>)
      BY <2>1, <2>3
    <3> QED BY <2>1, <2>3, <3>1
  <2> QED BY <2>2, <2>3 DEF CalmInv, LiveKnown
<1>12. WillPrune'
  <2> SUFFICES ASSUME Len(pool') > MaxWorkers PROVE \E d \in Call : Tends(d)'
    BY DEF WillPrune
  <2>1. Len(pool) > MaxWorkers
    <3>1. pool \in Seq(Call) BY <1>0, PoolTyped
    <3>2. Len(pool') <= Len(pool) BY <1>1, <3>1, Shorter
    <3>3. Len(pool') \in Nat /\ Len(pool) \in Nat BY <1>1, <3>1
    <3> QED BY <3>2, <3>3, Constants
  <2>2. PICK d \in Call : Tends(d) BY <2>1 DEF CalmInv, WillPrune
  <2>3. CASE d = c BY <1>2, <2>2, <2>3 DEF Tends, Holder
  <2>4. CASE d # c BY <1>2, <2>2, <2>4 DEF Tends, Holder
  <2> QED BY <2>3, <2>4
<1> QED BY <1>4, <1>5, <1>6, <1>7, <1>8, <1>9, <1>10, <1>11, <1>12 DEF CalmInv

\* A call joins a worker that is not dead, one of its own or one in the map.
LEMMA CalmJoins ==
  ASSUME CalmInv, HeldInv', OnePerKey', OneSpec', NEW c \in Call, NEW w \in Call,
         NEW p \in {"prune", "warm"}, Joins(c, w, p), w \in ToSet(pool'), ~worker[w].dead,
         p = "prune" => req'[c].kind # "prewarm",
         \/ Enqueue(c, w) /\ live' = live
         \/ w = c /\ Spawned(c, worker[c]) /\ exec' = [exec EXCEPT ![c] = "starting"],
         \A u \in ToSet(pool) : u \in ToSet(pool') \/ worker[u].dead,
         \A d \in Call : d # c /\ pc[d] = "replace" => KeyOf(d) # req'[c].key,
         \A s \in stops : s \in stops',
         \A s \in stops' : s \in stops \/ (s.w \notin ToSet(pool') /\ s.killed = FALSE),
         \A u \in ToSet(pool) \ ToSet(pool') :
            worker[u].proc # 0 => \E s \in stops' : Kills(s, <<u, worker[u].proc>>)
  PROVE  CalmInv'
<1>0. BaseInv BY DEF CalmInv, HeldInv
<1>1. /\ Blank(c) /\ mine[c] = None /\ exec[c] = "none"
      /\ mode' = mode /\ mine'[c] = w /\ pc'[c] = p
      /\ \A d \in Call : d # c => mine'[d] = mine[d] /\ pc'[d] = pc[d] /\ req'[d] = req[d]
      /\ \A d \in Call : req[d] # None => req'[d] = req[d]
      /\ ToSet(pool') \subseteq ToSet(pool) \cup {c}
  <2>1. Blank(c) /\ mine[c] = None /\ exec[c] = "none"
    BY <1>0 DEF Joins, BaseInv, Owned
  <2>2. \A d \in Call : req[d] # None => req'[d] = req[d]
    BY <1>0, SameRequests DEF Joins
  <2>3. /\ mine'[c] = w /\ pc'[c] = p
        /\ \A d \in Call : d # c => mine'[d] = mine[d] /\ pc'[d] = pc[d] /\ req'[d] = req[d]
    BY <1>0 DEF Joins, BaseInv, CallsTyped
  <2> QED BY <2>1, <2>2, <2>3 DEF Joins
\* What happens to the workers.
<1>2. /\ \A u \in Call : u # c => worker'[u].proc = worker[u].proc /\ worker'[u].dead = worker[u].dead
      /\ worker'[c].dead = FALSE /\ exec'[c] \in {"queued", "starting"}
      /\ exec'[c] = "starting" => worker'[w].proc # 0
      /\ \A d \in Call : d # c => exec'[d] = exec[d]
      /\ \/ live' = live /\ worker'[c].proc = 0
         \/ /\ live' = live \cup {<<c, worker'[c].proc>>} /\ w = c
            /\ \A s \in stops : s.w = c => s.proc # worker'[c].proc
  <2>1. worker[c].dead = FALSE /\ worker[c].proc = 0 BY <1>1 DEF Blank
  <2>2. CASE Enqueue(c, w) /\ live' = live
    <3>1. /\ \A u \in Call : u # w => worker'[u] = worker[u]
          /\ worker'[w].proc = worker[w].proc /\ worker'[w].dead = worker[w].dead
          /\ exec'[c] = "queued" /\ \A d \in Call : d # c => exec'[d] = exec[d]
      BY <1>0, <2>2, EnqueueFacts
    <3>2. \A u \in Call : worker'[u].proc = worker[u].proc /\ worker'[u].dead = worker[u].dead
      BY <3>1
    <3> QED BY <2>1, <2>2, <3>1, <3>2
  <2>3. CASE w = c /\ Spawned(c, worker[c]) /\ exec' = [exec EXCEPT ![c] = "starting"]
    <3>1. exec'[c] = "starting" /\ \A d \in Call : d # c => exec'[d] = exec[d]
      BY <1>0, <2>3 DEF BaseInv, WorkersTyped
    <3> QED BY <2>3, <3>1, Constants DEF Spawned
  <2> QED BY <2>2, <2>3
<1>3. \A u \in ToSet(pool) : u \in Call /\ KeyOf(u)' = KeyOf(u) /\ u # c
  <2>1. \A u \in ToSet(pool) : u \in Call /\ req[u] # None BY <1>0, PoolTyped DEF PoolKeys
  <2> QED BY <1>1, <2>1 DEF KeyOf, Blank
<1>4. Calm' BY <1>1 DEF CalmInv, Calm
<1>5. Alive'
  <2> SUFFICES ASSUME NEW u \in Call, worker'[u].proc # 0, ~worker'[u].dead
               PROVE  <<u, worker'[u].proc>> \in live'
    BY DEF Alive
  <2>1. CASE u = c BY <1>2, <2>1
  <2>2. CASE u # c BY <1>2, <2>2 DEF CalmInv, Alive
  <2> QED BY <2>1, <2>2
<1>6. Served'
  <2> SUFFICES ASSUME NEW d \in Call, exec'[d] \in Serving
               PROVE  /\ mine'[d] \in ToSet(pool') /\ ~worker'[mine'[d]].dead
                      /\ exec'[d] # "queued" => worker'[mine'[d]].proc # 0
    BY DEF Served
  <2>1. CASE d = c
    <3>1. ~worker'[w].dead BY <1>2
    <3> QED BY <1>1, <1>2, <2>1, <3>1
  <2>2. CASE d # c
    <3>1. /\ mine[d] \in ToSet(pool) /\ ~worker[mine[d]].dead
          /\ exec[d] # "queued" => worker[mine[d]].proc # 0
      BY <1>2, <2>2 DEF CalmInv, Served
    <3> QED BY <1>1, <1>2, <1>3, <2>2, <3>1
  <2> QED BY <2>1, <2>2
<1>7. StopsOfPool'
  <2> SUFFICES ASSUME NEW s \in stops', s.w \in ToSet(pool')
               PROVE  \E d \in Call : GivesUp(d, s.w)'
    BY DEF StopsOfPool
  <2>1. s \in stops /\ s.w \in ToSet(pool) BY <1>1 DEF Blank
  <2>2. PICK d \in Call : GivesUp(d, s.w) BY <2>1 DEF CalmInv, StopsOfPool
  <2>3. d # c BY <1>1, <2>2 DEF GivesUp
  <2> QED BY <1>1, <1>2, <2>2, <2>3 DEF GivesUp
<1>8. Warmed' BY <1>1, <1>2 DEF CalmInv, Warmed
<1>9. NoFailure'
  <2> SUFFICES ASSUME mode.overlap
               PROVE  /\ \A d \in Call : exec'[d] \notin {"failed", "stopping"} /\ pc'[d] # "replace"
                      /\ \A u \in ToSet(pool') : ~worker'[u].dead
    BY <1>1 DEF NoFailure
  <2>1. \A d \in Call : exec'[d] \notin {"failed", "stopping"} /\ pc'[d] # "replace"
    BY <1>1, <1>2 DEF CalmInv, NoFailure
  <2>2. \A u \in ToSet(pool) : ~worker[u].dead BY DEF CalmInv, NoFailure
  <2> QED BY <1>1, <1>2, <1>3, <2>1, <2>2
<1>10. Vacant'
  <2> SUFFICES ASSUME NEW d \in Call, pc'[d] = "replace", NEW u \in ToSet(pool')
               PROVE  KeyOf(u)' # KeyOf(d)'
    BY DEF Vacant
  <2>1. d # c /\ pc[d] = "replace" /\ KeyOf(d)' = KeyOf(d) BY <1>1 DEF KeyOf
  <2>2. CASE u = c BY <2>1, <2>2 DEF KeyOf
  <2>3. CASE u # c BY <1>1, <1>3, <2>1, <2>3 DEF CalmInv, Vacant
  <2> QED BY <2>2, <2>3
<1>11. KilledGone' BY <1>2 DEF CalmInv, KilledGone
<1>12. LiveKnown'
  <2> SUFFICES ASSUME NEW q \in live'
               PROVE  \/ q[1] \in ToSet(pool') /\ q[2] = worker'[q[1]].proc
                      \/ \E s \in stops' : Kills(s, q)
    BY DEF LiveKnown, Kills
  <2>1. CASE q \notin live
    <3>1. q = <<c, worker'[c].proc>> /\ w = c BY <1>2, <2>1
    <3> QED BY <3>1
  <2>2. CASE q \in live
    <3>1. q[2] # 0 /\ q = <<q[1], q[2]>> /\ q[1] # c
      <4>1. q \in Call \X (1..MaxProcs) BY <1>0, <2>2 DEF BaseInv, WorkersTyped
      <4> QED BY <1>1, <2>2, <4>1, Constants DEF Blank
    <3>2. CASE \E s \in stops : Kills(s, q) BY <3>2
    <3>3. CASE q[1] \in ToSet(pool) /\ q[2] = worker[q[1]].proc
      <4>1. q[1] \notin ToSet(pool') => \E s \in stops' : Kills(s, <<q[1], worker[q[1]].proc>>)
        BY <3>1, <3>3
      <4> QED BY <1>2, <1>3, <3>1, <3>3, <4>1
    <3> QED BY <2>2, <3>2, <3>3 DEF CalmInv, LiveKnown
  <2> QED BY <2>1, <2>2
<1>13. WillPrune' BY <1>1 DEF WillPrune, Tends, Holder
<1> QED BY <1>4, <1>5, <1>6, <1>7, <1>8, <1>9, <1>10, <1>11, <1>12, <1>13 DEF CalmInv

\* A step of a worker leaves the calls where they are.
LEMMA CalmRest ==
  ASSUME CalmInv, HeldInv', CallsUnchanged, mode' = mode \/ Fault,
         \A d \in Call : exec[d] \notin Line => exec'[d] = exec[d],
         Alive', Served', StopsOfPool', NoFailure', KilledGone', LiveKnown'
  PROVE  CalmInv'
<1>1. req' = req /\ pc' = pc /\ mine' = mine /\ pool' = pool
  BY DEF CallsUnchanged
<1>2. Calm' /\ mode'.overlap = mode.overlap /\ mode'.mixed = mode.mixed BY CalmKept
<1>3. OnePerKey' BY <1>1, <1>2 DEF CalmInv, OnePerKey, InFlight, KeyOf
<1>4. OneSpec' BY <1>1, <1>2 DEF CalmInv, OneSpec, KeyOf
<1>5. Warmed' BY <1>1 DEF CalmInv, Warmed, Line
<1>6. Vacant' BY <1>1 DEF CalmInv, Vacant, KeyOf
<1>7. WillPrune' BY <1>1 DEF CalmInv, WillPrune, Tends, Holder
<1> QED BY <1>2, <1>3, <1>4, <1>5, <1>6, <1>7 DEF CalmInv

\* The run at the head of a queue goes on, with a process.
LEMMA CalmGoesOn ==
  ASSUME CalmInv, HeldInv', CallsUnchanged, mode' = mode, stops' = stops, NEW c \in Call,
         exec[c] \in Serving, GoesOn(c, mine[c]), worker'[mine[c]].proc # 0
  PROVE  CalmInv'
<1> DEFINE w == mine[c]
<1>0. BaseInv BY DEF CalmInv, HeldInv
<1>1. req' = req /\ pc' = pc /\ mine' = mine /\ pool' = pool
  BY DEF CallsUnchanged
<1>2. PICK e \in Line \ {"queued", "stopping"} : exec' = [exec EXCEPT ![c] = e]
  BY DEF GoesOn
<1>3. exec'[c] = e /\ \A d \in Call : d # c => exec'[d] = exec[d]
  BY <1>0, <1>2 DEF BaseInv, WorkersTyped
<1>4. w \in ToSet(pool) /\ ~worker[w].dead /\ w \in Call
  BY <1>0, PoolTyped DEF CalmInv, Served
<1>5. /\ \A u \in Call : u # w => worker'[u] = worker[u]
      /\ worker'[w].dead = FALSE /\ worker'[w].proc # 0
      /\ \/ live' = live /\ worker'[w].proc = worker[w].proc
         \/ /\ worker[w].proc = 0 /\ live' = live \cup {<<w, worker'[w].proc>>}
            /\ \A s \in stops : s.w = w => s.proc # worker'[w].proc
  BY <1>4 DEF GoesOn
<1>6. exec[c] \in Line /\ {"failed", "stopping", "ok"} \cap Serving = {}
  BY DEF Serving, Line
<1> HIDE DEF w
<1>7. w = mine[c] BY DEF w
<1>8. Alive'
  <2> SUFFICES ASSUME NEW u \in Call, worker'[u].proc # 0, ~worker'[u].dead
               PROVE  <<u, worker'[u].proc>> \in live'
    BY DEF Alive
  <2>1. CASE u = w BY <1>4, <1>5, <2>1 DEF CalmInv, Alive
  <2>2. CASE u # w BY <1>5, <2>2 DEF CalmInv, Alive
  <2> QED BY <2>1, <2>2
<1>9. Served'
  <2> SUFFICES ASSUME NEW d \in Call, exec'[d] \in Serving
               PROVE  /\ mine[d] \in ToSet(pool) /\ ~worker'[mine[d]].dead
                      /\ exec'[d] # "queued" => worker'[mine[d]].proc # 0
    BY <1>1 DEF Served
  <2>1. CASE mine[d] = w BY <1>4, <1>5, <2>1
  <2>2. CASE mine[d] # w
    <3>1. d # c BY <1>7, <2>2
    <3>2. /\ mine[d] \in ToSet(pool) /\ ~worker[mine[d]].dead
          /\ exec[d] # "queued" => worker[mine[d]].proc # 0
      BY <1>3, <3>1 DEF CalmInv, Served
    <3>3. mine[d] \in Call BY <1>0, <3>2, PoolTyped
    <3> QED BY <1>3, <1>5, <2>2, <3>1, <3>2, <3>3
  <2> QED BY <2>1, <2>2
<1>10. StopsOfPool'
  <2> SUFFICES ASSUME NEW s \in stops, s.w \in ToSet(pool)
               PROVE  \E d \in Call : GivesUp(d, s.w)'
    BY <1>1 DEF StopsOfPool
  <2>1. PICK d \in Call : GivesUp(d, s.w) BY DEF CalmInv, StopsOfPool
  <2>2. d # c BY <1>6, <2>1 DEF GivesUp
  <2> QED BY <1>1, <1>3, <2>1, <2>2 DEF GivesUp
<1>11. NoFailure'
  <2> SUFFICES ASSUME mode.overlap
               PROVE  /\ \A d \in Call : exec'[d] \notin {"failed", "stopping"} /\ pc[d] # "replace"
                      /\ \A u \in ToSet(pool) : ~worker'[u].dead
    BY <1>1 DEF NoFailure
  <2>1. \A d \in Call : exec'[d] \notin {"failed", "stopping"} /\ pc[d] # "replace"
    BY <1>3 DEF CalmInv, NoFailure, Line
  <2>2. \A u \in ToSet(pool) : u \in Call /\ ~worker[u].dead
    BY <1>0, PoolTyped DEF CalmInv, NoFailure
  <2> QED BY <1>5, <2>1, <2>2
<1>12. KilledGone' BY <1>5 DEF CalmInv, KilledGone
<1>13. LiveKnown'
  <2> SUFFICES ASSUME NEW q \in live'
               PROVE  \/ q[1] \in ToSet(pool) /\ q[2] = worker'[q[1]].proc
                      \/ \E s \in stops : Kills(s, q)
    BY <1>1 DEF LiveKnown, Kills
  <2>1. CASE q \notin live
    <3>1. q = <<w, worker'[w].proc>> BY <1>5, <2>1
    <3> QED BY <1>4, <3>1
  <2>2. CASE q \in live
    <3>1. q[1] \in Call /\ q[2] # 0 BY <1>0, <2>2, Constants DEF BaseInv, WorkersTyped
    <3> QED BY <1>5, <2>2, <3>1 DEF CalmInv, LiveKnown
  <2> QED BY <2>1, <2>2
<1>14. \A d \in Call : exec[d] \notin Line => exec'[d] = exec[d] BY <1>3, <1>6
<1> QED BY <1>8, <1>9, <1>10, <1>11, <1>12, <1>13, <1>14, CalmRest

\* A call is answered, rejected or given up; its worker may be told to stop for it.
LEMMA CalmEnds ==
  ASSUME CalmInv, HeldInv', CallsUnchanged, mode' = mode \/ Fault, live' = live,
         NEW c \in Call, exec[c] \in Line, NEW e \in {"ok", "failed", "stopping"},
         exec' = [exec EXCEPT ![c] = e], e = "ok" => exec[c] \in Serving,
         e # "ok" => ~mode.overlap,
         \A u \in Call : worker'[u].proc = worker[u].proc /\ worker'[u].dead = worker[u].dead,
         \A s \in stops : s \in stops',
         \A s \in stops' : s \in stops \/ (e # "ok" /\ s.w = mine[c] /\ s.killed = FALSE)
  PROVE  CalmInv'
<1>0. BaseInv BY DEF CalmInv, HeldInv
<1>1. req' = req /\ pc' = pc /\ mine' = mine /\ pool' = pool
  BY DEF CallsUnchanged
<1>2. mode'.overlap = mode.overlap BY CalmKept
<1>3. exec'[c] = e /\ \A d \in Call : d # c => exec'[d] = exec[d]
  BY <1>0 DEF BaseInv, WorkersTyped
<1>4. pc[c] \in {"prune", "await", "warm"} /\ {"failed", "stopping", "ok"} \cap Serving = {}
  BY <1>0, InLine DEF Serving, Line
<1>5. \A w \in ToSet(pool) : w \in Call BY <1>0, PoolTyped
<1>6. Alive' BY DEF CalmInv, Alive
<1>7. Served'
  <2> SUFFICES ASSUME NEW d \in Call, exec'[d] \in Serving
               PROVE  /\ mine[d] \in ToSet(pool) /\ ~worker'[mine[d]].dead
                      /\ exec'[d] # "queued" => worker'[mine[d]].proc # 0
    BY <1>1 DEF Served
  <2>1. exec'[d] = exec[d] BY <1>3, <1>4
  <2>2. /\ mine[d] \in ToSet(pool) /\ ~worker[mine[d]].dead
        /\ exec[d] # "queued" => worker[mine[d]].proc # 0
    BY <2>1 DEF CalmInv, Served
  <2> QED BY <1>5, <2>1, <2>2
<1>8. StopsOfPool'
  <2> SUFFICES ASSUME NEW s \in stops', s.w \in ToSet(pool)
               PROVE  \E d \in Call : GivesUp(d, s.w)'
    BY <1>1 DEF StopsOfPool
  <2>1. CASE s \in stops
    <3>1. PICK d \in Call : GivesUp(d, s.w) BY <2>1 DEF CalmInv, StopsOfPool
    <3>2. exec'[d] \in {"failed", "stopping"}
      <4>1. exec[d] \in {"failed", "stopping"} BY <3>1 DEF GivesUp
      <4> QED BY <1>3, <1>4, <4>1
    <3> QED BY <1>1, <3>1, <3>2 DEF GivesUp
  <2>2. CASE s \notin stops BY <1>1, <1>3, <1>4, <2>2 DEF GivesUp
  <2> QED BY <2>1, <2>2
<1>9. NoFailure' BY <1>1, <1>2, <1>3, <1>5 DEF CalmInv, NoFailure
<1>10. KilledGone' BY DEF CalmInv, KilledGone
<1>11. LiveKnown'
  <2>1. \A q \in live : q[1] \in Call BY <1>0 DEF BaseInv, WorkersTyped
  <2> QED BY <1>1, <2>1 DEF CalmInv, LiveKnown, Kills
<1>12. \A d \in Call : exec[d] \notin Line => exec'[d] = exec[d] BY <1>3
<1> QED BY <1>6, <1>7, <1>8, <1>9, <1>10, <1>11, <1>12, CalmRest

\* A worker that serves nobody any more is dead.
LEMMA CalmDies ==
  ASSUME CalmInv, HeldInv', CallsUnchanged, mode' = mode \/ Fault, NEW w \in Call,
         \A u \in Call : u # w => worker'[u] = worker[u], worker'[w].dead = TRUE,
         \A d \in Call : exec'[d] = exec[d] \/ (exec[d] \in Pending /\ exec'[d] = "failed"),
         \A d \in Call : mine[d] = w => exec'[d] \notin Serving,
         mode.overlap => exec' = exec /\ w \notin ToSet(pool),
         live' \subseteq live, \A q \in live \ live' : q[1] = w,
         \A s \in stops' : \E t \in stops : s.w = t.w,
         KilledGone', LiveKnown'
  PROVE  CalmInv'
<1>0. BaseInv BY DEF CalmInv, HeldInv
<1>1. req' = req /\ pc' = pc /\ mine' = mine /\ pool' = pool
  BY DEF CallsUnchanged
<1>2. mode'.overlap = mode.overlap BY CalmKept
<1>3. {"failed", "stopping"} \cap Serving = {} /\ {"failed", "stopping"} \cap Pending = {}
  BY DEF Serving, Line, Pending
<1>4. \A u \in ToSet(pool) : u \in Call BY <1>0, PoolTyped
<1>5. Alive'
  <2> SUFFICES ASSUME NEW u \in Call, worker'[u].proc # 0, ~worker'[u].dead
               PROVE  <<u, worker'[u].proc>> \in live'
    BY DEF Alive
  <2>1. u # w /\ worker'[u] = worker[u] OBVIOUS
  <2>2. <<u, worker[u].proc>> \in live BY <2>1 DEF CalmInv, Alive
  <2> QED BY <2>1, <2>2
<1>6. Served'
  <2> SUFFICES ASSUME NEW d \in Call, exec'[d] \in Serving
               PROVE  /\ mine[d] \in ToSet(pool) /\ ~worker'[mine[d]].dead
                      /\ exec'[d] # "queued" => worker'[mine[d]].proc # 0
    BY <1>1 DEF Served
  <2>1. exec'[d] = exec[d] /\ mine[d] # w BY <1>3
  <2>2. /\ mine[d] \in ToSet(pool) /\ ~worker[mine[d]].dead
        /\ exec[d] # "queued" => worker[mine[d]].proc # 0
    BY <2>1 DEF CalmInv, Served
  <2> QED BY <1>4, <2>1, <2>2
<1>7. StopsOfPool'
  <2> SUFFICES ASSUME NEW s \in stops', s.w \in ToSet(pool)
               PROVE  \E d \in Call : GivesUp(d, s.w)'
    BY <1>1 DEF StopsOfPool
  <2>1. PICK d \in Call : GivesUp(d, s.w) BY DEF CalmInv, StopsOfPool
  <2>2. exec'[d] = exec[d]
    <3>1. exec[d] \in {"failed", "stopping"} BY <2>1 DEF GivesUp
    <3> QED BY <1>3, <3>1
  <2> QED BY <1>1, <2>1, <2>2 DEF GivesUp
<1>8. NoFailure'
  <2> SUFFICES ASSUME mode.overlap
               PROVE  /\ \A d \in Call : exec'[d] \notin {"failed", "stopping"} /\ pc[d] # "replace"
                      /\ \A u \in ToSet(pool) : ~worker'[u].dead
    BY <1>1, <1>2 DEF NoFailure
  <2>1. \A u \in ToSet(pool) : u # w /\ worker'[u] = worker[u] BY <1>4
  <2> QED BY <2>1 DEF CalmInv, NoFailure
<1>9. \A d \in Call : exec[d] \notin Line => exec'[d] = exec[d] BY DEF Pending, Line
<1> QED BY <1>5, <1>6, <1>7, <1>8, <1>9, CalmRest

LEMMA OutcomeFacts ==
  ASSUME BaseInv, NEW c \in Call, mine[c] \in Call, NEW result, Outcome(c, result)
  PROVE  /\ exec' = [exec EXCEPT ![c] = result]
         /\ \A u \in Call : worker'[u].proc = worker[u].proc /\ worker'[u].dead = worker[u].dead
<1> DEFINE w == mine[c]
           q == Without(worker[w].queue, c)
           R == [worker[w] EXCEPT !.queue = q]
<1>1. worker \in [Call -> WorkerRecord] /\ worker[w] \in WorkerRecord
  BY DEF BaseInv, WorkersTyped
<1>2. exec' = [exec EXCEPT ![c] = result] /\ worker' = [worker EXCEPT ![w] = R]
  <2>1. worker' = [worker EXCEPT ![mine[c]].queue = Without(@, c)] /\ exec' = [exec EXCEPT ![c] = result]
    BY DEF Outcome
  <2> QED BY <1>1, <2>1
<1> HIDE DEF q
<1>3. R.proc = worker[w].proc /\ R.dead = worker[w].dead
  BY <1>1 DEF WorkerRecord
<1> HIDE DEF R
<1>4. worker'[w] = R /\ \A u \in Call : u # w => worker'[u] = worker[u]
  BY <1>1, <1>2
<1> QED BY <1>2, <1>3, <1>4

\* The process of a worker that serves a begun run or a start is there.
LEMMA ServedLives ==
  ASSUME CalmInv, NEW c \in Call, exec[c] \in Pending
  PROVE  /\ exec[c] \in Serving /\ exec[c] \in Line /\ mine[c] \in Call
         /\ Process(mine[c]) \in live /\ ~worker[mine[c]].dead
<1>1. exec[c] \in Serving /\ exec[c] # "queued" /\ exec[c] \in Line
  BY DEF Serving, Pending, Line
<1>2. mine[c] \in ToSet(pool) /\ ~worker[mine[c]].dead /\ worker[mine[c]].proc # 0
  BY <1>1 DEF CalmInv, Served
<1>3. mine[c] \in Call BY <1>2, PoolTyped DEF CalmInv, HeldInv
<1> QED BY <1>1, <1>2, <1>3 DEF CalmInv, Alive, Process

LEMMA CalmExec ==
  ASSUME CalmInv, HeldInv', NEW c \in Call, ExecStep(c)
  PROVE  CalmInv'
<1>0. BaseInv BY DEF CalmInv, HeldInv
<1>1. CASE ExecStart(c)
  <2>1. exec[c] \in Serving /\ CallsUnchanged /\ mode' = mode /\ stops' = stops
    BY <1>1 DEF ExecStart, UpNext, PoolUnchanged, Serving, Line
  <2>2. GoesOn(c, mine[c]) /\ worker'[mine[c]].proc # 0
    BY <1>0, <1>1, ExecStartKeeps
  <2> QED BY <2>1, <2>2, CalmGoesOn
<1>2. CASE Answered(c)
  <2>1. /\ exec[c] \in Pending /\ CallsUnchanged /\ mode' = mode /\ stops' = stops
        /\ \/ /\ exec' = [exec EXCEPT ![c] = "ok"] /\ worker' = worker /\ live' = live
           \/ worker[mine[c]].dead
           \/ GoesOn(c, mine[c])
    BY <1>0, <1>2, AnsweredFacts
  <2>2. /\ exec[c] \in Serving /\ exec[c] \in Line /\ mine[c] \in Call
        /\ Process(mine[c]) \in live /\ ~worker[mine[c]].dead
    BY <2>1, ServedLives
  <2>3. CASE exec' = [exec EXCEPT ![c] = "ok"] /\ worker' = worker /\ live' = live
    <3>1. "ok" \in {"ok", "failed", "stopping"} OBVIOUS
    <3> QED BY <2>1, <2>2, <2>3, <3>1, CalmEnds
  <2>4. CASE GoesOn(c, mine[c])
    <3>1. worker[mine[c]].proc # 0
      BY <1>0, <2>2, Constants DEF Process, BaseInv, WorkersTyped
    <3>2. worker'[mine[c]].proc # 0 BY <2>4, <3>1, Constants DEF GoesOn
    <3> QED BY <2>1, <2>2, <2>4, <3>2, CalmGoesOn
  <2> QED BY <2>1, <2>2, <2>3, <2>4
<1>3. ASSUME NEW e \in {"ok", "failed"}, Outcome(c, e), exec[c] \in Line, live' = live,
             CallsUnchanged, mode' = mode \/ Fault,
             e = "ok" => exec[c] \in Serving, e # "ok" => ~mode.overlap,
             \A s \in stops : s \in stops',
             \A s \in stops' : s \in stops \/ (e # "ok" /\ s.w = mine[c] /\ s.killed = FALSE)
      PROVE  CalmInv'
  <2>1. mine[c] \in Call BY <1>0, <1>3, InLine
  <2>2. /\ exec' = [exec EXCEPT ![c] = e]
        /\ \A u \in Call : worker'[u].proc = worker[u].proc /\ worker'[u].dead = worker[u].dead
    BY <1>0, <1>3, <2>1, OutcomeFacts
  <2>3. e \in {"ok", "failed", "stopping"} OBVIOUS
  <2> QED BY <1>3, <2>2, <2>3, CalmEnds
<1>4. CASE Settles(c)
  <2>1. /\ exec[c] = "running" /\ Outcome(c, "ok") /\ live' = live /\ stops' = stops
        /\ CallsUnchanged /\ mode' = mode
    BY <1>4 DEF Settles, PoolUnchanged
  <2>2. exec[c] \in Line /\ exec[c] \in Serving BY <2>1 DEF Line, Serving
  <2> QED BY <1>3, <2>1, <2>2
<1>5. CASE TimesOut(c)
  <2>1. /\ Outcome(c, "failed") /\ live' = live /\ stops' = stops /\ CallsUnchanged
        /\ \/ exec[c] \in Pending /\ Process(mine[c]) \notin live /\ mode' = mode
           \/ (exec[c] \in Pending \/ UpNext(c)) /\ Fault
    BY <1>5 DEF TimesOut
  <2>2. exec[c] \in Pending => Process(mine[c]) \in live BY ServedLives
  <2>3. Fault /\ exec[c] \in Line BY <2>1, <2>2 DEF UpNext, Pending, Line
  <2>4. ~mode.overlap BY <2>3, CalmKept
  <2> QED BY <1>3, <2>1, <2>3, <2>4
<1>6. CASE StartupStopped(c)
  <2>1. /\ exec[c] = "stopping" /\ Outcome(c, "failed") /\ live' = live /\ stops' = stops
        /\ CallsUnchanged /\ mode' = mode
    BY <1>6 DEF StartupStopped, PoolUnchanged
  <2>2. exec[c] \in Line BY <2>1 DEF Line
  <2>3. ~mode.overlap BY <2>1 DEF CalmInv, NoFailure
  <2> QED BY <1>3, <2>1, <2>2, <2>3
\* The stops that a run calls.
<1>7. ASSUME NEW why \in Why, mine[c] \in Call
      PROVE  \A s \in StopOf(mine[c], c, why) : s.w = mine[c] /\ s.killed = FALSE
  <2>1. StopsBy(StopOf(mine[c], c, why), mine[c], c, why) BY Zenon, <1>0, <1>7, StopOfFacts
  <2> QED BY <2>1 DEF StopsBy
<1>8. CASE Aborted(c)
  <2>1. /\ Fault /\ exec[c] \in Line /\ Outcome(c, "failed") /\ live' = live /\ CallsUnchanged
        /\ stops' = stops \/ stops' = stops \cup StopOf(mine[c], c, "abort")
    BY <1>8 DEF Aborted, Line
  <2>2. mine[c] \in Call /\ "abort" \in Why BY <1>0, <2>1, InLine DEF Why
  <2>3. \A s \in StopOf(mine[c], c, "abort") : s.w = mine[c] /\ s.killed = FALSE
    BY <1>7, <2>2
  <2>4. ~mode.overlap BY <2>1, CalmKept
  <2> QED BY <1>3, <2>1, <2>3, <2>4
<1>9. CASE StartupTimesOut(c)
  <2>1. /\ Fault /\ exec[c] \in Line /\ exec' = [exec EXCEPT ![c] = "stopping"]
        /\ worker' = worker /\ live' = live /\ CallsUnchanged
        /\ stops' = stops \cup StopOf(mine[c], c, "exec")
    BY <1>9 DEF StartupTimesOut, Line
  <2>2. mine[c] \in Call /\ "exec" \in Why BY <1>0, <2>1, InLine DEF Why
  <2>3. \A s \in StopOf(mine[c], c, "exec") : s.w = mine[c] /\ s.killed = FALSE
    BY <1>7, <2>2
  <2>4. ~mode.overlap BY <2>1, CalmKept
  <2>5. "stopping" \in {"ok", "failed", "stopping"} OBVIOUS
  <2> QED BY <2>1, <2>3, <2>4, <2>5, CalmEnds
<1> QED BY <1>1, <1>2, <1>4, <1>5, <1>6, <1>8, <1>9 DEF ExecStep

\* Only the stops change, and the calls of the worker do not.
LEMMA CalmStops ==
  ASSUME CalmInv, HeldInv', PoolUnchanged, WorkerUnchanged,
         \A s \in stops' : \E t \in stops : s.w = t.w,
         KilledGone', LiveKnown'
  PROVE  CalmInv'
<1>1. req' = req /\ pc' = pc /\ mine' = mine /\ pool' = pool /\ mode' = mode /\ CallsUnchanged
      /\ worker' = worker /\ live' = live /\ exec' = exec
  BY DEF CallsUnchanged, PoolUnchanged, WorkerUnchanged
<1>2. Alive' /\ Served' /\ NoFailure' BY <1>1 DEF CalmInv, Alive, Served, NoFailure
<1>3. StopsOfPool'
  <2> SUFFICES ASSUME NEW s \in stops', s.w \in ToSet(pool)
               PROVE  \E d \in Call : GivesUp(d, s.w)'
    BY <1>1 DEF StopsOfPool
  <2>1. PICK d \in Call : GivesUp(d, s.w) BY DEF CalmInv, StopsOfPool
  <2> QED BY <1>1, <2>1 DEF GivesUp
<1> QED BY <1>1, <1>2, <1>3, CalmRest

\* A worker fails between two turns of the event loop.
LEMMA CalmFails ==
  ASSUME CalmInv, HeldInv', CallsUnchanged, mode' = mode \/ Fault, Turn, NEW w \in Call, NEW gone,
         Fail(w, gone), \A q \in gone : q[1] = w,
         \/ ~mode.overlap
         \/ \E s \in stops : s.w = w,
         \A s \in stops' : \E t \in stops : s.w = t.w,
         KilledGone', LiveKnown'
  PROVE  CalmInv'
<1>0. BaseInv BY DEF CalmInv, HeldInv
<1>1. /\ live' = live \ gone
      /\ \A d \in Call : exec'[d] = IF d \in Hit(w) THEN "failed" ELSE exec[d]
      /\ exec' \in [Call -> Exec]
      /\ \A u \in Call : u # w => worker'[u] = worker[u]
      /\ worker'[w].dead = TRUE
  BY <1>0, FailFacts
<1>2. \A d \in Call : exec'[d] = exec[d] \/ (exec[d] \in Pending /\ exec'[d] = "failed")
  BY <1>1 DEF Hit
<1>3. "failed" \notin Serving BY DEF Serving, Line
<1>4. ASSUME NEW s \in stops, s.w = w
      PROVE  \A d \in Call : mine[d] = w => exec[d] \notin Serving
  BY <1>4, ServedIsSpared
<1>5. \A d \in Call : mine[d] = w => exec'[d] \notin Serving
  <2> SUFFICES ASSUME NEW d \in Call, mine[d] = w, exec'[d] \in Serving PROVE FALSE
    OBVIOUS
  <2>1. exec'[d] = exec[d] /\ exec[d] \in Serving /\ d \notin Hit(w) BY <1>1, <1>3
  <2>2. ~mode.overlap BY <1>4, <2>1
  <2>3. ~worker[w].dead /\ exec[d] \in Line BY <2>1 DEF CalmInv, Served, Serving
  <2>4. exec[d] = "queued" BY <2>1, <2>3 DEF Hit, Serving, Line, Pending
  <2>5. req[d].kind # "prewarm" /\ worker[w].queue # << >> BY <1>0, <2>3, <2>4, InLine
  <2> DEFINE h == Head(worker[w].queue)
  <2>6. h \in ToSet(worker[w].queue) /\ h \in Call
    <3>1. worker[w].queue \in Seq(Call) /\ IsInjective(worker[w].queue)
      BY <1>0, RecordOf DEF BaseInv, Queues
    <3> QED BY <2>5, <3>1, TailFacts, SeqFacts
  <2>7. mine[h] = w /\ pc[h] \in {"prune", "await"} BY <1>0, <2>6 DEF BaseInv, Queues
  <2>8. h # d BY <2>4 DEF Turn, UpNext
  <2> HIDE DEF h
  <2>9. pc[d] \in {"prune", "await", "warm"} BY <1>0, <2>3, InLine
  <2>10. KeyOf(h) = KeyOf(d)
    <3>1. w # None BY Constants
    <3> QED BY <1>0, <2>6, <2>7, <3>1 DEF BaseInv, Owned
  <2> QED BY <2>2, <2>6, <2>7, <2>8, <2>9, <2>10 DEF CalmInv, OnePerKey, InFlight
<1>6. mode.overlap => exec' = exec /\ w \notin ToSet(pool)
  <2> SUFFICES ASSUME mode.overlap PROVE exec' = exec /\ w \notin ToSet(pool)
    OBVIOUS
  <2>1. PICK s \in stops : s.w = w OBVIOUS
  <2>2. \A d \in Call : ~GivesUp(d, w) BY DEF GivesUp, CalmInv, NoFailure
  <2>3. w \notin ToSet(pool) BY <2>1, <2>2 DEF CalmInv, StopsOfPool
  <2>4. \A d \in Call : d \notin Hit(w)
    <3>1. \A d \in Call : exec[d] \in Pending => exec[d] \in Serving BY DEF Pending, Serving, Line
    <3> QED BY <1>4, <2>1, <3>1 DEF Hit
  <2>5. exec \in [Call -> Exec] BY <1>0 DEF BaseInv, WorkersTyped
  <2>6. \A d \in Call : exec'[d] = exec[d] BY <1>1, <2>4
  <2> QED BY <1>1, <2>3, <2>5, <2>6
<1>7. live' \subseteq live /\ \A q \in live \ live' : q[1] = w BY <1>1
<1> QED BY <1>1, <1>2, <1>5, <1>6, <1>7, CalmDies

\* A request to abort that becomes a kill leaves no process unknown.
LEMMA StillKnown ==
  ASSUME CalmInv, CallsUnchanged, Converts(stops, stops'), live' \subseteq live,
         \A u \in Call : worker'[u].proc = worker[u].proc
  PROVE  KilledGone' /\ LiveKnown'
<1>1. KilledGone' BY DEF Converts, CalmInv, KilledGone
<1>2. LiveKnown'
  <2>1. pool' = pool BY DEF CallsUnchanged
  <2>2. \A q \in live : q[1] \in Call BY DEF CalmInv, HeldInv, BaseInv, WorkersTyped
  <2>3. \A t \in stops, q \in live : Kills(t, q) => t \in stops' BY DEF Converts, Kills
  <2> QED BY <2>1, <2>2, <2>3 DEF CalmInv, LiveKnown, Kills
<1> QED BY <1>1, <1>2

LEMMA CalmStopStep ==
  ASSUME CalmInv, HeldInv', NEW s \in stops, StopStep(s)
  PROVE  CalmInv'
<1>0. BaseInv BY DEF CalmInv, HeldInv
<1>1. s \in StopRecord /\ s.w \in Call BY <1>0 DEF BaseInv, WorkersTyped, StopRecord
<1>2. \A q \in live : q = <<q[1], q[2]>> BY <1>0 DEF BaseInv, WorkersTyped
<1>3. CASE StopKill(s)
  <2> DEFINE r == [s EXCEPT !.killed = TRUE]
  <2>1. /\ r.w = s.w /\ r.proc = s.proc /\ r.killed = TRUE
    BY <1>1 DEF StopRecord
  <2>2. /\ CallsUnchanged /\ mode' = mode /\ Converts((stops \ {s}) \cup {r}, stops') /\ Turn
        /\ PoolUnchanged
    BY <1>0, <1>3, StopKillKeeps DEF StopKill
  <2> HIDE DEF r
  <2>3. pool' = pool BY <2>2 DEF CallsUnchanged
  <2>a. /\ \A t \in stops' : t \in stops \/ t = r \/ (t.killed = FALSE /\ \E u \in stops : t.w = u.w)
        /\ \A t \in stops : t # s /\ t.why # "abort" => t \in stops'
    BY <2>1, <2>2 DEF Converts
  <2>4. \A t \in stops' : \E u \in stops : t.w = u.w BY <2>1, <2>a
\* Once the process is gone, what is killed is gone and what lives has its stop.
  <2>5. ASSUME live' = live \ {<<s.w, s.proc>>}, \A u \in Call : worker'[u].proc = worker[u].proc
        PROVE  KilledGone' /\ LiveKnown'
    <3>1. KilledGone' BY <2>1, <2>a, <2>5 DEF CalmInv, KilledGone
    <3>2. LiveKnown'
      <4> SUFFICES ASSUME NEW q \in live'
                   PROVE  \/ q[1] \in ToSet(pool) /\ q[2] = worker'[q[1]].proc
                          \/ \E t \in stops' : Kills(t, q)
        BY <2>3 DEF LiveKnown, Kills
      <4>1. q \in live /\ q # <<s.w, s.proc>> /\ q[1] \in Call
        BY <1>0, <2>5 DEF BaseInv, WorkersTyped
      <4>2. CASE \E t \in stops : Kills(t, q)
        <5>1. PICK t \in stops : Kills(t, q) BY <4>2
        <5>2. t # s BY <1>2, <4>1, <5>1 DEF Kills
        <5> QED BY <2>a, <5>1, <5>2 DEF Kills
      <4> QED BY <2>5, <4>1, <4>2 DEF CalmInv, LiveKnown
    <3> QED BY <3>1, <3>2
  <2>6. CASE <<s.w, s.proc>> \in live
    <3>1. Fail(s.w, {<<s.w, s.proc>>}) BY <1>3, <2>6 DEF StopKill
    <3>2. /\ live' = live \ {<<s.w, s.proc>>}
          /\ \A u \in Call : worker'[u].proc = worker[u].proc
      <4>1. /\ live' = live \ {<<s.w, s.proc>>} /\ worker'[s.w].proc = worker[s.w].proc
            /\ \A u \in Call : u # s.w => worker'[u] = worker[u]
        BY <1>0, <1>1, <3>1, FailFacts
      <4> QED BY <1>1, <4>1
    <3>3. KilledGone' /\ LiveKnown' BY <2>5, <3>2
    <3>4. \A q \in {<<s.w, s.proc>>} : q[1] = s.w OBVIOUS
    <3> QED BY <1>1, <2>2, <2>4, <3>1, <3>3, <3>4, CalmFails
  <2>7. CASE <<s.w, s.proc>> \notin live
    <3>1. WorkerUnchanged BY <1>3, <2>7 DEF StopKill
    <3>2. live' = live \ {<<s.w, s.proc>>} /\ \A u \in Call : worker'[u].proc = worker[u].proc
      BY <2>7, <3>1 DEF WorkerUnchanged
    <3>3. KilledGone' /\ LiveKnown' BY <2>5, <3>2
    <3> QED BY <2>2, <2>4, <3>1, <3>3, CalmStops
  <2> QED BY <2>6, <2>7
<1>4. CASE StopEnd(s)
  <2>1. /\ s.killed /\ stops' = stops \ {s} /\ PoolUnchanged /\ live' = live /\ exec' = exec
        /\ \A u \in Call : u # s.w => worker'[u] = worker[u]
        /\ worker'[s.w].dead = TRUE
        /\ worker'[s.w].proc =
             IF worker[s.w].proc = s.proc /\ s.why # "kill" THEN 0 ELSE worker[s.w].proc
    BY <1>0, <1>4, StopEndFacts
  <2>2. CallsUnchanged /\ mode' = mode /\ pool' = pool BY <2>1 DEF PoolUnchanged, CallsUnchanged
  <2>3. KilledGone' BY <2>1 DEF CalmInv, KilledGone
  <2>4. LiveKnown'
    <3> SUFFICES ASSUME NEW q \in live
                 PROVE  \/ q[1] \in ToSet(pool) /\ q[2] = worker'[q[1]].proc
                        \/ \E t \in stops' : Kills(t, q)
      BY <2>1, <2>2 DEF LiveKnown, Kills
    <3>1. CASE \E t \in stops : Kills(t, q)
      <4>1. PICK t \in stops : Kills(t, q) BY <3>1
      <4>2. t # s BY <2>1, <4>1 DEF Kills
      <4> QED BY <2>1, <4>1, <4>2
    <3>2. CASE q[1] \in ToSet(pool) /\ q[2] = worker[q[1]].proc
      <4>1. q[1] \in Call BY <1>0 DEF BaseInv, WorkersTyped
      <4>2. <<s.w, s.proc>> \notin live BY <2>1 DEF CalmInv, KilledGone
      <4>3. q[1] = s.w => q[2] # s.proc BY <1>2, <4>2
      <4> QED BY <2>1, <3>2, <4>1, <4>3
    <3> QED BY <3>1, <3>2 DEF CalmInv, LiveKnown
  <2>5. \A d \in Call : mine[d] = s.w => exec[d] \notin Serving BY ServedIsSpared
  <2>6. mode.overlap => s.w \notin ToSet(pool)
    <3>1. mode.overlap => \A d \in Call : ~GivesUp(d, s.w) BY DEF GivesUp, CalmInv, NoFailure
    <3> QED BY <3>1 DEF CalmInv, StopsOfPool
  <2> QED BY <1>1, <2>1, <2>2, <2>3, <2>4, <2>5, <2>6, CalmDies
<1>5. CASE AbortAccepted(s)
  <2>1. /\ s.why = "abort" /\ stops' = stops \ {s} /\ WorkerUnchanged /\ PoolUnchanged
    BY <1>5 DEF AbortAccepted
  <2>2. live' = live /\ worker' = worker /\ pool' = pool
    BY <2>1 DEF WorkerUnchanged, PoolUnchanged, CallsUnchanged
  <2>3. KilledGone' BY <2>1, <2>2 DEF CalmInv, KilledGone
  <2>4. LiveKnown'
    <3>1. \A t \in stops, q \in live : Kills(t, q) => t \in stops'
      BY <2>1 DEF Kills
    <3> QED BY <2>2, <3>1 DEF CalmInv, LiveKnown, Kills
  <2> QED BY <2>1, <2>3, <2>4, CalmStops
<1>6. CASE AbortFails(s)
  <2>1. /\ PoolUnchanged /\ live' = live /\ exec' = exec /\ Converts(stops, stops')
        /\ \A u \in Call : u # s.w => worker'[u] = worker[u]
        /\ worker' = worker \/ worker'[s.w].dead = TRUE
        /\ worker'[s.w].proc = worker[s.w].proc
    BY <1>0, <1>6, AbortFailsFacts
  <2>2. CallsUnchanged /\ mode' = mode /\ pool' = pool BY <2>1 DEF PoolUnchanged, CallsUnchanged
  <2>3. KilledGone' /\ LiveKnown'
    BY <1>0, <2>1, <2>2, StillKnown
  <2>4. \A t \in stops' : \E u \in stops : t.w = u.w BY <2>1 DEF Converts
  <2>5. CASE worker' = worker
    <3>1. WorkerUnchanged BY <2>1, <2>5 DEF WorkerUnchanged
    <3> QED BY <2>1, <2>3, <2>4, <3>1, CalmStops
  <2>6. CASE worker'[s.w].dead = TRUE
    <3>1. \A d \in Call : mine[d] = s.w => exec[d] \notin Serving BY ServedIsSpared
    <3>2. mode.overlap => s.w \notin ToSet(pool)
      <4>1. mode.overlap => \A d \in Call : ~GivesUp(d, s.w) BY DEF GivesUp, CalmInv, NoFailure
      <4> QED BY <4>1 DEF CalmInv, StopsOfPool
    <3> QED BY <1>1, <2>1, <2>2, <2>3, <2>4, <2>6, <3>1, <3>2, CalmDies
  <2> QED BY <2>1, <2>5, <2>6
<1> QED BY <1>3, <1>4, <1>5, <1>6 DEF StopStep

LEMMA CalmLoses ==
  ASSUME CalmInv, HeldInv',
         (\E p \in live : ProcessExits(p)) \/ (\E w \in Call : PipeBreaks(w))
  PROVE  CalmInv'
<1>0. BaseInv BY DEF CalmInv, HeldInv
<1>1. /\ Turn /\ Fault /\ CallsUnchanged /\ Converts(stops, stops')
      /\ \E w \in Call : \E gone : Fail(w, gone) /\ \A q \in gone : q[1] = w
  BY <1>0, Losses
<1>2. PICK w \in Call : \E gone : Fail(w, gone) /\ \A q \in gone : q[1] = w
  BY <1>1
<1>3. PICK gone : Fail(w, gone) /\ \A q \in gone : q[1] = w BY <1>2
<1>4. /\ live' = live \ gone /\ worker'[w].proc = worker[w].proc
      /\ \A u \in Call : u # w => worker'[u] = worker[u]
  BY <1>0, <1>3, FailFacts
<1>5. ~mode.overlap BY <1>1, CalmKept
<1>6. KilledGone' /\ LiveKnown'
  <2>1. live' \subseteq live /\ \A u \in Call : worker'[u].proc = worker[u].proc BY <1>4
  <2> QED BY <1>1, <2>1, StillKnown
<1>7. \A t \in stops' : \E u \in stops : t.w = u.w BY <1>1 DEF Converts
<1> QED BY <1>1, <1>3, <1>5, <1>6, <1>7, CalmFails

-----------------------------------------------------------------------------
\* The stops in N kill what the workers in W have for a process.
Ceases(N, W) ==
  /\ \A s \in N : s.w \in W /\ s.killed = FALSE
  /\ \A w \in W : worker[w].proc # 0 => \E s \in N : Kills(s, <<w, worker[w].proc>>)

LEMMA OneCeases ==
  ASSUME BaseInv, NEW w \in Call, NEW c \in Call, NEW why \in Why \ {"abort"}
  PROVE  Ceases(StopOf(w, c, why), {w})
<1>1. StopsBy(StopOf(w, c, why), w, c, why)
  BY Zenon, StopOfFacts
<1> DEFINE N == StopOf(w, c, why)
<1>2. StopsBy(N, w, c, why) BY <1>1
<1> HIDE DEF N
<1>3. \A s \in N : s.w \in {w} /\ s.killed = FALSE BY <1>2 DEF StopsBy
<1>4. worker[w].proc # 0 => \E s \in N : Kills(s, <<w, worker[w].proc>>)
  <2> SUFFICES ASSUME worker[w].proc # 0 PROVE \E s \in N : Kills(s, <<w, worker[w].proc>>)
    OBVIOUS
  <2>1. PICK s \in N : s.w = w /\ s.why = why /\ s.proc = worker[w].proc /\ s.killed = FALSE
    BY <1>2 DEF StopsBy
  <2> QED BY <2>1 DEF Kills
<1>5. Ceases(N, {w}) BY <1>3, <1>4 DEF Ceases
<1> QED BY <1>5 DEF N

LEMMA AllCease ==
  ASSUME BaseInv, NEW c \in Call, NEW why \in Why \ {"abort"}, NEW W \in SUBSET ToSet(pool)
  PROVE  Ceases(UNION {StopOf(w, c, why) : w \in W}, W)
<1> DEFINE N == UNION {StopOf(w, c, why) : w \in W}
<1>1. ASSUME NEW w \in W PROVE Ceases(StopOf(w, c, why), {w}) /\ \A s \in StopOf(w, c, why) : s \in N
  <2>1. w \in Call BY PoolTyped
  <2>2. Ceases(StopOf(w, c, why), {w}) BY <2>1, OneCeases
  <2> QED BY <2>2
<1>2. \A s \in N : \E w \in W : s \in StopOf(w, c, why) OBVIOUS
<1> HIDE DEF N
<1>3. \A s \in N : s.w \in W /\ s.killed = FALSE
  <2> TAKE s \in N
  <2>1. PICK w \in W : s \in StopOf(w, c, why) BY <1>2
  <2>2. PICK M : M = StopOf(w, c, why) OBVIOUS
  <2>3. Ceases(M, {w}) /\ s \in M BY Zenon, <1>1, <2>1, <2>2
  <2> QED BY <2>3 DEF Ceases
<1>4. ASSUME NEW w \in W, worker[w].proc # 0 PROVE \E s \in N : Kills(s, <<w, worker[w].proc>>)
  BY <1>1, <1>4 DEF Ceases
<1>5. Ceases(N, W) BY <1>3, <1>4 DEF Ceases
<1> QED BY <1>5 DEF N

LEMMA ServedUnderWay ==
  ASSUME CalmInv, NEW d \in Call, exec[d] \in Serving
  PROVE  /\ mine[d] \in ToSet(pool) /\ mine[d] \in Call /\ InFlight(d) /\ KeyOf(mine[d]) = KeyOf(d)
<1>0. BaseInv BY DEF CalmInv, HeldInv
<1>1. mine[d] \in ToSet(pool) BY DEF CalmInv, Served
<1>2. mine[d] \in Call /\ mine[d] # None BY <1>0, <1>1, PoolTyped, Constants
<1>3. KeyOf(mine[d]) = KeyOf(d) BY <1>0, <1>2 DEF BaseInv, Owned
<1>4. exec[d] \in Line BY DEF Serving
<1>5. pc[d] \in {"prune", "await", "warm"} BY <1>0, <1>4, InLine
<1> QED BY <1>1, <1>2, <1>3, <1>5 DEF InFlight

\* A call begins and takes workers G out of the map that no other call uses.
LEMMA CalmBegins ==
  ASSUME CalmInv, HeldInv', NEW c \in Call, NEW k \in Key, NEW f \in Fence, NEW kind \in Kind,
         Begin(c, k, f, kind), NEW p \in {"failed", "replace", "drop", "prune"}, Moves(c, p),
         NEW G \in SUBSET ToSet(pool), NEW N, Ceases(N, G),
         ToSet(pool') = ToSet(pool) \ G, stops' = stops \cup N,
         \A w \in G, d \in Call : InFlight(d) => KeyOf(d) # KeyOf(w),
         p = "replace" => ~mode.overlap /\ \A w \in ToSet(pool') : KeyOf(w) # k
  PROVE  CalmInv'
<1>0. BaseInv BY DEF CalmInv, HeldInv
<1>1. p \in Pc BY DEF Pc
<1>2. OthersStay(c) BY <1>0, <1>1, MovesStay
<1>3. OnePerKey' /\ OneSpec' BY <1>2, Beginning
<1>4. /\ pc[c] = "idle" /\ mine[c] = None /\ exec[c] = "none" /\ req'[c].key = k
  BY <1>0, BegunBy
<1>5. \A d \in Call : exec[d] \in Serving => mine[d] \in ToSet(pool')
  BY ServedUnderWay
<1>6. \A w : ~GivesUp(c, w) BY <1>4 DEF GivesUp
<1>7. ~Tends(c) BY <1>4 DEF Tends, Holder
<1>8. \A s \in stops : s \in stops' OBVIOUS
<1>9. \A s \in stops' : s \in stops \/ (s.w \notin ToSet(pool') /\ s.killed = FALSE)
  BY DEF Ceases
<1>10. \A w \in ToSet(pool) \ ToSet(pool') :
          worker[w].proc # 0 => \E s \in stops' : Kills(s, <<w, worker[w].proc>>)
  <2>1. \A w \in ToSet(pool) \ ToSet(pool') : w \in G OBVIOUS
  <2> QED BY <2>1 DEF Ceases
<1>11. exec[c] \in {"ok", "none"} BY <1>4
<1> QED BY <1>1, <1>3, <1>4, <1>5, <1>6, <1>7, <1>8, <1>9, <1>10, <1>11, CalmMoves

LEMMA CalmBeginStep ==
  ASSUME CalmInv, HeldInv', NEW c \in Call, NEW k \in Key, NEW f \in Fence,
         \/ ResumeRefused(c, k, f)
         \/ \E kind \in Using : Replaces(c, k, f, kind)
         \/ PrewarmReuses(c, k, f)
         \/ Discards(c, k, f)
         \/ StopsAll(c, k, f)
  PROVE  CalmInv'
<1>0. BaseInv BY DEF CalmInv, HeldInv
<1>1. /\ "own" \in Why \ {"abort"} /\ Using \subseteq Kind
      /\ {"resume", "prewarm", "discard", "stopAll"} \subseteq Kind
      /\ {"failed", "replace", "drop", "prune"} \subseteq Pc
  BY DEF Why, Using, Kind, Pc
<1>2. \A w \in Tracked(k) : w \in ToSet(pool) /\ w \in Call /\ KeyOf(w) = k /\ req[w] # None
  BY <1>0, TrackedFacts
<1>3. pool \in Seq(Call) /\ IsInjective(pool) /\ PoolKeys BY <1>0, PoolTyped
<1>4. ToSet(Forgetting(k)) = ToSet(pool) \ Tracked(k)
  <2>1. ToSet(Forgetting(k)) = {w \in ToSet(pool) : KeyOf(w) # k} BY <1>3, Forgotten
  <2> QED BY <2>1 DEF Tracked
<1>5. Tracked(k) \in SUBSET ToSet(pool) BY <1>2
<1>6. CASE ResumeRefused(c, k, f)
  <2>1. /\ Begin(c, k, f, "resume") /\ pool' = Forgetting(k)
        /\ stops' = stops \cup UNION {StopOf(w, c, "own") : w \in Tracked(k)}
    BY <1>6 DEF ResumeRefused
  <2>2. Moves(c, "failed") BY <1>0, <1>6, ResumeRefusedMoves
  <2>3. OthersStay(c) BY <1>0, <1>1, <2>2, MovesStay
  <2>4. \A d \in Call : InFlight(d) => KeyOf(d) # k
    BY <1>1, <2>1, <2>3, Beginning
  <2> DEFINE N == UNION {StopOf(w, c, "own") : w \in Tracked(k)}
  <2>5. Ceases(N, Tracked(k)) BY Zenon, <1>0, <1>1, <1>5, AllCease
  <2>6. stops' = stops \cup N BY <2>1
  <2> HIDE DEF N
  <2>7. ToSet(pool') = ToSet(pool) \ Tracked(k) BY <1>4, <2>1
  <2>8. \A w \in Tracked(k), d \in Call : InFlight(d) => KeyOf(d) # KeyOf(w) BY <1>2, <2>4
  <2>9. "resume" \in Kind /\ "failed" \in {"failed", "replace", "drop", "prune"} BY <1>1
  <2> QED BY <1>5, <2>1, <2>2, <2>5, <2>6, <2>7, <2>8, <2>9, CalmBegins
<1>7. CASE \E kind \in Using : Replaces(c, k, f, kind)
  <2>1. PICK kind \in Using : Replaces(c, k, f, kind) BY <1>7
  <2>2. PICK w \in Tracked(k) : /\ worker[w].dead \/ ~Fenced(w, f)
                                /\ pool' = Without(pool, w) /\ stops' = stops \cup StopOf(w, c, "own")
    BY <2>1 DEF Replaces
  <2>3. Begin(c, k, f, kind) BY <2>1 DEF Replaces
  <2>4. Moves(c, "replace") BY <1>0, <2>1, ReplacesMoves
  <2>5. OthersStay(c) BY <1>0, <1>1, <2>4, MovesStay
  <2>6. /\ \A d \in Call : InFlight(d) /\ KeyOf(d) = k => mode.overlap
        /\ \A d \in Call : req[d] # None /\ KeyOf(d) = k => mode.mixed \/ req[d].spec = f
    BY <1>1, <2>3, <2>5, Beginning
  <2>7. ~mode.overlap
    <3> SUFFICES ASSUME mode.overlap PROVE FALSE
      OBVIOUS
    <3>1. ~worker[w].dead BY <1>2 DEF CalmInv, NoFailure
    <3>2. ~mode.mixed BY DEF CalmInv, Calm
    <3>3. Fenced(w, f) BY <1>2, <2>6, <3>2 DEF Fenced
    <3> QED BY <2>2, <3>1, <3>3
  <2>8. Ceases(StopOf(w, c, "own"), {w}) BY <1>0, <1>1, <1>2, OneCeases
  <2>9. ToSet(pool') = ToSet(pool) \ {w} BY <1>3, <2>2, RemovedFirst
  <2>10. \A u \in {w}, d \in Call : InFlight(d) => KeyOf(d) # KeyOf(u) BY <1>2, <2>6, <2>7
  <2>11. \A u \in ToSet(pool') : KeyOf(u) # k BY <1>2, <1>3, <2>9 DEF PoolKeys
  <2>12. /\ {w} \in SUBSET ToSet(pool) /\ kind \in Kind
         /\ "replace" \in {"failed", "replace", "drop", "prune"}
    BY <1>1, <1>2
  <2> DEFINE N == StopOf(w, c, "own")
  <2>13. Ceases(N, {w}) /\ stops' = stops \cup N BY <2>2, <2>8
  <2> HIDE DEF N
  <2> QED BY <2>3, <2>4, <2>7, <2>9, <2>10, <2>11, <2>12, <2>13, CalmBegins
<1>8. CASE PrewarmReuses(c, k, f)
  <2>1. Begin(c, k, f, "prewarm") /\ \E w \in Tracked(k) : pool' = Touch(w)
    BY <1>8 DEF PrewarmReuses
  <2>2. Moves(c, "prune") /\ stops' = stops BY <1>0, <1>8, PrewarmReusesMoves
  <2>3. ToSet(pool') = ToSet(pool) BY <1>2, <1>3, <2>1, Touched
  <2>4. Ceases({}, {}) BY DEF Ceases
  <2>5. /\ {} \in SUBSET ToSet(pool) /\ ToSet(pool') = ToSet(pool) \ {} /\ stops' = stops \cup {}
        /\ "prewarm" \in Kind /\ "prune" \in {"failed", "replace", "drop", "prune"}
        /\ \A w \in {}, d \in Call : InFlight(d) => KeyOf(d) # KeyOf(w)
    BY <1>1, <2>2, <2>3
  <2> QED BY <2>1, <2>2, <2>4, <2>5, CalmBegins
<1>9. CASE Discards(c, k, f)
  <2>1. /\ Begin(c, k, f, "discard") /\ pool' = Forgetting(k)
        /\ stops' = stops \cup UNION {StopOf(w, c, "own") : w \in Tracked(k)}
    BY <1>9 DEF Discards
  <2>2. Moves(c, "drop") BY <1>0, <1>9, DropsMove
  <2>3. OthersStay(c) BY <1>0, <1>1, <2>2, MovesStay
  <2>4. \A d \in Call : InFlight(d) => KeyOf(d) # k
    BY <1>1, <2>1, <2>3, Beginning
  <2> DEFINE N == UNION {StopOf(w, c, "own") : w \in Tracked(k)}
  <2>5. Ceases(N, Tracked(k)) BY Zenon, <1>0, <1>1, <1>5, AllCease
  <2>6. stops' = stops \cup N BY <2>1
  <2> HIDE DEF N
  <2>7. ToSet(pool') = ToSet(pool) \ Tracked(k) BY <1>4, <2>1
  <2>8. \A w \in Tracked(k), d \in Call : InFlight(d) => KeyOf(d) # KeyOf(w) BY <1>2, <2>4
  <2>9. "discard" \in Kind /\ "drop" \in {"failed", "replace", "drop", "prune"} BY <1>1
  <2> QED BY <1>5, <2>1, <2>2, <2>5, <2>6, <2>7, <2>8, <2>9, CalmBegins
<1>10. CASE StopsAll(c, k, f)
  <2>1. /\ Begin(c, k, f, "stopAll") /\ pool' = << >> /\ \A d \in Call : ~InFlight(d)
        /\ stops' = stops \cup UNION {StopOf(w, c, "own") : w \in ToSet(pool)}
    BY <1>10 DEF StopsAll
  <2>2. Moves(c, "drop") BY <1>0, <1>10, DropsMove
  <2>3. ToSet(pool) \in SUBSET ToSet(pool) OBVIOUS
  <2> DEFINE N == UNION {StopOf(w, c, "own") : w \in ToSet(pool)}
  <2>4. Ceases(N, ToSet(pool)) BY Zenon, <1>0, <1>1, <2>3, AllCease
  <2>5. stops' = stops \cup N BY <2>1
  <2> HIDE DEF N
  <2>6. ToSet(pool') = ToSet(pool) \ ToSet(pool) BY <2>1, EmptyQueue
  <2>7. "stopAll" \in Kind /\ "drop" \in {"failed", "replace", "drop", "prune"} BY <1>1
  <2>8. \A w \in ToSet(pool), d \in Call : InFlight(d) => KeyOf(d) # KeyOf(w) BY <2>1
  <2> QED BY <2>1, <2>2, <2>3, <2>4, <2>5, <2>6, <2>7, <2>8, CalmBegins
<1> QED BY <1>6, <1>7, <1>8, <1>9, <1>10

-----------------------------------------------------------------------------
LEMMA CalmRuns ==
  ASSUME CalmInv, HeldInv', NEW c \in Call, NEW k \in Key, NEW f \in Fence,
         \/ \E kind \in {"run", "resume"} : RunReuses(c, k, f, kind)
         \/ RunCreates(c, k, f)
         \/ PrewarmCreates(c, k, f)
  PROVE  CalmInv'
<1>0. BaseInv BY DEF CalmInv, HeldInv
<1>1. {"run", "resume", "prewarm"} \subseteq Kind /\ {"prune", "warm"} \subseteq Pc /\ "stale" \in Why \ {"abort"}
  BY DEF Kind, Pc, Why
<1>2. CASE \E kind \in {"run", "resume"} : RunReuses(c, k, f, kind)
  <2>1. PICK kind \in {"run", "resume"} : RunReuses(c, k, f, kind) BY <1>2
  <2>2. /\ stops' = stops /\ live' = live /\ req'[c].key = k /\ req'[c].kind = kind
        /\ \E w \in Tracked(k) : /\ Joins(c, w, "prune") /\ Enqueue(c, w) /\ Reusable(w, f)
                                 /\ pool' = Touch(w)
    BY <1>0, <2>1, RunReusesKeeps
  <2>3. PICK w \in Tracked(k) : /\ Joins(c, w, "prune") /\ Enqueue(c, w) /\ Reusable(w, f)
                                /\ pool' = Touch(w)
    BY <2>2
  <2>4. w \in ToSet(pool) /\ w \in Call /\ ~worker[w].dead
    BY <1>0, <2>3, TrackedFacts DEF Reusable
  <2>5. ToSet(pool') = ToSet(pool) BY <1>0, <2>3, <2>4, PoolTyped, Touched
  <2>6. OthersStay(c) BY <1>0, <1>1, <2>3, <2>4, JoinsStay
  <2>7. Begin(c, k, f, kind) /\ kind \in Kind BY <1>1, <2>1 DEF RunReuses
  <2>8. OnePerKey' /\ OneSpec' /\ \A d \in Call : pc[d] = "replace" => KeyOf(d) # k
    BY <2>6, <2>7, Beginning
  <2> QED BY <2>2, <2>3, <2>4, <2>5, <2>8, CalmJoins
<1>3. CASE RunCreates(c, k, f)
  <2>1. /\ Joins(c, c, "prune") /\ Enqueue(c, c) /\ live' = live
        /\ req'[c].key = k /\ req'[c].kind = "run"
        /\ ToSet(pool') = {w \in ToSet(pool) : KeyOf(w) # k} \cup {c}
        /\ stops' = stops \cup UNION {StopOf(w, c, "stale") : w \in Tracked(k)}
    BY <1>0, <1>3, RunCreatesKeeps
  <2>2. Begin(c, k, f, "run") /\ \A w \in Tracked(k) : worker[w].dead
    BY <1>3 DEF RunCreates
  <2>3. ~worker[c].dead /\ c \notin ToSet(pool)
    <3>1. Blank(c) BY <1>0, <1>1, <2>2, BegunBy
    <3> QED BY <3>1 DEF Blank
  <2>4. OthersStay(c) BY <1>0, <1>1, <2>1, JoinsStay
  <2>5. OnePerKey' /\ OneSpec' /\ \A d \in Call : pc[d] = "replace" => KeyOf(d) # k
    BY <1>1, <2>2, <2>4, Beginning
  <2>6. Tracked(k) \in SUBSET ToSet(pool) /\ \A w \in Tracked(k) : KeyOf(w) = k
    BY <1>0, TrackedFacts
  <2>7. \A u \in ToSet(pool) : u \in ToSet(pool') \/ (u \in Tracked(k) /\ worker[u].dead)
    BY <2>1, <2>2 DEF Tracked
  <2> DEFINE N == UNION {StopOf(w, c, "stale") : w \in Tracked(k)}
  <2>8. Ceases(N, Tracked(k)) BY Zenon, <1>0, <1>1, <2>6, AllCease
  <2>9. stops' = stops \cup N BY <2>1
  <2> HIDE DEF N
  <2>10. \A s \in stops' : s \in stops \/ (s.w \notin ToSet(pool') /\ s.killed = FALSE)
    <3> SUFFICES ASSUME NEW s \in N PROVE s.w \notin ToSet(pool') /\ s.killed = FALSE
      BY <2>9
    <3>1. s.w \in Tracked(k) /\ s.killed = FALSE BY <2>8 DEF Ceases
    <3>2. s.w \in ToSet(pool) /\ KeyOf(s.w) = k BY <2>6, <3>1
    <3> QED BY <2>1, <2>3, <3>1, <3>2
  <2>11. \A u \in ToSet(pool) \ ToSet(pool') :
            worker[u].proc # 0 => \E s \in stops' : Kills(s, <<u, worker[u].proc>>)
    <3> SUFFICES ASSUME NEW u \in ToSet(pool) \ ToSet(pool'), worker[u].proc # 0
                 PROVE  \E s \in stops' : Kills(s, <<u, worker[u].proc>>)
      OBVIOUS
    <3>1. u \in Tracked(k) BY <2>7
    <3>2. \E s \in N : Kills(s, <<u, worker[u].proc>>) BY <2>8, <3>1 DEF Ceases
    <3> QED BY <2>9, <3>2
  <2>12. c \in ToSet(pool') /\ \A s \in stops : s \in stops' BY <2>1, <2>9
  <2>13. "prune" \in {"prune", "warm"} /\ "run" # "prewarm" OBVIOUS
  <2> QED BY <2>1, <2>3, <2>5, <2>7, <2>10, <2>11, <2>12, <2>13, CalmJoins
<1>4. CASE PrewarmCreates(c, k, f)
  <2>1. /\ Joins(c, c, "warm") /\ Spawned(c, worker[c]) /\ stops' = stops
        /\ exec' = [exec EXCEPT ![c] = "starting"] /\ req'[c].key = k
        /\ ToSet(pool') = {w \in ToSet(pool) : KeyOf(w) # k} \cup {c}
    BY <1>0, <1>4, PrewarmCreatesKeeps
  <2>2. Begin(c, k, f, "prewarm") /\ Tracked(k) = {} BY <1>4 DEF PrewarmCreates
  <2>3. ~worker[c].dead
    <3>1. Blank(c) BY <1>0, <1>1, <2>2, BegunBy
    <3> QED BY <3>1 DEF Blank
  <2>4. OthersStay(c) BY <1>0, <1>1, <2>1, JoinsStay
  <2>5. OnePerKey' /\ OneSpec' /\ \A d \in Call : pc[d] = "replace" => KeyOf(d) # k
    BY <1>1, <2>2, <2>4, Beginning
  <2>6. \A u \in ToSet(pool) : u \in ToSet(pool') BY <2>1, <2>2 DEF Tracked
  <2>7. c \in ToSet(pool') /\ "warm" \in {"prune", "warm"} BY <2>1
  <2> QED BY <2>1, <2>3, <2>5, <2>6, <2>7, CalmJoins
<1> QED BY <1>2, <1>3, <1>4

\* The call whose worker has been replaced is the only one of its key.
LEMMA CalmReplaced ==
  ASSUME CalmInv, HeldInv', NEW c \in Call, Replaced(c)
  PROVE  CalmInv'
<1>0. BaseInv BY DEF CalmInv, HeldInv
<1>1. /\ pc[c] = "replace" /\ req' = req /\ stops' = stops /\ mode' = mode
      /\ \/ /\ req[c].kind = "run" /\ Joins(c, c, "prune") /\ Enqueue(c, c) /\ live' = live
            /\ ToSet(pool') = {w \in ToSet(pool) : KeyOf(w) # KeyOf(c)} \cup {c}
         \/ /\ req[c].kind = "resume" /\ Moves(c, "pruneAll") /\ pool' = pool
         \/ /\ req[c].kind = "prewarm" /\ Joins(c, c, "warm") /\ Spawned(c, worker[c])
            /\ exec' = [exec EXCEPT ![c] = "starting"]
            /\ ToSet(pool') = {w \in ToSet(pool) : KeyOf(w) # KeyOf(c)} \cup {c}
  BY <1>0, ReplacedKeeps
<1>2. {"prune", "warm", "pruneAll"} \subseteq Pc BY DEF Pc
<1>3. OthersStay(c) BY <1>0, <1>1, <1>2, JoinsStay, MovesStay
<1>4. InFlight(c) /\ ~mode.overlap BY <1>1 DEF InFlight, CalmInv, NoFailure
<1>5. OnePerKey' /\ OneSpec' BY <1>1, <1>3, <1>4, Staying
<1>6. \A d \in Call : d # c /\ pc[d] = "replace" => KeyOf(d) # req'[c].key
  <2>1. req'[c].key = KeyOf(c) BY <1>1 DEF KeyOf
  <2> QED BY <1>4, <2>1 DEF InFlight, CalmInv, OnePerKey
<1>7. \A w \in ToSet(pool) : KeyOf(w) # KeyOf(c) BY <1>1 DEF CalmInv, Vacant
<1>8. ~worker[c].dead /\ mine[c] = None /\ exec[c] = "none"
  BY <1>0, <1>1 DEF BaseInv, Owned, Blank
<1>9. CASE ToSet(pool') = {w \in ToSet(pool) : KeyOf(w) # KeyOf(c)} \cup {c}
  <2>1. c \in ToSet(pool') /\ \A u \in ToSet(pool) : u \in ToSet(pool') BY <1>7, <1>9
  <2>2. CASE /\ req[c].kind = "run" /\ Joins(c, c, "prune") /\ Enqueue(c, c) /\ live' = live
    <3>1. req'[c].kind # "prewarm" /\ "prune" \in {"prune", "warm"} BY <1>1, <2>2
    <3> QED BY <1>1, <1>5, <1>6, <1>8, <2>1, <2>2, <3>1, CalmJoins
  <2>3. CASE /\ Joins(c, c, "warm") /\ Spawned(c, worker[c]) /\ exec' = [exec EXCEPT ![c] = "starting"]
    <3>1. "warm" \in {"prune", "warm"} OBVIOUS
    <3> QED BY <1>1, <1>5, <1>6, <1>8, <2>1, <2>3, <3>1, CalmJoins
  <2>4. CASE Moves(c, "pruneAll") /\ pool' = pool
    <3>1. c \notin ToSet(pool) BY <1>7
    <3> QED BY <1>9, <2>4, <3>1
  <2> QED BY <1>1, <2>2, <2>3, <2>4
<1>10. CASE Moves(c, "pruneAll") /\ pool' = pool
  <2>1. \A w : ~GivesUp(c, w) BY <1>8 DEF GivesUp
  <2>2. \A d \in Call : exec[d] \in Serving => mine[d] \in ToSet(pool') BY <1>10 DEF CalmInv, Served
  <2> QED BY <1>1, <1>2, <1>5, <1>10, <2>1, <2>2, CalmMoves
<1> QED BY <1>1, <1>9, <1>10

-----------------------------------------------------------------------------
LEMMA CalmEvicts ==
  ASSUME CalmInv, HeldInv', NEW c \in Call, Evicts(c)
  PROVE  CalmInv'
<1>0. BaseInv /\ Counted BY DEF CalmInv, HeldInv
<1>1. Moves(c, pc[c]) /\ pc[c] # "idle" /\ req' = req /\ mode' = mode
  BY <1>0, EvictsMoves DEF Moves
<1>2. PICK w \in ToSet(pool) :
        /\ w \in Call /\ reserved[KeyOf(w)] = 0
        /\ pool' = Without(pool, w) /\ stops' = stops \cup StopOf(w, c, "prune")
  BY <1>0, EvictsFacts
<1>3. ToSet(pool') = ToSet(pool) \ {w} BY <1>0, <1>2, PoolTyped, RemovedFirst
<1>4. pc[c] \in {"prune", "pruneAll", "finish"} /\ {"prune", "pruneAll", "finish"} \subseteq Pc
  BY DEF Evicts, Pruning, Pc
<1>5. pc[c] \in Pc BY <1>4
<1>6. OthersStay(c) /\ pc'[c] = pc[c] BY <1>0, <1>1, <1>5, MovesStay
<1>7. OnePerKey' /\ OneSpec' BY <1>1, <1>6, Staying DEF InFlight
\* A call that is served holds a reservation of the key.
<1>8. \A d \in Call : exec[d] \in Serving => mine[d] \in ToSet(pool')
  <2> SUFFICES ASSUME NEW d \in Call, exec[d] \in Serving PROVE mine[d] \in ToSet(pool')
    OBVIOUS
  <2>1. mine[d] \in ToSet(pool) /\ KeyOf(mine[d]) = KeyOf(d) BY ServedUnderWay
  <2>2. Holder(d)
    <3>1. exec[d] \in Line BY DEF Serving
    <3>2. pc[d] \in {"prune", "await", "warm"} BY <1>0, <3>1, InLine
    <3> QED BY <3>2 DEF Holder
  <2>3. reserved[KeyOf(d)] # 0 BY <1>0, <2>2, HeldIsCounted
  <2>4. mine[d] # w BY <1>2, <2>1, <2>3
  <2> QED BY <1>3, <2>1, <2>4
<1>9. "prune" \in Why \ {"abort"} BY DEF Why
<1> DEFINE N == StopOf(w, c, "prune")
<1>10. Ceases(N, {w}) BY <1>0, <1>2, <1>9, OneCeases
<1>11. stops' = stops \cup N BY <1>2
<1> HIDE DEF N
<1>12. \A s \in stops' : s \in stops \/ (s.w \notin ToSet(pool') /\ s.killed = FALSE)
  BY <1>3, <1>10, <1>11 DEF Ceases
<1>13. \A u \in ToSet(pool) \ ToSet(pool') :
          worker[u].proc # 0 => \E s \in stops' : Kills(s, <<u, worker[u].proc>>)
  <2>1. \A u \in ToSet(pool) \ ToSet(pool') : u \in {w} BY <1>3
  <2> QED BY <1>10, <1>11, <2>1 DEF Ceases
<1>14. \A s \in stops : s \in stops' BY <1>11
<1>15. \A u : GivesUp(c, u) => pc[c] \in {"prune", "await", "warm"} BY DEF GivesUp
<1>16. pc[c] = "prune" /\ req'[c].kind = "prewarm" => exec[c] \in {"ok", "none"}
  BY <1>1 DEF CalmInv, Warmed
<1>17. /\ pc[c] # "replace"
       /\ pc[c] \in {"replace", "prune", "await", "failed", "warm", "pruneAll", "finish"}
  BY <1>4
<1> QED BY <1>1, <1>5, <1>7, <1>8, <1>12, <1>13, <1>14, <1>15, <1>16, <1>17, CalmMoves

\* Who gives up a worker is the only one that uses it.
LEMMA CalmGivesUp ==
  ASSUME CalmInv, HeldInv', NEW c \in Call, Failed(c)
  PROVE  CalmInv'
<1>0. BaseInv BY DEF CalmInv, HeldInv
<1>1. Moves(c, "failed") /\ req' = req /\ mode' = mode BY <1>0, FailedMoves DEF Moves
<1>2. /\ pc[c] \in {"await", "warm"} /\ exec[c] = "failed"
      /\ pool' = Without(pool, mine[c]) /\ stops' = stops \cup Ousted(c)
  BY DEF Failed
<1>3. ~mode.overlap BY <1>2 DEF CalmInv, NoFailure
<1>4. ToSet(pool') = ToSet(pool) \ {mine[c]} BY <1>0, <1>2, PoolTyped, RemovedFirst
<1>5. "failed" \in Pc /\ "own" \in Why \ {"abort"} BY DEF Pc, Why
<1>6. OthersStay(c) BY <1>0, <1>1, <1>5, MovesStay
<1>7. InFlight(c) /\ exec[c] \notin Serving BY <1>2 DEF InFlight, Serving, Line
<1>8. OnePerKey' /\ OneSpec' BY <1>1, <1>6, <1>7, Staying
<1>9. mine[c] \in Call /\ mine[c] # None
  <2>1. mine[c] # None BY <1>0, <1>2, Constants DEF BaseInv, Asked
  <2> QED BY <1>0, <2>1 DEF BaseInv, CallsTyped
<1>10. KeyOf(mine[c]) = KeyOf(c) BY <1>0, <1>9 DEF BaseInv, Owned
<1>11. \A d \in Call : exec[d] \in Serving => mine[d] \in ToSet(pool')
  <2> SUFFICES ASSUME NEW d \in Call, exec[d] \in Serving PROVE mine[d] \in ToSet(pool')
    OBVIOUS
  <2>1. mine[d] \in ToSet(pool) /\ KeyOf(mine[d]) = KeyOf(d) /\ InFlight(d) BY ServedUnderWay
  <2>2. mine[d] = mine[c] => d = c BY <1>3, <1>7, <1>10, <2>1 DEF CalmInv, OnePerKey
  <2> QED BY <1>4, <1>7, <2>1, <2>2
<1> DEFINE N == StopOf(mine[c], c, "own")
<1>12. Ceases(N, {mine[c]}) BY <1>0, <1>5, <1>9, OneCeases
<1>13. Ousted(c) = {} \/ Ousted(c) = N BY DEF Ousted
<1>14. mine[c] \in ToSet(pool) => Ousted(c) = N BY DEF Ousted
<1> HIDE DEF N
<1>15. \A s \in stops' : s \in stops \/ (s.w \notin ToSet(pool') /\ s.killed = FALSE)
  BY <1>2, <1>4, <1>12, <1>13 DEF Ceases
<1>16. \A u \in ToSet(pool) \ ToSet(pool') :
          worker[u].proc # 0 => \E s \in stops' : Kills(s, <<u, worker[u].proc>>)
  <2>1. \A u \in ToSet(pool) \ ToSet(pool') : u \in {mine[c]} /\ Ousted(c) = N BY <1>4, <1>14
  <2> QED BY <1>2, <1>12, <2>1 DEF Ceases
<1>17. \A s \in stops : s \in stops' BY <1>2
<1>18. \A u : GivesUp(c, u) => u \notin ToSet(pool') BY <1>4 DEF GivesUp
<1> QED BY <1>1, <1>5, <1>8, <1>11, <1>15, <1>16, <1>17, <1>18, CalmMoves

LEMMA CalmFurther ==
  ASSUME CalmInv, HeldInv', NEW c \in Call, Further(c)
  PROVE  CalmInv'
<1>0. BaseInv BY DEF CalmInv, HeldInv
<1>1. /\ req' = req /\ pool' = pool /\ stops' = stops /\ mode' = mode
      /\ \/ pc[c] = "drop" /\ pc' = [pc EXCEPT ![c] = "done"]
         \/ pc[c] = "prune" /\ pc' = [pc EXCEPT ![c] = "await"]
         \/ pc[c] = "warm" /\ pc' = [pc EXCEPT ![c] = "prune"] /\ exec[c] = "ok"
         \/ pc[c] = "failed" /\ pc' = [pc EXCEPT ![c] = "pruneAll"]
         \/ /\ pc[c] \in {"prune", "pruneAll", "await", "failed"} /\ pc' = [pc EXCEPT ![c] = "finish"]
            /\ pc[c] = "prune" => req[c].kind = "prewarm"
            /\ pc[c] = "await" => exec[c] = "ok"
  BY <1>0, FurtherMoves DEF Finish, Goto
<1>2. PICK p \in Pc : Moves(c, p) BY <1>0, FurtherMoves
<1>3. OthersStay(c) /\ pc'[c] = p BY <1>0, <1>2, MovesStay
<1>4. \/ pc[c] = "drop" /\ p = "done"
      \/ pc[c] = "prune" /\ p = "await"
      \/ pc[c] = "warm" /\ p = "prune" /\ exec[c] = "ok"
      \/ pc[c] = "failed" /\ p = "pruneAll"
      \/ /\ pc[c] \in {"prune", "pruneAll", "await", "failed"} /\ p = "finish"
         /\ pc[c] = "prune" => req[c].kind = "prewarm"
         /\ pc[c] = "await" => exec[c] = "ok"
  BY <1>0, <1>1, <1>3 DEF BaseInv, CallsTyped
<1>5. InFlight(c) BY <1>4 DEF InFlight
<1>6. OnePerKey' /\ OneSpec' BY <1>1, <1>3, <1>5, Staying
<1>7. \A d \in Call : exec[d] \in Serving => mine[d] \in ToSet(pool')
  BY <1>1 DEF CalmInv, Served
<1>8. \A w : GivesUp(c, w) => p \in {"prune", "await", "warm"}
  BY <1>4 DEF GivesUp, CalmInv, Warmed
<1>9. Tends(c) => p \in {"replace", "prune", "await", "failed", "warm", "pruneAll", "finish"}
  BY <1>4 DEF Tends, Holder
<1>10. (p = "prune" /\ req'[c].kind = "prewarm" => exec[c] \in {"ok", "none"}) /\ p # "replace"
  BY <1>4
<1> QED BY <1>1, <1>2, <1>6, <1>7, <1>8, <1>9, <1>10, CalmMoves

\* A worker that cannot go has a call that will prune after c.
LEMMA OthersTend ==
  ASSUME CalmInv, NEW c \in Call, pc[c] = "finish", ~Crowded(c), Len(pool) > MaxWorkers
  PROVE  \E d \in Call : d # c /\ Holder(d)
<1>0. BaseInv /\ Counted BY DEF CalmInv, HeldInv
<1>1. /\ DOMAIN pool = 1..Len(pool) /\ Len(pool) \in Nat /\ MaxWorkers \in Nat \ {0}
      /\ \A i, j \in 1..Len(pool) : pool[i] = pool[j] => i = j
      /\ \A i \in 1..Len(pool) : pool[i] \in ToSet(pool) /\ pool[i] \in Call
      /\ \A v, w \in ToSet(pool) : KeyOf(v) = KeyOf(w) => v = w
      /\ \A w \in ToSet(pool) : req[w] # None
  <2>1. pool \in Seq(Call) /\ IsInjective(pool) /\ PoolKeys BY <1>0, PoolTyped
  <2> QED BY <2>1, SeqFacts, Constants DEF PoolKeys
<1>2. PICK i \in 1..Len(pool) : KeyOf(pool[i]) # KeyOf(c)
  <2>1. 1 \in 1..Len(pool) /\ 2 \in 1..Len(pool) BY <1>1
  <2>2. pool[1] # pool[2] BY <1>1, <2>1
  <2> QED BY <1>1, <2>1, <2>2
<1>3. i \notin Evictable(c) BY <1>1 DEF Crowded
<1> DEFINE w == pool[i]
<1>4. w \in Call /\ req[w] # None BY <1>1
<1>5. KeyOf(w) \in Key BY <1>0, <1>4 DEF BaseInv, CallsTyped, Request, KeyOf
<1>6. reserved[KeyOf(w)] # 0 \/ Active(w) BY <1>1, <1>2, <1>3 DEF Evictable
<1> HIDE DEF w
<1>7. CASE reserved[KeyOf(w)] # 0
  <2>1. Holders(KeyOf(w)) # {}
    <3> SUFFICES ASSUME Holders(KeyOf(w)) = {} PROVE FALSE
      OBVIOUS
    <3>1. Cardinality(Holders(KeyOf(w))) = 0 BY FS_EmptySet
    <3> QED BY <1>0, <1>5, <1>7, <3>1 DEF Counted
  <2>2. \E d \in Call : Holder(d) /\ KeyOf(d) = KeyOf(w) BY <2>1 DEF Holders
  <2> QED BY <2>2 DEF Holder
<1>8. CASE Active(w)
  <2>1. /\ worker[w].queue # << >> /\ worker[w].queue \in Seq(Call) /\ IsInjective(worker[w].queue)
    BY <1>0, <1>4, <1>8, RecordOf DEF Active, BaseInv, Queues
  <2>2. PICK d \in ToSet(worker[w].queue) : d \in Call BY <2>1, TailFacts, SeqFacts
  <2>3. pc[d] \in {"prune", "await"} BY <1>0, <1>4, <2>2 DEF BaseInv, Queues
  <2> QED BY <2>2, <2>3 DEF Holder
<1> QED BY <1>6, <1>7, <1>8

LEMMA CalmEnding ==
  ASSUME CalmInv, HeldInv', NEW c \in Call, Pruned(c), pc[c] = "finish"
  PROVE  CalmInv'
<1>0. BaseInv BY DEF CalmInv, HeldInv
<1>1. /\ pc' = [pc EXCEPT ![c] = "done"] /\ exec' = [exec EXCEPT ![c] = "none"]
      /\ mine' = [mine EXCEPT ![c] = None]
      /\ mode' = mode /\ req' = req /\ pool' = pool /\ stops' = stops /\ worker' = worker /\ live' = live
  BY <1>0, Ending
<1>2. /\ pc'[c] = "done" /\ exec'[c] = "none"
      /\ \A d \in Call : d # c => pc'[d] = pc[d] /\ mine'[d] = mine[d] /\ exec'[d] = exec[d]
  BY <1>0, <1>1 DEF BaseInv, CallsTyped, WorkersTyped
<1>3. OthersStay(c) /\ InFlight(c) BY <1>1, <1>2 DEF OthersStay, InFlight
<1>4. OnePerKey' /\ OneSpec' BY <1>1, <1>3, Staying
<1>5. Calm' /\ Alive' /\ KilledGone' /\ LiveKnown'
  BY <1>1 DEF CalmInv, Calm, Alive, KilledGone, LiveKnown, Kills
<1>6. Served'
  <2>1. "none" \notin Serving BY DEF Serving, Line
  <2> QED BY <1>1, <1>2, <2>1 DEF CalmInv, Served
<1>7. StopsOfPool'
  <2> SUFFICES ASSUME NEW s \in stops, s.w \in ToSet(pool)
               PROVE  \E d \in Call : GivesUp(d, s.w)'
    BY <1>1 DEF StopsOfPool
  <2>1. PICK d \in Call : GivesUp(d, s.w) BY DEF CalmInv, StopsOfPool
  <2>2. d # c BY <2>1 DEF GivesUp
  <2> QED BY <1>1, <1>2, <2>1, <2>2 DEF GivesUp
<1>8. Warmed' /\ NoFailure' /\ Vacant'
  <2>1. Warmed' BY <1>1, <1>2 DEF CalmInv, Warmed
  <2>2. NoFailure' BY <1>1, <1>2 DEF CalmInv, NoFailure
  <2>3. Vacant' BY <1>1, <1>2 DEF CalmInv, Vacant, KeyOf
  <2> QED BY <2>1, <2>2, <2>3
<1>9. WillPrune'
  <2> SUFFICES ASSUME Len(pool) > MaxWorkers PROVE \E d \in Call : Tends(d)'
    BY <1>1 DEF WillPrune
  <2>1. ~Crowded(c) BY DEF Pruned
  <2>2. PICK d \in Call : d # c /\ Holder(d) BY <2>1, OthersTend
  <2> QED BY <1>2, <2>2 DEF Tends, Holder
<1> QED BY <1>4, <1>5, <1>6, <1>7, <1>8, <1>9 DEF CalmInv

-----------------------------------------------------------------------------
LEMMA CalmInit == Apart /\ Init => CalmInv
<1> SUFFICES ASSUME Apart, Init PROVE CalmInv
  OBVIOUS
<1>1. HeldInv BY HeldInit
<1>2. /\ mode \in Modes /\ req = [c \in Call |-> None] /\ pc = [c \in Call |-> "idle"]
      /\ exec = [c \in Call |-> "none"] /\ pool = << >> /\ live = {} /\ stops = {}
  BY Zenon DEF Init
<1>3. \A c \in Call : req[c] = None /\ pc[c] = "idle" /\ exec[c] = "none" BY <1>2
<1>4. ToSet(pool) = {} /\ Len(pool) = 0 BY <1>2, EmptyQueue
<1>5. Calm BY <1>2 DEF Apart, Calm
<1>6. OnePerKey /\ OneSpec BY <1>3 DEF OnePerKey, OneSpec, InFlight
<1>7. Alive
  <2>1. \A w \in Call : worker[w].proc = 0 BY DEF Init
  <2> QED BY <2>1 DEF Alive
<1>8. Warmed /\ NoFailure /\ Vacant BY <1>3, <1>4 DEF Warmed, NoFailure, Vacant
<1>9. Served BY <1>3 DEF Served, Serving, Line
<1>10. StopsOfPool /\ KilledGone /\ LiveKnown BY <1>2 DEF StopsOfPool, KilledGone, LiveKnown
<1>11. WillPrune BY <1>4, Constants DEF WillPrune
<1> QED BY <1>1, <1>5, <1>6, <1>7, <1>8, <1>9, <1>10, <1>11 DEF CalmInv

LEMMA CalmStep == CalmInv /\ [Next]_vars => CalmInv'
<1> SUFFICES ASSUME CalmInv, [Next]_vars PROVE CalmInv'
  OBVIOUS
<1>0. HeldInv' BY HeldStep DEF CalmInv
<1>1. CASE UNCHANGED vars
  <2>1. PoolUnchanged /\ WorkerUnchanged /\ stops' = stops /\ live' = live /\ pool' = pool
        /\ worker' = worker
    BY <1>1 DEF vars, PoolUnchanged, CallsUnchanged, WorkerUnchanged
  <2>2. KilledGone' /\ LiveKnown' BY <2>1 DEF CalmInv, KilledGone, LiveKnown, Kills
  <2>3. \A s \in stops' : \E t \in stops : s.w = t.w BY <2>1
  <2> QED BY <1>0, <2>1, <2>2, <2>3, CalmStops
<1>2. ASSUME NEW c \in Call, BeginStep(c) PROVE CalmInv'
  <2>1. PICK k \in Key, f \in Fence :
          \/ \E kind \in {"run", "resume"} : RunReuses(c, k, f, kind)
          \/ RunCreates(c, k, f)
          \/ ResumeRefused(c, k, f)
          \/ \E kind \in {"run", "resume", "prewarm"} : Replaces(c, k, f, kind)
          \/ PrewarmCreates(c, k, f)
          \/ PrewarmReuses(c, k, f)
          \/ Discards(c, k, f)
          \/ StopsAll(c, k, f)
    BY Zenon, <1>2 DEF BeginStep
  <2>2. CASE \/ \E kind \in {"run", "resume"} : RunReuses(c, k, f, kind)
             \/ RunCreates(c, k, f)
             \/ PrewarmCreates(c, k, f)
    BY <1>0, <2>2, CalmRuns
  <2>3. CASE \/ ResumeRefused(c, k, f)
             \/ \E kind \in Using : Replaces(c, k, f, kind)
             \/ PrewarmReuses(c, k, f)
             \/ Discards(c, k, f)
             \/ StopsAll(c, k, f)
    BY <1>0, <2>3, CalmBeginStep
  <2> QED BY Zenon, <2>1, <2>2, <2>3 DEF Using
<1>3. ASSUME NEW c \in Call, PoolStep(c) PROVE CalmInv'
  <2>1. CASE Further(c) BY <1>0, <2>1, CalmFurther
  <2>2. CASE Pruned(c) /\ pc[c] = "finish" BY <1>0, <2>2, CalmEnding
  <2> QED BY <1>0, <1>3, <2>1, <2>2, CalmReplaced, CalmEvicts, CalmGivesUp DEF PoolStep, Further
<1>4. ASSUME NEW c \in Call, ExecStep(c) PROVE CalmInv'
  BY <1>0, <1>4, CalmExec
<1>5. ASSUME NEW s \in stops, StopStep(s) PROVE CalmInv'
  BY <1>0, <1>5, CalmStopStep
<1>6. CASE (\E p \in live : ProcessExits(p)) \/ (\E w \in Call : PipeBreaks(w))
  BY <1>0, <1>6, CalmLoses
<1> QED BY Zenon, <1>1, <1>2, <1>3, <1>4, <1>5, <1>6 DEF Next

\* When no call is under way, a process that exists is the one of a worker in the map,
\* and the map is within its limit: every replacement, failed start and eviction has
\* stopped what it took out ("so no abandoned process survives").  The calls of one key
\* overlap only while nothing fails and the key has one specification.
THEOREM NoProcessIsLeft == ASSUME Apart PROVE Spec => []NothingLeft
<1>1. CalmInv => NothingLeft
  <2> SUFFICES ASSUME CalmInv, Quiet
               PROVE  live \subseteq {Process(w) : w \in ToSet(pool)} /\ Len(pool) <= MaxWorkers
    BY DEF NothingLeft
  <2>0. BaseInv BY DEF CalmInv, HeldInv
  <2>1. ASSUME NEW p \in live PROVE p \in {Process(w) : w \in ToSet(pool)}
    <3>1. p[1] \in ToSet(pool) /\ p[2] = worker[p[1]].proc BY DEF CalmInv, LiveKnown, Quiet
    <3>2. p = <<p[1], p[2]>> BY <2>0 DEF BaseInv, WorkersTyped
    <3>3. p = Process(p[1]) BY <3>1, <3>2 DEF Process
    <3> QED BY <3>1, <3>3
  <2>2. Len(pool) <= MaxWorkers
    <3>1. \A d \in Call : ~Tends(d) BY DEF Quiet, InFlight, Tends, Holder
    <3>2. ~(Len(pool) > MaxWorkers) BY <3>1 DEF CalmInv, WillPrune
    <3>3. Len(pool) \in Nat
      <4>1. pool \in Seq(Call) BY <2>0, PoolTyped
      <4> QED BY <4>1, SeqFacts
    <3> QED BY <3>2, <3>3, Constants
  <2> QED BY <2>1, <2>2
<1>2. Apart /\ Init => CalmInv BY CalmInit
<1>3. CalmInv /\ [Next]_vars => CalmInv' BY CalmStep
<1>4. Init => CalmInv BY <1>2
<1> QED BY <1>1, <1>3, <1>4, PTL DEF Spec

=============================================================================
