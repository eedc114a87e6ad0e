----------------------------- MODULE Iteration -----------------------------
(***************************************************************************)
(* What the proofs about loops over data need: a loop is a recursive       *)
(* function of the number of its steps.  Each fact is proved from the      *)
(* smallest counterexample to it.                                          *)
(***************************************************************************)
EXTENDS Integers, FiniteSetTheorems, SequenceTheorems, WellFoundedInduction, TLAPS

\* Functions with finitely many arguments have a greatest value.
LEMMA GreatestOver ==
    ASSUME NEW S, IsFiniteSet(S), S # {}, NEW f \in [S -> Int]
    PROVE  \E x \in S : \A y \in S : f[x] >= f[y]
<1> DEFINE Tops(T) == {x \in T : \A y \in T : f[x] >= f[y]}
           topless == {T \in SUBSET S : T # {} /\ Tops(T) = {}}
<1> SUFFICES ASSUME topless # {} PROVE FALSE
  OBVIOUS
<1>1. topless \subseteq FiniteSubsetsOf(S)
  BY FS_Subset DEF FiniteSubsetsOf
<1>2. PICK T \in topless : \A U \in topless : ~(<<U, T>> \in StrictSubsetOrdering(S))
  BY <1>1, FS_StrictSubsetOrderingWellFounded, WFMin
<1>3. PICK x \in T : TRUE
  BY <1>2
<1>4. PICK y \in T : f[y] > f[x]
  <2>1. x \notin Tops(T)
    BY <1>2
  <2> QED BY <1>2, <1>3, <2>1
<1> DEFINE U == T \ {x}
<1>5. U \subseteq S /\ U # {} /\ U # T /\ y \in U
  BY <1>2, <1>3, <1>4
<1>6. <<U, T>> \in StrictSubsetOrdering(S)
  BY <1>2, <1>5 DEF StrictSubsetOrdering
<1>7. U \notin topless
  BY <1>2, <1>6
<1>8. PICK z \in U : \A u \in U : f[z] >= f[u]
  BY <1>5, <1>7
<1>9. \A u \in T : f[z] >= f[u]
  <2>1. f[z] \in Int /\ f[x] \in Int /\ f[y] \in Int /\ f[z] >= f[y]
    BY <1>2, <1>3, <1>5, <1>8
  <2>2. f[z] >= f[x]
    BY <1>4, <2>1
  <2> QED BY <1>8, <2>2
<1> QED BY <1>2, <1>8, <1>9

\* Every set of numbers that is not empty has a least one.
LEMMA LeastNumber ==
    ASSUME NEW S \in SUBSET Nat, S # {}
    PROVE  \E n \in S : \A m \in S : n <= m
<1>1. PICK n \in S : \A m \in S : ~(<<m, n>> \in OpToRel(<, Nat))
  BY NatLessThanWellFounded, WFMin
<1>2. \A m \in S : ~(m < n)
  BY <1>1 DEF OpToRel
<1> QED BY <1>2

\* What starts in S and never leaves it is in S after any number of steps.
LEMMA StaysIn ==
    ASSUME NEW N \in Nat, NEW S, NEW f, f[0] \in S,
           \A n \in 1..N : f[n - 1] \in S => f[n] \in S
    PROVE  \A n \in 0..N : f[n] \in S
<1> DEFINE outside == {n \in 0..N : f[n] \notin S}
<1> SUFFICES ASSUME outside # {} PROVE FALSE
  OBVIOUS
<1>1. PICK n \in outside : \A m \in outside : n <= m
  <2>1. outside \in SUBSET Nat
    OBVIOUS
  <2> HIDE DEF outside
  <2> QED BY <2>1, LeastNumber
<1>2. n \in 0..N /\ f[n] \notin S
  BY <1>1
<1>3. n # 0
  BY <1>2
<1>4. n \in 1..N /\ n - 1 \in 0..N /\ ~(n <= n - 1)
  BY <1>2, <1>3
<1>5. f[n - 1] \in S
  BY <1>1, <1>4
<1> QED BY <1>2, <1>4, <1>5

\* f is a loop of n steps, the m-th of which is step[m].
Loop(f, n, base, step) ==
    f = [m \in 0..n |-> IF m = 0 THEN base ELSE step[m][f[m - 1]]]

\* Whatever the step, as long as it stays in S, there is a loop.
LEMMA Iterates ==
    ASSUME NEW N \in Nat, NEW S, NEW base \in S, NEW step \in [1..N -> [S -> S]]
    PROVE  \E f \in [0..N -> S] : Loop(f, N, base, step)
<1> DEFINE Run(f, n) == f \in [0..n -> S] /\ Loop(f, n, base, step)
           stuck == {n \in 0..N : ~ \E f : Run(f, n)}
<1>1. SUFFICES ASSUME stuck # {} PROVE FALSE
  <2>1. N \in 0..N /\ N \notin stuck
    BY <1>1
  <2> QED BY <2>1
<1>2. PICK n \in stuck : \A m \in stuck : n <= m
  <2>1. stuck \in SUBSET Nat
    OBVIOUS
  <2> HIDE DEF stuck
  <2> QED BY <1>1, <2>1, LeastNumber
<1>3. n \in 0..N /\ ~ \E f : Run(f, n)
  BY <1>2
<1>4. n # 0
  <2> SUFFICES ASSUME n = 0 PROVE FALSE
    OBVIOUS
  <2> DEFINE f == [m \in 0..0 |-> base]
  <2>1. Run(f, 0)
    BY DEF Loop
  <2> QED BY <1>3, <2>1
<1>5. n \in 1..N /\ n - 1 \in 0..N /\ ~(n <= n - 1)
  <2> HIDE DEF stuck, Run
  <2> QED BY <1>3, <1>4
<1>6. PICK g : Run(g, n - 1)
  <2>1. n - 1 \notin stuck
    <3> HIDE DEF stuck
    <3> QED BY <1>2, <1>5
  <2> HIDE DEF Run
  <2> QED BY <1>5, <2>1
<1> DEFINE f == [m \in 0..n |-> IF m = 0 THEN base ELSE step[m][g[m - 1]]]
<1>7. \A m \in 0..(n - 1) : g[m] = IF m = 0 THEN base ELSE step[m][g[m - 1]]
  BY <1>6 DEF Loop
<1>8. \A m \in 0..n : m # 0 => m - 1 \in 0..(n - 1) /\ m - 1 \in 0..n
  <2> HIDE DEF stuck, Run
  <2> QED BY <1>5
<1>9. \A m \in 0..(n - 1) : f[m] = g[m]
  <2>1. \A m \in 0..(n - 1) : m \in 0..n
    BY <1>5
  <2> QED BY <1>7, <2>1
<1>10. f \in [0..n -> S]
  <2>1. \A m \in 0..n : m # 0 => g[m - 1] \in S /\ m \in 1..N
    BY <1>5, <1>6, <1>8
  <2>2. \A m \in 0..n : m # 0 => step[m][g[m - 1]] \in S
    BY <2>1
  <2> QED BY <2>2
<1>11. Loop(f, n, base, step)
  <2>1. \A m \in 0..n : m # 0 => f[m - 1] = g[m - 1]
    BY <1>8, <1>9
  <2> QED BY <2>1 DEF Loop
<1> QED BY <1>3, <1>10, <1>11

\* Counting.
LEMMA CountsUp ==
    ASSUME NEW N \in Nat, NEW S, 0 \in S, \A n \in 1..N : n - 1 \in S => n \in S
    PROVE  \A n \in 0..N : n \in S
<1> DEFINE f == [n \in 0..N |-> n]
<1>1. f[0] \in S
  OBVIOUS
<1>2. \A n \in 1..N : f[n - 1] = n - 1 /\ f[n] = n
  OBVIOUS
<1>3. \A n \in 1..N : f[n - 1] \in S => f[n] \in S
  BY <1>2
<1>4. \A n \in 0..N : f[n] = n
  OBVIOUS
<1> HIDE DEF f
<1>5. \A n \in 0..N : f[n] \in S
  BY <1>1, <1>3, StaysIn
<1> QED BY <1>4, <1>5

\* Every sequence is reached from the empty one by appending.
LEMMA Appending ==
    ASSUME NEW T, NEW Q, <<>> \in Q,
           \A s \in Seq(T), x \in T : s \in Q => Append(s, x) \in Q
    PROVE  \A s \in Seq(T) : s \in Q
<1> SUFFICES ASSUME NEW s \in Seq(T) PROVE s \in Q
  OBVIOUS
<1> DEFINE S == {n \in 0..Len(s) : SubSeq(s, 1, n) \in Q}
<1>1. Len(s) \in Nat
  OBVIOUS
<1>2. 0 \in S
  <2>1. SubSeq(s, 1, 0) = <<>>
    OBVIOUS
  <2>2. SubSeq(s, 1, 0) \in Q
    BY <2>1, Zenon
  <2>3. 0 \in 0..Len(s)
    BY <1>1
  <2> QED BY <2>2, <2>3, Zenon
<1>3. ASSUME NEW n \in 1..Len(s), n - 1 \in S PROVE n \in S
  <2>1. n - 1 \in 0..Len(s) /\ n \in 0..Len(s) /\ s[n] \in T /\ SubSeq(s, 1, n - 1) \in Q
    BY <1>3
  <2>2. /\ SubSeq(s, 1, n - 1) \in Seq(T) /\ Len(SubSeq(s, 1, n - 1)) = n - 1
        /\ \A i \in 1..(n - 1) : SubSeq(s, 1, n - 1)[i] = s[i]
    BY <2>1, SubSeqProperties
  <2>3. /\ SubSeq(s, 1, n) \in Seq(T) /\ Len(SubSeq(s, 1, n)) = n
        /\ \A i \in 1..n : SubSeq(s, 1, n)[i] = s[i]
    BY <2>1, SubSeqProperties
  <2> DEFINE shorter == SubSeq(s, 1, n - 1)
             longer == SubSeq(s, 1, n)
  <2> HIDE DEF shorter, longer
  <2>4. /\ shorter \in Seq(T) /\ Len(shorter) = n - 1 /\ shorter \in Q
        /\ \A i \in 1..(n - 1) : shorter[i] = s[i]
    BY <2>1, <2>2 DEF shorter
  <2>5. longer \in Seq(T) /\ Len(longer) = n /\ \A i \in 1..n : longer[i] = s[i]
    BY <2>3 DEF longer
  <2>6. /\ Append(shorter, s[n]) \in Seq(T) /\ Len(Append(shorter, s[n])) = n
        /\ \A i \in 1..(n - 1) : Append(shorter, s[n])[i] = shorter[i]
        /\ Append(shorter, s[n])[n] = s[n]
    BY <2>1, <2>4, AppendProperties
  <2>7. \A i \in 1..n : Append(shorter, s[n])[i] = longer[i]
    <3>1. \A i \in 1..n : i \in 1..(n - 1) \/ i = n
      BY <2>1
    <3> QED BY <2>4, <2>5, <2>6, <3>1
  <2>8. Append(shorter, s[n]) = longer
    BY <2>5, <2>6, <2>7, SeqEqual
  <2>9. longer \in Q
    BY <2>1, <2>4, <2>8
  <2> QED BY <2>1, <2>9 DEF longer
<1>4. \A n \in 0..Len(s) : n \in S
  <2> HIDE DEF S
  <2> QED BY <1>1, <1>2, <1>3, CountsUp
<1>5. SubSeq(s, 1, Len(s)) \in Q
  BY <1>1, <1>4
<1>6. SubSeq(s, 1, Len(s)) = s
  BY SubSeqFull
<1> QED BY <1>5, <1>6
=============================================================================
