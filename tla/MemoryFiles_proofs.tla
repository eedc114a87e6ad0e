------------------------- MODULE MemoryFiles_proofs -------------------------
(***************************************************************************)
(* The files of the reflexion memory for any number of failures, items,    *)
(* processes and torn lines: what a tear costs, what a restart gives and   *)
(* how long a file may be.                                                 *)
(***************************************************************************)
EXTENDS FailureLog, RecentStore, Iteration

\* Loops with the same base and the same steps agree.
LEMMA LoopsAgree ==
    ASSUME NEW N \in Nat, NEW f, NEW g, f[0] = g[0],
           \A n \in 1..N : f[n - 1] = g[n - 1] => f[n] = g[n]
    PROVE  f[N] = g[N]
<1> DEFINE S == {n \in 0..N : f[n] = g[n]}
<1>1. 0 \in S
  OBVIOUS
<1>2. \A n \in 1..N : n - 1 \in S => n \in S
  OBVIOUS
<1>3. \A n \in 0..N : n \in S
  <2> HIDE DEF S
  <2> QED BY <1>1, <1>2, CountsUp
<1> QED BY <1>3
-----------------------------------------------------------------------------
\* Leaving out what is in a set.

\* kept is what the loop has kept of s after each step.
Keeping(kept, s, S) ==
    /\ kept[0] = <<>>
    /\ \A n \in 1..Len(s) :
         kept[n] = IF s[n] \in S THEN kept[n - 1] ELSE Append(kept[n - 1], s[n])
    /\ Without(s, S) = kept[Len(s)]

LEMMA WithoutLoop ==
    ASSUME NEW T, NEW s \in Seq(T), NEW S
    PROVE  \E kept \in [0..Len(s) -> Seq(T)] : Keeping(kept, s, S)
<1> DEFINE One(n, c) == IF s[n] \in S THEN c ELSE Append(c, s[n])
           step == [n \in 1..Len(s) |-> [c \in Seq(T) |-> One(n, c)]]
           kept[n \in 0..Len(s)] ==
             IF n = 0 THEN <<>>
             ELSE IF s[n] \in S THEN kept[n - 1] ELSE Append(kept[n - 1], s[n])
<1>1. Len(s) \in Nat /\ <<>> \in Seq(T)
  OBVIOUS
<1>2. \A n \in 1..Len(s), c \in Seq(T) : One(n, c) \in Seq(T)
  <2> SUFFICES ASSUME NEW n \in 1..Len(s), NEW c \in Seq(T) PROVE One(n, c) \in Seq(T)
    OBVIOUS
  <2>1. s[n] \in T
    OBVIOUS
  <2> QED BY <2>1, AppendProperties
<1> HIDE DEF One
<1>3. step \in [1..Len(s) -> [Seq(T) -> Seq(T)]]
  BY <1>2
<1>4. \A n \in 1..Len(s), c \in Seq(T) : step[n][c] = One(n, c)
  OBVIOUS
<1> HIDE DEF step
<1>5. PICK f \in [0..Len(s) -> Seq(T)] : Loop(f, Len(s), <<>>, step)
  <2> HIDE DEF kept
  <2> QED BY <1>1, <1>3, Iterates, Zenon
<1>6. f = [n \in 0..Len(s) |-> IF n = 0 THEN <<>> ELSE One(n, f[n - 1])]
  <2>1. \A n \in 0..Len(s) : n # 0 => n \in 1..Len(s) /\ f[n - 1] \in Seq(T)
    BY <1>1
  <2> QED BY <1>4, <1>5, <2>1 DEF Loop
<1>7. kept = [n \in 0..Len(s) |-> IF n = 0 THEN <<>> ELSE One(n, kept[n - 1])]
  BY <1>6 DEF One
<1> HIDE DEF kept
<1>8. kept[0] = <<>> /\ \A n \in 1..Len(s) : kept[n] = One(n, kept[n - 1])
  <2>1. 0 \in 0..Len(s) /\ \A n \in 1..Len(s) : n \in 0..Len(s) /\ n # 0
    BY <1>1
  <2> QED BY <1>7, <2>1
<1>9. \A n \in 0..Len(s) : kept[n] \in Seq(T)
  <2>1. kept[0] \in Seq(T)
    BY <1>1, <1>8
  <2>2. \A n \in 1..Len(s) : kept[n - 1] \in Seq(T) => kept[n] \in Seq(T)
    BY <1>2, <1>8
  <2> QED BY <1>1, <2>1, <2>2, StaysIn, Zenon
<1>10. kept \in [0..Len(s) -> Seq(T)]
  BY <1>7, <1>9
<1>11. Without(s, S) = kept[Len(s)]
  BY DEF Without, kept
<1> QED BY <1>8, <1>10, <1>11 DEF One, Keeping

LEMMA WithoutType ==
    ASSUME NEW T, NEW s \in Seq(T), NEW S
    PROVE  Without(s, S) \in Seq(T)
<1>1. PICK kept \in [0..Len(s) -> Seq(T)] : Keeping(kept, s, S)
  BY WithoutLoop
<1> QED BY <1>1 DEF Keeping

LEMMA WithoutEmpty ==
    ASSUME NEW S
    PROVE  Without(<<>>, S) = <<>>
<1>1. <<>> \in Seq({}) /\ Len(<<>>) = 0
  OBVIOUS
<1>2. PICK kept : Keeping(kept, <<>>, S)
  BY <1>1, WithoutLoop
<1> QED BY <1>1, <1>2 DEF Keeping

\* What is appended is left out or appended.
LEMMA WithoutAppend ==
    ASSUME NEW T, NEW s \in Seq(T), NEW x \in T, NEW S
    PROVE  Without(Append(s, x), S) =
             IF x \in S THEN Without(s, S) ELSE Append(Without(s, S), x)
<1> DEFINE t == Append(s, x)
           N == Len(s)
<1>1. /\ t \in Seq(T) /\ Len(t) = N + 1 /\ t[N + 1] = x /\ N \in Nat
      /\ \A n \in 1..N : t[n] = s[n]
  BY AppendProperties
<1> HIDE DEF t
<1>2. PICK f : Keeping(f, s, S)
  BY WithoutLoop
<1>3. PICK g : Keeping(g, t, S)
  BY <1>1, WithoutLoop
<1>4. /\ f[0] = <<>> /\ Without(s, S) = f[N]
      /\ \A n \in 1..N : f[n] = IF s[n] \in S THEN f[n - 1] ELSE Append(f[n - 1], s[n])
  BY <1>2 DEF Keeping
<1>5. /\ g[0] = <<>> /\ Without(t, S) = g[N + 1]
      /\ \A n \in 1..(N + 1) : g[n] = IF t[n] \in S THEN g[n - 1] ELSE Append(g[n - 1], t[n])
  BY <1>1, <1>3 DEF Keeping
<1> HIDE DEF N
<1>6. \A n \in 1..N : f[n - 1] = g[n - 1] => f[n] = g[n]
  <2> SUFFICES ASSUME NEW n \in 1..N, f[n - 1] = g[n - 1] PROVE f[n] = g[n]
    OBVIOUS
  <2>1. n \in 1..(N + 1) /\ t[n] = s[n]
    BY <1>1
  <2> QED BY <1>4, <1>5, <2>1
<1>7. f[N] = g[N]
  <2>1. N \in Nat /\ f[0] = g[0]
    BY <1>1, <1>4, <1>5
  <2> QED BY <1>6, <2>1, LoopsAgree, Zenon
<1>8. g[N + 1] = IF x \in S THEN g[N] ELSE Append(g[N], x)
  <2>1. N + 1 \in 1..(N + 1) /\ (N + 1) - 1 = N
    BY <1>1
  <2> QED BY <1>1, <1>5, <2>1
<1> QED BY <1>4, <1>5, <1>7, <1>8 DEF t

LEMMA SeqWider ==
    ASSUME NEW A, NEW B, A \subseteq B, NEW s \in Seq(A)
    PROVE  s \in Seq(B)
  OBVIOUS

LEMMA FunctionIsSeq ==
    ASSUME NEW A, NEW n \in Nat, NEW f \in [1..n -> A]
    PROVE  f \in Seq(A) /\ Len(f) = n
  OBVIOUS

LEMMA ToSetAppend ==
    ASSUME NEW T, NEW s \in Seq(T), NEW x \in T
    PROVE  ToSet(Append(s, x)) = ToSet(s) \cup {x}
<1> DEFINE t == Append(s, x)
<1>1. /\ DOMAIN s = 1..Len(s) /\ DOMAIN t = 1..(Len(s) + 1) /\ Len(s) \in Nat
      /\ t[Len(s) + 1] = x /\ \A i \in 1..Len(s) : t[i] = s[i]
  BY AppendProperties
<1> HIDE DEF t
<1>2. \A i \in 1..(Len(s) + 1) : i \in 1..Len(s) \/ i = Len(s) + 1
  BY <1>1
<1>3. 1..Len(s) \subseteq 1..(Len(s) + 1) /\ Len(s) + 1 \in 1..(Len(s) + 1)
  BY <1>1
<1>4. ToSet(t) = ToSet(s) \cup {x}
  <2> DEFINE N == Len(s) + 1
  <2>1. \A i \in DOMAIN t : t[i] \in ToSet(s) \cup {x}
    BY <1>1, <1>2 DEF ToSet
  <2>2. \A i \in DOMAIN s : s[i] \in ToSet(t)
    BY <1>1, <1>3 DEF ToSet
  <2>3. x \in ToSet(t)
    BY <1>1, <1>3 DEF ToSet
  <2>4. ToSet(t) = {t[i] : i \in DOMAIN t} /\ ToSet(s) = {s[i] : i \in DOMAIN s}
    BY DEF ToSet
  <2> QED BY <2>1, <2>2, <2>3, <2>4
<1> QED BY <1>4 DEF t

\* Exactly what is in the set is left out.
LEMMA WithoutSet ==
    ASSUME NEW T, NEW S
    PROVE  \A s \in Seq(T) : ToSet(Without(s, S)) = ToSet(s) \ S
<1> DEFINE Q == {s \in Seq(T) : ToSet(Without(s, S)) = ToSet(s) \ S}
<1>1. <<>> \in Q
  <2>1. ToSet(<<>>) = {}
    BY DEF ToSet
  <2> QED BY <2>1, WithoutEmpty
<1>2. ASSUME NEW s \in Seq(T), NEW x \in T, s \in Q PROVE Append(s, x) \in Q
  <2>1. Append(s, x) \in Seq(T) /\ Without(s, S) \in Seq(T)
    BY AppendProperties, WithoutType
  <2>2. ToSet(Append(s, x)) = ToSet(s) \cup {x}
    BY ToSetAppend
  <2>3. ToSet(Append(Without(s, S), x)) = ToSet(Without(s, S)) \cup {x}
    BY <2>1, ToSetAppend
  <2>4. ToSet(Without(s, S)) = ToSet(s) \ S
    BY <1>2
  <2>5. ToSet(Without(Append(s, x), S)) = ToSet(Append(s, x)) \ S
    <3>1. CASE x \in S
      BY <2>2, <2>4, <3>1, WithoutAppend
    <3>2. CASE x \notin S
      <4>1. Without(Append(s, x), S) = Append(Without(s, S), x)
        BY <3>2, WithoutAppend
      <4> QED BY <2>2, <2>3, <2>4, <3>2, <4>1
    <3> QED BY <3>1, <3>2
  <2> QED BY <2>1, <2>5
<1>3. \A s \in Seq(T) : s \in Q
  <2> HIDE DEF Q
  <2> QED BY <1>1, <1>2, Appending
<1> QED BY <1>3

\* A sequence with nothing in the set stays what it is.
LEMMA WithoutNone ==
    ASSUME NEW T, NEW S
    PROVE  \A s \in Seq(T) : ToSet(s) \cap S = {} => Without(s, S) = s
<1> DEFINE Q == {s \in Seq(T) : ToSet(s) \cap S = {} => Without(s, S) = s}
<1>1. <<>> \in Q
  BY WithoutEmpty
<1>2. ASSUME NEW s \in Seq(T), NEW x \in T, s \in Q PROVE Append(s, x) \in Q
  <2>1. Append(s, x) \in Seq(T)
    BY AppendProperties
  <2>2. ToSet(Append(s, x)) = ToSet(s) \cup {x}
    BY ToSetAppend
  <2>3. ASSUME ToSet(Append(s, x)) \cap S = {} PROVE Without(Append(s, x), S) = Append(s, x)
    <3>1. ToSet(s) \cap S = {} /\ x \notin S
      BY <2>2, <2>3
    <3> QED BY <1>2, <3>1, WithoutAppend
  <2> QED BY <2>1, <2>3
<1>3. \A s \in Seq(T) : s \in Q
  <2> HIDE DEF Q
  <2> QED BY <1>1, <1>2, Appending
<1> QED BY <1>3
-----------------------------------------------------------------------------
\* The last elements of a sequence.

LEMMA LastOfType ==
    ASSUME NEW T, NEW s \in Seq(T), NEW n \in Nat
    PROVE  /\ LastOf(s, n) \in Seq(T)
           /\ Len(LastOf(s, n)) = IF Len(s) > n THEN n ELSE Len(s)
           /\ \A i \in 1..Len(LastOf(s, n)) :
                /\ (Len(s) - Len(LastOf(s, n))) + i \in 1..Len(s)
                /\ LastOf(s, n)[i] = s[(Len(s) - Len(LastOf(s, n))) + i]
<1> DEFINE first == IF Len(s) > n THEN Len(s) - n + 1 ELSE 1
           l == SubSeq(s, first, Len(s))
<1>1. first \in 1..(Len(s) + 1) /\ Len(s) \in Nat
  OBVIOUS
<1>2. Len(s) - first + 1 = IF Len(s) > n THEN n ELSE Len(s)
  OBVIOUS
<1>3. LastOf(s, n) = l
  BY DEF LastOf
<1> HIDE DEF first
<1>4. /\ l \in Seq(T) /\ Len(l) = Len(s) - first + 1
      /\ \A i \in 1..(Len(s) - first + 1) : l[i] = s[first + i - 1]
  BY <1>1, SubSeqProperties
<1> HIDE DEF l
<1>5. \A i \in 1..Len(l) : (Len(s) - Len(l)) + i \in 1..Len(s) /\ (Len(s) - Len(l)) + i = first + i - 1
  BY <1>1, <1>4
<1> QED BY <1>2, <1>3, <1>4, <1>5

LEMMA LastOfShort ==
    ASSUME NEW T, NEW s \in Seq(T), NEW n \in Nat, Len(s) <= n
    PROVE  LastOf(s, n) = s
<1>1. ~(Len(s) > n)
  OBVIOUS
<1> QED BY <1>1, SubSeqFull DEF LastOf

\* Only the end of a sequence counts for its last elements.
LEMMA LastOfEnd ==
    ASSUME NEW T, NEW a \in Seq(T), NEW b \in Seq(T), NEW n \in Nat,
           Len(a) <= Len(b), Len(a) >= n \/ Len(a) = Len(b),
           \A i \in 1..Len(a) : a[i] = b[(Len(b) - Len(a)) + i]
    PROVE  LastOf(a, n) = LastOf(b, n)
<1> DEFINE la == LastOf(a, n)
           lb == LastOf(b, n)
<1>1. Len(a) \in Nat /\ Len(b) \in Nat
  OBVIOUS
<1>2. /\ la \in Seq(T) /\ Len(la) = IF Len(a) > n THEN n ELSE Len(a)
      /\ \A i \in 1..Len(la) : (Len(a) - Len(la)) + i \in 1..Len(a) /\ la[i] = a[(Len(a) - Len(la)) + i]
  <2> HIDE DEF lb
  <2> QED BY LastOfType
<1>3. /\ lb \in Seq(T) /\ Len(lb) = IF Len(b) > n THEN n ELSE Len(b)
      /\ \A i \in 1..Len(lb) : lb[i] = b[(Len(b) - Len(lb)) + i]
  <2> HIDE DEF la
  <2> QED BY LastOfType
<1> HIDE DEF la, lb
<1>4. Len(la) = Len(lb) /\ Len(la) \in Nat
  BY <1>1, <1>2, <1>3
<1>5. \A i \in 1..Len(la) : la[i] = lb[i]
  <2> SUFFICES ASSUME NEW i \in 1..Len(la) PROVE la[i] = lb[i]
    OBVIOUS
  <2>1. (Len(b) - Len(a)) + ((Len(a) - Len(la)) + i) = (Len(b) - Len(lb)) + i
    BY <1>1, <1>4
  <2>2. (Len(a) - Len(la)) + i \in 1..Len(a)
    BY <1>2
  <2>3. la[i] = a[(Len(a) - Len(la)) + i] /\ lb[i] = b[(Len(b) - Len(lb)) + i]
    BY <1>2, <1>3, <1>4
  <2> QED BY <2>1, <2>2, <2>3
<1> QED BY <1>2, <1>3, <1>4, <1>5, SeqEqual DEF la, lb

\* Trimming after each addition and trimming at the end agree.
LEMMA LastOfAppend ==
    ASSUME NEW T, NEW s \in Seq(T), NEW x \in T, NEW n \in Nat \ {0}
    PROVE  LastOf(Append(LastOf(s, n), x), n) = LastOf(Append(s, x), n)
<1> DEFINE l == LastOf(s, n)
           a == Append(l, x)
           b == Append(s, x)
<1>1. /\ l \in Seq(T) /\ Len(l) = IF Len(s) > n THEN n ELSE Len(s)
      /\ \A i \in 1..Len(l) : (Len(s) - Len(l)) + i \in 1..Len(s) /\ l[i] = s[(Len(s) - Len(l)) + i]
  <2> HIDE DEF a, b
  <2> QED BY LastOfType
<1> HIDE DEF l
<1>2. /\ a \in Seq(T) /\ Len(a) = Len(l) + 1 /\ a[Len(l) + 1] = x
      /\ \A i \in 1..Len(l) : a[i] = l[i]
  BY <1>1, AppendProperties
<1>3. /\ b \in Seq(T) /\ Len(b) = Len(s) + 1 /\ b[Len(s) + 1] = x
      /\ \A i \in 1..Len(s) : b[i] = s[i]
  BY AppendProperties
<1> HIDE DEF a, b
<1>4. Len(s) \in Nat /\ Len(l) \in Nat
  BY <1>1
<1>5. \A i \in 1..Len(a) : a[i] = b[(Len(b) - Len(a)) + i]
  <2> SUFFICES ASSUME NEW i \in 1..Len(a) PROVE a[i] = b[(Len(b) - Len(a)) + i]
    OBVIOUS
  <2>1. (Len(b) - Len(a)) + i = (Len(s) - Len(l)) + i
    BY <1>2, <1>3, <1>4
  <2>2. CASE i = Len(l) + 1
    <3>1. (Len(s) - Len(l)) + i = Len(s) + 1
      BY <1>4, <2>2
    <3> QED BY <1>2, <1>3, <2>1, <2>2, <3>1
  <2>3. CASE i # Len(l) + 1
    <3>1. i \in 1..Len(l)
      BY <1>2, <1>4, <2>3
    <3>2. (Len(s) - Len(l)) + i \in 1..Len(s) /\ l[i] = s[(Len(s) - Len(l)) + i]
      BY <1>1, <3>1
    <3> QED BY <1>2, <1>3, <2>1, <3>1, <3>2
  <2> QED BY <2>2, <2>3
<1>6. Len(a) <= Len(b) /\ (Len(a) >= n \/ Len(a) = Len(b))
  BY <1>1, <1>2, <1>3, <1>4
<1>7. LastOf(a, n) = LastOf(b, n)
  BY <1>2, <1>3, <1>5, <1>6, LastOfEnd
<1> QED BY <1>7 DEF a, b, l
-----------------------------------------------------------------------------
\* Files.

FilesOf(T) == [lines: Seq(T \cup {Junk}), open: BOOLEAN]

RowsIn(file) == ToSet(file.lines) \ {Junk}

\* A line without a newline is the last line.
LastOpen(file) == file.open => Len(file.lines) > 0

EndOf(file) == file.lines[Len(file.lines)]

LEMMA FrontEnd ==
    ASSUME NEW T, NEW s \in Seq(T), Len(s) > 0
    PROVE  /\ Front(s) \in Seq(T) /\ Len(Front(s)) = Len(s) - 1
           /\ \A i \in 1..(Len(s) - 1) : Front(s)[i] = s[i]
           /\ ToSet(s) = ToSet(Front(s)) \cup {s[Len(s)]}
<1> DEFINE f == Front(s)
<1>1. /\ f \in Seq(T) /\ Len(f) = Len(s) - 1 /\ Len(s) \in Nat
      /\ \A i \in 1..(Len(s) - 1) : f[i] = s[i]
  <2>1. f = SubSeq(s, 1, Len(s) - 1)
    BY DEF Front
  <2> DEFINE n == Len(s) - 1
  <2>2. n \in Nat /\ n <= Len(s) /\ Len(s) \in Nat
    OBVIOUS
  <2> HIDE DEF n
  <2>3. /\ SubSeq(s, 1, n) \in Seq(T) /\ Len(SubSeq(s, 1, n)) = n
        /\ \A i \in 1..n : SubSeq(s, 1, n)[i] = s[i]
    BY <2>2, SubSeqProperties
  <2> HIDE DEF f
  <2> QED BY <2>1, <2>2, <2>3 DEF n
<1> HIDE DEF f
<1>2. DOMAIN s = 1..Len(s) /\ DOMAIN f = 1..(Len(s) - 1) /\ Len(s) \in 1..Len(s)
  BY <1>1
<1>3. \A i \in 1..Len(s) : i \in 1..(Len(s) - 1) \/ i = Len(s)
  BY <1>1
<1>4. 1..(Len(s) - 1) \subseteq 1..Len(s)
  BY <1>1
<1>5. ToSet(s) = ToSet(f) \cup {s[Len(s)]}
  <2> DEFINE x == s[Len(s)]
  <2>1. \A i \in DOMAIN s : s[i] \in ToSet(f) \cup {x}
    BY <1>1, <1>2, <1>3 DEF ToSet
  <2>2. (\A i \in DOMAIN f : f[i] \in ToSet(s)) /\ x \in ToSet(s)
    BY <1>1, <1>2, <1>4 DEF ToSet
  <2> HIDE DEF x
  <2>3. ToSet(s) = {s[i] : i \in DOMAIN s} /\ ToSet(f) = {f[i] : i \in DOMAIN f}
    BY DEF ToSet
  <2> QED BY <2>1, <2>2, <2>3 DEF x
<1> QED BY <1>1, <1>5 DEF f

\* A write adds its row, a part of it, or nothing; it may take the open line along.
LEMMA WrittenFile ==
    ASSUME NEW T, Junk \notin T, NEW file \in FilesOf(T), LastOpen(file),
           NEW row \in T, NEW extent \in Extents
    PROVE  LET new == Written(file, row, extent) IN
           /\ new \in FilesOf(T) /\ LastOpen(new)
           /\ RowsIn(new) \subseteq RowsIn(file) \cup {row}
           /\ RowsIn(file) \subseteq
                RowsIn(new) \cup (IF file.open THEN {EndOf(file)} ELSE {})
           /\ extent = "none" => new = file
           /\ extent = "all" => ~new.open /\ (~file.open => row \in RowsIn(new))
           /\ extent \in Tears => new.open /\ EndOf(new) \in {row, Junk}
<1> DEFINE new == Written(file, row, extent)
           line == IF extent = "part" THEN Junk ELSE row
           former == file.lines
<1>1. /\ former \in Seq(T \cup {Junk}) /\ file.open \in BOOLEAN /\ Len(former) \in Nat
      /\ line \in T \cup {Junk} /\ file = [lines |-> former, open |-> file.open]
  BY DEF FilesOf
<1>2. CASE extent = "none"
  BY <1>2 DEF Written, Tears
<1>3. CASE extent # "none" /\ file.open
  <2>1. new = [lines |-> Append(Front(former), Junk), open |-> extent # "all"]
    BY <1>3 DEF Written
  <2>2. /\ Front(former) \in Seq(T \cup {Junk})
        /\ ToSet(former) = ToSet(Front(former)) \cup {EndOf(file)}
    BY <1>1, <1>3, FrontEnd DEF LastOpen, EndOf
  <2> DEFINE f == Front(former)
             a == Append(f, Junk)
  <2> HIDE DEF f
  <2>3. a \in Seq(T \cup {Junk}) /\ Len(a) = Len(f) + 1 /\ a[Len(a)] = Junk /\ Len(f) \in Nat
    BY <2>2, AppendProperties DEF f
  <2>4. ToSet(a) = ToSet(f) \cup {Junk}
    BY <2>2, ToSetAppend DEF f
  <2> HIDE DEF a
  <2>5. new.lines = a /\ new.open = (extent # "all")
    BY <2>1 DEF a, f
  <2>6. new \in FilesOf(T) /\ LastOpen(new) /\ EndOf(new) = Junk
    BY <2>1, <2>3, <2>5 DEF FilesOf, LastOpen, EndOf, a, f
  <2>7. RowsIn(new) = ToSet(f) \ {Junk}
    BY <2>4, <2>5 DEF RowsIn
  <2>8. RowsIn(file) = (ToSet(f) \cup {EndOf(file)}) \ {Junk}
    BY <2>2 DEF RowsIn, f
  <2> QED BY <1>3, <2>5, <2>6, <2>7, <2>8 DEF Tears
<1>4. CASE extent # "none" /\ ~file.open
  <2> DEFINE a == Append(former, line)
  <2>1. new = [lines |-> a, open |-> extent # "all"]
    BY <1>4 DEF Written
  <2>2. a \in Seq(T \cup {Junk}) /\ Len(a) = Len(former) + 1 /\ a[Len(a)] = line
    BY <1>1, AppendProperties
  <2>3. ToSet(a) = ToSet(former) \cup {line}
    BY <1>1, ToSetAppend
  <2> HIDE DEF a
  <2>4. new.lines = a /\ new.open = (extent # "all")
    BY <2>1
  <2>5. new \in FilesOf(T) /\ LastOpen(new) /\ EndOf(new) = line
    BY <1>1, <2>1, <2>2, <2>4 DEF FilesOf, LastOpen, EndOf
  <2>6. RowsIn(new) = (ToSet(former) \cup {line}) \ {Junk}
    BY <2>3, <2>4 DEF RowsIn
  <2> QED BY <1>4, <2>4, <2>5, <2>6 DEF Tears, RowsIn
<1> QED BY <1>1, <1>2, <1>3, <1>4 DEF Extents

\* What is parsed: the rows, and after a row is appended that row last.
LEMMA ParsedRows ==
    ASSUME NEW T, Junk \notin T, NEW file \in FilesOf(T)
    PROVE  Parsed(file) \in Seq(T) /\ ToSet(Parsed(file)) = RowsIn(file)
<1>1. file.lines \in Seq(T \cup {Junk})
  BY DEF FilesOf
<1>2. Parsed(file) \in Seq(T \cup {Junk}) /\ ToSet(Parsed(file)) = RowsIn(file)
  BY <1>1, WithoutType, WithoutSet DEF Parsed, RowsIn
<1> DEFINE p == Parsed(file)
<1> HIDE DEF p
<1>3. \A i \in 1..Len(p) : p[i] \in T
  <2> SUFFICES ASSUME NEW i \in 1..Len(p) PROVE p[i] \in T
    OBVIOUS
  <2>1. p \in Seq(T \cup {Junk}) /\ p[i] \in ToSet(p) /\ Junk \notin ToSet(p)
    BY <1>2 DEF ToSet, RowsIn, p
  <2> QED BY <2>1
<1>4. p \in Seq(T)
  BY <1>2, <1>3 DEF p
<1> QED BY <1>2, <1>4 DEF p

LEMMA ParsedAppend ==
    ASSUME NEW T, Junk \notin T, NEW file \in FilesOf(T), ~file.open, NEW row \in T
    PROVE  Parsed(Written(file, row, "all")) = Append(Parsed(file), row)
<1>1. Written(file, row, "all") = [lines |-> Append(file.lines, row), open |-> FALSE]
  BY DEF Written
<1>2. file.lines \in Seq(T \cup {Junk}) /\ row \in T \cup {Junk} /\ row \notin {Junk}
  BY DEF FilesOf
<1>3. Without(Append(file.lines, row), {Junk}) = Append(Without(file.lines, {Junk}), row)
  BY <1>2, WithoutAppend
<1>4. Written(file, row, "all").lines = Append(file.lines, row)
  BY <1>1
<1> QED BY <1>3, <1>4 DEF Parsed

LEMMA ParsedReplaced ==
    ASSUME NEW T, Junk \notin T, NEW rows \in Seq(T)
    PROVE  /\ Replaced(rows) \in FilesOf(T) /\ ~Replaced(rows).open
           /\ RowsIn(Replaced(rows)) = ToSet(rows)
           /\ Parsed(Replaced(rows)) = rows
<1>1. Replaced(rows).lines = rows /\ Replaced(rows).open = FALSE
  BY DEF Replaced
<1>2. Junk \notin ToSet(rows)
  BY DEF ToSet
<1>3. Without(rows, {Junk}) = rows
  BY <1>2, WithoutNone
<1>4. Replaced(rows) \in FilesOf(T)
  BY DEF Replaced, FilesOf
<1> QED BY <1>1, <1>2, <1>3, <1>4 DEF RowsIn, Parsed
-----------------------------------------------------------------------------
\* The failure log: types.

AllRows == RowsOf(Embedders)

IdsIn(file) == {row.id : row \in RowsIn(file)}

LogTyped ==
    /\ session \in Embedders \cup {Down}
    /\ failures \in Nat /\ tears \in Nat /\ mirrored \in BOOLEAN
    /\ records \in Seq(Nat) /\ Len(records) <= MaxRecords
    /\ logFile \in FilesOf(AllRows) /\ LastOpen(logFile)
    /\ acked \subseteq 1..failures

LEMMA IdsOfRows ==
    ASSUME NEW E, NEW s \in Seq(RowsOf(E))
    PROVE  /\ IdsOf(s) \in Seq(Nat) /\ Len(IdsOf(s)) = Len(s)
           /\ \A i \in 1..Len(s) : IdsOf(s)[i] = s[i].id
           /\ ToSet(IdsOf(s)) = {row.id : row \in ToSet(s)}
<1>1. DOMAIN s = 1..Len(s) /\ \A i \in 1..Len(s) : s[i].id \in Nat
  <2>1. \A row \in RowsOf(E) : row.id \in Nat
    BY DEF RowsOf
  <2>2. DOMAIN s = 1..Len(s) /\ \A i \in 1..Len(s) : s[i] \in RowsOf(E)
    OBVIOUS
  <2> QED BY <2>1, <2>2
<1>2. /\ IdsOf(s) = [i \in 1..Len(s) |-> s[i].id] /\ Len(s) \in Nat
  BY <1>1 DEF IdsOf
<1>3. IdsOf(s) \in Seq(Nat) /\ Len(IdsOf(s)) = Len(s) /\ DOMAIN IdsOf(s) = 1..Len(s)
  BY <1>1, <1>2
<1>4. ToSet(IdsOf(s)) = {row.id : row \in ToSet(s)}
  BY <1>1, <1>2, <1>3 DEF ToSet
<1> QED BY <1>2, <1>3, <1>4

LEMMA IdsOfAppend ==
    ASSUME NEW E, NEW s \in Seq(RowsOf(E)), NEW row \in RowsOf(E)
    PROVE  IdsOf(Append(s, row)) = Append(IdsOf(s), row.id)
<1> DEFINE t == Append(s, row)
           a == IdsOf(t)
           b == Append(IdsOf(s), row.id)
<1>1. /\ t \in Seq(RowsOf(E)) /\ Len(t) = Len(s) + 1 /\ t[Len(s) + 1] = row
      /\ \A i \in 1..Len(s) : t[i] = s[i]
  BY AppendProperties
<1> HIDE DEF t
<1>2. a \in Seq(Nat) /\ Len(a) = Len(s) + 1 /\ \A i \in 1..(Len(s) + 1) : a[i] = t[i].id
  BY <1>1, IdsOfRows
<1>3. /\ IdsOf(s) \in Seq(Nat) /\ Len(IdsOf(s)) = Len(s) /\ row.id \in Nat
      /\ \A i \in 1..Len(s) : IdsOf(s)[i] = s[i].id
  BY IdsOfRows DEF RowsOf
<1>4. /\ b \in Seq(Nat) /\ Len(b) = Len(s) + 1 /\ b[Len(s) + 1] = row.id
      /\ \A i \in 1..Len(s) : b[i] = s[i].id
  BY <1>3, AppendProperties
<1> HIDE DEF a, b
<1>5. \A i \in 1..(Len(s) + 1) : a[i] = b[i]
  <2>1. \A i \in 1..(Len(s) + 1) : i \in 1..Len(s) \/ i = Len(s) + 1
    OBVIOUS
  <2> QED BY <1>1, <1>2, <1>4, <2>1
<1> QED BY <1>2, <1>4, <1>5, SeqEqual DEF a, b, t

\* Trimming drops what it drops.
LEMMA TrimmedType ==
    ASSUME NEW T, NEW s \in Seq(T)
    PROVE  /\ Trimmed(s) \in Seq(T) /\ Len(Trimmed(s)) <= MaxRecords
           /\ Trimmed(Trimmed(s)) = Trimmed(s)
           /\ ToSet(Trimmed(s)) \subseteq ToSet(s)
<1> DEFINE t == Trimmed(s)
<1>1. /\ t \in Seq(T) /\ Len(t) = IF Len(s) > MaxRecords THEN MaxRecords ELSE Len(s)
      /\ \A i \in 1..Len(t) : (Len(s) - Len(t)) + i \in 1..Len(s) /\ t[i] = s[(Len(s) - Len(t)) + i]
  BY LastOfType, LogAssumption DEF Trimmed
<1> HIDE DEF t
<1>2. Len(t) <= MaxRecords
  BY <1>1, LogAssumption
<1>3. Trimmed(t) = t
  BY <1>1, <1>2, LastOfShort, LogAssumption DEF Trimmed
<1>4. ToSet(t) \subseteq ToSet(s)
  BY <1>1 DEF ToSet
<1> QED BY <1>1, <1>2, <1>3, <1>4 DEF t

\* Leaving out does not lengthen.
LEMMA WithoutShorter ==
    ASSUME NEW T, NEW S
    PROVE  \A s \in Seq(T) : Len(Without(s, S)) <= Len(s)
<1> DEFINE Q == {s \in Seq(T) : Len(Without(s, S)) <= Len(s)}
<1>1. <<>> \in Q
  BY WithoutEmpty
<1>2. ASSUME NEW s \in Seq(T), NEW x \in T, s \in Q PROVE Append(s, x) \in Q
  <2>1. Append(s, x) \in Seq(T) /\ Len(Append(s, x)) = Len(s) + 1 /\ Len(s) \in Nat
    BY AppendProperties
  <2>2. /\ Without(s, S) \in Seq(T) /\ Len(Without(s, S)) <= Len(s) /\ Len(Without(s, S)) \in Nat
        /\ Len(Append(Without(s, S), x)) = Len(Without(s, S)) + 1
    <3>1. Without(s, S) \in Seq(T)
      BY WithoutType
    <3> QED BY <1>2, <3>1, AppendProperties
  <2>3. Without(Append(s, x), S) = IF x \in S THEN Without(s, S) ELSE Append(Without(s, S), x)
    BY WithoutAppend
  <2> DEFINE w == Without(Append(s, x), S)
             v == Without(s, S)
             a == Append(v, x)
  <2>4. (w = v \/ w = a) /\ Len(v) \in Nat /\ Len(v) <= Len(s) /\ Len(a) = Len(v) + 1
    BY <2>2, <2>3
  <2> HIDE DEF w, v, a
  <2>5. Len(w) <= Len(s) + 1
    BY <2>1, <2>4
  <2> QED BY <2>1, <2>5 DEF w
<1>3. \A s \in Seq(T) : s \in Q
  <2> HIDE DEF Q
  <2> QED BY <1>1, <1>2, Appending
<1> QED BY <1>3

\* What is loaded, and what is not.
LEMMA LoadedRows ==
    ASSUME LogTyped, NEW e \in Embedders
    PROVE  /\ Compatible(e) \in Seq(Nat)
           /\ LogLoaded(e) \in Seq(Nat) /\ Len(LogLoaded(e)) <= MaxRecords
           /\ IdsIn(logFile) \subseteq ToSet(Compatible(e)) \cup Foreign(e)
<1> DEFINE p == Parsed(logFile)
           mine == Without(p, RowsOf(Embedders \ {e}))
           others == Without(p, RowsOf({e}))
<1>1. p \in Seq(AllRows) /\ ToSet(p) = RowsIn(logFile)
  BY ParsedRows, LogAssumption DEF LogTyped, AllRows
<1> HIDE DEF p
<1>2. /\ mine \in Seq(AllRows) /\ ToSet(mine) = RowsIn(logFile) \ RowsOf(Embedders \ {e})
      /\ others \in Seq(AllRows) /\ ToSet(others) = RowsIn(logFile) \ RowsOf({e})
  BY <1>1, WithoutType, WithoutSet
<1> HIDE DEF mine, others
<1>3. /\ IdsOf(mine) \in Seq(Nat)
      /\ ToSet(IdsOf(mine)) = {row.id : row \in ToSet(mine)}
      /\ ToSet(IdsOf(others)) = {row.id : row \in ToSet(others)}
  BY <1>2, IdsOfRows DEF AllRows
<1>4. RowsIn(logFile) \subseteq ToSet(mine) \cup ToSet(others)
  BY <1>2 DEF RowsOf
<1>5. Compatible(e) = IdsOf(mine) /\ Foreign(e) = ToSet(IdsOf(others))
  BY DEF Compatible, Foreign, mine, others, p
<1>6. LogLoaded(e) \in Seq(Nat) /\ Len(LogLoaded(e)) <= MaxRecords
  BY <1>3, <1>5, TrimmedType DEF LogLoaded, Trimmed
<1> QED BY <1>3, <1>4, <1>5, <1>6 DEF IdsIn

\* A rewrite leaves exactly the ids it is given, under the session's embedder.
LEMMA RewrittenFile ==
    ASSUME session \in Embedders, NEW ids \in Seq(Nat)
    PROVE  /\ Rewritten(ids) \in FilesOf(AllRows) /\ LastOpen(Rewritten(ids))
           /\ ~Rewritten(ids).open
           /\ IdsIn(Rewritten(ids)) = ToSet(ids)
           /\ Parsed(Rewritten(ids)) \in Seq(RowsOf({session}))
           /\ IdsOf(Parsed(Rewritten(ids))) = ids
<1> DEFINE rows == [i \in DOMAIN ids |-> LogRow(ids[i])]
<1>1. DOMAIN ids = 1..Len(ids) /\ Len(ids) \in Nat /\ \A i \in 1..Len(ids) : ids[i] \in Nat
  OBVIOUS
<1>2. /\ rows \in Seq(RowsOf({session})) /\ Len(rows) = Len(ids)
      /\ \A i \in 1..Len(ids) : rows[i].id = ids[i]
  <2>1. \A i \in 1..Len(ids) : LogRow(ids[i]) \in RowsOf({session}) /\ LogRow(ids[i]).id = ids[i]
    BY <1>1 DEF LogRow, RowsOf
  <2>2. rows = [i \in 1..Len(ids) |-> LogRow(ids[i])]
    BY <1>1
  <2>3. \A i \in 1..Len(ids) : rows[i] \in RowsOf({session}) /\ rows[i].id = ids[i]
    BY <2>1, <2>2
  <2> HIDE DEF rows
  <2>4. rows \in [1..Len(ids) -> RowsOf({session})]
    BY <2>2, <2>3
  <2>5. rows \in Seq(RowsOf({session})) /\ Len(rows) = Len(ids)
    BY <1>1, <2>4, FunctionIsSeq
  <2> QED BY <2>3, <2>5
<1>3. Rewritten(ids) = Replaced(rows)
  BY DEF Rewritten
<1> HIDE DEF rows
<1>4. RowsOf({session}) \subseteq AllRows /\ Junk \notin AllRows
  BY LogAssumption DEF RowsOf, AllRows
<1>5. rows \in Seq(AllRows)
  BY <1>2, <1>4, SeqWider
<1>6. /\ Replaced(rows) \in FilesOf(AllRows) /\ ~Replaced(rows).open
      /\ RowsIn(Replaced(rows)) = ToSet(rows) /\ Parsed(Replaced(rows)) = rows
  BY <1>4, <1>5, ParsedReplaced
<1>7. /\ IdsOf(rows) \in Seq(Nat) /\ Len(IdsOf(rows)) = Len(ids)
      /\ \A i \in 1..Len(ids) : IdsOf(rows)[i] = ids[i]
      /\ ToSet(IdsOf(rows)) = {row.id : row \in ToSet(rows)}
  BY <1>2, IdsOfRows
<1>8. IdsOf(rows) = ids
  BY <1>1, <1>7, SeqEqual
<1> QED BY <1>2, <1>3, <1>6, <1>7, <1>8 DEF IdsIn, LastOpen

LEMMA LogRowIsRow ==
    ASSUME session \in Embedders, NEW id \in Nat
    PROVE  LogRow(id) \in AllRows /\ LogRow(id).id = id /\ LogRow(id).embedder = session
  BY DEF LogRow, AllRows, RowsOf

LEMMA LogInitTyped == LogInit => LogTyped
<1> SUFFICES ASSUME LogInit PROVE LogTyped
  OBVIOUS
<1>1. logFile \in FilesOf(AllRows) /\ LastOpen(logFile)
  BY DEF LogInit, Empty, FilesOf, LastOpen
<1> QED BY <1>1, LogAssumption DEF LogInit, LogTyped

LEMMA LogStepTyped == LogTyped /\ [LogNext]_logVars => LogTyped'
<1> SUFFICES ASSUME LogTyped, [LogNext]_logVars PROVE LogTyped'
  OBVIOUS
<1> USE LogAssumption
<1>0. Junk \notin AllRows
  BY DEF AllRows
<1>1. ASSUME NEW e \in Embedders, OpenLog(e) PROVE LogTyped'
  <2>1. records' = LogLoaded(e) /\ session' = e /\ mirrored' = ~logFile.open
        /\ UNCHANGED <<logFile, failures, acked, tears>>
    BY <1>1 DEF OpenLog
  <2>2. LogLoaded(e) \in Seq(Nat) /\ Len(LogLoaded(e)) <= MaxRecords
    BY LoadedRows
  <2> QED BY <2>1, <2>2 DEF LogTyped, FilesOf
<1>2. ASSUME NEW extent \in Extents, DieAppending(extent) PROVE LogTyped'
  <2>1. /\ session \in Embedders /\ session' = Down /\ records' = <<>>
        /\ failures' = failures + 1
        /\ tears' = tears + (IF extent \in Tears THEN 1 ELSE 0)
        /\ logFile' = Written(logFile, LogRow(failures + 1), extent)
        /\ UNCHANGED <<acked, mirrored>>
    BY <1>2 DEF DieAppending, Closed, Attempted, LogTyped
  <2>2. LogRow(failures + 1) \in AllRows
    BY <2>1, LogRowIsRow DEF LogTyped
  <2>3. logFile' \in FilesOf(AllRows) /\ LastOpen(logFile')
    BY <1>0, <2>1, <2>2, WrittenFile DEF LogTyped
  <2> QED BY <2>1, <2>3 DEF LogTyped, LastOpen
<1>3. ASSUME NEW extent \in Extents, NEW rewrites \in BOOLEAN, RecordFailure(extent, rewrites)
      PROVE  LogTyped'
  <2> DEFINE id == failures + 1
             all == Append(records, id)
  <2>1. /\ session \in Embedders /\ session' = session /\ failures' = id
        /\ tears' = tears + (IF extent \in Tears THEN 1 ELSE 0)
        /\ records' = Trimmed(all)
        /\ logFile' \in {Rewritten(Trimmed(all)), Written(logFile, LogRow(id), extent)}
        /\ acked' \in {acked, acked \cup {id}}
        /\ mirrored' \in BOOLEAN
    BY <1>3 DEF RecordFailure, Attempted, LogTyped
  <2>2. id \in Nat /\ all \in Seq(Nat)
    BY AppendProperties DEF LogTyped
  <2> HIDE DEF id, all
  <2>3. Trimmed(all) \in Seq(Nat) /\ Len(Trimmed(all)) <= MaxRecords
    BY <2>2, TrimmedType
  <2>4. LogRow(id) \in AllRows
    BY <2>1, <2>2, LogRowIsRow
  <2>5. Written(logFile, LogRow(id), extent) \in FilesOf(AllRows)
        /\ LastOpen(Written(logFile, LogRow(id), extent))
    BY <1>0, <2>4, WrittenFile DEF LogTyped
  <2>6. Rewritten(Trimmed(all)) \in FilesOf(AllRows) /\ LastOpen(Rewritten(Trimmed(all)))
    BY <2>1, <2>3, RewrittenFile
  <2>7. logFile' \in FilesOf(AllRows) /\ LastOpen(logFile')
    BY <2>1, <2>5, <2>6
  <2>8. acked' \subseteq 1..failures' /\ tears' \in Nat
    BY <2>1, <2>2 DEF LogTyped, id
  <2> QED BY <2>1, <2>2, <2>3, <2>7, <2>8 DEF LogTyped, LastOpen
<1>4. ASSUME NEW ids, NEW rewrites \in BOOLEAN, Consume(ids, rewrites) PROVE LogTyped'
  <2>1. /\ session \in Embedders /\ records' = Without(records, ids)
        /\ logFile' = (IF rewrites THEN Rewritten(records') ELSE logFile)
        /\ mirrored' = rewrites
        /\ UNCHANGED <<session, failures, acked, tears>>
    BY <1>4 DEF Consume, LogTyped
  <2>2. records' \in Seq(Nat) /\ Len(records') <= Len(records)
    BY <2>1, WithoutType, WithoutShorter DEF LogTyped
  <2>3. Len(records') <= MaxRecords
    BY <2>2 DEF LogTyped
  <2>4. Rewritten(records') \in FilesOf(AllRows) /\ LastOpen(Rewritten(records'))
    BY <2>1, <2>2, RewrittenFile
  <2>5. logFile' \in FilesOf(AllRows) /\ LastOpen(logFile')
    BY <2>1, <2>4 DEF LogTyped
  <2> QED BY <2>1, <2>2, <2>3, <2>5 DEF LogTyped, LastOpen
<1>5. ASSUME CloseLog PROVE LogTyped'
  BY <1>5 DEF CloseLog, Closed, LogTyped, LastOpen
<1>6. CASE UNCHANGED logVars
  BY <1>6 DEF logVars, LogTyped, LastOpen
<1> QED BY <1>1, <1>2, <1>3, <1>4, <1>5, <1>6 DEF LogNext
-----------------------------------------------------------------------------
\* The failure log: what a restart gives.

Mirrors ==
    session # Down /\ mirrored => ~logFile.open /\ LogLoaded(session) = records

\* What a file with these rows, all of this session, gives.
LEMMA OwnRowsLoad ==
    ASSUME NEW file, NEW e \in Embedders, Parsed(file) \in Seq(RowsOf({e})),
           Len(Parsed(file)) <= MaxRecords
    PROVE  LastOf(IdsOf(Without(Parsed(file), RowsOf(Embedders \ {e}))), MaxRecords)
             = IdsOf(Parsed(file))
<1> DEFINE p == Parsed(file)
<1>1. p \in Seq(RowsOf({e})) /\ Len(p) <= MaxRecords
  OBVIOUS
<1> HIDE DEF p
<1>2. RowsOf({e}) \cap RowsOf(Embedders \ {e}) = {}
  BY DEF RowsOf
<1>3. ToSet(p) \subseteq RowsOf({e})
  BY <1>1 DEF ToSet
<1>4. Without(p, RowsOf(Embedders \ {e})) = p
  BY <1>1, <1>2, <1>3, WithoutNone
<1>5. IdsOf(p) \in Seq(Nat) /\ Len(IdsOf(p)) = Len(p)
  BY <1>1, IdsOfRows
<1>6. LastOf(IdsOf(p), MaxRecords) = IdsOf(p)
  BY <1>1, <1>5, LastOfShort, LogAssumption
<1> QED BY <1>4, <1>6 DEF p

LEMMA RewrittenLoads ==
    ASSUME session \in Embedders, NEW ids \in Seq(Nat), Len(ids) <= MaxRecords,
           logFile' = Rewritten(ids), session' = session
    PROVE  ~logFile'.open /\ LogLoaded(session)' = ids
<1> DEFINE file == Rewritten(ids)
<1>1. /\ ~file.open /\ Parsed(file) \in Seq(RowsOf({session})) /\ IdsOf(Parsed(file)) = ids
  BY RewrittenFile
<1> HIDE DEF file
<1>2. Len(Parsed(file)) <= MaxRecords
  <2>1. Len(IdsOf(Parsed(file))) = Len(Parsed(file))
    BY <1>1, IdsOfRows
  <2> QED BY <1>1, <2>1
<1>3. LastOf(IdsOf(Without(Parsed(file), RowsOf(Embedders \ {session}))), MaxRecords) = ids
  BY <1>1, <1>2, OwnRowsLoad
<1>4. logFile' = file
  BY DEF file
<1> QED BY <1>1, <1>3, <1>4 DEF LogLoaded, Compatible

LEMMA MirrorsStep ==
    LogTyped /\ Mirrors /\ [LogNext]_logVars => Mirrors'
<1> SUFFICES ASSUME LogTyped, Mirrors, [LogNext]_logVars PROVE Mirrors'
  OBVIOUS
<1>1. ASSUME NEW e \in Embedders, OpenLog(e) PROVE Mirrors'
  <2>1. session' = e /\ records' = LogLoaded(e) /\ mirrored' = ~logFile.open /\ logFile' = logFile
    BY <1>1 DEF OpenLog
  <2>2. LogLoaded(session)' = LogLoaded(e)
    BY <2>1 DEF LogLoaded, Compatible
  <2> QED BY <2>1, <2>2 DEF Mirrors
<1>2. ASSUME NEW extent \in Extents, DieAppending(extent) PROVE Mirrors'
  BY <1>2 DEF DieAppending, Closed, Mirrors
<1>3. ASSUME NEW extent \in Extents, NEW rewrites \in BOOLEAN, RecordFailure(extent, rewrites)
      PROVE  Mirrors'
  <2> DEFINE id == failures + 1
             all == Append(records, id)
             over == Len(all) > MaxRecords
  <2>1. /\ session # Down /\ session' = session /\ records' = Trimmed(all)
        /\ logFile' = (IF over /\ rewrites THEN Rewritten(Trimmed(all))
                                           ELSE Written(logFile, LogRow(id), extent))
        /\ mirrored' = ((over /\ rewrites) \/ (mirrored /\ extent = "all"))
    BY <1>3 DEF RecordFailure
  <2>2. id \in Nat /\ all \in Seq(Nat) /\ session \in Embedders /\ records \in Seq(Nat)
    BY <2>1, AppendProperties DEF LogTyped
  <2> HIDE DEF id, over
  <2>3. CASE over /\ rewrites
    <3>1. Trimmed(all) \in Seq(Nat) /\ Len(Trimmed(all)) <= MaxRecords
      BY <2>2, TrimmedType
    <3> HIDE DEF all
    <3>2. ~logFile'.open /\ LogLoaded(session)' = Trimmed(all)
      BY <2>1, <2>2, <2>3, <3>1, RewrittenLoads
    <3> QED BY <2>1, <3>2 DEF Mirrors
  <2>4. CASE ~(over /\ rewrites) /\ mirrored /\ extent = "all"
    <3> DEFINE row == LogRow(id)
               p == Parsed(logFile)
               mine == Without(p, RowsOf(Embedders \ {session}))
    <3>1. ~logFile.open /\ LastOf(IdsOf(mine), MaxRecords) = records
      BY <2>1, <2>4 DEF Mirrors, LogLoaded, Compatible
    <3>2. logFile' = Written(logFile, row, "all")
      BY <2>1, <2>4
    <3>3. row \in AllRows /\ row.id = id /\ row \notin RowsOf(Embedders \ {session})
      BY <2>2, LogRowIsRow DEF RowsOf
    <3>4. logFile \in FilesOf(AllRows) /\ LastOpen(logFile) /\ Junk \notin AllRows
      BY LogAssumption DEF LogTyped, AllRows
    <3> HIDE DEF row, all, p, mine
    <3>5. Parsed(logFile') = Append(p, row)
      BY <3>1, <3>2, <3>3, <3>4, ParsedAppend DEF p
    <3>6. p \in Seq(AllRows)
      BY <3>4, ParsedRows DEF p
    <3>7. mine \in Seq(AllRows)
      BY <3>6, WithoutType DEF mine
    <3>8. Without(Append(p, row), RowsOf(Embedders \ {session})) = Append(mine, row)
      BY <3>3, <3>6, WithoutAppend DEF mine
    <3>9. IdsOf(Append(mine, row)) = Append(IdsOf(mine), id) /\ IdsOf(mine) \in Seq(Nat)
      BY <3>3, <3>7, IdsOfAppend, IdsOfRows DEF AllRows
    <3>10. LogLoaded(session)' = LastOf(Append(IdsOf(mine), id), MaxRecords)
      BY <2>1, <3>5, <3>8, <3>9 DEF LogLoaded, Compatible
    <3>11. LastOf(Append(records, id), MaxRecords) = LastOf(Append(IdsOf(mine), id), MaxRecords)
      BY <2>2, <3>1, <3>9, LastOfAppend, LogAssumption
    <3>12. ~logFile'.open
      BY <3>2, <3>3, <3>4, WrittenFile DEF Extents
    <3> QED BY <2>1, <3>10, <3>11, <3>12 DEF Mirrors, Trimmed, all
  <2>5. CASE ~(over /\ rewrites) /\ ~(mirrored /\ extent = "all")
    BY <2>1, <2>5 DEF Mirrors
  <2> QED BY <2>3, <2>4, <2>5
<1>4. ASSUME NEW ids, NEW rewrites \in BOOLEAN, Consume(ids, rewrites) PROVE Mirrors'
  <2>1. /\ session \in Embedders /\ session' = session /\ records' = Without(records, ids)
        /\ rewrites => logFile' = Rewritten(records')
        /\ mirrored' = rewrites
    BY <1>4 DEF Consume, LogTyped
  <2>2. records' \in Seq(Nat) /\ Len(records') <= MaxRecords
    <3>1. [LogNext]_logVars
      OBVIOUS
    <3> QED BY <3>1, LogStepTyped DEF LogTyped
  <2>3. rewrites => ~logFile'.open /\ LogLoaded(session)' = records'
    BY <2>1, <2>2, RewrittenLoads
  <2> QED BY <2>1, <2>3 DEF Mirrors
<1>5. ASSUME CloseLog PROVE Mirrors'
  BY <1>5 DEF CloseLog, Closed, Mirrors
<1>6. CASE UNCHANGED logVars
  BY <1>6 DEF logVars, Mirrors, LogLoaded, Compatible
<1> QED BY <1>1, <1>2, <1>3, <1>4, <1>5, <1>6 DEF LogNext

LEMMA LogInvariant == LogSpec => [](LogTyped /\ Mirrors)
<1>1. LogInit => LogTyped /\ Mirrors
  BY LogInitTyped DEF LogInit, Mirrors
<1>2. LogTyped /\ Mirrors /\ [LogNext]_logVars => (LogTyped /\ Mirrors)'
  BY LogStepTyped, MirrorsStep
<1> QED BY <1>1, <1>2, PTL DEF LogSpec

\* LogReloads: after any number of records, drops, consumptions and processes, a
\* restart loads exactly the records the process has, in their order, as long as
\* its writes succeeded (record, remove, load).
THEOREM RestartKeepsRecords == LogSpec => []LogReloads
<1>1. LogTyped /\ Mirrors => LogReloads
  BY DEF Mirrors, LogReloads
<1> QED BY <1>1, LogInvariant, PTL
-----------------------------------------------------------------------------
\* The failure log: what a tear costs.

Reported == acked \ excused

Lost == Reported \ IdsIn(logFile)

Unheld == Reported \ ToSet(records)

\* Every loss has been paid for by a tear, and an open line is a tear not yet used;
\* what the file lost by now the process may still have, and the other way round.
LossesPaid ==
    /\ Cardinality(Lost) + (IF logFile.open THEN 1 ELSE 0) <= tears
    /\ session # Down => Cardinality(Unheld) <= tears
    /\ logFile.open => EndOf(logFile) = Junk \/ EndOf(logFile).id \notin acked

\* The number of ids the log misses, whichever they are.
LEMMA FewAcked ==
    ASSUME NEW n \in Nat, NEW A, A \subseteq 1..n, NEW S, S \subseteq A
    PROVE  /\ IsFiniteSet(S) /\ Cardinality(S) \in Nat
           /\ \A R : R \subseteq S => Cardinality(R) \in Nat /\ Cardinality(R) <= Cardinality(S)
           /\ \A x : Cardinality(S \cup {x}) <= Cardinality(S) + 1
<1>1. IsFiniteSet(1..n)
  BY FS_Interval
<1>2. S \in SUBSET (1..n)
  OBVIOUS
<1>3. IsFiniteSet(S)
  BY <1>1, <1>2, FS_Subset
<1>4. \A R : R \subseteq S => IsFiniteSet(R) /\ Cardinality(R) <= Cardinality(S)
  BY <1>3, FS_Subset
<1>5. \A x : Cardinality(S \cup {x}) <= Cardinality(S) + 1
  <2> SUFFICES ASSUME NEW x PROVE Cardinality(S \cup {x}) <= Cardinality(S) + 1
    OBVIOUS
  <2>1. /\ Cardinality(S) \in Nat
        /\ Cardinality(S \cup {x}) = Cardinality(S) \/ Cardinality(S \cup {x}) = Cardinality(S) + 1
    BY <1>3, FS_AddElement, FS_CardinalityType
  <2> QED BY <2>1
<1> QED BY <1>3, <1>4, <1>5, FS_CardinalityType

LEMMA AtMost ==
    ASSUME NEW a \in Nat, NEW b \in Nat, NEW c \in Nat, a <= b
    PROVE  b <= c => a <= c /\ \A d \in Nat : b + d <= c => a + d <= c
  OBVIOUS

\* How the ids in the file change with a write.
LEMMA WrittenIds ==
    ASSUME LogTyped, session \in Embedders, LossesPaid, NEW extent \in Extents,
           logFile' = Written(logFile, LogRow(failures + 1), extent)
    PROVE  LET id == failures + 1 IN
           /\ IdsIn(logFile) \cap acked \subseteq IdsIn(logFile')
           /\ extent = "none" => logFile' = logFile
           /\ extent = "all" => ~logFile'.open /\ (~logFile.open => id \in IdsIn(logFile'))
           /\ extent \in Tears => /\ logFile'.open
                                  /\ EndOf(logFile') = Junk \/ EndOf(logFile').id = id
<1> DEFINE id == failures + 1
           row == LogRow(id)
           old == logFile
           new == Written(old, row, extent)
<1>1. row \in AllRows /\ row.id = id
  BY LogRowIsRow DEF LogTyped
<1>2. Junk \notin AllRows /\ old \in FilesOf(AllRows) /\ LastOpen(old)
  BY LogAssumption DEF LogTyped, AllRows
<1> HIDE DEF row
<1>3. /\ RowsIn(old) \subseteq RowsIn(new) \cup (IF old.open THEN {EndOf(old)} ELSE {})
      /\ extent = "none" => new = old
      /\ extent = "all" => ~new.open /\ (~old.open => row \in RowsIn(new))
      /\ extent \in Tears => new.open /\ EndOf(new) \in {row, Junk}
  BY <1>1, <1>2, WrittenFile
<1>4. logFile' = new
  BY DEF row
<1>5. old.open => EndOf(old) = Junk \/ EndOf(old).id \notin acked
  BY DEF LossesPaid
<1> HIDE DEF new, old
<1>6. ASSUME NEW x \in IdsIn(old), x \in acked PROVE x \in IdsIn(new)
  <2>1. PICK r \in RowsIn(old) : x = r.id
    BY DEF IdsIn
  <2>2. r # Junk
    BY DEF RowsIn
  <2>3. r \in RowsIn(new)
    BY <1>3, <1>5, <1>6, <2>1, <2>2
  <2> QED BY <2>1, <2>3 DEF IdsIn
<1>7. row \in RowsIn(new) => id \in IdsIn(new)
  BY <1>1 DEF IdsIn
<1> QED BY <1>1, <1>3, <1>4, <1>6, <1>7 DEF old

LEMMA LossesStep ==
    LogTyped /\ LossesPaid /\ [LogNext]_logVars => LossesPaid'
<1> SUFFICES ASSUME LogTyped, LossesPaid, [LogNext]_logVars PROVE LossesPaid'
  OBVIOUS
<1> DEFINE id == failures + 1
<1>0. /\ failures \in Nat /\ tears \in Nat /\ acked \subseteq 1..failures
      /\ Lost \subseteq acked /\ Unheld \subseteq acked /\ id \notin acked
      /\ session \in Embedders \cup {Down}
  BY DEF LogTyped, Lost, Unheld, Reported
<1>a. /\ Cardinality(Lost) \in Nat
      /\ \A R : R \subseteq Lost => Cardinality(R) \in Nat /\ Cardinality(R) <= Cardinality(Lost)
      /\ \A x : Cardinality(Lost \cup {x}) <= Cardinality(Lost) + 1
  BY <1>0, FewAcked
<1>b. /\ Cardinality(Unheld) \in Nat
      /\ \A R : R \subseteq Unheld => Cardinality(R) \in Nat /\ Cardinality(R) <= Cardinality(Unheld)
  BY <1>0, FewAcked
<1>1. ASSUME NEW e \in Embedders, OpenLog(e) PROVE LossesPaid'
  <2>1. /\ session' = e /\ records' = LogLoaded(e)
        /\ excused' = excused \cup Foreign(e) \cup (ToSet(Compatible(e)) \ ToSet(LogLoaded(e)))
        /\ logFile' = logFile /\ acked' = acked /\ tears' = tears
    BY <1>1 DEF OpenLog
  <2>2. IdsIn(logFile) \subseteq ToSet(Compatible(e)) \cup Foreign(e)
    BY LoadedRows
  <2>3. Lost' \subseteq Lost
    BY <2>1 DEF Lost, Reported
  <2>4. Unheld' \subseteq Lost
    BY <2>1, <2>2 DEF Lost, Unheld, Reported
  <2>5. /\ Cardinality(Lost') \in Nat /\ Cardinality(Lost') <= Cardinality(Lost)
        /\ Cardinality(Unheld') \in Nat /\ Cardinality(Unheld') <= Cardinality(Lost)
    BY <1>a, <2>3, <2>4
  <2> DEFINE open == IF logFile.open THEN 1 ELSE 0
  <2>6. open \in Nat /\ Cardinality(Lost) + open <= tears
    BY DEF LossesPaid
  <2> HIDE DEF open
  <2>7. Cardinality(Lost') + open <= tears /\ Cardinality(Unheld') <= tears
    BY <1>0, <1>a, <2>5, <2>6, AtMost
  <2> QED BY <2>1, <2>7 DEF LossesPaid, open
<1>2. ASSUME NEW extent \in Extents, DieAppending(extent) PROVE LossesPaid'
  <2>1. /\ session \in Embedders /\ session' = Down
        /\ tears' = tears + (IF extent \in Tears THEN 1 ELSE 0)
        /\ logFile' = Written(logFile, LogRow(id), extent)
        /\ acked' = acked /\ excused' = excused
    BY <1>0, <1>2 DEF DieAppending, Closed, Attempted
  <2>2. /\ IdsIn(logFile) \cap acked \subseteq IdsIn(logFile')
        /\ extent = "none" => logFile' = logFile
        /\ extent = "all" => ~logFile'.open
        /\ extent \in Tears => logFile'.open /\ (EndOf(logFile') = Junk \/ EndOf(logFile').id = id)
    BY <2>1, WrittenIds
  <2>3. Lost' \subseteq Lost
    BY <2>1, <2>2 DEF Lost, Reported
  <2>4. Cardinality(Lost)' <= Cardinality(Lost) /\ Cardinality(Lost)' \in Nat
    BY <1>a, <2>3
  <2>5. Cardinality(Lost') + (IF logFile'.open THEN 1 ELSE 0) <= tears'
    BY <1>0, <1>a, <2>1, <2>2, <2>4 DEF LossesPaid, Extents, Tears
  <2>6. logFile'.open => EndOf(logFile') = Junk \/ EndOf(logFile').id \notin acked'
    BY <1>0, <2>1, <2>2 DEF LossesPaid, Extents, Tears
  <2> QED BY <2>1, <2>5, <2>6 DEF LossesPaid
<1>3. ASSUME NEW extent \in Extents, NEW rewrites \in BOOLEAN, RecordFailure(extent, rewrites)
      PROVE  LossesPaid'
  <2> DEFINE all == Append(records, id)
             over == Len(all) > MaxRecords
  <2>1. /\ session \in Embedders /\ session' = session
        /\ tears' = tears + (IF extent \in Tears THEN 1 ELSE 0)
        /\ records' = Trimmed(all)
        /\ logFile' = (IF over /\ rewrites THEN Rewritten(Trimmed(all))
                                           ELSE Written(logFile, LogRow(id), extent))
        /\ acked' = (IF extent = "all" THEN acked \cup {id} ELSE acked)
        /\ excused' = excused \cup (ToSet(all) \ ToSet(Trimmed(all)))
    BY <1>0, <1>3 DEF RecordFailure, Attempted
  <2>2. all \in Seq(Nat) /\ ToSet(all) = ToSet(records) \cup {id} /\ id \in Nat
    BY AppendProperties, ToSetAppend DEF LogTyped
  <2>3. Trimmed(all) \in Seq(Nat)
    BY <2>2, TrimmedType
  <2> DEFINE trimmed == Trimmed(all)
  <2> HIDE DEF over, all, trimmed
  <2>4. Unheld' \subseteq Unheld
    BY <2>1, <2>2 DEF Unheld, Reported, trimmed
  <2>5. Cardinality(Unheld') \in Nat /\ Cardinality(Unheld') <= tears
    <3>1. Cardinality(Unheld) <= tears
      BY <1>3 DEF RecordFailure, LossesPaid
    <3> QED BY <1>0, <1>b, <2>4, <3>1, AtMost
  <2>6. tears' \in Nat /\ tears <= tears'
    BY <1>0, <2>1
  <2>7. CASE over /\ rewrites
    <3>1. logFile' = Rewritten(trimmed) /\ trimmed \in Seq(Nat) /\ records' = trimmed
      BY <2>1, <2>3, <2>7 DEF trimmed
    <3>2. ~logFile'.open /\ IdsIn(logFile') = ToSet(records')
      BY <2>1, <3>1, RewrittenFile
    <3>3. Lost' = Unheld'
      BY <3>2 DEF Lost, Unheld
    <3> QED BY <1>0, <2>5, <2>6, <3>2, <3>3 DEF LossesPaid
  <2>8. CASE ~(over /\ rewrites)
    <3>1. logFile' = Written(logFile, LogRow(id), extent)
      BY <2>1, <2>8
    <3>2. /\ IdsIn(logFile) \cap acked \subseteq IdsIn(logFile')
          /\ extent = "none" => logFile' = logFile
          /\ extent = "all" => ~logFile'.open /\ (~logFile.open => id \in IdsIn(logFile'))
          /\ extent \in Tears => logFile'.open /\ (EndOf(logFile') = Junk \/ EndOf(logFile').id = id)
      BY <2>1, <3>1, WrittenIds
    <3>3. Reported' \subseteq Reported \cup (IF extent = "all" THEN {id} ELSE {})
      BY <2>1 DEF Reported
    <3>4. Lost' \subseteq Lost \cup (IF extent = "all" /\ logFile.open THEN {id} ELSE {})
      <4> SUFFICES ASSUME NEW x \in Lost'
                   PROVE  x \in Lost \/ (extent = "all" /\ logFile.open /\ x = id)
        OBVIOUS
      <4>1. x \in Reported' /\ x \notin IdsIn(logFile')
        BY DEF Lost
      <4>2. CASE x \in Reported
        BY <3>2, <4>1, <4>2 DEF Lost, Reported
      <4>3. CASE extent = "all" /\ x = id
        BY <3>2, <4>1, <4>3
      <4> QED BY <3>3, <4>1, <4>2, <4>3
    <3>5. /\ Cardinality(Lost') \in Nat
          /\ Cardinality(Lost') <=
               Cardinality(Lost) + (IF extent = "all" /\ logFile.open THEN 1 ELSE 0)
      <4>1. CASE extent = "all" /\ logFile.open
        <5>1. Lost' \subseteq Lost \cup {id} /\ Cardinality(Lost \cup {id}) <= Cardinality(Lost) + 1
          BY <1>a, <3>4, <4>1
        <5>2. 1..id \in SUBSET Nat /\ Lost \cup {id} \subseteq 1..id /\ id \in Nat
          BY <1>0
        <5>3. /\ Cardinality(Lost \cup {id}) \in Nat /\ Cardinality(Lost') \in Nat
              /\ Cardinality(Lost') <= Cardinality(Lost \cup {id})
          BY <5>1, <5>2, FewAcked
        <5> HIDE DEF id
        <5> QED BY <1>a, <4>1, <5>1, <5>3
      <4>2. CASE ~(extent = "all" /\ logFile.open)
        <5>1. Lost' \subseteq Lost
          BY <3>4, <4>2
        <5> QED BY <1>a, <4>2, <5>1
      <4> QED BY <4>1, <4>2
    <3>6. Cardinality(Lost) + (IF logFile.open THEN 1 ELSE 0) <= tears
      BY DEF LossesPaid
    <3>7. Cardinality(Lost') + (IF logFile'.open THEN 1 ELSE 0) <= tears'
      <4>1. CASE extent = "all"
        BY <1>0, <1>a, <2>1, <3>2, <3>5, <3>6, <4>1 DEF Tears
      <4>2. CASE extent = "none"
        BY <1>0, <1>a, <2>1, <3>2, <3>5, <3>6, <4>2 DEF Tears
      <4>3. CASE extent \in Tears
        BY <1>0, <1>a, <2>1, <3>2, <3>5, <3>6, <4>3 DEF Tears
      <4> QED BY <4>1, <4>2, <4>3 DEF Extents, Tears
    <3>8. logFile'.open => EndOf(logFile') = Junk \/ EndOf(logFile').id \notin acked'
      <4>1. CASE extent = "all"
        BY <3>2, <4>1
      <4>2. CASE extent = "none"
        BY <2>1, <3>2, <4>2 DEF LossesPaid
      <4>3. CASE extent \in Tears
        BY <1>0, <2>1, <3>2, <4>3 DEF Tears
      <4> QED BY <4>1, <4>2, <4>3 DEF Extents, Tears
    <3>9. Cardinality(Unheld') <= tears'
      BY <1>0, <2>5, <2>6
    <3> QED BY <3>7, <3>8, <3>9 DEF LossesPaid
  <2> QED BY <2>7, <2>8
<1>4. ASSUME NEW ids, NEW rewrites \in BOOLEAN, Consume(ids, rewrites) PROVE LossesPaid'
  <2>1. /\ session \in Embedders /\ session' = session /\ session # Down
        /\ records' = Without(records, ids)
        /\ excused' = excused \cup ids /\ acked' = acked /\ tears' = tears
        /\ logFile' = IF rewrites THEN Rewritten(records') ELSE logFile
    BY <1>0, <1>4 DEF Consume
  <2>2. records' \in Seq(Nat) /\ ToSet(records') = ToSet(records) \ ids
    BY <2>1, WithoutType, WithoutSet DEF LogTyped
  <2>3. Unheld' \subseteq Unheld
    BY <2>1, <2>2 DEF Unheld, Reported
  <2>4. Cardinality(Unheld') \in Nat /\ Cardinality(Unheld') <= tears
    <3>1. Cardinality(Unheld) <= tears
      BY <2>1 DEF LossesPaid
    <3> QED BY <1>0, <1>b, <2>3, <3>1, AtMost
  <2>5. CASE rewrites
    <3>1. ~logFile'.open /\ IdsIn(logFile') = ToSet(records')
      BY <2>1, <2>2, <2>5, RewrittenFile
    <3>2. Lost' = Unheld'
      BY <3>1 DEF Lost, Unheld
    <3> QED BY <1>0, <2>1, <2>4, <3>1, <3>2 DEF LossesPaid
  <2>6. CASE ~rewrites
    <3>1. Lost' \subseteq Lost /\ logFile' = logFile
      BY <2>1, <2>6 DEF Lost, Reported
    <3> DEFINE open == IF logFile.open THEN 1 ELSE 0
    <3>2. Cardinality(Lost) + open <= tears
      BY DEF LossesPaid
    <3>3. open \in Nat /\ Cardinality(Lost') \in Nat /\ Cardinality(Lost') <= Cardinality(Lost)
      BY <1>a, <3>1
    <3> HIDE DEF open
    <3>4. Cardinality(Lost') + open <= tears
      BY <1>0, <1>a, <3>2, <3>3, AtMost
    <3> QED BY <1>0, <2>1, <2>4, <3>1, <3>4 DEF LossesPaid, open
  <2> QED BY <2>5, <2>6
<1>5. ASSUME CloseLog PROVE LossesPaid'
  BY <1>5 DEF CloseLog, Closed, LossesPaid, Lost, Reported
<1>6. CASE UNCHANGED logVars
  BY <1>6 DEF logVars, LossesPaid, Lost, Unheld, Reported
<1> QED BY <1>1, <1>2, <1>3, <1>4, <1>5, <1>6 DEF LogNext

\* TearCostsOne: however many processes recorded, dropped and consumed failures, at
\* most one failure whose append succeeded is missing from the file per torn line
\* (record, _rewrite, load).
THEOREM TearsArePaidFor == LogSpec => []TearCostsOne
<1>1. LogInit => LossesPaid
  <2> SUFFICES ASSUME LogInit PROVE LossesPaid
    OBVIOUS
  <2>1. Lost = {} /\ session = Down /\ ~logFile.open /\ tears = 0
    BY DEF LogInit, Lost, Reported, Empty
  <2> QED BY <2>1, FS_EmptySet DEF LossesPaid
<1>2. LogTyped /\ LossesPaid => TearCostsOne
  <2> SUFFICES ASSUME LogTyped, LossesPaid PROVE TearCostsOne
    OBVIOUS
  <2>1. Parsed(logFile) \in Seq(AllRows) /\ ToSet(Parsed(logFile)) = RowsIn(logFile)
    BY ParsedRows, LogAssumption DEF LogTyped, AllRows
  <2>2. ToSet(IdsOf(Parsed(logFile))) = IdsIn(logFile)
    BY <2>1, IdsOfRows DEF IdsIn, AllRows
  <2>3. Cardinality(Lost) \in Nat
    <3>1. Lost \subseteq acked /\ acked \subseteq 1..failures /\ failures \in Nat
      BY DEF LogTyped, Lost, Reported
    <3> QED BY <3>1, FewAcked
  <2>4. Cardinality(Lost) <= tears
    BY <2>3 DEF LossesPaid, LogTyped
  <2> QED BY <2>2, <2>4 DEF TearCostsOne, Lost, Reported
<1> QED BY <1>1, <1>2, LogInvariant, LossesStep, PTL DEF LogSpec
-----------------------------------------------------------------------------
\* The recent items: how long the file may be.

AllItems == ItemsOf(ItemKeys)

RecentTyped ==
    /\ opened \in BOOLEAN /\ inStep \in BOOLEAN
    /\ lines \in Nat /\ faults \in Nat
    /\ items \in Seq(AllItems)
    /\ recentFile \in FilesOf(AllItems) /\ LastOpen(recentFile)

\* The lines no item comes from, and the one an append will spoil.
Slack(file) ==
    Len(file.lines) - Len(Parsed(file))
      + (IF file.open /\ EndOf(file) # Junk THEN 1 ELSE 0)

\* Every line beyond those counted is the work of a fault.
LengthExplained ==
    /\ Len(recentFile.lines) <= CompactAt + faults
    /\ opened => Len(recentFile.lines) <= lines + faults
    /\ Slack(recentFile) <= faults

LEMMA AppendedLength ==
    ASSUME NEW T, Junk \notin T, NEW s \in Seq(T \cup {Junk}), NEW x \in T \cup {Junk}
    PROVE  /\ Len(Append(s, x)) = Len(s) + 1 /\ Len(s) \in Nat
           /\ Len(Without(s, {Junk})) \in Nat
           /\ Len(Without(Append(s, x), {Junk})) =
                Len(Without(s, {Junk})) + (IF x = Junk THEN 0 ELSE 1)
<1> DEFINE w == Without(s, {Junk})
           v == Without(Append(s, x), {Junk})
<1>1. w \in Seq(T \cup {Junk})
  BY WithoutType
<1>2. v = IF x \in {Junk} THEN w ELSE Append(w, x)
  BY WithoutAppend
<1> HIDE DEF w, v
<1>3. Len(w) \in Nat /\ Len(Append(w, x)) = Len(w) + 1
  BY <1>1, AppendProperties
<1>4. Len(v) = Len(w) + (IF x = Junk THEN 0 ELSE 1)
  BY <1>2, <1>3
<1> QED BY <1>3, <1>4, AppendProperties DEF w, v

\* An append adds at most one line; only one that fails adds slack.
LEMMA WrittenSlack ==
    ASSUME NEW T, Junk \notin T, NEW file \in FilesOf(T), LastOpen(file),
           NEW row \in T, NEW extent \in Extents
    PROVE  LET new == Written(file, row, extent) IN
           /\ Len(new.lines) \in Nat /\ Slack(file) \in Int /\ Slack(new) \in Int
           /\ Len(new.lines) <= Len(file.lines) + 1
           /\ Slack(new) <= Slack(file) + (IF extent \in Tears THEN 1 ELSE 0)
<1> DEFINE new == Written(file, row, extent)
           line == IF extent = "part" THEN Junk ELSE row
           old == file.lines
           gone == {Junk}
<1>1. /\ old \in Seq(T \cup {Junk}) /\ Len(old) \in Nat /\ file.open \in BOOLEAN
      /\ line \in T \cup {Junk} /\ Junk \in T \cup {Junk} /\ row # Junk
  BY DEF FilesOf
<1>2. Len(Without(old, gone)) \in Nat
  BY <1>1, AppendedLength
<1>3. Slack(file) \in Int
  BY <1>1, <1>2 DEF Slack, Parsed
<1>4. CASE extent = "none"
  BY <1>1, <1>3, <1>4 DEF Written, Tears
<1>5. CASE extent # "none" /\ file.open
  <2> DEFINE f == Front(old)
             z == EndOf(file)
             a == Append(f, Junk)
             b == Append(f, z)
  <2>1. new.lines = a /\ new.open = (extent # "all")
    BY <1>5 DEF Written
  <2>2. /\ f \in Seq(T \cup {Junk}) /\ Len(f) = Len(old) - 1 /\ z \in T \cup {Junk}
        /\ z = old[Len(old)] /\ \A i \in 1..(Len(old) - 1) : f[i] = old[i]
    BY <1>1, <1>5, FrontEnd DEF LastOpen, EndOf
  <2> HIDE DEF f, z
  <2>3. old = b
    <3>1. /\ b \in Seq(T \cup {Junk}) /\ Len(b) = Len(old) /\ b[Len(old)] = z
          /\ \A i \in 1..(Len(old) - 1) : b[i] = f[i]
      BY <1>1, <2>2, AppendProperties
    <3> HIDE DEF b
    <3>2. \A i \in 1..Len(old) : i \in 1..(Len(old) - 1) \/ i = Len(old)
      BY <1>1
    <3>3. \A i \in 1..Len(old) : old[i] = b[i]
      BY <2>2, <3>1, <3>2
    <3> QED BY <1>1, <3>1, <3>3, SeqEqual
  <2>4. /\ Len(a) = Len(f) + 1 /\ Len(f) \in Nat /\ Len(Without(f, gone)) \in Nat
        /\ Len(Without(a, gone)) = Len(Without(f, gone))
        /\ Len(Without(b, gone)) = Len(Without(f, gone)) + (IF z = Junk THEN 0 ELSE 1)
    <3>1. Len(a) = Len(f) + 1 /\ Len(f) \in Nat /\ Len(Without(f, gone)) \in Nat
      BY <1>1, <2>2, AppendedLength
    <3>2. Len(Without(a, gone)) = Len(Without(f, gone)) + (IF Junk = Junk THEN 0 ELSE 1)
      BY <1>1, <2>2, AppendedLength
    <3>3. Len(Without(b, gone)) = Len(Without(f, gone)) + (IF z = Junk THEN 0 ELSE 1)
      BY <1>1, <2>2, AppendedLength
    <3> DEFINE m == Len(Without(a, gone))
               n == Len(Without(f, gone))
    <3> HIDE DEF m, n
    <3>4. m = n + 0 /\ n \in Nat
      BY <3>1, <3>2 DEF m, n
    <3>5. m = n
      BY <3>4
    <3> QED BY <3>1, <3>3, <3>5 DEF m, n
  <2>5. a[Len(a)] = Junk
    BY <2>2, AppendProperties
  <2> HIDE DEF a, b
  <2>6. EndOf(new) = Junk
    BY <2>1, <2>5 DEF EndOf
  <2> HIDE DEF new
  <2>7. Slack(new) = Len(a) - Len(Without(a, gone))
    BY <2>1, <2>4, <2>6 DEF Slack, Parsed
  <2>8. Slack(file) = Len(old) - Len(Without(b, gone)) + (IF z # Junk THEN 1 ELSE 0)
    BY <1>5, <2>3 DEF Slack, Parsed, z
  <2>9. Slack(new) <= Slack(file) /\ Slack(new) \in Int /\ Len(a) = Len(old)
    <3> DEFINE la == Len(a)
               lo == Len(old)
               lf == Len(f)
               wa == Len(Without(a, gone))
               wb == Len(Without(b, gone))
               wf == Len(Without(f, gone))
               one == IF z = Junk THEN 0 ELSE 1
               other == IF z # Junk THEN 1 ELSE 0
    <3>1. one \in Nat /\ other \in Nat /\ one = other
      OBVIOUS
    <3> HIDE DEF la, lo, lf, wa, wb, wf, one, other
    <3>2. /\ la = lf + 1 /\ lf \in Nat /\ wf \in Nat /\ wa = wf /\ wb = wf + one
          /\ lo \in Nat /\ lf = lo - 1
      BY <1>1, <2>2, <2>4 DEF la, lo, lf, wa, wb, wf, one
    <3>3. Slack(new) = la - wa /\ Slack(file) = lo - wb + other
      BY <2>7, <2>8 DEF la, lo, wa, wb, other
    <3>4. Slack(new) <= Slack(file) /\ Slack(new) \in Int /\ la = lo
      BY <3>1, <3>2, <3>3
    <3> QED BY <3>4 DEF la, lo
  <2> QED BY <1>1, <1>3, <2>1, <2>9 DEF new
<1>6. CASE extent # "none" /\ ~file.open
  <2> DEFINE a == Append(old, line)
  <2>1. new.lines = a /\ new.open = (extent # "all")
    BY <1>6 DEF Written
  <2>2. /\ Len(a) = Len(old) + 1
        /\ Len(Without(a, gone)) = Len(Without(old, gone)) + (IF line = Junk THEN 0 ELSE 1)
    BY <1>1, AppendedLength
  <2>3. a[Len(a)] = line
    BY <1>1, AppendProperties
  <2> HIDE DEF a
  <2>4. EndOf(new) = line
    BY <2>1, <2>3 DEF EndOf
  <2> HIDE DEF new
  <2>5. Slack(new) = Len(a) - Len(Without(a, gone))
                       + (IF extent # "all" /\ line # Junk THEN 1 ELSE 0)
    BY <2>1, <2>4 DEF Slack, Parsed
  <2>6. Slack(file) = Len(old) - Len(Without(old, gone))
    BY <1>2, <1>6 DEF Slack, Parsed
  <2>7. extent \in Tears <=> extent # "all"
    BY <1>6 DEF Extents, Tears
  <2>8. line = Junk => extent # "all"
    BY <1>1
  <2> HIDE DEF line
  <2>9. /\ Slack(new) \in Int
        /\ Slack(new) <= Slack(file) + (IF extent # "all" THEN 1 ELSE 0)
    <3> DEFINE la == Len(a)
               lo == Len(old)
               wa == Len(Without(a, gone))
               wo == Len(Without(old, gone))
    <3> HIDE DEF la, lo, wa, wo
    <3>1. /\ la = lo + 1 /\ lo \in Nat /\ wo \in Nat
          /\ wa = wo + (IF line = Junk THEN 0 ELSE 1)
      BY <1>1, <1>2, <2>2 DEF la, lo, wa, wo
    <3>2. /\ Slack(new) = la - wa + (IF extent # "all" /\ line # Junk THEN 1 ELSE 0)
          /\ Slack(file) = lo - wo
      BY <2>5, <2>6 DEF la, lo, wa, wo
    <3> QED BY <2>8, <3>1, <3>2
  <2> QED BY <1>1, <1>3, <2>1, <2>2, <2>7, <2>9 DEF new
<1> QED BY <1>1, <1>4, <1>5, <1>6

LEMMA PutItemType ==
    ASSUME NEW s \in Seq(AllItems), NEW row \in AllItems
    PROVE  PutItem(s, row) \in Seq(AllItems)
<1>1. Without(s, ItemsOf({row.key})) \in Seq(AllItems)
  BY WithoutType
<1> QED BY <1>1, AppendProperties DEF PutItem

\* What the loop over the rows has put after each step.
Putting(put, rows) ==
    /\ put[0] = <<>>
    /\ \A n \in 1..Len(rows) : put[n] = PutItem(put[n - 1], rows[n])
    /\ Replayed(rows) = put[Len(rows)]

LEMMA ReplayedLoop ==
    ASSUME NEW rows \in Seq(AllItems)
    PROVE  \E put \in [0..Len(rows) -> Seq(AllItems)] : Putting(put, rows)
<1> DEFINE S == Seq(AllItems)
           One(n, c) == PutItem(c, rows[n])
           step == [n \in 1..Len(rows) |-> [c \in S |-> One(n, c)]]
           put[n \in 0..Len(rows)] ==
             IF n = 0 THEN <<>> ELSE PutItem(put[n - 1], rows[n])
<1>1. Len(rows) \in Nat /\ <<>> \in S
  OBVIOUS
<1>2. \A n \in 1..Len(rows), c \in S : One(n, c) \in S
  <2> SUFFICES ASSUME NEW n \in 1..Len(rows), NEW c \in S PROVE One(n, c) \in S
    OBVIOUS
  <2>1. rows[n] \in AllItems
    OBVIOUS
  <2> QED BY <2>1, PutItemType
<1> HIDE DEF One, S
<1>3. step \in [1..Len(rows) -> [S -> S]]
  BY <1>2
<1>4. \A n \in 1..Len(rows), c \in S : step[n][c] = One(n, c)
  OBVIOUS
<1> HIDE DEF step
<1>5. PICK f \in [0..Len(rows) -> S] : Loop(f, Len(rows), <<>>, step)
  <2> HIDE DEF put
  <2> QED BY <1>1, <1>3, Iterates, Zenon
<1>6. f = [n \in 0..Len(rows) |-> IF n = 0 THEN <<>> ELSE One(n, f[n - 1])]
  <2>1. \A n \in 0..Len(rows) : n # 0 => n \in 1..Len(rows) /\ f[n - 1] \in S
    BY <1>1
  <2> QED BY <1>4, <1>5, <2>1 DEF Loop
<1>7. put = [n \in 0..Len(rows) |-> IF n = 0 THEN <<>> ELSE One(n, put[n - 1])]
  BY <1>6 DEF One
<1> HIDE DEF put
<1>8. put[0] = <<>> /\ \A n \in 1..Len(rows) : put[n] = One(n, put[n - 1])
  <2>1. 0 \in 0..Len(rows) /\ \A n \in 1..Len(rows) : n \in 0..Len(rows) /\ n # 0
    BY <1>1
  <2> QED BY <1>7, <2>1
<1>9. \A n \in 0..Len(rows) : put[n] \in S
  <2>1. put[0] \in S
    BY <1>1, <1>8
  <2>2. \A n \in 1..Len(rows) : put[n - 1] \in S => put[n] \in S
    BY <1>2, <1>8
  <2> QED BY <1>1, <2>1, <2>2, StaysIn, Zenon
<1>10. put \in [0..Len(rows) -> S]
  BY <1>7, <1>9
<1>11. Replayed(rows) = put[Len(rows)]
  BY DEF Replayed, put
<1> QED BY <1>8, <1>10, <1>11 DEF One, Putting, S

LEMMA ReplayedType ==
    ASSUME NEW rows \in Seq(AllItems)
    PROVE  Replayed(rows) \in Seq(AllItems)
<1>1. PICK put \in [0..Len(rows) -> Seq(AllItems)] : Putting(put, rows)
  BY ReplayedLoop
<1> QED BY <1>1 DEF Putting

LEMMA ReplayedEmpty == Replayed(<<>>) = <<>>
<1>1. <<>> \in Seq(AllItems) /\ Len(<<>>) = 0
  OBVIOUS
<1>2. PICK put : Putting(put, <<>>)
  BY <1>1, ReplayedLoop
<1> QED BY <1>1, <1>2 DEF Putting

\* A row at the end of the file is put last.
LEMMA ReplayedAppend ==
    ASSUME NEW rows \in Seq(AllItems), NEW row \in AllItems
    PROVE  Replayed(Append(rows, row)) = PutItem(Replayed(rows), row)
<1> DEFINE t == Append(rows, row)
           N == Len(rows)
<1>1. /\ t \in Seq(AllItems) /\ Len(t) = N + 1 /\ t[N + 1] = row /\ N \in Nat
      /\ \A n \in 1..N : t[n] = rows[n]
  BY AppendProperties
<1> HIDE DEF t
<1>2. PICK f : Putting(f, rows)
  BY ReplayedLoop
<1>3. PICK g : Putting(g, t)
  BY <1>1, ReplayedLoop
<1>4. /\ f[0] = <<>> /\ Replayed(rows) = f[N]
      /\ \A n \in 1..N : f[n] = PutItem(f[n - 1], rows[n])
  BY <1>2 DEF Putting
<1>5. /\ g[0] = <<>> /\ Replayed(t) = g[N + 1]
      /\ \A n \in 1..(N + 1) : g[n] = PutItem(g[n - 1], t[n])
  BY <1>1, <1>3 DEF Putting
<1> HIDE DEF N
<1>6. \A n \in 1..N : f[n - 1] = g[n - 1] => f[n] = g[n]
  <2> SUFFICES ASSUME NEW n \in 1..N, f[n - 1] = g[n - 1] PROVE f[n] = g[n]
    OBVIOUS
  <2>1. n \in 1..(N + 1) /\ t[n] = rows[n]
    BY <1>1
  <2> QED BY <1>4, <1>5, <2>1
<1>7. f[N] = g[N]
  <2>1. N \in Nat /\ f[0] = g[0]
    BY <1>1, <1>4, <1>5
  <2> QED BY <1>6, <2>1, LoopsAgree, Zenon
<1>8. g[N + 1] = PutItem(g[N], row)
  <2>1. N + 1 \in 1..(N + 1) /\ (N + 1) - 1 = N
    BY <1>1
  <2> QED BY <1>1, <1>5, <2>1
<1> QED BY <1>4, <1>5, <1>7, <1>8 DEF t

LEMMA KeptType ==
    ASSUME RecentTyped, NEW row \in AllItems
    PROVE  Kept(row) \in Seq(AllItems) /\ Len(Kept(row)) <= Capacity
<1>1. PutItem(items, row) \in Seq(AllItems) /\ Capacity \in Nat
  BY PutItemType, RecentAssumption DEF RecentTyped
<1> QED BY <1>1, LastOfType DEF Kept

LEMMA RecentLoadedType ==
    ASSUME RecentTyped
    PROVE  /\ Parsed(recentFile) \in Seq(AllItems)
           /\ RecentLoaded \in Seq(AllItems)
<1>1. Parsed(recentFile) \in Seq(AllItems)
  BY ParsedRows, RecentAssumption DEF RecentTyped, AllItems
<1>2. Replayed(Parsed(recentFile)) \in Seq(AllItems) /\ Capacity \in Nat
  BY <1>1, ReplayedType, RecentAssumption
<1> QED BY <1>1, <1>2, LastOfType DEF RecentLoaded

LEMMA RecentStepTyped == RecentTyped /\ [RecentNext]_recentVars => RecentTyped'
<1> SUFFICES ASSUME RecentTyped, [RecentNext]_recentVars PROVE RecentTyped'
  OBVIOUS
<1>0. Junk \notin AllItems
  BY RecentAssumption DEF AllItems
<1>1. ASSUME OpenRecent PROVE RecentTyped'
  <2>1. RecentLoaded \in Seq(AllItems) /\ Len(Parsed(recentFile)) \in Nat
    BY RecentLoadedType
  <2>2. opened' = TRUE /\ items' = RecentLoaded /\ lines' = Len(Parsed(recentFile))
        /\ inStep' = ~recentFile.open /\ recentFile' = recentFile /\ faults' = faults
    BY <1>1 DEF OpenRecent
  <2>3. opened' \in BOOLEAN /\ inStep' \in BOOLEAN
    BY <2>2
  <2>4. lines' \in Nat /\ faults' \in Nat /\ items' \in Seq(AllItems)
    BY <2>1, <2>2 DEF RecentTyped
  <2>5. recentFile' \in FilesOf(AllItems) /\ LastOpen(recentFile')
    BY <2>2 DEF RecentTyped
  <2> QED BY <2>3, <2>4, <2>5 DEF RecentTyped, LastOpen
<1>2. ASSUME CloseRecent PROVE RecentTyped'
  <2>1. /\ opened' = FALSE /\ items' = <<>> /\ lines' = 0 /\ inStep' = inStep
        /\ recentFile' = recentFile /\ faults' = faults
    BY <1>2 DEF CloseRecent, Ended
  <2>2. items' \in Seq(AllItems) /\ lines' \in Nat
    BY <2>1
  <2> QED BY <2>1, <2>2 DEF RecentTyped, LastOpen
<1>3. ASSUME NEW row \in AllItems, AddItem(row) PROVE RecentTyped'
  <2>1. Kept(row) \in Seq(AllItems) /\ Len(Kept(row)) \in Nat
    BY KeptType
  <2>2. ASSUME NEW extent \in Extents, AppendItem(row, extent) PROVE RecentTyped'
    <3>1. Written(recentFile, row, extent) \in FilesOf(AllItems)
          /\ LastOpen(Written(recentFile, row, extent))
      BY <1>0, WrittenFile DEF RecentTyped
    <3>2. lines' \in Nat /\ faults' \in Nat /\ inStep' \in BOOLEAN
      BY <2>2 DEF AppendItem, Faulted, RecentTyped
    <3> QED BY <1>3, <2>1, <2>2, <3>1, <3>2 DEF AddItem, AppendItem, RecentTyped
  <2>3. ASSUME NEW succeeds \in BOOLEAN, Compact(row, succeeds) PROVE RecentTyped'
    <3>1. Replaced(Kept(row)) \in FilesOf(AllItems) /\ ~Replaced(Kept(row)).open
      BY <1>0, <2>1, ParsedReplaced
    <3>2. lines' \in Nat /\ faults' \in Nat /\ inStep' \in BOOLEAN
      BY <2>1, <2>3 DEF Compact, Faulted, RecentTyped
    <3>3. recentFile' \in FilesOf(AllItems) /\ LastOpen(recentFile')
      BY <2>3, <3>1 DEF Compact, RecentTyped, LastOpen
    <3> QED BY <1>3, <2>1, <2>3, <3>2, <3>3 DEF AddItem, Compact, RecentTyped
  <2> QED BY <1>3, <2>2, <2>3 DEF AddItem
<1>4. ASSUME NEW row \in AllItems, NEW extent \in Extents, DieAdding(row, extent)
      PROVE  RecentTyped'
  <2>1. Written(recentFile, row, extent) \in FilesOf(AllItems)
        /\ LastOpen(Written(recentFile, row, extent))
    BY <1>0, WrittenFile DEF RecentTyped
  <2>2. faults' \in Nat
    BY <1>4 DEF DieAdding, Faulted, RecentTyped
  <2>3. /\ opened' = FALSE /\ items' = <<>> /\ lines' = 0 /\ inStep' = inStep
        /\ recentFile' = Written(recentFile, row, extent)
    BY <1>4 DEF DieAdding, Ended
  <2>4. recentFile' \in FilesOf(AllItems) /\ LastOpen(recentFile')
    BY <2>1, <2>3
  <2>5. items' \in Seq(AllItems) /\ lines' \in Nat
    BY <2>3
  <2> QED BY <2>2, <2>3, <2>4, <2>5 DEF RecentTyped, LastOpen
<1>5. CASE UNCHANGED recentVars
  BY <1>5 DEF recentVars, RecentTyped
<1>6. \A k \in ItemKeys, v \in Outputs : [key |-> k, output |-> v] \in AllItems
  BY DEF AllItems, ItemsOf
<1> QED BY <1>1, <1>2, <1>3, <1>4, <1>5, <1>6 DEF RecentNext

LEMMA LengthStep ==
    RecentTyped /\ LengthExplained /\ [RecentNext]_recentVars => LengthExplained'
<1> SUFFICES ASSUME RecentTyped, LengthExplained, [RecentNext]_recentVars
             PROVE  LengthExplained'
  OBVIOUS
<1>0. Junk \notin AllItems /\ recentFile \in FilesOf(AllItems) /\ LastOpen(recentFile)
  BY RecentAssumption DEF AllItems, RecentTyped
<1> DEFINE long == Len(recentFile.lines)
           rows == Len(Parsed(recentFile))
<1>a. long \in Nat /\ rows \in Nat
  <2>1. recentFile.lines \in Seq(AllItems \cup {Junk}) /\ Parsed(recentFile) \in Seq(AllItems)
    BY <1>0, RecentLoadedType DEF FilesOf
  <2> QED BY <2>1
<1>b. CompactAt \in Nat /\ Capacity \in Nat /\ Capacity <= CompactAt
  <2>1. CompactFactor \in Nat /\ CompactFactor >= 1 /\ Capacity \in Nat
    BY RecentAssumption
  <2>2. CompactFactor * Capacity \in Nat /\ CompactFactor * Capacity >= 1 * Capacity
    BY <2>1, Z3
  <2> QED BY <2>1, <2>2 DEF CompactAt
<1>c. faults \in Nat /\ lines \in Nat
  BY DEF RecentTyped
<1>d. /\ long <= CompactAt + faults /\ Slack(recentFile) <= faults
      /\ opened => long <= lines + faults
  BY DEF LengthExplained
<1>e. ASSUME NEW row \in AllItems, NEW extent \in Extents, lines < CompactAt, opened,
             recentFile' = Written(recentFile, row, extent), Faulted(extent # "all")
      PROVE  /\ Len(recentFile'.lines) \in Nat
             /\ Len(recentFile'.lines) <= long + (IF extent = "none" THEN 0 ELSE 1)
             /\ Len(recentFile'.lines) <= CompactAt + faults'
             /\ Slack(recentFile') <= faults'
             /\ faults' = faults + (IF extent = "all" THEN 0 ELSE 1)
  <2> DEFINE new == Written(recentFile, row, extent)
  <2>1. /\ Len(new.lines) \in Nat /\ Slack(recentFile) \in Int /\ Slack(new) \in Int
        /\ Len(new.lines) <= Len(recentFile.lines) + 1
        /\ Slack(new) <= Slack(recentFile) + (IF extent \in Tears THEN 1 ELSE 0)
    BY <1>0, WrittenSlack
  <2>2. extent = "none" => new = recentFile
    BY <1>0, WrittenFile
  <2> HIDE DEF new
  <2>3. faults' = faults + (IF extent = "all" THEN 0 ELSE 1)
    BY <1>e DEF Faulted
  <2>4. Len(new.lines) <= long + (IF extent = "none" THEN 0 ELSE 1)
    <3>1. CASE extent = "none"
      <4>1. Len(new.lines) = long
        BY <2>2, <3>1
      <4> HIDE DEF long
      <4> QED BY <1>a, <3>1, <4>1
    <3>2. CASE extent # "none"
      BY <2>1, <3>2
    <3> QED BY <3>1, <3>2
  <2>5. (IF extent \in Tears THEN 1 ELSE 0) <= (IF extent = "all" THEN 0 ELSE 1)
    BY DEF Extents, Tears
  <2> DEFINE len == Len(new.lines)
  <2> HIDE DEF long, rows, len
  <2>6. len \in Nat /\ len <= long + 1
    BY <1>a, <2>1, <2>4 DEF len
  <2>7. long <= lines + faults
    BY <1>d, <1>e
  <2>8. len <= CompactAt + faults'
    BY <1>a, <1>b, <1>c, <1>e, <2>3, <2>6, <2>7
  <2>9. Slack(new) <= faults'
    BY <1>c, <1>d, <2>1, <2>3, <2>5
  <2>10. recentFile' = new
    BY <1>e DEF new
  <2> QED BY <2>1, <2>3, <2>4, <2>8, <2>9, <2>10 DEF len
<1>1. ASSUME OpenRecent PROVE LengthExplained'
  <2>1. /\ recentFile' = recentFile /\ faults' = faults /\ lines' = rows
    BY <1>1 DEF OpenRecent
  <2>2. long - rows <= Slack(recentFile) /\ Slack(recentFile) \in Int
    <3> DEFINE more == IF recentFile.open /\ EndOf(recentFile) # Junk THEN 1 ELSE 0
    <3>1. Slack(recentFile) = long - rows + more /\ more \in Nat
      BY DEF Slack
    <3> HIDE DEF long, rows, more
    <3> QED BY <1>a, <3>1
  <2> HIDE DEF rows
  <2>3. long <= rows + faults
    <3> HIDE DEF long
    <3> QED BY <1>a, <1>c, <1>d, <2>2
  <2> QED BY <1>d, <2>1, <2>3 DEF LengthExplained, CompactAt
<1>2. ASSUME CloseRecent PROVE LengthExplained'
  BY <1>2 DEF CloseRecent, Ended, LengthExplained, CompactAt
<1>3. ASSUME NEW row \in AllItems, AddItem(row) PROVE LengthExplained'
  <2>1. ASSUME NEW extent \in Extents, AppendItem(row, extent) PROVE LengthExplained'
    <3>1. /\ lines < CompactAt /\ opened /\ recentFile' = Written(recentFile, row, extent)
          /\ Faulted(extent # "all")
          /\ lines' = lines + (IF extent = "all" THEN 1 ELSE 0)
      BY <1>3, <1>c, <2>1 DEF AddItem, AppendItem
    <3>2. /\ Len(recentFile'.lines) \in Nat
          /\ Len(recentFile'.lines) <= long + (IF extent = "none" THEN 0 ELSE 1)
          /\ Len(recentFile'.lines) <= CompactAt + faults'
          /\ Slack(recentFile') <= faults'
          /\ faults' = faults + (IF extent = "all" THEN 0 ELSE 1)
      BY <1>e, <3>1
    <3>3. Len(recentFile'.lines) <= lines' + faults'
      <4> DEFINE len == Len(recentFile'.lines)
      <4>1. len \in Nat /\ len <= long + (IF extent = "none" THEN 0 ELSE 1)
        BY <3>2
      <4> HIDE DEF len, long
      <4>2. long <= lines + faults
        BY <1>d, <3>1
      <4>3. len <= lines' + faults'
        BY <1>a, <1>c, <3>1, <3>2, <4>1, <4>2
      <4> QED BY <4>3 DEF len
    <3> QED BY <3>2, <3>3 DEF LengthExplained, CompactAt
  <2>2. ASSUME NEW succeeds \in BOOLEAN, Compact(row, succeeds) PROVE LengthExplained'
    <3>1. Kept(row) \in Seq(AllItems) /\ Len(Kept(row)) <= Capacity
      BY KeptType
    <3> DEFINE kept == Kept(row)
    <3>2. CASE succeeds
      <4>1. /\ recentFile' = Replaced(kept) /\ lines' = Len(kept) /\ faults' = faults
        BY <1>c, <2>2, <3>2 DEF Compact, Faulted
      <4>2. Parsed(Replaced(kept)) = kept /\ ~Replaced(kept).open
        BY <1>0, <3>1, ParsedReplaced
      <4>3. Replaced(kept).lines = kept
        BY DEF Replaced
      <4> HIDE DEF kept
      <4>4. Len(kept) \in Nat /\ Len(kept) <= Capacity
        BY <3>1 DEF kept
      <4> DEFINE n == Len(kept)
      <4>5. Slack(recentFile') = n - n + 0
        BY <4>1, <4>2, <4>3 DEF Slack
      <4> HIDE DEF n
      <4>6. n \in Nat /\ n <= Capacity
        BY <4>4 DEF n
      <4>7. Slack(recentFile') <= faults /\ n <= CompactAt + faults /\ n <= n + faults
        BY <1>b, <1>c, <4>5, <4>6
      <4> QED BY <4>1, <4>3, <4>7 DEF LengthExplained, CompactAt, n
    <3>3. CASE ~succeeds
      <4>1. /\ recentFile' = recentFile /\ lines' = lines /\ faults' = faults + 1 /\ opened
        BY <1>3, <2>2, <3>3 DEF AddItem, Compact, Faulted
      <4>2. Slack(recentFile) \in Int
        <5> DEFINE more == IF recentFile.open /\ EndOf(recentFile) # Junk THEN 1 ELSE 0
        <5>1. Slack(recentFile) = long - rows + more /\ more \in Nat
          BY DEF Slack
        <5> HIDE DEF long, rows, more
        <5> QED BY <1>a, <5>1
      <4> HIDE DEF long, rows
      <4>3. /\ long <= CompactAt + (faults + 1) /\ long <= lines + (faults + 1)
            /\ Slack(recentFile) <= faults + 1
        BY <1>a, <1>b, <1>c, <1>d, <4>1, <4>2
      <4> QED BY <4>1, <4>3 DEF LengthExplained, CompactAt, long
    <3> QED BY <3>2, <3>3
  <2> QED BY <1>3, <2>1, <2>2 DEF AddItem
<1>4. ASSUME NEW row \in AllItems, NEW extent \in Extents, DieAdding(row, extent)
      PROVE  LengthExplained'
  <2>1. /\ lines < CompactAt /\ opened /\ recentFile' = Written(recentFile, row, extent)
        /\ Faulted(extent # "all") /\ opened' = FALSE
    BY <1>4 DEF DieAdding, Ended
  <2>2. Len(recentFile'.lines) <= CompactAt + faults' /\ Slack(recentFile') <= faults'
    BY <1>e, <2>1
  <2> QED BY <2>1, <2>2 DEF LengthExplained, CompactAt
<1>5. CASE UNCHANGED recentVars
  BY <1>5 DEF recentVars, LengthExplained, CompactAt
<1>6. \A k \in ItemKeys, v \in Outputs : [key |-> k, output |-> v] \in AllItems
  BY DEF AllItems, ItemsOf
<1> QED BY <1>1, <1>2, <1>3, <1>4, <1>5, <1>6 DEF RecentNext

LEMMA RecentInitExplained == RecentInit => RecentTyped /\ LengthExplained
<1> SUFFICES ASSUME RecentInit PROVE RecentTyped /\ LengthExplained
  OBVIOUS
<1>1. recentFile.lines = <<>> /\ recentFile.open = FALSE /\ opened = FALSE /\ faults = 0
  BY DEF RecentInit, Empty
<1>2. RecentTyped
  <2>1. recentFile \in FilesOf(AllItems) /\ LastOpen(recentFile)
    BY DEF RecentInit, Empty, FilesOf, LastOpen
  <2>2. items \in Seq(AllItems)
    BY DEF RecentInit
  <2> QED BY <2>1, <2>2 DEF RecentInit, RecentTyped
<1>3. Slack(recentFile) = 0
  <2>1. Parsed(recentFile) = <<>>
    BY <1>1, WithoutEmpty DEF Parsed
  <2>2. Len(recentFile.lines) = 0 /\ Len(Parsed(recentFile)) = 0
    BY <1>1, <2>1
  <2> QED BY <1>1, <2>2 DEF Slack
<1>4. CompactAt \in Nat
  <2>1. CompactFactor \in Nat /\ Capacity \in Nat
    BY RecentAssumption
  <2> QED BY <2>1 DEF CompactAt
<1>5. Len(recentFile.lines) = 0
  BY <1>1
<1> QED BY <1>1, <1>2, <1>3, <1>4, <1>5 DEF LengthExplained

LEMMA RecentInvariant == RecentSpec => [](RecentTyped /\ LengthExplained)
<1>1. RecentTyped /\ LengthExplained /\ [RecentNext]_recentVars => (RecentTyped /\ LengthExplained)'
  BY RecentStepTyped, LengthStep
<1> QED BY <1>1, RecentInitExplained, PTL DEF RecentSpec

\* FileBounded: whatever is added, torn, compacted and opened again, the file is no
\* longer than the lines it is compacted at and one line per fault (_Jsonl.append,
\* rewrite, ExemplarStore.add).
THEOREM FilesStayBounded == RecentSpec => []FileBounded
<1>1. LengthExplained => FileBounded
  BY DEF LengthExplained, FileBounded
<1> QED BY <1>1, RecentInvariant, PTL
-----------------------------------------------------------------------------
\* The recent items: what a restart gives.

\* No key comes twice.
OneEach(s) == \A i, j \in DOMAIN s : s[i].key = s[j].key => i = j

LEMMA OneEachAppend ==
    ASSUME NEW s \in Seq(AllItems), NEW x \in AllItems
    PROVE  OneEach(Append(s, x)) <=> OneEach(s) /\ \A r \in ToSet(s) : r.key # x.key
<1> DEFINE t == Append(s, x)
           N == Len(s)
<1>1. /\ DOMAIN s = 1..N /\ DOMAIN t = 1..(N + 1) /\ N \in Nat
      /\ t[N + 1] = x /\ \A i \in 1..N : t[i] = s[i]
  BY AppendProperties
<1> HIDE DEF t, N
<1>2. /\ 1..N \subseteq 1..(N + 1) /\ N + 1 \in 1..(N + 1) /\ N + 1 \notin 1..N
      /\ \A i \in 1..(N + 1) : i \in 1..N \/ i = N + 1
  BY <1>1
<1>3. ToSet(s) = {s[i] : i \in 1..N}
  BY <1>1 DEF ToSet
<1>4. ASSUME OneEach(t) PROVE OneEach(s) /\ \A r \in ToSet(s) : r.key # x.key
  <2>1. OneEach(s)
    BY <1>1, <1>2, <1>4 DEF OneEach
  <2>2. ASSUME NEW i \in 1..N PROVE s[i].key # x.key
    BY <1>1, <1>2, <1>4, <2>2 DEF OneEach
  <2> QED BY <1>3, <2>1, <2>2
<1>5. ASSUME OneEach(s), \A r \in ToSet(s) : r.key # x.key PROVE OneEach(t)
  <2> SUFFICES ASSUME NEW i \in 1..(N + 1), NEW j \in 1..(N + 1), t[i].key = t[j].key
               PROVE  i = j
    BY <1>1 DEF OneEach
  <2>1. \A m \in 1..N : s[m].key # x.key
    BY <1>3, <1>5
  <2>2. CASE i \in 1..N /\ j \in 1..N
    BY <1>1, <1>5, <2>2 DEF OneEach
  <2>3. CASE i \in 1..N /\ j = N + 1
    BY <1>1, <2>1, <2>3
  <2>4. CASE i = N + 1 /\ j \in 1..N
    BY <1>1, <2>1, <2>4
  <2> QED BY <1>2, <2>2, <2>3, <2>4
<1> QED BY <1>4, <1>5 DEF t

LEMMA KeyOf ==
    ASSUME NEW x \in AllItems, NEW k
    PROVE  x \in ItemsOf({k}) <=> x.key = k
  BY DEF AllItems, ItemsOf

\* Leaving out a key leaves out one item at most, and the keys stay apart.
LEMMA WithoutKey ==
    ASSUME NEW k
    PROVE  \A s \in Seq(AllItems) : OneEach(s) =>
             /\ OneEach(Without(s, ItemsOf({k})))
             /\ Len(Without(s, ItemsOf({k}))) >= Len(s) - 1
<1> DEFINE S == ItemsOf({k})
           W(s) == Without(s, S)
           Q == {s \in Seq(AllItems) : OneEach(s) => OneEach(W(s)) /\ Len(W(s)) >= Len(s) - 1}
<1>1. <<>> \in Q
  <2>1. W(<<>>) = <<>>
    BY WithoutEmpty
  <2>2. OneEach(<<>>) /\ Len(<<>>) >= Len(<<>>) - 1
    BY DEF OneEach
  <2> QED BY <2>1, <2>2
<1>2. ASSUME NEW s \in Seq(AllItems), NEW x \in AllItems, s \in Q PROVE Append(s, x) \in Q
  <2> DEFINE t == Append(s, x)
  <2>1. t \in Seq(AllItems) /\ Len(t) = Len(s) + 1 /\ Len(s) \in Nat
    BY AppendProperties
  <2>2. ASSUME OneEach(t) PROVE OneEach(W(t)) /\ Len(W(t)) >= Len(t) - 1
    <3>1. OneEach(s) /\ \A r \in ToSet(s) : r.key # x.key
      BY <2>2, OneEachAppend
    <3>2. OneEach(W(s)) /\ Len(W(s)) >= Len(s) - 1
      BY <1>2, <3>1
    <3>3. W(s) \in Seq(AllItems) /\ ToSet(W(s)) = ToSet(s) \ S
      BY WithoutType, WithoutSet
    <3>4. W(t) = IF x \in S THEN W(s) ELSE Append(W(s), x)
      BY WithoutAppend
    <3>5. CASE x \in S
      <4>1. \A r \in ToSet(s) : r \notin S
        <5>1. \A r \in ToSet(s) : r \in AllItems
          BY DEF ToSet
        <5> HIDE DEF S
        <5> QED BY <3>1, <3>5, <5>1, KeyOf DEF S
      <4>2. W(s) = s
        <5>1. ToSet(s) \cap S = {}
          BY <4>1
        <5> HIDE DEF S
        <5> QED BY <5>1, WithoutNone
      <4>3. W(t) = s
        BY <3>4, <3>5, <4>2
      <4> HIDE DEF W, t
      <4> QED BY <2>1, <3>1, <4>3
    <3>6. CASE x \notin S
      <4> DEFINE w == W(s)
                 a == Append(w, x)
      <4>1. W(t) = a /\ w \in Seq(AllItems) /\ OneEach(w) /\ Len(w) >= Len(s) - 1
        BY <3>2, <3>3, <3>4, <3>6
      <4>2. \A r \in ToSet(w) : r.key # x.key
        BY <3>1, <3>3
      <4> HIDE DEF W, t, w
      <4>3. OneEach(a) /\ Len(a) = Len(w) + 1 /\ Len(w) \in Nat
        BY <4>1, <4>2, OneEachAppend, AppendProperties
      <4> HIDE DEF a
      <4>4. Len(a) >= (Len(s) + 1) - 1
        BY <2>1, <4>1, <4>3
      <4> QED BY <2>1, <4>1, <4>3, <4>4
    <3> QED BY <3>5, <3>6
  <2> QED BY <2>1, <2>2
<1>3. \A s \in Seq(AllItems) : s \in Q
  <2> HIDE DEF Q
  <2> QED BY <1>1, <1>2, Appending
<1> QED BY <1>3

LEMMA PutItemOneEach ==
    ASSUME NEW s \in Seq(AllItems), OneEach(s), NEW row \in AllItems
    PROVE  OneEach(PutItem(s, row))
<1> DEFINE S == ItemsOf({row.key})
           w == Without(s, S)
<1>1. w \in Seq(AllItems) /\ ToSet(w) = ToSet(s) \ S
  BY WithoutType, WithoutSet
<1>2. OneEach(w)
  BY WithoutKey
<1> HIDE DEF w
<1>3. \A r \in ToSet(w) : r \in AllItems
  BY <1>1 DEF ToSet
<1>4. \A r \in ToSet(w) : r.key # row.key
  BY <1>1, <1>3, KeyOf
<1>5. OneEach(Append(w, row))
  BY <1>1, <1>2, <1>4, OneEachAppend
<1> QED BY <1>5 DEF PutItem, w

LEMMA LastOfOneEach ==
    ASSUME NEW s \in Seq(AllItems), OneEach(s), NEW n \in Nat
    PROVE  OneEach(LastOf(s, n))
<1> DEFINE l == LastOf(s, n)
<1>1. /\ l \in Seq(AllItems) /\ Len(l) \in Nat /\ Len(s) \in Nat
      /\ \A i \in 1..Len(l) : (Len(s) - Len(l)) + i \in 1..Len(s) /\ l[i] = s[(Len(s) - Len(l)) + i]
  BY LastOfType
<1> HIDE DEF l
<1> SUFFICES ASSUME NEW i \in 1..Len(l), NEW j \in 1..Len(l), l[i].key = l[j].key PROVE i = j
  BY <1>1 DEF OneEach, l
<1> DEFINE d == Len(s) - Len(l)
<1>2. d \in Int /\ d + i \in 1..Len(s) /\ d + j \in 1..Len(s) /\ l[i] = s[d + i] /\ l[j] = s[d + j]
  BY <1>1
<1> HIDE DEF d
<1>3. d + i = d + j
  BY <1>2 DEF OneEach
<1> QED BY <1>2, <1>3

\* What a replay gives: every key once; and items that are apart already give themselves.
LEMMA ReplayedOneEach ==
    \A rows \in Seq(AllItems) : /\ OneEach(Replayed(rows))
                                /\ OneEach(rows) => Replayed(rows) = rows
<1> DEFINE Q == {rows \in Seq(AllItems) : /\ OneEach(Replayed(rows))
                                          /\ OneEach(rows) => Replayed(rows) = rows}
<1>1. <<>> \in Q
  <2>1. OneEach(<<>>)
    BY DEF OneEach
  <2> QED BY <2>1, ReplayedEmpty
<1>2. ASSUME NEW s \in Seq(AllItems), NEW x \in AllItems, s \in Q PROVE Append(s, x) \in Q
  <2> DEFINE t == Append(s, x)
             r == Replayed(s)
  <2>1. t \in Seq(AllItems) /\ r \in Seq(AllItems) /\ OneEach(r)
    BY <1>2, AppendProperties, ReplayedType
  <2>2. Replayed(t) = PutItem(r, x)
    BY ReplayedAppend
  <2>3. OneEach(PutItem(r, x))
    <3> HIDE DEF r
    <3> QED BY <2>1, PutItemOneEach
  <2>4. ASSUME OneEach(t) PROVE PutItem(r, x) = t
    <3>1. OneEach(s) /\ \A i \in ToSet(s) : i.key # x.key
      BY <2>4, OneEachAppend
    <3>2. r = s
      BY <1>2, <3>1
    <3>3. \A i \in ToSet(s) : i \in AllItems
      BY DEF ToSet
    <3>4. ToSet(s) \cap ItemsOf({x.key}) = {}
      BY <3>1, <3>3, KeyOf
    <3>5. Without(s, ItemsOf({x.key})) = s
      BY <3>4, WithoutNone
    <3> QED BY <3>2, <3>5 DEF PutItem
  <2> HIDE DEF r
  <2> QED BY <2>1, <2>2, <2>3, <2>4
<1>3. \A s \in Seq(AllItems) : s \in Q
  <2> HIDE DEF Q
  <2> QED BY <1>1, <1>2, Appending
<1> QED BY <1>3

LEMMA ConcatAppend ==
    ASSUME NEW T, NEW s \in Seq(T), NEW t \in Seq(T), NEW x \in T
    PROVE  s \o Append(t, x) = Append(s \o t, x)
  OBVIOUS

LEMMA WithoutConcat ==
    ASSUME NEW T, NEW s \in Seq(T), NEW S
    PROVE  \A t \in Seq(T) : Without(s \o t, S) = Without(s, S) \o Without(t, S)
<1> DEFINE W(t) == Without(t, S)
           Q == {t \in Seq(T) : W(s \o t) = W(s) \o W(t)}
<1>0. \A t \in Seq(T) : W(t) \in Seq(T)
  BY WithoutType
<1>1. <<>> \in Q
  <2>1. W(<<>>) = <<>>
    BY WithoutEmpty
  <2>2. s \o <<>> = s /\ <<>> \in Seq(T)
    OBVIOUS
  <2> HIDE DEF W
  <2>3. W(s) \o <<>> = W(s)
    BY <1>0
  <2> QED BY <2>1, <2>2, <2>3
<1>2. ASSUME NEW t \in Seq(T), NEW x \in T, t \in Q PROVE Append(t, x) \in Q
  <2>1. Append(t, x) \in Seq(T) /\ s \o t \in Seq(T)
    OBVIOUS
  <2>2. s \o Append(t, x) = Append(s \o t, x)
    BY ConcatAppend
  <2>3. W(Append(s \o t, x)) = IF x \in S THEN W(s \o t) ELSE Append(W(s \o t), x)
    BY <2>1, WithoutAppend
  <2>4. W(Append(t, x)) = IF x \in S THEN W(t) ELSE Append(W(t), x)
    BY WithoutAppend
  <2>5. W(s \o t) = W(s) \o W(t)
    BY <1>2
  <2> HIDE DEF W
  <2>6. W(s) \o Append(W(t), x) = Append(W(s) \o W(t), x)
    BY <1>0, ConcatAppend
  <2> QED BY <2>1, <2>2, <2>3, <2>4, <2>5, <2>6
<1>3. \A t \in Seq(T) : t \in Q
  <2> HIDE DEF Q
  <2> QED BY <1>1, <1>2, Appending
<1> QED BY <1>3

\* A sequence that is too long is something and its end.
LEMMA SplitAtEnd ==
    ASSUME NEW T, NEW s \in Seq(T), NEW n \in Nat, Len(s) > n
    PROVE  /\ SubSeq(s, 1, Len(s) - n) \in Seq(T)
           /\ LastOf(s, n) \in Seq(T) /\ Len(LastOf(s, n)) = n
           /\ s = SubSeq(s, 1, Len(s) - n) \o LastOf(s, n)
<1> DEFINE m == Len(s) - n
           h == SubSeq(s, 1, m)
           l == LastOf(s, n)
           c == h \o l
<1>1. m \in Nat /\ m <= Len(s) /\ Len(s) = m + n /\ Len(s) \in Nat
  OBVIOUS
<1>2. /\ l \in Seq(T) /\ Len(l) = n
      /\ \A i \in 1..n : l[i] = s[(Len(s) - n) + i]
  <2>1. /\ l \in Seq(T) /\ Len(l) = IF Len(s) > n THEN n ELSE Len(s)
        /\ \A i \in 1..Len(l) : l[i] = s[(Len(s) - Len(l)) + i]
    BY LastOfType
  <2> QED BY <2>1
<1> HIDE DEF m, l
<1>3. h \in Seq(T) /\ Len(h) = m /\ \A i \in 1..m : h[i] = s[i]
  BY <1>1, SubSeqProperties
<1> HIDE DEF h
<1>4. /\ c \in Seq(T) /\ Len(c) = m + n
      /\ \A i \in 1..(m + n) : c[i] = IF i <= m THEN h[i] ELSE l[i - m]
  <2>1. h \in Seq(T) /\ l \in Seq(T) /\ Len(h) = m /\ Len(l) = n
    BY <1>2, <1>3
  <2>2. /\ c \in Seq(T) /\ Len(c) = Len(h) + Len(l)
        /\ \A i \in 1..(Len(h) + Len(l)) : c[i] = IF i <= Len(h) THEN h[i] ELSE l[i - Len(h)]
    BY <2>1, ConcatProperties
  <2> HIDE DEF c
  <2> QED BY <2>1, <2>2
<1> HIDE DEF c
<1>5. \A i \in 1..Len(s) : s[i] = c[i]
  <2> SUFFICES ASSUME NEW i \in 1..Len(s) PROVE s[i] = c[i]
    OBVIOUS
  <2>1. CASE i <= m
    BY <1>1, <1>3, <1>4, <2>1
  <2>2. CASE ~(i <= m)
    <3>1. i - m \in 1..n /\ (Len(s) - n) + (i - m) = i
      BY <1>1, <2>2
    <3> QED BY <1>1, <1>2, <1>4, <2>2, <3>1
  <2> QED BY <2>1, <2>2
<1>6. s = c
  BY <1>1, <1>4, <1>5, SeqEqual
<1> QED BY <1>2, <1>3, <1>6 DEF c, h, l, m

\* Trimming before and after an item is put agree.
LEMMA TrimmedPut ==
    ASSUME NEW s \in Seq(AllItems), OneEach(s), NEW row \in AllItems
    PROVE  LastOf(PutItem(LastOf(s, Capacity), row), Capacity) = LastOf(PutItem(s, row), Capacity)
<1>0. Capacity \in Nat /\ Capacity >= 1
  BY RecentAssumption
<1>1. CASE ~(Len(s) > Capacity)
  <2>1. LastOf(s, Capacity) = s
    BY <1>0, <1>1, LastOfShort
  <2> QED BY <2>1
<1>2. CASE Len(s) > Capacity
  <2> DEFINE S == ItemsOf({row.key})
             h == SubSeq(s, 1, Len(s) - Capacity)
             l == LastOf(s, Capacity)
             wh == Without(h, S)
             wl == Without(l, S)
             a == Append(wl, row)
             b == Append(Without(s, S), row)
  <2>1. h \in Seq(AllItems) /\ l \in Seq(AllItems) /\ Len(l) = Capacity /\ s = h \o l
    BY <1>0, <1>2, SplitAtEnd
  <2>2. OneEach(l)
    BY <1>0, LastOfOneEach
  <2> HIDE DEF h, l
  <2>3. wl \in Seq(AllItems) /\ wh \in Seq(AllItems) /\ Len(wl) >= Capacity - 1
    <3>1. Len(wl) >= Len(l) - 1
      BY <2>1, <2>2, WithoutKey
    <3> QED BY <2>1, <3>1, WithoutType
  <2>4. Without(s, S) = wh \o wl
    BY <2>1, WithoutConcat
  <2> HIDE DEF S, wh, wl
  <2>5. /\ a \in Seq(AllItems) /\ Len(a) = Len(wl) + 1 /\ a[Len(wl) + 1] = row
        /\ \A i \in 1..Len(wl) : a[i] = wl[i]
    BY <2>3, AppendProperties
  <2> DEFINE c == wh \o wl
  <2>6. /\ c \in Seq(AllItems) /\ Len(c) = Len(wh) + Len(wl)
        /\ \A i \in 1..(Len(wh) + Len(wl)) : c[i] = IF i <= Len(wh) THEN wh[i] ELSE wl[i - Len(wh)]
    BY <2>3, ConcatProperties
  <2>7. b = Append(c, row)
    BY <2>4
  <2> HIDE DEF a, b, c
  <2>8. /\ b \in Seq(AllItems) /\ Len(b) = Len(c) + 1 /\ b[Len(c) + 1] = row
        /\ \A i \in 1..Len(c) : b[i] = c[i]
    BY <2>6, <2>7, AppendProperties
  <2> DEFINE m == Len(wh)
             n == Len(wl)
  <2>9. m \in Nat /\ n \in Nat
    BY <2>3
  <2> HIDE DEF m, n
  <2>10. /\ Len(a) = n + 1 /\ a[n + 1] = row /\ \A i \in 1..n : a[i] = wl[i]
         /\ Len(b) = m + n + 1 /\ b[m + n + 1] = row
         /\ \A i \in 1..(m + n) : b[i] = IF i <= m THEN wh[i] ELSE wl[i - m]
    <3>1. Len(c) = m + n
      BY <2>6 DEF m, n
    <3> QED BY <2>5, <2>6, <2>8, <3>1 DEF m, n
  <2>11. \A i \in 1..(n + 1) : a[i] = b[m + i]
    <3> SUFFICES ASSUME NEW i \in 1..(n + 1) PROVE a[i] = b[m + i]
      OBVIOUS
    <3>1. CASE i = n + 1
      <4>1. m + i = m + n + 1
        BY <2>9, <3>1
      <4> QED BY <2>10, <3>1, <4>1
    <3>2. CASE i # n + 1
      <4>1. i \in 1..n /\ m + i \in 1..(m + n) /\ ~(m + i <= m) /\ (m + i) - m = i
        BY <2>9, <3>2
      <4> QED BY <2>10, <4>1
    <3> QED BY <3>1, <3>2
  <2>12. Len(b) - Len(a) = m /\ Len(a) <= Len(b) /\ Len(a) >= Capacity
    BY <1>0, <2>3, <2>9, <2>10 DEF n
  <2>13. \A i \in 1..Len(a) : a[i] = b[(Len(b) - Len(a)) + i]
    BY <2>10, <2>11, <2>12
  <2>14. LastOf(a, Capacity) = LastOf(b, Capacity)
    BY <1>0, <2>5, <2>8, <2>12, <2>13, LastOfEnd
  <2> QED BY <2>14 DEF PutItem, a, b, S, wl, l
<1> QED BY <1>1, <1>2

\* Memory holds every key once, and what the file gives while nothing went wrong.
InStep ==
    /\ OneEach(items) /\ Len(items) <= Capacity
    /\ opened /\ inStep => ~recentFile.open /\ RecentLoaded = items

LEMMA InStepStep == RecentTyped /\ InStep /\ [RecentNext]_recentVars => InStep'
<1> SUFFICES ASSUME RecentTyped, InStep, [RecentNext]_recentVars PROVE InStep'
  OBVIOUS
<1>0. /\ Junk \notin AllItems /\ recentFile \in FilesOf(AllItems)
      /\ Capacity \in Nat /\ items \in Seq(AllItems) /\ OneEach(items)
  BY RecentAssumption DEF AllItems, RecentTyped, InStep
<1> DEFINE p == Parsed(recentFile)
<1>a. p \in Seq(AllItems) /\ Replayed(p) \in Seq(AllItems) /\ OneEach(Replayed(p))
  <2>1. p \in Seq(AllItems)
    BY RecentLoadedType
  <2> QED BY <2>1, ReplayedType, ReplayedOneEach
<1>b. OneEach(RecentLoaded) /\ Len(RecentLoaded) <= Capacity
  <2> HIDE DEF p
  <2>1. OneEach(LastOf(Replayed(p), Capacity)) /\ Len(LastOf(Replayed(p), Capacity)) <= Capacity
    <3> DEFINE r == Replayed(p)
    <3> HIDE DEF r
    <3>1. r \in Seq(AllItems) /\ OneEach(r) /\ Len(r) \in Nat
      BY <1>a DEF r
    <3>2. OneEach(LastOf(r, Capacity))
      BY <1>0, <3>1, LastOfOneEach
    <3>3. Len(LastOf(r, Capacity)) = IF Len(r) > Capacity THEN Capacity ELSE Len(r)
      BY <1>0, <3>1, LastOfType
    <3>4. Len(LastOf(r, Capacity)) <= Capacity
      BY <1>0, <3>1, <3>3
    <3> QED BY <3>2, <3>4 DEF r
  <2> QED BY <2>1 DEF RecentLoaded, p
<1>c. ASSUME NEW row \in AllItems
      PROVE  Kept(row) \in Seq(AllItems) /\ OneEach(Kept(row)) /\ Len(Kept(row)) <= Capacity
  <2>1. PutItem(items, row) \in Seq(AllItems) /\ OneEach(PutItem(items, row))
    BY <1>0, PutItemType, PutItemOneEach
  <2>2. OneEach(Kept(row))
    BY <1>0, <2>1, LastOfOneEach DEF Kept
  <2> QED BY <2>2, KeptType
<1>d. OneEach(<<>>) /\ Len(<<>>) <= Capacity
  BY <1>0 DEF OneEach
<1>1. ASSUME OpenRecent PROVE InStep'
  <2>1. items' = RecentLoaded /\ inStep' = ~recentFile.open /\ recentFile' = recentFile
    BY <1>1 DEF OpenRecent
  <2>2. RecentLoaded' = RecentLoaded
    BY <2>1 DEF RecentLoaded
  <2> QED BY <1>b, <2>1, <2>2 DEF InStep
<1>2. ASSUME CloseRecent PROVE InStep'
  BY <1>2, <1>d DEF CloseRecent, Ended, InStep
<1>3. ASSUME NEW row \in AllItems, AddItem(row) PROVE InStep'
  <2>0. Kept(row) \in Seq(AllItems) /\ OneEach(Kept(row)) /\ Len(Kept(row)) <= Capacity
    BY <1>c
  <2>1. ASSUME NEW extent \in Extents, AppendItem(row, extent) PROVE InStep'
    <3>1. /\ opened /\ items' = Kept(row) /\ recentFile' = Written(recentFile, row, extent)
          /\ inStep' = (inStep /\ extent = "all")
      BY <1>3, <2>1 DEF AddItem, AppendItem
    <3>2. CASE inStep /\ extent = "all"
      <4>1. ~recentFile.open /\ LastOf(Replayed(p), Capacity) = items
        BY <3>1, <3>2 DEF InStep, RecentLoaded
      <4>2. Parsed(recentFile') = Append(p, row)
        BY <1>0, <3>1, <3>2, <4>1, ParsedAppend
      <4>3. ~recentFile'.open
        BY <3>1, <3>2, <4>1 DEF Written
      <4> HIDE DEF p
      <4>4. Replayed(Append(p, row)) = PutItem(Replayed(p), row)
        BY <1>a, ReplayedAppend
      <4>5. LastOf(PutItem(items, row), Capacity) = LastOf(PutItem(Replayed(p), row), Capacity)
        BY <1>a, <4>1, TrimmedPut
      <4>6. RecentLoaded' = Kept(row)
        BY <4>2, <4>4, <4>5 DEF RecentLoaded, Kept
      <4> QED BY <2>0, <3>1, <4>3, <4>6 DEF InStep
    <3>3. CASE ~(inStep /\ extent = "all")
      BY <2>0, <3>1, <3>3 DEF InStep
    <3> QED BY <3>2, <3>3
  <2>2. ASSUME NEW succeeds \in BOOLEAN, Compact(row, succeeds) PROVE InStep'
    <3>1. /\ items' = Kept(row) /\ inStep' = succeeds
          /\ succeeds => recentFile' = Replaced(Kept(row))
      BY <2>2 DEF Compact
    <3> DEFINE kept == Kept(row)
    <3> HIDE DEF kept
    <3>2. kept \in Seq(AllItems) /\ OneEach(kept) /\ Len(kept) <= Capacity
      BY <2>0 DEF kept
    <3>3. Parsed(Replaced(kept)) = kept /\ ~Replaced(kept).open
      BY <1>0, <3>2, ParsedReplaced
    <3>4. LastOf(Replayed(kept), Capacity) = kept
      <4>1. Replayed(kept) = kept
        BY <3>2, ReplayedOneEach
      <4> QED BY <1>0, <3>2, <4>1, LastOfShort
    <3>5. succeeds => ~recentFile'.open /\ RecentLoaded' = kept
      BY <3>1, <3>3, <3>4 DEF RecentLoaded, kept
    <3> QED BY <3>1, <3>2, <3>5 DEF InStep, kept
  <2> QED BY <1>3, <2>1, <2>2 DEF AddItem
<1>4. ASSUME NEW row \in AllItems, NEW extent \in Extents, DieAdding(row, extent) PROVE InStep'
  BY <1>4, <1>d DEF DieAdding, Ended, InStep
<1>5. CASE UNCHANGED recentVars
  BY <1>5 DEF recentVars, InStep, RecentLoaded
<1>6. \A k \in ItemKeys, v \in Outputs : [key |-> k, output |-> v] \in AllItems
  BY DEF AllItems, ItemsOf
<1> QED BY <1>1, <1>2, <1>3, <1>4, <1>5, <1>6 DEF RecentNext

\* RecentReloads: after any additions and compactions, a restart gives exactly the
\* items in memory, in their order, as long as every write succeeded: one trim
\* after the file is replayed is as good as a trim at each addition
\* (ExemplarStore.__init__, add).
THEOREM RestartKeepsItems == RecentSpec => []RecentReloads
<1>1. RecentInit => InStep
  <2> SUFFICES ASSUME RecentInit PROVE InStep
    OBVIOUS
  <2>1. OneEach(<<>>) /\ Len(<<>>) <= Capacity
    BY RecentAssumption DEF OneEach
  <2> QED BY <2>1 DEF RecentInit, InStep
<1>2. InStep => RecentReloads
  BY DEF InStep, RecentReloads
<1> QED BY <1>1, <1>2, RecentInvariant, InStepStep, PTL DEF RecentSpec
=============================================================================
