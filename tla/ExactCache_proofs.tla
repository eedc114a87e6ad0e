-------------------------- MODULE ExactCache_proofs --------------------------
(***************************************************************************)
(* The exact-match cache for any keys, values, capacity and time to live:  *)
(* its bound, what it may forget, and that it is a lossy map.              *)
(***************************************************************************)
EXTENDS ExactCache, Iteration, SequenceTheorems

\* Somewhere in s, b is behind a: b was used after a was.
Behind(s, a, b) ==
    \E i, j \in 1..Len(s) : i < j /\ s[i] = a /\ s[j] = b

\* Every key is at one place at most.
Ordered == order \in Seq(Keys) /\ IsInjective(order)

\* The cache never holds more than max_entries.
Bounded == Len(order) <= MaxEntries

\* The entry of a key is the last put.
Stamps ==
    /\ entry \in [Keys -> Entries \cup {Nothing}] /\ latest = entry
    /\ \A k \in Keys : Contains(order, k) => entry[k] \in Entries
    /\ now \in 0..MaxTime

\* What was used since a key was: at least what is behind it, and since a key was
\* evicted as many as the cache holds.
Used ==
    /\ since \in [Keys -> SUBSET Keys]
    /\ \A k \in Keys : IsFiniteSet(since[k])
    /\ \A j, k \in Keys : Behind(order, k, j) => j \in since[k]
    /\ \A k \in Keys :
         latest[k] # Nothing /\ latest[k].expires > now /\ ~Contains(order, k)
           => Cardinality(since[k]) >= MaxEntries

CacheInv == Ordered /\ Bounded /\ Stamps /\ Used
-----------------------------------------------------------------------------
\* Sequences of keys.

\* Every set of naturals that is not empty has a least element.
LEMMA LeastNatural ==
    ASSUME NEW S \in SUBSET Nat, S # {}
    PROVE  Min(S) \in S /\ \A n \in S : Min(S) <= n
  BY LeastNumber DEF Min

\* RemoveFirst takes out one place.
LEMMA RemovedFirst ==
    ASSUME NEW s \in Seq(Keys), NEW k, Contains(s, k)
    PROVE  \E i \in 1..Len(s) :
             /\ s[i] = k
             /\ RemoveFirst(s, k) \in Seq(Keys)
             /\ Len(RemoveFirst(s, k)) = Len(s) - 1
             /\ \A j \in 1..(Len(s) - 1) :
                  RemoveFirst(s, k)[j] = IF j < i THEN s[j] ELSE s[j + 1]
<1> DEFINE I == {n \in 1..Len(s) : s[n] = k}
           i == Min(I)
<1>1. i \in 1..Len(s) /\ s[i] = k
  <2>1. I # {} /\ I \subseteq Nat
    BY DEF Contains
  <2>2. i \in I
    BY <2>1, LeastNatural
  <2> QED BY <2>2
<1> DEFINE before == SubSeq(s, 1, i - 1)
           behind == SubSeq(s, i + 1, Len(s))
<1>2. RemoveFirst(s, k) = before \o behind
  BY <1>1 DEF RemoveFirst, RemoveAt, SelectInSeq, Contains
<1> HIDE DEF i
<1>3. /\ before \in Seq(Keys) /\ Len(before) = i - 1
      /\ \A j \in 1..(i - 1) : before[j] = s[j]
  BY <1>1, SubSeqProperties
<1>4. /\ behind \in Seq(Keys) /\ Len(behind) = Len(s) - i
      /\ \A j \in 1..(Len(s) - i) : behind[j] = s[i + j]
  BY <1>1, SubSeqProperties
<1> HIDE DEF before, behind
<1>5. /\ before \o behind \in Seq(Keys) /\ Len(before \o behind) = Len(s) - 1
  BY <1>1, <1>3, <1>4
<1> DEFINE both == before \o behind
<1>6. \A j \in 1..(i - 1) : both[j] = s[j]
  BY <1>1, <1>3, <1>4
<1>7. \A j \in i..(Len(s) - 1) : both[j] = s[j + 1]
  <2> SUFFICES ASSUME NEW j \in i..(Len(s) - 1)
               PROVE  both[j] = s[j + 1]
    OBVIOUS
  <2>1. both[j] = behind[j - (i - 1)]
    BY <1>1, <1>3, <1>4
  <2>2. j - (i - 1) \in 1..(Len(s) - i)
    BY <1>1
  <2>3. behind[j - (i - 1)] = s[i + (j - (i - 1))] /\ i + (j - (i - 1)) = j + 1
    BY <1>1, <1>4, <2>2
  <2> QED BY <2>1, <2>3
<1> HIDE DEF both
<1>8. \A j \in 1..(Len(s) - 1) : both[j] = IF j < i THEN s[j] ELSE s[j + 1]
  BY <1>1, <1>6, <1>7
<1> QED BY <1>1, <1>2, <1>5, <1>8 DEF both

\* Taking a key out keeps the rest, in its order.
LEMMA RemovedKeeps ==
    ASSUME NEW s \in Seq(Keys), IsInjective(s), NEW k, Contains(s, k)
    PROVE  /\ RemoveFirst(s, k) \in Seq(Keys)
           /\ Len(RemoveFirst(s, k)) = Len(s) - 1
           /\ \A a : Contains(RemoveFirst(s, k), a) <=> Contains(s, a) /\ a # k
           /\ \A a, b : Behind(RemoveFirst(s, k), a, b) => Behind(s, a, b)
           /\ IsInjective(RemoveFirst(s, k))
<1> DEFINE r == RemoveFirst(s, k)
           up(i, j) == IF j < i THEN j ELSE j + 1
<1>1. PICK i \in 1..Len(s) :
        /\ s[i] = k /\ r \in Seq(Keys) /\ Len(r) = Len(s) - 1
        /\ \A j \in 1..(Len(s) - 1) : r[j] = IF j < i THEN s[j] ELSE s[j + 1]
  BY RemovedFirst
<1> HIDE DEF r
<1>2. \A j \in 1..Len(r) : up(i, j) \in 1..Len(s) /\ up(i, j) # i /\ r[j] = s[up(i, j)]
  BY <1>1
<1>3. \A j, n \in 1..Len(r) : j < n => up(i, j) < up(i, n)
  BY <1>1
<1>4. \A n \in 1..Len(s) : n # i => \E j \in 1..Len(r) : up(i, j) = n
  <2> SUFFICES ASSUME NEW n \in 1..Len(s), n # i
               PROVE  \E j \in 1..Len(r) : up(i, j) = n
    OBVIOUS
  <2>1. CASE n < i
    <3>1. n \in 1..Len(r) /\ up(i, n) = n
      BY <1>1, <2>1
    <3> QED BY <3>1
  <2>2. CASE n > i
    <3>1. n - 1 \in 1..Len(r) /\ up(i, n - 1) = n
      BY <1>1, <2>2
    <3> QED BY <3>1
  <2> QED BY <1>1, <2>1, <2>2
<1>5. \A n \in 1..Len(s) : s[n] = k => n = i
  BY <1>1 DEF IsInjective
<1> HIDE DEF up
<1>6. \A a : Contains(r, a) <=> Contains(s, a) /\ a # k
  <2> SUFFICES ASSUME NEW a PROVE Contains(r, a) <=> Contains(s, a) /\ a # k
    OBVIOUS
  <2>1. ASSUME Contains(r, a) PROVE Contains(s, a) /\ a # k
    <3>1. PICK j \in 1..Len(r) : r[j] = a
      BY <2>1 DEF Contains
    <3>2. up(i, j) \in 1..Len(s) /\ up(i, j) # i /\ s[up(i, j)] = a
      BY <1>2, <3>1
    <3> QED BY <1>5, <3>2 DEF Contains
  <2>2. ASSUME Contains(s, a), a # k PROVE Contains(r, a)
    <3>1. PICK n \in 1..Len(s) : s[n] = a
      BY <2>2 DEF Contains
    <3>2. PICK j \in 1..Len(r) : up(i, j) = n
      BY <1>1, <1>4, <2>2, <3>1
    <3> QED BY <1>2, <3>1, <3>2 DEF Contains
  <2> QED BY <2>1, <2>2
<1>7. \A a, b : Behind(r, a, b) => Behind(s, a, b)
  BY <1>2, <1>3 DEF Behind
<1>8. IsInjective(r)
  <2> SUFFICES ASSUME NEW j \in 1..Len(r), NEW n \in 1..Len(r), r[j] = r[n]
               PROVE  j = n
    BY <1>1 DEF IsInjective
  <2>1. up(i, j) = up(i, n)
    BY <1>2 DEF IsInjective
  <2> QED BY <1>1, <1>2, <1>3, <2>1
<1> QED BY <1>1, <1>6, <1>7, <1>8 DEF r

\* Appending a key puts it behind all others.
LEMMA AppendedKeeps ==
    ASSUME NEW s \in Seq(Keys), IsInjective(s), NEW k \in Keys, ~Contains(s, k)
    PROVE  /\ Append(s, k) \in Seq(Keys) /\ Len(Append(s, k)) = Len(s) + 1
           /\ \A a : Contains(Append(s, k), a) <=> Contains(s, a) \/ a = k
           /\ \A a, b : Behind(Append(s, k), a, b) =>
                          Behind(s, a, b) \/ (Contains(s, a) /\ b = k)
           /\ IsInjective(Append(s, k))
<1> DEFINE t == Append(s, k)
<1>1. /\ t \in Seq(Keys) /\ Len(t) = Len(s) + 1 /\ t[Len(t)] = k
      /\ \A i \in 1..Len(s) : t[i] = s[i]
  BY AppendProperties
<1> HIDE DEF t
<1>2. \A i \in 1..Len(t) : (i \in 1..Len(s) /\ t[i] = s[i]) \/ (i = Len(t) /\ t[i] = k)
  BY <1>1
<1>3. 1..Len(s) \subseteq 1..Len(t) /\ Len(t) \in 1..Len(t)
  BY <1>1
<1>4. \A a : Contains(t, a) <=> Contains(s, a) \/ a = k
  BY <1>1, <1>2, <1>3 DEF Contains
<1>5. \A a, b : Behind(t, a, b) => Behind(s, a, b) \/ (Contains(s, a) /\ b = k)
  <2> SUFFICES ASSUME NEW i \in 1..Len(t), NEW j \in 1..Len(t), i < j
               PROVE  \/ Behind(s, t[i], t[j])
                      \/ Contains(s, t[i]) /\ t[j] = k
    BY DEF Behind
  <2>1. i \in 1..Len(s) /\ t[i] = s[i]
    BY <1>1
  <2> QED BY <1>2, <2>1 DEF Behind, Contains
<1>6. IsInjective(t)
  BY <1>1, <1>2 DEF IsInjective, Contains
<1> QED BY <1>1, <1>4, <1>5, <1>6 DEF t

\* A key that is used moves behind the others, which keep their order.
LEMMA MovedToEnd ==
    ASSUME Ordered, NEW k \in Keys
    PROVE  /\ MoveToEnd(k) \in Seq(Keys) /\ IsInjective(MoveToEnd(k))
           /\ Len(MoveToEnd(k)) = IF Contains(order, k) THEN Len(order) ELSE Len(order) + 1
           /\ \A a : Contains(MoveToEnd(k), a) <=> Contains(order, a) \/ a = k
           /\ \A a, b : Behind(MoveToEnd(k), a, b) =>
                          a # k /\ (Behind(order, a, b) \/ b = k)
<1> DEFINE r == RemoveFirst(order, k)
<1>1. /\ r \in Seq(Keys) /\ IsInjective(r)
      /\ Len(r) = IF Contains(order, k) THEN Len(order) - 1 ELSE Len(order)
      /\ \A a : Contains(r, a) <=> Contains(order, a) /\ a # k
      /\ \A a, b : Behind(r, a, b) => Behind(order, a, b)
  <2>1. CASE Contains(order, k)
    BY <2>1, RemovedKeeps DEF Ordered
  <2>2. CASE ~Contains(order, k)
    BY <2>2 DEF Ordered, RemoveFirst, Contains
  <2> QED BY <2>1, <2>2
<1> HIDE DEF r
<1>2. ~Contains(r, k) /\ \A a, b : Behind(r, a, b) => Contains(r, a)
  BY <1>1 DEF Behind, Contains
<1>3. MoveToEnd(k) = Append(r, k)
  BY DEF MoveToEnd, r
<1> QED BY <1>1, <1>2, <1>3, AppendedKeeps DEF Ordered

\* What is evicted has as many keys behind it as the cache holds.
LEMMA EvictedKeeps ==
    ASSUME NEW s \in Seq(Keys), IsInjective(s)
    PROVE  /\ Evicted(s) \in Seq(Keys) /\ IsInjective(Evicted(s))
           /\ Len(Evicted(s)) <= MaxEntries
           /\ \A a : Contains(Evicted(s), a) => Contains(s, a)
           /\ \A a, b : Behind(Evicted(s), a, b) => Behind(s, a, b)
           /\ \A a \in Keys, S \in SUBSET Keys :
                /\ Contains(s, a) /\ ~Contains(Evicted(s), a)
                /\ IsFiniteSet(S) /\ \A b \in Keys : Behind(s, a, b) => b \in S
                => Cardinality(S) >= MaxEntries
<1> DEFINE d == IF Len(s) < MaxEntries THEN 0 ELSE Len(s) - MaxEntries
           e == Evicted(s)
<1>1. d \in Nat /\ d <= Len(s) /\ Len(s) - d <= MaxEntries /\ (d > 0 => Len(s) - d = MaxEntries)
  BY CacheAssumption
<1>2. e = SubSeq(s, d + 1, Len(s))
  <2>1. Len(s) - (IF Len(s) < MaxEntries THEN Len(s) ELSE MaxEntries) + 1 = d + 1
    BY CacheAssumption
  <2> QED BY <2>1 DEF Evicted
<1> HIDE DEF d
<1>3. /\ e \in Seq(Keys) /\ Len(e) = Len(s) - d
      /\ \A i \in 1..(Len(s) - d) : e[i] = s[d + i]
  BY <1>1, <1>2, SubSeqProperties
<1> HIDE DEF e
<1>4. \A i \in 1..Len(e) : d + i \in 1..Len(s) /\ e[i] = s[d + i]
  BY <1>1, <1>3
<1>5. \A a : Contains(e, a) => Contains(s, a)
  BY <1>4 DEF Contains
<1>6. \A a, b : Behind(e, a, b) => Behind(s, a, b)
  BY <1>1, <1>3, <1>4 DEF Behind
<1>7. IsInjective(e)
  <2> SUFFICES ASSUME NEW i \in 1..Len(e), NEW j \in 1..Len(e), e[i] = e[j]
               PROVE  i = j
    BY <1>3 DEF IsInjective
  <2>1. d + i = d + j
    BY <1>4 DEF IsInjective
  <2> QED BY <1>1, <2>1
<1>8. ASSUME NEW a \in Keys, NEW S \in SUBSET Keys, Contains(s, a), ~Contains(e, a),
             IsFiniteSet(S), \A b \in Keys : Behind(s, a, b) => b \in S
      PROVE  Cardinality(S) >= MaxEntries
  <2>1. PICK i \in 1..Len(s) : s[i] = a
    BY <1>8 DEF Contains
  <2>2. i <= d
    <3> SUFFICES ASSUME i > d PROVE FALSE
      BY <1>1
    <3>1. i - d \in 1..Len(e) /\ d + (i - d) = i
      BY <1>1, <1>3
    <3> QED BY <1>4, <1>8, <2>1, <3>1 DEF Contains
  <2>3. Len(e) = MaxEntries
    BY <1>1, <1>3, <2>2
  <2>4. \A j \in 1..Len(e) : e[j] \in S
    <3> SUFFICES ASSUME NEW j \in 1..Len(e) PROVE e[j] \in S
      OBVIOUS
    <3>1. d + j \in 1..Len(s) /\ i < d + j /\ e[j] = s[d + j] /\ e[j] \in Keys
      BY <1>1, <1>3, <1>4, <2>2
    <3> QED BY <1>8, <2>1, <3>1 DEF Behind
  <2>5. e \in Injection(1..Len(e), S)
    BY <1>3, <1>7, <2>4 DEF Injection
  <2>6. Cardinality(1..Len(e)) <= Cardinality(S) /\ Cardinality(S) \in Nat
    BY <1>8, <2>5, FS_Injection, FS_CardinalityType
  <2>7. Cardinality(1..Len(e)) = Len(e)
    BY <1>3, FS_Interval
  <2> QED BY <2>3, <2>6, <2>7, CacheAssumption
<1> QED BY <1>1, <1>3, <1>5, <1>6, <1>7, <1>8 DEF e
-----------------------------------------------------------------------------
\* The invariant of the cache.

LEMMA CacheInit == Init => CacheInv
<1> SUFFICES ASSUME Init PROVE CacheInv
  OBVIOUS
<1>1. order = <<>> /\ Len(order) = 0 /\ order \in Seq(Keys)
  BY DEF Init
<1>2. (\A a : ~Contains(order, a)) /\ (\A a, b : ~Behind(order, a, b)) /\ IsInjective(order)
  BY <1>1 DEF Contains, Behind, IsInjective
<1>3. Ordered /\ Bounded
  BY <1>1, <1>2, CacheAssumption DEF Ordered, Bounded
<1>4. Stamps
  BY <1>2, CacheAssumption DEF Init, Stamps
<1>5. Used
  <2>1. since \in [Keys -> SUBSET Keys] /\ \A k \in Keys : since[k] = {} /\ latest[k] = Nothing
    BY DEF Init
  <2>2. \A k \in Keys : IsFiniteSet(since[k])
    BY <2>1, FS_EmptySet
  <2> QED BY <1>2, <2>1, <2>2 DEF Used
<1> QED BY <1>3, <1>4, <1>5 DEF CacheInv

\* A key that is used is one that was used since any other key was.
LEMMA UsesCount ==
    ASSUME Used, NEW k \in Keys, Uses(k)
    PROVE  /\ since' \in [Keys -> SUBSET Keys]
           /\ \A j \in Keys : IsFiniteSet(since'[j])
           /\ since'[k] = {}
           /\ \A j \in Keys \ {k} :
                /\ since'[j] = since[j] \cup {k}
                /\ Cardinality(since[j]) >= MaxEntries
                     => Cardinality(since'[j]) >= MaxEntries
<1>1. /\ since' \in [Keys -> SUBSET Keys] /\ since'[k] = {}
      /\ \A j \in Keys \ {k} : since'[j] = since[j] \cup {k}
  BY DEF Used, Uses
<1>2. ASSUME NEW j \in Keys \ {k}
      PROVE  /\ IsFiniteSet(since'[j])
             /\ Cardinality(since[j]) >= MaxEntries => Cardinality(since'[j]) >= MaxEntries
  <2>1. IsFiniteSet(since[j]) /\ IsFiniteSet(since'[j])
    <3>1. IsFiniteSet(since[j])
      BY DEF Used
    <3>2. IsFiniteSet(since[j] \cup {k})
      BY <3>1, FS_AddElement
    <3> QED BY <1>1, <3>1, <3>2
  <2>2. Cardinality(since[j]) <= Cardinality(since'[j])
    BY <1>1, <2>1, FS_Subset
  <2>3. Cardinality(since[j]) \in Nat /\ Cardinality(since'[j]) \in Nat
    BY <2>1, FS_CardinalityType
  <2> QED BY <2>1, <2>2, <2>3, CacheAssumption
<1>3. IsFiniteSet(since'[k])
  BY <1>1, FS_EmptySet
<1> QED BY <1>1, <1>2, <1>3

LEMMA ExpireKeeps ==
    ASSUME CacheInv, NEW k \in Keys, Expire(k)
    PROVE  CacheInv'
<1>1. /\ Contains(order, k) /\ order' = RemoveFirst(order, k) /\ entry[k].expires <= now
      /\ entry' = entry /\ now' = now /\ latest' = latest /\ since' = since
  BY DEF Expire
<1>2. /\ order' \in Seq(Keys) /\ IsInjective(order') /\ Len(order') = Len(order) - 1
      /\ \A a : Contains(order', a) <=> Contains(order, a) /\ a # k
      /\ \A a, b : Behind(order', a, b) => Behind(order, a, b)
  BY <1>1, RemovedKeeps DEF CacheInv, Ordered
<1>3. Ordered' /\ Bounded'
  BY <1>2, CacheAssumption DEF CacheInv, Ordered, Bounded
<1>4. Stamps'
  BY <1>1, <1>2 DEF CacheInv, Stamps
<1>5. Used'
  <2>1. ~(latest[k].expires > now)
    BY <1>1, CacheAssumption DEF CacheInv, Stamps, Entries
  <2> QED BY <1>1, <1>2, <2>1 DEF CacheInv, Used
<1> QED BY <1>3, <1>4, <1>5 DEF CacheInv

LEMMA HitKeeps ==
    ASSUME CacheInv, NEW k \in Keys, Hit(k)
    PROVE  CacheInv'
<1>1. /\ Contains(order, k) /\ order' = MoveToEnd(k)
      /\ entry' = entry /\ now' = now /\ latest' = latest /\ Uses(k)
  BY DEF Hit
<1>2. /\ order' \in Seq(Keys) /\ IsInjective(order') /\ Len(order') = Len(order)
      /\ \A a : Contains(order', a) <=> Contains(order, a)
      /\ \A a, b : Behind(order', a, b) => a # k /\ (Behind(order, a, b) \/ b = k)
  BY <1>1, MovedToEnd DEF CacheInv
<1>3. Ordered' /\ Bounded'
  BY <1>2 DEF CacheInv, Ordered, Bounded
<1>4. Stamps'
  BY <1>1, <1>2 DEF CacheInv, Stamps
<1>5. /\ since' \in [Keys -> SUBSET Keys]
      /\ \A j \in Keys : IsFiniteSet(since'[j])
      /\ \A j \in Keys \ {k} :
           /\ since'[j] = since[j] \cup {k}
           /\ Cardinality(since[j]) >= MaxEntries => Cardinality(since'[j]) >= MaxEntries
  BY <1>1, UsesCount DEF CacheInv
<1>6. \A j, a \in Keys : Behind(order', a, j) => j \in since'[a]
  BY <1>2, <1>5 DEF CacheInv, Used
<1>7. \A a \in Keys :
        latest'[a] # Nothing /\ latest'[a].expires > now' /\ ~Contains(order', a)
          => Cardinality(since'[a]) >= MaxEntries
  BY <1>1, <1>2, <1>5 DEF CacheInv, Used
<1> QED BY <1>3, <1>4, <1>5, <1>6, <1>7 DEF CacheInv, Used

LEMMA PutKeeps ==
    ASSUME CacheInv, NEW k \in Keys, NEW v \in Values, Put(k, v)
    PROVE  CacheInv'
<1> DEFINE moved == MoveToEnd(k)
<1>1. /\ order' = Evicted(moved) /\ now' = now /\ Uses(k)
      /\ entry' = [entry EXCEPT ![k] = [value |-> v, expires |-> now + TTL]]
      /\ latest' = [latest EXCEPT ![k] = [value |-> v, expires |-> now + TTL]]
  BY DEF Put, Stamped
<1>2. /\ moved \in Seq(Keys) /\ IsInjective(moved)
      /\ \A a : Contains(moved, a) <=> Contains(order, a) \/ a = k
      /\ \A a, b : Behind(moved, a, b) => a # k /\ (Behind(order, a, b) \/ b = k)
  BY MovedToEnd DEF CacheInv
<1> HIDE DEF moved
<1>3. /\ order' \in Seq(Keys) /\ IsInjective(order') /\ Len(order') <= MaxEntries
      /\ \A a : Contains(order', a) => Contains(moved, a)
      /\ \A a, b : Behind(order', a, b) => Behind(moved, a, b)
      /\ \A a \in Keys, S \in SUBSET Keys :
           /\ Contains(moved, a) /\ ~Contains(order', a)
           /\ IsFiniteSet(S) /\ \A b \in Keys : Behind(moved, a, b) => b \in S
           => Cardinality(S) >= MaxEntries
  BY <1>1, <1>2, EvictedKeeps
<1>4. Ordered' /\ Bounded'
  BY <1>3 DEF Ordered, Bounded
<1>5. Stamps'
  <2>1. [value |-> v, expires |-> now + TTL] \in Entries
    BY CacheAssumption DEF CacheInv, Stamps, Entries
  <2>2. /\ entry' \in [Keys -> Entries \cup {Nothing}] /\ latest' = entry'
        /\ entry'[k] \in Entries /\ \A a \in Keys \ {k} : entry'[a] = entry[a]
    BY <1>1, <2>1 DEF CacheInv, Stamps
  <2>3. \A a \in Keys : Contains(order', a) => Contains(order, a) \/ a = k
    BY <1>2, <1>3
  <2> QED BY <1>1, <2>2, <2>3 DEF CacheInv, Stamps
<1>6. /\ since' \in [Keys -> SUBSET Keys]
      /\ \A j \in Keys : IsFiniteSet(since'[j])
      /\ \A j \in Keys \ {k} :
           /\ since'[j] = since[j] \cup {k}
           /\ Cardinality(since[j]) >= MaxEntries => Cardinality(since'[j]) >= MaxEntries
  BY <1>1, UsesCount DEF CacheInv
<1>7. \A j, a \in Keys : Behind(moved, a, j) => j \in since'[a]
  BY <1>2, <1>6 DEF CacheInv, Used
<1>8. \A j, a \in Keys : Behind(order', a, j) => j \in since'[a]
  BY <1>3, <1>7
<1>9. ASSUME NEW a \in Keys, latest'[a] # Nothing, latest'[a].expires > now', ~Contains(order', a)
      PROVE  Cardinality(since'[a]) >= MaxEntries
  <2>1. CASE Contains(moved, a)
    BY <1>3, <1>6, <1>7, <1>9, <2>1
  <2>2. CASE ~Contains(moved, a)
    <3>1. a # k /\ ~Contains(order, a)
      BY <1>2, <2>2
    <3>2. latest'[a] = latest[a]
      BY <1>1, <3>1 DEF CacheInv, Stamps
    <3> QED BY <1>1, <1>6, <1>9, <3>1, <3>2 DEF CacheInv, Used
  <2> QED BY <2>1, <2>2
<1> QED BY <1>4, <1>5, <1>6, <1>8, <1>9 DEF CacheInv, Used

LEMMA TickKeeps ==
    ASSUME CacheInv, Tick
    PROVE  CacheInv'
<1>1. /\ now < MaxTime /\ now' = now + 1 /\ order' = order /\ entry' = entry
      /\ latest' = latest /\ since' = since
  BY DEF Tick
<1>2. now \in Nat /\ now' \in 0..MaxTime /\ \A k \in Keys : latest[k] \in Entries \cup {Nothing}
  BY <1>1, CacheAssumption DEF CacheInv, Stamps
<1>3. \A k \in Keys : latest[k] # Nothing /\ latest[k].expires > now' => latest[k].expires > now
  BY <1>1, <1>2 DEF Entries
<1> QED BY <1>1, <1>2, <1>3 DEF CacheInv, Ordered, Bounded, Stamps, Used

LEMMA CacheStep == CacheInv /\ [Next]_cacheVars => CacheInv'
<1> SUFFICES ASSUME CacheInv, [Next]_cacheVars PROVE CacheInv'
  OBVIOUS
<1>1. ASSUME NEW k \in Keys, Expire(k) PROVE CacheInv'
  BY <1>1, ExpireKeeps
<1>2. ASSUME NEW k \in Keys, Hit(k) PROVE CacheInv'
  BY <1>2, HitKeeps
<1>3. ASSUME NEW k \in Keys, NEW v \in Values, Put(k, v) PROVE CacheInv'
  BY <1>3, PutKeeps
<1>4. ASSUME Tick PROVE CacheInv'
  BY <1>4, TickKeeps
<1>5. CASE UNCHANGED cacheVars
  BY <1>5 DEF cacheVars, CacheInv, Ordered, Bounded, Stamps, Used
<1> QED BY <1>1, <1>2, <1>3, <1>4, <1>5 DEF Next

LEMMA CacheInvariant == Spec => []CacheInv
  BY CacheInit, CacheStep, PTL DEF Spec

\* TypeOK: the keys in order are distinct and no more than max_entries, for any
\* capacity, zero included, and every entry has a value and an expiry (_entries and
\* put, cache/exact.py:83-85).
THEOREM CacheTypeCorrect == Spec => []TypeOK
<1>1. CacheInv => TypeOK
  BY DEF CacheInv, Ordered, Bounded, Stamps, Used, TypeOK
<1> QED BY <1>1, CacheInvariant, PTL

\* KeptWhileRecent: an answer is forgotten before it expires only when as many
\* other keys as the cache holds were used since it was (get, put).
THEOREM RecentAreKept == Spec => []KeptWhileRecent
<1>1. CacheInv => KeptWhileRecent
  BY DEF CacheInv, Stamps, Used, KeptWhileRecent, Live
<1> QED BY <1>1, CacheInvariant, PTL

-----------------------------------------------------------------------------
\* The cache implements a lossy map.

LEMMA CacheStartsEmpty == Init => Interface!Init
<1> SUFFICES ASSUME Init PROVE Interface!Init
  OBVIOUS
<1>1. \A k \in Keys : ~Live(k) /\ latest[k] = Nothing
  BY DEF Init, Live, Contains
<1> QED BY <1>1 DEF Interface!Init

\* A step that puts nothing, and makes no key live that was not, may only lose.
LEMMA OnlyLoses ==
    ASSUME CacheInv, latest' = latest, entry' = entry,
           \A a \in Keys : Live(a)' => Live(a)
    PROVE  Interface!Lose
<1> DEFINE last == [k \in Keys |-> IF latest[k] = Nothing THEN Nothing ELSE latest[k].value]
           held == [k \in Keys |-> IF Live(k) THEN entry[k].value ELSE Nothing]
           lost == {a \in Keys : ~Live(a)'}
<1>1. last' = last
  OBVIOUS
<1>2. held' = Interface!Losing(lost, held)
  BY DEF Interface!Losing
<1>3. lost \in SUBSET Keys
  OBVIOUS
<1> QED BY <1>1, <1>2, <1>3 DEF Interface!Lose

LEMMA PutReplaces ==
    ASSUME CacheInv, NEW k \in Keys, NEW v \in Values, Put(k, v)
    PROVE  Interface!Put
<1> DEFINE last == [a \in Keys |-> IF latest[a] = Nothing THEN Nothing ELSE latest[a].value]
           held == [a \in Keys |-> IF Live(a) THEN entry[a].value ELSE Nothing]
           lost == {a \in Keys : ~Live(a)'}
<1>1. /\ order' = Evicted(MoveToEnd(k)) /\ now' = now
      /\ entry' = [entry EXCEPT ![k] = [value |-> v, expires |-> now + TTL]]
      /\ latest' = [latest EXCEPT ![k] = [value |-> v, expires |-> now + TTL]]
  BY DEF Put, Stamped
<1>2. /\ entry \in [Keys -> Entries \cup {Nothing}] /\ latest = entry
  BY DEF CacheInv, Stamps
<1>3. /\ latest'[k].value = v /\ entry'[k].value = v /\ latest'[k] # Nothing
      /\ \A a \in Keys \ {k} : latest'[a] = latest[a] /\ entry'[a] = entry[a]
  <2>1. [value |-> v, expires |-> now + TTL] \in Entries
    BY CacheAssumption DEF CacheInv, Stamps, Entries
  <2>2. [value |-> v, expires |-> now + TTL] # Nothing
    BY <2>1, CacheAssumption
  <2> QED BY <1>1, <1>2, <2>2
<1>4. \A a \in Keys \ {k} : Contains(order', a) => Contains(order, a)
  BY <1>1, MovedToEnd, EvictedKeeps DEF CacheInv
<1>5. \A a \in Keys \ {k} : Live(a)' => Live(a)
  BY <1>1, <1>3, <1>4 DEF Live
<1>6. last' = [last EXCEPT ![k] = v]
  BY <1>3
<1>7. held' = Interface!Losing(lost, [held EXCEPT ![k] = v])
  BY <1>3, <1>5 DEF Interface!Losing
<1> QED BY <1>6, <1>7 DEF Interface!Put

\* Expiry, eviction and time only lose entries: each step of the cache is a put, a
\* loss or no step of the map.
LEMMA CacheStepMaps ==
    CacheInv /\ [Next]_cacheVars => [Interface!Next]_(Interface!mapVars)
<1> SUFFICES ASSUME CacheInv, [Next]_cacheVars
             PROVE  Interface!Put \/ Interface!Lose
  BY DEF Interface!Next
<1>1. ASSUME NEW k \in Keys, Expire(k) PROVE Interface!Lose
  <2>1. \A a : Contains(order', a) => Contains(order, a)
    BY <1>1, RemovedKeeps DEF Expire, CacheInv, Ordered
  <2> QED BY <1>1, <2>1, OnlyLoses DEF Expire, Live
<1>2. ASSUME NEW k \in Keys, Hit(k) PROVE Interface!Lose
  <2>1. \A a : Contains(order', a) => Contains(order, a)
    BY <1>2, MovedToEnd DEF Hit, CacheInv
  <2> QED BY <1>2, <2>1, OnlyLoses DEF Hit, Live
<1>3. ASSUME NEW k \in Keys, NEW v \in Values, Put(k, v) PROVE Interface!Put
  BY <1>3, PutReplaces
<1>4. ASSUME Tick PROVE Interface!Lose
  <2>1. \A a \in Keys : Contains(order, a) => entry[a].expires \in Nat
    BY DEF CacheInv, Stamps, Entries
  <2>2. now \in Nat /\ now' = now + 1
    BY <1>4, CacheAssumption DEF CacheInv, Stamps, Tick
  <2> QED BY <1>4, <2>1, <2>2, OnlyLoses DEF Tick, Live
<1>5. CASE UNCHANGED cacheVars
  BY <1>5, OnlyLoses DEF cacheVars, Live
<1> QED BY <1>1, <1>2, <1>3, <1>4, <1>5 DEF Next

\* CacheImplementsLossyMap: a lookup answers the last value put under its key, or
\* nothing (get, put): no other key's, no earlier one, none that expired.
THEOREM CacheIsLossyMap == Spec => CacheImplementsLossyMap
<1>1. Init => Interface!Init
  BY CacheStartsEmpty
<1>2. CacheInv /\ [Next]_cacheVars => [Interface!Next]_(Interface!mapVars)
  BY CacheStepMaps
<1> QED BY <1>1, <1>2, CacheInvariant, PTL DEF Spec, CacheImplementsLossyMap, Interface!Spec
=============================================================================
