--------------------------- MODULE Serving_proofs ---------------------------
(***************************************************************************)
(* The learnt memory in the prompts of any tenants, items, budgets and     *)
(* similarities: whose it is, and what it leaves of the prompt's prefix.   *)
(***************************************************************************)
EXTENDS Serving, Iteration, SequenceTheorems

LEMMA SimilarityIsInt ==
    ASSUME NEW x \in Int, NEW y \in Int
    PROVE  Similarity(x, y) \in Int
  BY ServingAssumption DEF Similarity

\* The items that are found are among those that are searched.
LEMMA LargestOf ==
    ASSUME NEW S, IsFiniteSet(S), S # {}, NEW f \in [S -> Int]
    PROVE  Largest({f[x] : x \in S}) \in Int
<1>1. PICK x \in S : \A y \in S : f[x] >= f[y]
  BY GreatestOver
<1> DEFINE values == {f[y] : y \in S}
<1>2. f[x] \in values /\ \A v \in values : f[x] >= v
  BY <1>1
<1>3. Largest(values) \in values
  BY <1>2 DEF Largest
<1> QED BY <1>3

LEMMA MarginalIsInt ==
    ASSUME NEW i \in Items, NEW m, NEW place \in Places, NEW chosen \in Seq(Items)
    PROVE  Marginal(i, m, place, chosen) \in Int /\ Similarity(i.place, place) \in Int
<1>1. Similarity(i.place, place) \in Int
  BY SimilarityIsInt, ServingAssumption
<1>2. Redundancy(i, chosen) \in Int
  <2>1. CASE chosen = <<>>
    BY <2>1 DEF Redundancy
  <2>2. CASE chosen # <<>>
    <3> DEFINE near == [n \in DOMAIN chosen |-> Similarity(i.place, chosen[n].place)]
    <3>1. DOMAIN chosen = 1..Len(chosen) /\ Len(chosen) \in Nat /\ Len(chosen) # 0
      BY <2>2, EmptySeq
    <3>2. IsFiniteSet(DOMAIN chosen) /\ DOMAIN chosen # {}
      <4>1. IsFiniteSet(1..Len(chosen))
        BY <3>1, FS_Interval
      <4>2. 1 \in 1..Len(chosen)
        BY <3>1
      <4> QED BY <3>1, <4>1, <4>2
    <3>3. near \in [DOMAIN chosen -> Int]
      <4>1. \A n \in DOMAIN chosen : chosen[n].place \in Int
        BY <3>1, ServingAssumption
      <4>2. i.place \in Int
        BY ServingAssumption
      <4> QED BY <4>1, <4>2, SimilarityIsInt
    <3>4. {near[n] : n \in DOMAIN chosen} = {Similarity(i.place, chosen[n].place) : n \in DOMAIN chosen}
      OBVIOUS
    <3> HIDE DEF near
    <3>5. Largest({near[n] : n \in DOMAIN chosen}) \in Int
      BY <3>2, <3>3, LargestOf
    <3> QED BY <2>2, <3>4, <3>5 DEF Redundancy
  <2> QED BY <2>1, <2>2
<1> QED BY <1>1, <1>2 DEF Marginal

LEMMA BestIsThere ==
    ASSUME NEW pool \in SUBSET Items, pool # {}, NEW m, NEW place \in Places,
           NEW chosen \in Seq(Items)
    PROVE  BestOf(pool, m, place, chosen) \in pool
<1> DEFINE score == [i \in pool |-> Marginal(i, m, place, chosen)]
           near == [i \in pool |-> Similarity(i.place, place)]
<1>1. score \in [pool -> Int] /\ near \in [pool -> Int]
  BY MarginalIsInt
<1>2. IsFiniteSet(pool)
  BY FS_Subset, ServingAssumption
<1>3. \A i \in pool : score[i] = Marginal(i, m, place, chosen) /\ near[i] = Similarity(i.place, place)
  OBVIOUS
<1> HIDE DEF score, near
<1>4. PICK x \in pool : \A y \in pool : score[x] >= score[y]
  BY <1>1, <1>2, GreatestOver
<1> DEFINE tops == {i \in pool : score[i] = score[x]}
           nearTop == [i \in tops |-> near[i]]
<1>5. IsFiniteSet(tops) /\ tops # {} /\ nearTop \in [tops -> Int]
  BY <1>1, <1>2, FS_Subset
<1>6. PICK b \in tops : \A y \in tops : nearTop[b] >= nearTop[y]
  <2> HIDE DEF tops, nearTop
  <2> QED BY <1>5, GreatestOver
<1>7. b \in pool /\ \A j \in pool :
        score[b] > score[j] \/ (score[b] = score[j] /\ near[b] >= near[j])
  BY <1>1, <1>4, <1>6
<1> QED BY <1>3, <1>7 DEF BestOf

LEMMA SearchFinds ==
    ASSUME NEW items \in SUBSET Items, NEW m, NEW place \in Places
    PROVE  Search(items, m, place) \in Seq(items)
<1>1. ASSUME NEW c \in Seq(items)
      PROVE  OneMore(c, items, m, place) \in Seq(items)
  <2> DEFINE pool == items \ ToSet(c)
  <2>1. CASE pool = {}
    BY <2>1 DEF OneMore
  <2>2. CASE pool # {}
    <3>1. c \in Seq(Items)
      OBVIOUS
    <3>2. pool \in SUBSET Items /\ pool \subseteq items
      OBVIOUS
    <3> HIDE DEF pool
    <3>3. BestOf(pool, m, place, c) \in items
      BY <2>2, <3>1, <3>2, BestIsThere
    <3>4. Append(c, BestOf(pool, m, place, c)) \in Seq(items)
      BY <3>3, AppendProperties
    <3> QED BY <2>2, <3>4 DEF OneMore, pool
  <2> QED BY <2>1, <2>2
<1> DEFINE step == [n \in 1..TopK |-> [c \in Seq(items) |-> OneMore(c, items, m, place)]]
           chosen[n \in 0..TopK] ==
             IF n = 0 THEN <<>> ELSE OneMore(chosen[n - 1], items, m, place)
<1>2. step \in [1..TopK -> [Seq(items) -> Seq(items)]] /\ <<>> \in Seq(items) /\ TopK \in Nat
  BY <1>1, ServingAssumption
<1>3. \A n \in 1..TopK, c \in Seq(items) : step[n][c] = OneMore(c, items, m, place)
  OBVIOUS
<1> HIDE DEF step
<1>4. PICK f \in [0..TopK -> Seq(items)] :
        Loop(f, TopK, <<>>, step)
  <2> HIDE DEF chosen
  <2> QED BY <1>2, Iterates, Zenon
<1>5. f = [n \in 0..TopK |-> IF n = 0 THEN <<>> ELSE OneMore(f[n - 1], items, m, place)]
  <2>1. \A n \in 0..TopK : n # 0 => n \in 1..TopK /\ f[n - 1] \in Seq(items)
    BY <1>2
  <2> QED BY <1>3, <1>4, <2>1 DEF Loop
<1>6. chosen = [n \in 0..TopK |-> IF n = 0 THEN <<>> ELSE OneMore(chosen[n - 1], items, m, place)]
  BY <1>5
<1> HIDE DEF chosen
<1>7. chosen[0] \in Seq(items)
  BY <1>2, <1>6
<1>8. \A n \in 1..TopK : chosen[n - 1] \in Seq(items) => chosen[n] \in Seq(items)
  <2> SUFFICES ASSUME NEW n \in 1..TopK, chosen[n - 1] \in Seq(items)
               PROVE  chosen[n] \in Seq(items)
    OBVIOUS
  <2>1. n \in 0..TopK /\ n # 0
    BY <1>2
  <2>2. chosen[n] = OneMore(chosen[n - 1], items, m, place)
    BY <1>6, <2>1
  <2> QED BY <1>1, <2>2
<1>9. chosen[TopK] \in Seq(items)
  <2>1. \A n \in 0..TopK : chosen[n] \in Seq(items)
    BY <1>2, <1>7, <1>8, StaysIn, Zenon
  <2> QED BY <1>2, <2>1
<1> QED BY <1>9 DEF Search, chosen

LEMMA ForemostIsThere ==
    ASSUME NEW found \in Seq(Items), NEW left \in SUBSET DOMAIN found, left # {}, NEW m
    PROVE  Foremost(left, found, m) \in left
<1>1. DOMAIN found = 1..Len(found) /\ Len(found) \in Nat
  OBVIOUS
<1>2. IsFiniteSet(left)
  <2>1. IsFiniteSet(1..Len(found))
    BY <1>1, FS_Interval
  <2> QED BY <1>1, <2>1, FS_Subset
<1> DEFINE rank == [n \in left |-> IF m = "rules" THEN found[n].score ELSE 0]
<1>3. rank \in [left -> Int]
  BY ServingAssumption
<1>4. \A n \in left : rank[n] = IF m = "rules" THEN found[n].score ELSE 0
  OBVIOUS
<1> HIDE DEF rank
<1>5. PICK x \in left : \A y \in left : rank[x] >= rank[y]
  BY <1>2, <1>3, GreatestOver
<1> DEFINE tops == {n \in left : rank[n] = rank[x]}
<1>6. tops \in SUBSET Nat /\ tops # {}
  BY <1>1
<1>7. PICK n \in tops : \A j \in tops : n <= j
  <2> HIDE DEF tops
  <2> QED BY <1>6, LeastNumber
<1>8. n \in left /\ \A j \in left : rank[n] > rank[j] \/ (rank[n] = rank[j] /\ n <= j)
  BY <1>3, <1>5, <1>7
<1>9. \A j \in left :
        \/ m = "rules" /\ found[n].score > found[j].score
        \/ (m = "rules" => found[n].score = found[j].score) /\ n <= j
  BY <1>4, <1>8
<1> QED BY <1>8, <1>9 DEF Foremost

\* What is retrieved is among the items that are searched.
LEMMA RetrieveFinds ==
    ASSUME NEW items \in SUBSET Items, NEW m, NEW place \in Places
    PROVE  Retrieve(items, m, place) \in Seq(items)
<1> DEFINE found == Search(items, m, place)
           States == [left: SUBSET DOMAIN found, list: Seq(items), tokens: Nat]
           start == [left |-> DOMAIN found, list |-> <<>>, tokens |-> 0]
<1>1. found \in Seq(items) /\ found \in Seq(Items)
  <2>1. found \in Seq(items)
    BY SearchFinds
  <2> HIDE DEF found
  <2> QED BY <2>1
<1> HIDE DEF found
<1>2. ASSUME NEW state \in States
      PROVE  Spend(state, found, m, place) \in States
  <2>1. CASE state.left = {}
    BY <2>1 DEF Spend
  <2>2. CASE state.left # {}
    <3> DEFINE n == Foremost(state.left, found, m)
    <3>1. n \in DOMAIN found
      BY <1>1, <2>2, ForemostIsThere
    <3>2. found[n] \in items /\ found[n].cost \in Nat
      BY <1>1, <3>1, ServingAssumption
    <3>3. Append(state.list, found[n]) \in Seq(items)
      BY <3>2, AppendProperties
    <3> HIDE DEF n
    <3> DEFINE over == \/ Similarity(found[n].place, place) < Floor
                       \/ state.tokens + found[n].cost > TokenCap
    <3>4. Spend(state, found, m, place) =
            [left   |-> state.left \ {n},
             list   |-> IF over THEN state.list ELSE Append(state.list, found[n]),
             tokens |-> IF over THEN state.tokens ELSE state.tokens + found[n].cost]
      BY <2>2 DEF Spend, n
    <3> HIDE DEF over
    <3>5. state.tokens + found[n].cost \in Nat
      BY <3>2
    <3> QED BY <3>3, <3>4, <3>5
  <2> QED BY <2>1, <2>2
<1> DEFINE step == [n \in 1..TopK |-> [state \in States |-> Spend(state, found, m, place)]]
           spent[n \in 0..TopK] ==
             IF n = 0 THEN [left |-> DOMAIN found, list |-> <<>>, tokens |-> 0]
             ELSE Spend(spent[n - 1], found, m, place)
<1>3. step \in [1..TopK -> [States -> States]] /\ start \in States /\ TopK \in Nat
  BY <1>2, ServingAssumption
<1>4. \A n \in 1..TopK, state \in States : step[n][state] = Spend(state, found, m, place)
  OBVIOUS
<1>5. \A state \in States : state.list \in Seq(items)
  OBVIOUS
<1> HIDE DEF step, States
<1>6. PICK f \in [0..TopK -> States] :
        Loop(f, TopK, start, step)
  <2> HIDE DEF spent, start
  <2> QED BY <1>3, Iterates, Zenon
<1>7. f = [n \in 0..TopK |-> IF n = 0 THEN start ELSE Spend(f[n - 1], found, m, place)]
  <2>1. \A n \in 0..TopK : n # 0 => n \in 1..TopK /\ f[n - 1] \in States
    BY <1>3
  <2> QED BY <1>4, <1>6, <2>1 DEF Loop
<1>8. spent = [n \in 0..TopK |-> IF n = 0 THEN start ELSE Spend(spent[n - 1], found, m, place)]
  BY <1>7
<1> HIDE DEF spent
<1>9. spent[0] \in States
  BY <1>3, <1>8
<1>10. \A n \in 1..TopK : spent[n - 1] \in States => spent[n] \in States
  BY <1>2, <1>3, <1>8
<1>11. spent[TopK] \in States
  <2>1. \A n \in 0..TopK : spent[n] \in States
    BY <1>3, <1>9, <1>10, StaysIn, Zenon
  <2> QED BY <1>3, <2>1
<1> QED BY <1>5, <1>11 DEF Retrieve, spent, found

-----------------------------------------------------------------------------
\* Whose the memory is.

\* The items that a tenant's request may be given.
Shared(tenant) ==
    {i \in Items : i.tenant = tenant \/ (mode = "rules" /\ i.tenant = Everyone)}

\* Messages with no items but these.
MessagesWith(items) == [role: {"system", "user", "assistant", "tool"}, items: Seq(items)]

RequestsWith(items) ==
    [place: Places, items: Seq(items), at: {"retrieving", "assembling"}]

\* A snapshot has its tenant's items; there is one for everyone only of rules.
SnapshotsCut ==
    /\ mode \in {"off", "rules", "exemplars"}
    /\ kept \subseteq Items
    /\ \A i \in kept : Fits(i, mode)
    /\ \A t \in DOMAIN snapshots : snapshots[t] \subseteq Shared(t)
    /\ Everyone \in DOMAIN snapshots => mode = "rules"

\* What a request was given, and what its prompt has of it, is the client's.
Given ==
    /\ mode = "off" => request = Absent /\ prompt = Absent
    /\ request # Absent => request \in RequestsWith(Shared(client))
    /\ history \in Seq(MessagesWith({}))
    /\ prompt # Absent =>
         /\ prompt.prefix \in Seq(MessagesWith({}))
         /\ prompt.volatile \in Seq(MessagesWith(Shared(client)))

\* The prefix of the last prompt is the standing part and the conversation up to it.
PrefixIsPast ==
    prompt # Absent =>
        \E n \in 0..Len(history) : prompt.prefix = Standing \o SubSeq(history, 1, n)

ServingInv == SnapshotsCut /\ Given /\ PrefixIsPast

LEMMA ServingStart == ServingInit => ServingInv
  BY DEF ServingInit, ServingInv, SnapshotsCut, Given, PrefixIsPast

LEMMA CutIsShared ==
    ASSUME NEW m \in {"rules", "exemplars"}, NEW items \in SUBSET Items,
           \A i \in items : Fits(i, m)
    PROVE  /\ \A t \in DOMAIN Cut(items, m) :
                Cut(items, m)[t] \subseteq
                  {i \in Items : i.tenant = t \/ (m = "rules" /\ i.tenant = Everyone)}
           /\ Everyone \in DOMAIN Cut(items, m) => m = "rules"
  BY DEF Cut, Served, SnapshotOf, Fits

LEMMA MemoryStepsKeep ==
    ASSUME ServingInv,
           \/ \E m \in {"rules", "exemplars"} : Configure(m)
           \/ \E i \in Items : Learnt(i)
           \/ RefreshAll
    PROVE  ServingInv'
<1>1. ASSUME NEW m \in {"rules", "exemplars"}, Configure(m) PROVE ServingInv'
  <2>1. PICK items \in SUBSET {i \in Items : Fits(i, m)} :
          kept' = items /\ snapshots' = Cut(items, m)
    BY <1>1 DEF Configure
  <2>2. mode = "off" /\ mode' = m /\ request' = request /\ history' = history /\ prompt' = prompt
    BY <1>1 DEF Configure
  <2>3. SnapshotsCut'
    BY <2>1, <2>2, CutIsShared DEF SnapshotsCut, Shared
  <2>4. Given' /\ PrefixIsPast'
    BY <2>2 DEF ServingInv, Given, PrefixIsPast
  <2> QED BY <2>3, <2>4 DEF ServingInv
<1>2. ASSUME NEW i \in Items, Learnt(i) PROVE ServingInv'
  <2>1. SnapshotsCut'
    BY <1>2 DEF Learnt, ServingInv, SnapshotsCut, Shared
  <2>2. Given' /\ PrefixIsPast'
    BY <1>2 DEF Learnt, ServingInv, Given, PrefixIsPast, Shared
  <2> QED BY <2>1, <2>2 DEF ServingInv
<1>3. ASSUME RefreshAll PROVE ServingInv'
  <2>1. /\ mode \in {"rules", "exemplars"} /\ snapshots' = Cut(kept, mode)
        /\ UNCHANGED <<mode, kept, client, request, history, prompt>>
    BY <1>3 DEF RefreshAll, ServingInv, SnapshotsCut
  <2>2. SnapshotsCut'
    BY <2>1, CutIsShared DEF ServingInv, SnapshotsCut, Shared
  <2>3. Given' /\ PrefixIsPast'
    BY <2>1 DEF ServingInv, Given, PrefixIsPast, Shared
  <2> QED BY <2>2, <2>3 DEF ServingInv
<1> QED BY <1>1, <1>2, <1>3

LEMMA AskKeeps ==
    ASSUME ServingInv, NEW place \in Places, NEW small \in BOOLEAN, AskFor(place, small)
    PROVE  ServingInv'
<1>1. /\ mode # "off"
      /\ request' = [place |-> place, items |-> <<>>,
                     at |-> IF small THEN "retrieving" ELSE "assembling"]
      /\ UNCHANGED <<mode, kept, snapshots, client, history, prompt>>
  BY DEF AskFor
<1>2. request' \in RequestsWith(Shared(client))
  BY <1>1 DEF RequestsWith
<1>3. SnapshotsCut' /\ PrefixIsPast'
  BY <1>1 DEF ServingInv, SnapshotsCut, PrefixIsPast, Shared
<1>4. Given'
  BY <1>1, <1>2 DEF ServingInv, Given, Shared
<1> QED BY <1>3, <1>4 DEF ServingInv

\* The snapshot a request is served from has only what is its client's.
LEMMA SnapshotIsShared ==
    ASSUME SnapshotsCut
    PROVE  SnapshotFor(client) \subseteq Shared(client)
<1>1. CASE client \in DOMAIN snapshots
  BY <1>1 DEF SnapshotFor, SnapshotsCut
<1>2. CASE client \notin DOMAIN snapshots /\ Everyone \in DOMAIN snapshots
  <2>1. snapshots[Everyone] \subseteq Shared(Everyone) /\ mode = "rules"
    BY <1>2 DEF SnapshotsCut
  <2> QED BY <1>2, <2>1 DEF SnapshotFor, Shared
<1>3. CASE client \notin DOMAIN snapshots /\ Everyone \notin DOMAIN snapshots
  BY <1>3 DEF SnapshotFor
<1> QED BY <1>1, <1>2, <1>3

LEMMA RetrieveKeeps ==
    ASSUME ServingInv, RetrieveItems
    PROVE  ServingInv'
<1> DEFINE served == SnapshotFor(client)
           found == Retrieve(served, mode, request.place)
<1>1. /\ request # Absent
      /\ request' = [request EXCEPT !.items = found, !.at = "assembling"]
      /\ UNCHANGED <<mode, kept, snapshots, client, history, prompt>>
  BY DEF RetrieveItems
<1>2. request \in RequestsWith(Shared(client)) /\ request.place \in Places /\ mode # "off"
  BY <1>1 DEF ServingInv, Given, RequestsWith
<1>3. served \subseteq Shared(client) /\ served \in SUBSET Items
  BY SnapshotIsShared DEF ServingInv, Shared
<1> HIDE DEF served
<1>4. found \in Seq(served)
  BY <1>2, <1>3, RetrieveFinds
<1>5. found \in Seq(Shared(client))
  <2> HIDE DEF found
  <2> QED BY <1>3, <1>4
<1> HIDE DEF found
<1>6. request' \in RequestsWith(Shared(client))
  BY <1>1, <1>2, <1>5 DEF RequestsWith
<1>7. SnapshotsCut' /\ PrefixIsPast'
  BY <1>1 DEF ServingInv, SnapshotsCut, PrefixIsPast, Shared
<1>8. Given'
  BY <1>1, <1>2, <1>5, <1>6 DEF ServingInv, Given, Shared
<1> QED BY <1>7, <1>8 DEF ServingInv

\* A message without items may stand among messages with any.
LEMMA NoneIsAmongAny ==
    ASSUME NEW items, NEW message \in MessagesWith({})
    PROVE  message \in MessagesWith(items)
  BY DEF MessagesWith

\* What begins with a beginning begins with it.
LEMMA LongerHasPrefix ==
    ASSUME NEW S, NEW head \in Seq(S), NEW s \in Seq(S), NEW n \in 0..Len(s)
    PROVE  IsPrefix(head \o SubSeq(s, 1, n), head \o s)
<1> DEFINE before == SubSeq(s, 1, n)
           old == head \o before
           new == head \o s
<1>1. /\ before \in Seq(S) /\ Len(before) = n
      /\ \A i \in 1..n : before[i] = s[i]
  BY SubSeqProperties
<1> HIDE DEF before
<1>2. /\ old \in Seq(S) /\ Len(old) = Len(head) + Len(before)
      /\ \A i \in 1..Len(head) : old[i] = head[i]
      /\ \A i \in 1..Len(before) : old[Len(head) + i] = before[i]
  BY <1>1
<1>3. /\ new \in Seq(S) /\ Len(new) = Len(head) + Len(s)
      /\ \A i \in 1..Len(head) : new[i] = head[i]
      /\ \A i \in 1..Len(s) : new[Len(head) + i] = s[i]
  OBVIOUS
<1> HIDE DEF old, new
<1> DEFINE size == Len(head) + n
<1>4. /\ Len(head) \in Nat /\ Len(s) \in Nat /\ size \in Nat
      /\ Len(old) = size /\ size <= Len(new)
  BY <1>1, <1>2, <1>3
<1>5. \A i \in 1..size : old[i] = new[i]
  <2> SUFFICES ASSUME NEW i \in 1..size PROVE old[i] = new[i]
    OBVIOUS
  <2>1. CASE i <= Len(head)
    BY <1>2, <1>3, <1>4, <2>1
  <2>2. CASE i > Len(head)
    <3>1. /\ i - Len(head) \in 1..n /\ i - Len(head) \in 1..Len(s)
          /\ Len(head) + (i - Len(head)) = i
      BY <1>4, <2>2
    <3>2. /\ old[Len(head) + (i - Len(head))] = before[i - Len(head)]
          /\ new[Len(head) + (i - Len(head))] = s[i - Len(head)]
      BY <1>1, <1>2, <1>3, <3>1
    <3> QED BY <1>1, <3>1, <3>2
  <2> QED BY <1>4, <2>1, <2>2
<1> HIDE DEF size
<1>6. /\ SubSeq(old, 1, size) \in Seq(S) /\ Len(SubSeq(old, 1, size)) = size
      /\ \A i \in 1..size : SubSeq(old, 1, size)[i] = old[i]
  BY <1>2, <1>4, SubSeqProperties
<1>7. /\ SubSeq(new, 1, size) \in Seq(S) /\ Len(SubSeq(new, 1, size)) = size
      /\ \A i \in 1..size : SubSeq(new, 1, size)[i] = new[i]
  BY <1>3, <1>4, SubSeqProperties
<1>8. SubSeq(old, 1, size) = SubSeq(new, 1, size)
  BY <1>5, <1>6, <1>7, SeqEqual
<1>9. IsPrefix(old, new)
  BY <1>4, <1>8 DEF IsPrefix
<1> QED BY <1>9 DEF old, new, before

\* assemble() puts the items in the volatile part, and nowhere else.
LEMMA AssembledApart ==
    ASSUME NEW items, NEW list \in Seq(items), NEW past \in Seq(MessagesWith({}))
    PROVE  /\ Assemble(past, list).prefix = Standing \o past
           /\ Assemble(past, list).prefix \in Seq(MessagesWith({}))
           /\ Assemble(past, list).volatile \in Seq(MessagesWith(items))
<1>1. <<>> \in Seq({}) /\ <<>> \in Seq(items)
  OBVIOUS
<1>2. Standing \in Seq(MessagesWith({}))
  BY <1>1 DEF Standing, MessagesWith
<1>3. Turn \in Seq(MessagesWith(items))
  BY <1>1 DEF Turn, MessagesWith
<1>4. RulesBlock(list) \in Seq(MessagesWith(items))
  <2>1. CASE list = <<>>
    BY <2>1 DEF RulesBlock
  <2>2. CASE list # <<>>
    <3>1. [role |-> "system", items |-> list] \in MessagesWith(items)
      BY DEF MessagesWith
    <3> QED BY <2>2, <3>1 DEF RulesBlock
  <2> QED BY <2>1, <2>2
<1>5. Standing \o past \in Seq(MessagesWith({}))
  BY <1>2
<1>6. RulesBlock(list) \o Turn \in Seq(MessagesWith(items))
  BY <1>3, <1>4
<1> QED BY <1>5, <1>6 DEF Assemble

LEMMA SendKeeps ==
    ASSUME ServingInv, SendPrompt
    PROVE  ServingInv' /\ prompt'.prefix = Standing \o history
<1>1. /\ request # Absent /\ prompt' = Assemble(history, request.items) /\ request' = Absent
      /\ UNCHANGED <<mode, kept, snapshots, client, history>>
  BY DEF SendPrompt
<1>2. request.items \in Seq(Shared(client)) /\ mode # "off" /\ history \in Seq(MessagesWith({}))
  BY <1>1 DEF ServingInv, Given, RequestsWith
<1>3. /\ prompt'.prefix = Standing \o history
      /\ prompt'.prefix \in Seq(MessagesWith({}))
      /\ prompt'.volatile \in Seq(MessagesWith(Shared(client)))
  BY <1>1, <1>2, AssembledApart
<1>4. SnapshotsCut' /\ Given'
  BY <1>1, <1>2, <1>3 DEF ServingInv, SnapshotsCut, Given, Shared
<1>5. PrefixIsPast'
  <2>1. Len(history) \in 0..Len(history) /\ SubSeq(history, 1, Len(history)) = history
    BY <1>2, SubSeqFull
  <2> QED BY <1>1, <1>3, <2>1 DEF PrefixIsPast
<1> QED BY <1>3, <1>4, <1>5 DEF ServingInv

LEMMA PersistKeeps ==
    ASSUME ServingInv, NEW message \in Messages, Persist(message)
    PROVE  ServingInv'
<1>1. /\ message.role \in {"user", "assistant", "tool"} /\ message.items = <<>>
      /\ history' = Append(history, message)
      /\ UNCHANGED <<mode, kept, snapshots, client, request, prompt>>
  BY DEF Persist
<1>2. message \in MessagesWith({})
  <2>1. CASE message = [role |-> "assistant", items |-> <<>>]
    BY <2>1 DEF MessagesWith
  <2>2. CASE message \in MessagesWith(Shared(client))
    BY <1>1, <2>2 DEF MessagesWith
  <2>3. message = [role |-> "assistant", items |-> <<>>] \/ message \in MessagesWith(Shared(client))
    BY DEF Messages, ServingInv, Given, ToSet
  <2> QED BY <2>1, <2>2, <2>3
<1>3. history \in Seq(MessagesWith({}))
  BY DEF ServingInv, Given
<1>4. /\ history' \in Seq(MessagesWith({})) /\ Len(history') = Len(history) + 1
      /\ \A n \in 1..Len(history) : history'[n] = history[n]
  BY <1>1, <1>2, <1>3, AppendProperties
<1>5. SnapshotsCut' /\ Given'
  BY <1>1, <1>4 DEF ServingInv, SnapshotsCut, Given, Shared
<1>6. PrefixIsPast'
  <2>1. \A n \in 0..Len(history) :
          n \in 0..Len(history') /\ SubSeq(history', 1, n) = SubSeq(history, 1, n)
    <3> SUFFICES ASSUME NEW n \in 0..Len(history)
                 PROVE  n \in 0..Len(history') /\ SubSeq(history', 1, n) = SubSeq(history, 1, n)
      OBVIOUS
    <3>1. n \in 0..Len(history')
      BY <1>3, <1>4
    <3>2. SubSeq(history', 1, n) \in Seq(MessagesWith({})) /\ SubSeq(history, 1, n) \in Seq(MessagesWith({}))
      BY <1>3, <1>4, SubSeqProperties
    <3>3. Len(SubSeq(history', 1, n)) = n /\ Len(SubSeq(history, 1, n)) = n
      BY <1>3, <1>4, SubSeqProperties
    <3>4. \A i \in 1..n : SubSeq(history', 1, n)[i] = history'[i] /\ SubSeq(history, 1, n)[i] = history[i]
      BY <1>3, <1>4, SubSeqProperties
    <3>5. \A i \in 1..n : SubSeq(history', 1, n)[i] = SubSeq(history, 1, n)[i]
      BY <1>3, <1>4, <3>4
    <3> QED BY <3>1, <3>2, <3>3, <3>5, SeqEqual
  <2> QED BY <1>1, <2>1 DEF ServingInv, PrefixIsPast
<1> QED BY <1>5, <1>6 DEF ServingInv

LEMMA ServingStep == ServingInv /\ [ServingNext]_servingVars => ServingInv'
<1> SUFFICES ASSUME ServingInv, [ServingNext]_servingVars PROVE ServingInv'
  OBVIOUS
<1>1. ASSUME NEW m \in {"rules", "exemplars"}, Configure(m) PROVE ServingInv'
  BY <1>1, MemoryStepsKeep
<1>2. ASSUME NEW i \in Items, Learnt(i) PROVE ServingInv'
  BY <1>2, MemoryStepsKeep
<1>3. ASSUME RefreshAll PROVE ServingInv'
  BY <1>3, MemoryStepsKeep
<1>4. ASSUME NEW place \in Places, NEW small \in BOOLEAN, AskFor(place, small) PROVE ServingInv'
  BY <1>4, AskKeeps
<1>5. ASSUME RetrieveItems PROVE ServingInv'
  BY <1>5, RetrieveKeeps
<1>6. ASSUME SendPrompt PROVE ServingInv'
  BY <1>6, SendKeeps
<1>7. ASSUME NEW message \in Messages, Persist(message) PROVE ServingInv'
  BY <1>7, PersistKeeps
<1>8. CASE UNCHANGED servingVars
  BY <1>8 DEF servingVars, ServingInv, SnapshotsCut, Given, PrefixIsPast, Shared
<1> QED BY <1>1, <1>2, <1>3, <1>4, <1>5, <1>6, <1>7, <1>8 DEF ServingNext

LEMMA ServingInvariant == ServingSpec => []ServingInv
  BY ServingStart, ServingStep, PTL DEF ServingSpec

\* TenantIsolation: whatever is promoted, retired, recorded and evicted between
\* refreshes, and whichever snapshot a request falls back to (refresh, retrieve), its
\* prompt has nothing that was learnt from another tenant.
THEOREM TenantsAreIsolated == ServingSpec => []TenantIsolation
<1>1. ServingInv => TenantIsolation
  <2> SUFFICES ASSUME ServingInv, prompt # Absent,
                      NEW message \in ToSet(prompt.prefix \o prompt.volatile),
                      NEW i \in ToSet(message.items)
               PROVE  i.tenant = client \/ (mode = "rules" /\ i.tenant = Everyone)
    BY DEF TenantIsolation
  <2> DEFINE Spoken == MessagesWith(Shared(client))
  <2>1. prompt.prefix \in Seq(MessagesWith({})) /\ prompt.volatile \in Seq(Spoken)
    BY DEF ServingInv, Given
  <2>2. MessagesWith({}) \subseteq Spoken
    BY NoneIsAmongAny
  <2> HIDE DEF Spoken
  <2>3. prompt.prefix \in Seq(Spoken)
    BY <2>1, <2>2
  <2>4. prompt.prefix \o prompt.volatile \in Seq(Spoken)
    BY <2>1, <2>3
  <2> DEFINE all == prompt.prefix \o prompt.volatile
  <2>5. message \in Spoken
    <3>1. all \in Seq(Spoken) /\ message \in ToSet(all)
      BY <2>4
    <3> HIDE DEF all
    <3> QED BY <3>1 DEF ToSet
  <2>6. message.items \in Seq(Shared(client))
    BY <2>5 DEF Spoken, MessagesWith
  <2>7. i \in Shared(client)
    BY <2>6 DEF ToSet
  <2> QED BY <2>7 DEF Shared
<1> QED BY <1>1, ServingInvariant, PTL

\* PrefixExtends: the stable part of a prompt begins with the stable part of the one
\* before, whatever memory is injected (assemble, ConversationHistory.append).
THEOREM PrefixOnlyGrows == ServingSpec => PrefixExtends
<1>1. ServingInv /\ [ServingNext]_servingVars
        => [prompt # Absent => IsPrefix(prompt.prefix, prompt'.prefix)]_servingVars
  <2> SUFFICES ASSUME ServingInv, ServingNext, prompt # Absent
               PROVE  IsPrefix(prompt.prefix, prompt'.prefix)
    OBVIOUS
  <2>1. PICK n \in 0..Len(history) : prompt.prefix = Standing \o SubSeq(history, 1, n)
    BY DEF ServingInv, PrefixIsPast
  <2>2. history \in Seq(MessagesWith({})) /\ prompt.prefix \in Seq(MessagesWith({}))
    BY DEF ServingInv, Given
  <2>3. CASE SendPrompt
    <3>1. prompt'.prefix = Standing \o history
      BY <2>3, SendKeeps
    <3>2. Standing \in Seq(MessagesWith({}))
      BY DEF Standing, MessagesWith
    <3> QED BY <2>1, <2>2, <3>1, <3>2, LongerHasPrefix
  <2>4. CASE prompt' = prompt
    BY <2>4 DEF IsPrefix
  <2> QED BY <2>3, <2>4 DEF ServingNext, Configure, Learnt, AskFor, Persist, RefreshAll, RetrieveItems
<1> QED BY <1>1, ServingInvariant, PTL DEF ServingSpec, PrefixExtends
=============================================================================
