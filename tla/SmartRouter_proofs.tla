------------------------- MODULE SmartRouter_proofs -------------------------
(***************************************************************************)
(* The router inherits the commit gate's safety: whatever it does, as far  *)
(* as the gate and its gateway see, is a behaviour of CommitGate.  Its own *)
(* invariants follow from what the place a request has reached says of its *)
(* trace, its effects and its lessons; and what a caller and the cache see *)
(* is a behaviour of RouteContract.                                        *)
(***************************************************************************)
EXTENDS SmartRouter, CommitGate_proofs

LEMMA RouteStepAtGate ==
    ASSUME NEW r \in Requests, RouteStep(r)
    PROVE  [Next]_gateVars
<1>1. CASE LadderPasses(r)
  BY <1>1 DEF LadderPasses, ToGate, Next
<1>2. CASE FrontierAnswers(r)
  BY <1>2 DEF FrontierAnswers, ToGate, Next
<1>3. CASE ~LadderPasses(r) /\ ~FrontierAnswers(r)
  BY <1>3 DEF RouteStep, CacheHit, PredictHard, TrySmall, SmallAnswers, SmallFaults,
              ResampleFaults, JudgeFaults, LadderRejects, CommitDone, GateRaises,
              Accept, FrontierFaults, FrontierCommitDone
<1> QED
  BY <1>1, <1>2, <1>3

LEMMA RouterStepAtGate ==
    ASSUME [RouterNext]_allVars
    PROVE  [Next]_gateVars
<1>1. CASE UNCHANGED allVars
  BY <1>1 DEF allVars
<1>2. ASSUME NEW r \in Requests, Arrive(r)
      PROVE  [Next]_gateVars
  BY <1>2 DEF Arrive
<1>3. ASSUME NEW r \in Requests, GateStep(r)
      PROVE  [Next]_gateVars
  BY <1>3 DEF GateStep, Next
<1>4. ASSUME NEW k \in CacheKeys, Forget(k)
      PROVE  [Next]_gateVars
  BY <1>4 DEF Forget
<1> QED
  BY <1>1, <1>2, <1>3, <1>4, RouteStepAtGate DEF RouterNext

\* The router proposes calls only where the gate expects them: the composed
\* system implements the gate's specification.
THEOREM RouterImplementsGate == RouterSafetySpec => SafetySpec
<1>1. RouterInit => Init
  BY DEF RouterInit
<1> QED
  BY <1>1, RouterStepAtGate, PTL DEF RouterSafetySpec, SafetySpec

\* So a request that is retried, escalated or sent again applies no call twice,
\* and applies none unchecked, with the router in front of the gate.
THEOREM RouterAppliesAtMostOnce == RouterSafetySpec => []AtMostOnce
  BY RouterImplementsGate, AppliedAtMostOnce

\* And none that the registry, the schema, the approval or the rehearsal stops.
THEOREM RouterAppliesNothingUnchecked == RouterSafetySpec => CheckedBeforeEffect
  BY RouterImplementsGate, NothingUnchecked
-----------------------------------------------------------------------------
(* What a request's place in route() says of its trace, of its footprint in *)
(* the memory and of its call at the gate.                                  *)

AtSmall == {"small", "resample", "ladder", "committing", "accepting"}

AtFrontier == {"frontier", "frontierCommitting"}

InGate == {"committing", "frontierCommitting"}

RouterTyped ==
    /\ RouterTypeOK
    /\ query \in [Requests -> Queries \cup {NoEntry}]

\* The calls issued so far, by the place in route() that was reached.
Spent(r) ==
    /\ trace[r].smallCalls <= 2 /\ trace[r].frontierCalls <= 1
    /\ pc[r] \in {"idle", "lookup"} => trace[r].smallCalls = 0 /\ ~trace[r].retried
    /\ pc[r] = "small" => trace[r].smallCalls = (IF trace[r].retried THEN 1 ELSE 0)
    /\ pc[r] = "resample" => trace[r].smallCalls = 1 /\ trace[r].retried
    /\ pc[r] = "ladder" => trace[r].smallCalls = (IF trace[r].retried THEN 2 ELSE 1)
    /\ pc[r] \in {"idle", "lookup", "frontier"} \cup AtSmall => trace[r].frontierCalls = 0
    /\ pc[r] = "frontierCommitting" => trace[r].frontierCalls = 1

\* Until the small model's output is accepted or rejected nothing is learnt
\* from it; after that only the frontier's correction is left to learn.
Taught(r) ==
    /\ pc[r] \in {"idle", "lookup"} \cup AtSmall =>
          memory[r] = NoFootprint /\ ~trace[r].escalated /\ ~trace[r].surfaced
    /\ pc[r] \in AtSmall => trace[r].tier = "SMALL"
    /\ pc[r] \in AtFrontier =>
          /\ trace[r].tier = "FRONTIER" /\ ~trace[r].surfaced
          /\ memory[r].credit = 0 /\ memory[r].golden = 0 /\ memory[r].exemplar = 0
    /\ memory[r].credit + memory[r].blame <= 1
    /\ memory[r].golden + memory[r].logged <= 1
    /\ memory[r].golden = 1 => trace[r].tier = "SMALL" /\ ~trace[r].surfaced
    /\ memory[r].logged = 1 => trace[r].escalated
    /\ memory[r].exemplar <= (IF trace[r].escalated /\ ~trace[r].surfaced THEN 1 ELSE 0)

\* The gate works on the text of a request that waits for it, and on no other.
Offered(r) ==
    /\ gate[r].pc \notin Resting => pc[r] \in InGate
    /\ pc[r] \in InGate => gate[r].call = trace[r].text
    /\ pc[r] = "committing" => trace[r].verified
    /\ pc[r] \in {"ladder", "accepting"} \cup InGate => trace[r].text \in Texts
    /\ pc[r] = "accepting" /\ ToGate(trace[r].text) => trace[r].toolCommitted

Local(r) == Spent(r) /\ Taught(r) /\ Offered(r)

\* A call that stands as an answer, or is about to, was applied; one out of the
\* cache for some earlier request.
Backed(r) ==
    /\ pc[r] = "accepting" /\ ToGate(trace[r].text) =>
          effects[<<RidOf[r], trace[r].text>>] > 0
    /\ pc[r] = "returned" /\ ToGate(trace[r].output) =>
          IF trace[r].tier = "CACHE"
            THEN \E i \in Rids : effects[<<i, trace[r].output>>] > 0
            ELSE effects[<<RidOf[r], trace[r].output>>] > 0

CacheExecuted ==
    \A k \in CacheKeys :
        ToGate(cache[k]) => \E i \in Rids : effects[<<i, cache[k]>>] > 0

\* Whatever is cached was accepted from the small model for that very key and
\* carried out nothing irreversible.
CacheVouched ==
    \A k \in CacheKeys : cache[k] # NoEntry =>
        /\ cache[k] \in Replayable
        /\ \E r \in Requests :
              /\ pc[r] = "returned" /\ trace[r].tier = "SMALL"
              /\ CacheKey(query[r]) = k /\ trace[r].output = cache[k]

RouterInv ==
    /\ IInv /\ RouterTyped
    /\ \A r \in Requests : Local(r) /\ Backed(r)
    /\ CacheExecuted /\ CacheVouched
-----------------------------------------------------------------------------
\* What every step of r leaves behind: the other requests as they were, and
\* r's own fields of their types.
Frames(r) ==
    /\ pc' \in [Requests -> RoutePCs]
    /\ query' \in [Requests -> Queries \cup {NoEntry}]
    /\ pc'[r] # "idle" => query'[r] \in Queries
    /\ trace' \in [Requests -> Traces]
    /\ memory' \in [Requests -> Footprints]
    /\ \A s \in Requests \ {r} :
          /\ pc'[s] = pc[s] /\ query'[s] = query[s]
          /\ trace'[s] = trace[s] /\ memory'[s] = memory[s]

\* A step that takes r to place p with trace t and footprint m.
Reaches(r, p, t, m) ==
    /\ pc' = [pc EXCEPT ![r] = p] \/ (pc' = pc /\ p = pc[r])
    /\ Trace(r, t)
    /\ Leaves(r, m) \/ (memory' = memory /\ m = memory[r])
    /\ query' = query

LEMMA ReachesFrames ==
    ASSUME RouterTyped, NEW r \in Requests, pc[r] # "idle",
           NEW p \in RoutePCs \ {"idle"}, NEW t \in Traces, NEW m \in Footprints,
           Reaches(r, p, t, m)
    PROVE  Frames(r) /\ pc'[r] = p /\ trace'[r] = t /\ memory'[r] = m
  BY DEF Reaches, Frames, RouterTyped, RouterTypeOK, Trace, Leaves

LEMMA AtRequest ==
    ASSUME RouterInv, NEW r \in Requests
    PROVE  /\ trace[r] \in Traces /\ memory[r] \in Footprints
           /\ pc[r] \in RoutePCs
           /\ pc[r] # "idle" => query[r] \in Queries
           /\ Spent(r) /\ Taught(r) /\ Offered(r)
           /\ gate[r] \in Outcomes
           /\ trace[r].smallCalls \in Nat /\ trace[r].frontierCalls \in Nat
           /\ trace[r].retried \in BOOLEAN
<1>1. trace[r] \in Traces
  BY DEF RouterInv, RouterTyped, RouterTypeOK
<1> QED
  BY <1>1 DEF RouterInv, RouterTyped, RouterTypeOK, TypeOK, Local, Traces

\* The categories and sources a trace may name.
LEMMA TraceTypes ==
    /\ {"TIMEOUT", "PROVIDER_FAULT", "SILENT_SEMANTIC"} \subseteq FailureCategory
    /\ NoFootprint \in Footprints
  BY DEF FailureCategory, Transient, NoFootprint, Footprints

\* What two traces agree on: the calls made, the request's standing, its text.
SameCalls(t, u) ==
    /\ t.smallCalls = u.smallCalls /\ t.frontierCalls = u.frontierCalls
    /\ t.retried = u.retried

SameStanding(t, u) ==
    t.tier = u.tier /\ t.escalated = u.escalated /\ t.surfaced = u.surfaced

SameText(t, u) ==
    t.text = u.text /\ t.verified = u.verified /\ t.toolCommitted = u.toolCommitted

LEMMA Called ==
    ASSUME NEW t \in Traces
    PROVE  /\ SmallCalled(t) \in Traces /\ FrontierCalled(t) \in Traces
           /\ SmallCalled(t).smallCalls = t.smallCalls + 1
           /\ SmallCalled(t).frontierCalls = t.frontierCalls
           /\ SmallCalled(t).retried = t.retried
           /\ FrontierCalled(t).smallCalls = t.smallCalls
           /\ FrontierCalled(t).frontierCalls = t.frontierCalls + 1
           /\ FrontierCalled(t).retried = t.retried
           /\ SameStanding(SmallCalled(t), t) /\ SameText(SmallCalled(t), t)
           /\ SameStanding(FrontierCalled(t), t) /\ SameText(FrontierCalled(t), t)
  BY DEF Traces, SmallCalled, FrontierCalled, SameStanding, SameText

LEMMA PredictHardLocal ==
    ASSUME RouterInv, NEW r \in Requests, PredictHard(r)
    PROVE  Frames(r) /\ Local(r)' /\ Backed(r)'
<1>1. pc[r] = "lookup" /\ pc[r] # "idle"
  BY DEF PredictHard, Raise
<1> DEFINE t == [trace[r] EXCEPT !.tier = "FRONTIER", !.reason = "PREDICTED_HARD"]
<1>3. /\ t \in Traces
      /\ SameCalls(t, trace[r])
      /\ t.tier = "FRONTIER" /\ t.escalated = trace[r].escalated
      /\ t.surfaced = trace[r].surfaced
      /\ SameText(t, trace[r])
  BY AtRequest DEF Traces, SameCalls, SameStanding, SameText
<1>4. Reaches(r, "frontier", t, memory[r]) /\ gate' = gate
  BY <1>1 DEF PredictHard, At, Raise, Trace, Reaches, gateVars
<1> HIDE DEF t
<1>5. Frames(r) /\ pc'[r] = "frontier" /\ trace'[r] = t /\ memory'[r] = memory[r]
  BY <1>1, <1>3, <1>4, ReachesFrames, AtRequest DEF RouterInv, RoutePCs, Finished
<1>6. Spent(r)'
  BY <1>1, <1>3, <1>5, AtRequest DEF Spent, AtSmall, SameCalls
<1>7. Taught(r)'
  BY <1>1, <1>3, <1>5, AtRequest DEF Taught, AtSmall, AtFrontier, NoFootprint, SameStanding
<1>8. Offered(r)'
  BY <1>1, <1>3, <1>4, <1>5, AtRequest DEF Offered, InGate, Resting, SameText
<1>9. Backed(r)'
  BY <1>5 DEF Backed
<1> QED
  BY <1>5, <1>6, <1>7, <1>8, <1>9 DEF Local

LEMMA TrySmallLocal ==
    ASSUME RouterInv, NEW r \in Requests, TrySmall(r)
    PROVE  Frames(r) /\ Local(r)' /\ Backed(r)'
<1>1. pc[r] = "lookup" /\ pc[r] # "idle"
  BY DEF TrySmall, Raise
<1>2. PICK rules \in BOOLEAN : Trace(r, [trace[r] EXCEPT !.tier = "SMALL", !.reason = "OPTIMISTIC",
                                                  !.rules = rules])
  BY RouterAssumption, Zenon DEF TrySmall
<1> DEFINE t == [trace[r] EXCEPT !.tier = "SMALL", !.reason = "OPTIMISTIC",
                                 !.rules = rules]
<1>3. /\ t \in Traces
      /\ SameCalls(t, trace[r])
      /\ t.tier = "SMALL" /\ t.escalated = trace[r].escalated
      /\ t.surfaced = trace[r].surfaced
      /\ SameText(t, trace[r])
  BY <1>2, AtRequest DEF Traces, SameCalls, SameStanding, SameText
<1>4. Reaches(r, "small", t, memory[r]) /\ gate' = gate
  BY <1>2, <1>1 DEF TrySmall, At, Raise, Trace, Reaches, gateVars
<1> HIDE DEF t
<1>5. Frames(r) /\ pc'[r] = "small" /\ trace'[r] = t /\ memory'[r] = memory[r]
  BY <1>1, <1>3, <1>4, ReachesFrames, AtRequest DEF RouterInv, RoutePCs, Finished
<1>6. Spent(r)'
  BY <1>1, <1>3, <1>5, AtRequest DEF Spent, AtSmall, SameCalls
<1>7. Taught(r)'
  BY <1>1, <1>3, <1>5, AtRequest DEF Taught, AtSmall, AtFrontier, NoFootprint, SameStanding
<1>8. Offered(r)'
  BY <1>2, <1>1, <1>3, <1>4, <1>5, AtRequest DEF Offered, InGate, Resting, SameText
<1>9. Backed(r)'
  BY <1>5 DEF Backed
<1> QED
  BY <1>5, <1>6, <1>7, <1>8, <1>9 DEF Local

LEMMA SmallAnswersLocal ==
    ASSUME RouterInv, NEW r \in Requests, SmallAnswers(r)
    PROVE  Frames(r) /\ Local(r)' /\ Backed(r)'
<1>1. pc[r] \in {"small", "resample"} /\ pc[r] # "idle"
  BY DEF SmallAnswers, Raise
<1>2. PICK x \in Texts : Trace(r, [SmallCalled(trace[r]) EXCEPT !.text = x])
  BY DEF SmallAnswers
<1> DEFINE b == SmallCalled(trace[r])
<1>b. /\ b \in Traces /\ b.retried = trace[r].retried
      /\ b.smallCalls = trace[r].smallCalls + 1
      /\ b.frontierCalls = trace[r].frontierCalls + 0
      /\ SameStanding(b, trace[r]) /\ SameText(b, trace[r])
  BY AtRequest, Called
<1> DEFINE t == [b EXCEPT !.text = x]
<1> HIDE DEF b
<1>3. /\ t \in Traces
      /\ SameCalls(t, b)
      /\ SameStanding(t, b)
      /\ t.text = x
  BY <1>2, <1>b, AtRequest DEF Traces, SameCalls, SameStanding, SameText
<1> USE DEF b
<1>4. Reaches(r, "ladder", t, memory[r]) /\ gate' = gate
  BY <1>2, <1>1 DEF SmallAnswers, At, Raise, Trace, Reaches, gateVars
<1> HIDE DEF t, b
<1>5. Frames(r) /\ pc'[r] = "ladder" /\ trace'[r] = t /\ memory'[r] = memory[r]
  BY <1>1, <1>3, <1>4, ReachesFrames, AtRequest DEF RouterInv, RoutePCs, Finished
<1>6. Spent(r)'
  BY <1>1, <1>b, <1>3, <1>5, AtRequest DEF Spent, AtSmall, SameCalls
<1>7. Taught(r)'
  BY <1>1, <1>b, <1>3, <1>5, AtRequest DEF Taught, AtSmall, AtFrontier, NoFootprint, SameStanding
<1>8. Offered(r)'
  BY <1>2, <1>1, <1>b, <1>3, <1>4, <1>5, AtRequest DEF Offered, InGate, Resting, SameText
<1>9. Backed(r)'
  BY <1>5 DEF Backed
<1> QED
  BY <1>5, <1>6, <1>7, <1>8, <1>9 DEF Local

LEMMA ResampleFaultsLocal ==
    ASSUME RouterInv, NEW r \in Requests, ResampleFaults(r)
    PROVE  Frames(r) /\ Local(r)' /\ Backed(r)'
<1>1. pc[r] = "resample" /\ pc[r] # "idle"
  BY DEF ResampleFaults, Raise
<1> DEFINE b == SmallCalled(trace[r])
<1>b. /\ b \in Traces /\ b.retried = trace[r].retried
      /\ b.smallCalls = trace[r].smallCalls + 1
      /\ b.frontierCalls = trace[r].frontierCalls + 0
      /\ SameStanding(b, trace[r]) /\ SameText(b, trace[r])
  BY AtRequest, Called
<1> DEFINE t == [b EXCEPT !.fault = "model"]
<1> HIDE DEF b
<1>3. /\ t \in Traces
      /\ SameCalls(t, b)
      /\ SameStanding(t, b)
      /\ SameText(t, b)
  BY <1>b, AtRequest DEF Traces, SameCalls, SameStanding, SameText
<1> USE DEF b
<1>4. Reaches(r, "raised", t, memory[r]) /\ gate' = gate
  BY <1>1 DEF ResampleFaults, At, Raise, Trace, Reaches, gateVars
<1> HIDE DEF t, b
<1>5. Frames(r) /\ pc'[r] = "raised" /\ trace'[r] = t /\ memory'[r] = memory[r]
  BY <1>1, <1>3, <1>4, ReachesFrames, AtRequest DEF RouterInv, RoutePCs, Finished
<1>6. Spent(r)'
  BY <1>1, <1>b, <1>3, <1>5, AtRequest DEF Spent, AtSmall, SameCalls
<1>7. Taught(r)'
  BY <1>1, <1>b, <1>3, <1>5, AtRequest DEF Taught, AtSmall, AtFrontier, NoFootprint, SameStanding
<1>8. Offered(r)'
  BY <1>1, <1>b, <1>3, <1>4, <1>5, AtRequest DEF Offered, InGate, Resting, SameText
<1>9. Backed(r)'
  BY <1>5 DEF Backed
<1> QED
  BY <1>5, <1>6, <1>7, <1>8, <1>9 DEF Local

LEMMA JudgeFaultsLocal ==
    ASSUME RouterInv, NEW r \in Requests, JudgeFaults(r)
    PROVE  Frames(r) /\ Local(r)' /\ Backed(r)'
<1>1. pc[r] = "ladder" /\ pc[r] # "idle"
  BY DEF JudgeFaults, Raise
<1> DEFINE t == [trace[r] EXCEPT !.fault = "judge"]
<1>3. /\ t \in Traces
      /\ SameCalls(t, trace[r])
      /\ SameStanding(t, trace[r])
      /\ SameText(t, trace[r])
  BY AtRequest DEF Traces, SameCalls, SameStanding, SameText
<1>4. Reaches(r, "raised", t, memory[r]) /\ gate' = gate
  BY <1>1 DEF JudgeFaults, At, Raise, Trace, Reaches, gateVars
<1> HIDE DEF t
<1>5. Frames(r) /\ pc'[r] = "raised" /\ trace'[r] = t /\ memory'[r] = memory[r]
  BY <1>1, <1>3, <1>4, ReachesFrames, AtRequest DEF RouterInv, RoutePCs, Finished
<1>6. Spent(r)'
  BY <1>1, <1>3, <1>5, AtRequest DEF Spent, AtSmall, SameCalls
<1>7. Taught(r)'
  BY <1>1, <1>3, <1>5, AtRequest DEF Taught, AtSmall, AtFrontier, NoFootprint, SameStanding
<1>8. Offered(r)'
  BY <1>1, <1>3, <1>4, <1>5, AtRequest DEF Offered, InGate, Resting, SameText
<1>9. Backed(r)'
  BY <1>5 DEF Backed
<1> QED
  BY <1>5, <1>6, <1>7, <1>8, <1>9 DEF Local

LEMMA GateRaisesLocal ==
    ASSUME RouterInv, NEW r \in Requests, GateRaises(r)
    PROVE  Frames(r) /\ Local(r)' /\ Backed(r)'
<1>1. pc[r] \in InGate /\ gate[r].pc = "raised" /\ pc[r] # "idle"
  BY DEF GateRaises, Raise, InGate
<1> DEFINE t == [trace[r] EXCEPT !.fault = "tool"]
<1>3. /\ t \in Traces
      /\ SameCalls(t, trace[r])
      /\ SameStanding(t, trace[r])
      /\ SameText(t, trace[r])
  BY AtRequest DEF Traces, SameCalls, SameStanding, SameText
<1>4. Reaches(r, "raised", t, memory[r]) /\ gate' = gate
  BY <1>1 DEF GateRaises, At, Raise, Trace, Reaches, gateVars
<1> HIDE DEF t
<1>5. Frames(r) /\ pc'[r] = "raised" /\ trace'[r] = t /\ memory'[r] = memory[r]
  BY <1>1, <1>3, <1>4, ReachesFrames, AtRequest DEF RouterInv, RoutePCs, Finished
<1>6. Spent(r)'
  BY <1>1, <1>3, <1>5, AtRequest DEF Spent, AtSmall, SameCalls
<1>7. Taught(r)'
  BY <1>1, <1>3, <1>5, AtRequest DEF Taught, AtSmall, AtFrontier, NoFootprint, SameStanding
<1>8. Offered(r)'
  BY <1>1, <1>3, <1>4, <1>5, AtRequest DEF Offered, InGate, Resting, SameText
<1>9. Backed(r)'
  BY <1>5 DEF Backed
<1> QED
  BY <1>5, <1>6, <1>7, <1>8, <1>9 DEF Local

LEMMA FrontierFaultsLocal ==
    ASSUME RouterInv, NEW r \in Requests, FrontierFaults(r)
    PROVE  Frames(r) /\ Local(r)' /\ Backed(r)'
<1>1. pc[r] = "frontier" /\ pc[r] # "idle"
  BY DEF FrontierFaults, Raise
<1> DEFINE b == FrontierCalled(trace[r])
<1>b. /\ b \in Traces /\ b.retried = trace[r].retried
      /\ b.smallCalls = trace[r].smallCalls + 0
      /\ b.frontierCalls = trace[r].frontierCalls + 1
      /\ SameStanding(b, trace[r]) /\ SameText(b, trace[r])
  BY AtRequest, Called
<1> DEFINE t == [b EXCEPT !.fault = "model"]
<1> HIDE DEF b
<1>3. /\ t \in Traces
      /\ SameCalls(t, b)
      /\ SameStanding(t, b)
      /\ SameText(t, b)
  BY <1>b, AtRequest DEF Traces, SameCalls, SameStanding, SameText
<1> USE DEF b
<1>4. Reaches(r, "raised", t, memory[r]) /\ gate' = gate
  BY <1>1 DEF FrontierFaults, At, Raise, Trace, Reaches, gateVars
<1> HIDE DEF t, b
<1>5. Frames(r) /\ pc'[r] = "raised" /\ trace'[r] = t /\ memory'[r] = memory[r]
  BY <1>1, <1>3, <1>4, ReachesFrames, AtRequest DEF RouterInv, RoutePCs, Finished
<1>6. Spent(r)'
  BY <1>1, <1>b, <1>3, <1>5, AtRequest DEF Spent, AtSmall, SameCalls
<1>7. Taught(r)'
  BY <1>1, <1>b, <1>3, <1>5, AtRequest DEF Taught, AtSmall, AtFrontier, NoFootprint, SameStanding
<1>8. Offered(r)'
  BY <1>1, <1>b, <1>3, <1>4, <1>5, AtRequest DEF Offered, InGate, Resting, SameText
<1>9. Backed(r)'
  BY <1>5 DEF Backed
<1> QED
  BY <1>5, <1>6, <1>7, <1>8, <1>9 DEF Local
LEMMA KeyOfQuery == \A q \in Queries : CacheKey(q) \in CacheKeys
  BY Zenon DEF CacheKeys

LEMMA CacheHitLocal ==
    ASSUME RouterInv, NEW r \in Requests, CacheHit(r)
    PROVE  Frames(r) /\ Local(r)' /\ Backed(r)'
<1> DEFINE t == [trace[r] EXCEPT !.tier = "CACHE", !.reason = "CACHE_HIT",
                                 !.output = Cached(r)]
<1>1. /\ pc[r] = "lookup" /\ pc[r] # "idle"
      /\ CacheKey(query[r]) \in CacheKeys /\ Cached(r) \in Texts \cup {NoEntry}
  <2>1. CacheKey(query[r]) \in CacheKeys
    BY AtRequest, KeyOfQuery DEF CacheHit
  <2> QED
    BY <2>1 DEF CacheHit, Cached, RouterInv, RouterTyped, RouterTypeOK
<1>2. /\ t \in Traces /\ SameCalls(t, trace[r]) /\ SameText(t, trace[r])
      /\ t.escalated = trace[r].escalated /\ t.surfaced = trace[r].surfaced
      /\ t.tier = "CACHE" /\ t.output = cache[CacheKey(query[r])]
  BY <1>1, AtRequest DEF Traces, SameCalls, SameText, Cached
<1>3. /\ Reaches(r, "returned", t, memory[r])
      /\ gate' = gate /\ effects' = effects
  BY <1>1 DEF CacheHit, At, Trace, Reaches, gateVars
<1> HIDE DEF t
<1>4. Frames(r) /\ pc'[r] = "returned" /\ trace'[r] = t /\ memory'[r] = memory[r]
  BY <1>1, <1>2, <1>3, ReachesFrames, AtRequest DEF RouterInv, RoutePCs, Finished
<1>5. Spent(r)'
  BY <1>1, <1>2, <1>4, AtRequest DEF Spent, AtSmall, SameCalls
<1>6. Taught(r)'
  BY <1>1, <1>2, <1>4, AtRequest DEF Taught, AtSmall, AtFrontier, NoFootprint
<1>7. Offered(r)'
  BY <1>1, <1>2, <1>3, <1>4, AtRequest DEF Offered, InGate, Resting, SameText
<1>8. Backed(r)'
  <2>1. ToGate(t.output) => \E i \in Rids : effects[<<i, t.output>>] > 0
    BY <1>1, <1>2 DEF RouterInv, CacheExecuted
  <2> QED
    BY <1>2, <1>3, <1>4, <2>1 DEF Backed, ToGate
<1> QED
  BY <1>4, <1>5, <1>6, <1>7, <1>8 DEF Local

LEMMA ArriveLocal ==
    ASSUME RouterInv, NEW r \in Requests, Arrive(r)
    PROVE  Frames(r) /\ Local(r)' /\ Backed(r)'
<1>1. pc[r] = "idle" /\ gate' = gate /\ memory' = memory
  BY DEF Arrive, gateVars
<1>2. PICK q \in Queries, override \in Override :
         /\ query' = [query EXCEPT ![r] = q]
         /\ IF ForceFrontier(q, override)
              THEN /\ At(r, "frontier")
                   /\ Trace(r, [BlankTrace EXCEPT !.tier = "FRONTIER",
                                                  !.reason = "POLICY_FORCED"])
              ELSE At(r, "lookup") /\ UNCHANGED trace
  BY DEF Arrive
<1>3. CASE ForceFrontier(q, override)
  <2> DEFINE t == [BlankTrace EXCEPT !.tier = "FRONTIER", !.reason = "POLICY_FORCED"]
  <2>1. /\ t \in Traces /\ t.smallCalls = 0 /\ t.frontierCalls = 0
        /\ t.tier = "FRONTIER" /\ ~t.escalated /\ ~t.surfaced
    BY DEF BlankTrace, Traces
  <2>2. At(r, "frontier") /\ Trace(r, t)
    BY <1>2, <1>3
  <2> HIDE DEF t
  <2>3. Frames(r) /\ pc'[r] = "frontier" /\ trace'[r] = t /\ memory'[r] = memory[r]
    BY <1>1, <1>2, <2>1, <2>2
    DEF At, Trace, Frames, RouterInv, RouterTyped, RouterTypeOK, RoutePCs
  <2>4. Spent(r)'
    BY <2>1, <2>3 DEF Spent, AtSmall
  <2>5. Taught(r)'
    BY <1>1, <2>1, <2>3, AtRequest DEF Taught, AtSmall, AtFrontier, NoFootprint
  <2>6. Offered(r)'
    BY <1>1, <2>3, AtRequest DEF Offered, InGate
  <2> QED
    BY <2>3, <2>4, <2>5, <2>6 DEF Local, Backed
<1>4. CASE ~ForceFrontier(q, override)
  <2>1. At(r, "lookup") /\ trace' = trace
    BY <1>2, <1>4
  <2>2. /\ Frames(r) /\ pc'[r] = "lookup" /\ trace'[r] = trace[r]
        /\ memory'[r] = memory[r]
    BY <1>1, <1>2, <2>1
    DEF At, Frames, RouterInv, RouterTyped, RouterTypeOK, RoutePCs
  <2>3. Spent(r)' /\ Taught(r)'
    BY <1>1, <2>2, AtRequest DEF Spent, Taught, AtSmall, AtFrontier
  <2>4. Offered(r)'
    BY <1>1, <2>2, AtRequest DEF Offered, InGate
  <2> QED
    BY <2>2, <2>3, <2>4 DEF Local, Backed
<1> QED
  BY <1>3, <1>4

\* The trace of a request the frontier model takes over.
LEMMA EscalatedTrace ==
    ASSUME NEW t \in Traces, NEW c \in FailureCategory
    PROVE  /\ Escalated(t, c) \in Traces /\ SameCalls(Escalated(t, c), t)
           /\ SameText(Escalated(t, c), t)
           /\ Escalated(t, c).escalated /\ Escalated(t, c).tier = "FRONTIER"
           /\ Escalated(t, c).surfaced = t.surfaced
  BY DEF Escalated, Traces, SameCalls, SameText

LEMMA SmallFaultsLocal ==
    ASSUME RouterInv, NEW r \in Requests, SmallFaults(r)
    PROVE  Frames(r) /\ Local(r)' /\ Backed(r)'
<1> DEFINE b == SmallCalled(trace[r])
<1>1. /\ b \in Traces /\ b.retried = trace[r].retried
      /\ b.smallCalls = trace[r].smallCalls + 1
      /\ b.frontierCalls = trace[r].frontierCalls
      /\ SameStanding(b, trace[r]) /\ SameText(b, trace[r])
  BY AtRequest, Called
<1>2. pc[r] = "small" /\ pc[r] # "idle" /\ gate' = gate
  BY DEF SmallFaults, gateVars
<1>3. CASE ~trace[r].retried
  <2> DEFINE t == [b EXCEPT !.retried = TRUE]
  <2>1. Reaches(r, "small", t, memory[r])
    BY <1>2, <1>3 DEF SmallFaults, Trace, Reaches
  <2> HIDE DEF b
  <2>2. /\ t \in Traces /\ t.retried /\ t.smallCalls = b.smallCalls
        /\ t.frontierCalls = b.frontierCalls /\ SameStanding(t, b) /\ SameText(t, b)
    BY <1>1 DEF Traces, SameStanding, SameText
  <2> HIDE DEF t
  <2>3. Frames(r) /\ pc'[r] = "small" /\ trace'[r] = t /\ memory'[r] = memory[r]
    BY <1>2, <2>1, <2>2, ReachesFrames, AtRequest DEF RouterInv, RoutePCs
  <2>4. Spent(r)'
    BY <1>1, <1>2, <1>3, <2>2, <2>3, AtRequest DEF Spent, AtSmall
  <2>5. Taught(r)'
    BY <1>1, <1>2, <2>2, <2>3, AtRequest DEF Taught, AtSmall, AtFrontier, SameStanding
  <2>6. Offered(r)'
    BY <1>2, <2>3, AtRequest DEF Offered, InGate
  <2> QED
    BY <2>3, <2>4, <2>5, <2>6 DEF Local, Backed
<1>4. CASE trace[r].retried
  <2>1. PICK c \in {"TIMEOUT", "PROVIDER_FAULT"} :
           Trace(r, Escalated(b, c)) /\ At(r, "frontier")
    BY <1>4 DEF SmallFaults
  <2> DEFINE t == Escalated(b, c)
  <2>2. Reaches(r, "frontier", t, memory[r])
    BY <2>1 DEF SmallFaults, At, Reaches
  <2> HIDE DEF b
  <2>3. /\ t \in Traces /\ SameCalls(t, b) /\ SameText(t, b)
        /\ t.escalated /\ t.tier = "FRONTIER" /\ t.surfaced = b.surfaced
    BY <1>1, TraceTypes, EscalatedTrace
  <2> HIDE DEF t
  <2>4. Frames(r) /\ pc'[r] = "frontier" /\ trace'[r] = t /\ memory'[r] = memory[r]
    BY <1>2, <2>2, <2>3, ReachesFrames, AtRequest DEF RouterInv, RoutePCs
  <2>5. Spent(r)'
    BY <1>1, <1>2, <1>4, <2>3, <2>4, AtRequest DEF Spent, AtSmall, SameCalls
  <2>6. Taught(r)'
    BY <1>1, <1>2, <2>3, <2>4, AtRequest
    DEF Taught, AtSmall, AtFrontier, NoFootprint, SameStanding
  <2>7. Offered(r)'
    BY <1>2, <2>4, AtRequest DEF Offered, InGate
  <2> QED
    BY <2>4, <2>5, <2>6, <2>7 DEF Local, Backed
<1> QED
  BY <1>3, <1>4

LEMMA LadderPassesLocal ==
    ASSUME RouterInv, NEW r \in Requests, LadderPasses(r)
    PROVE  Frames(r) /\ Local(r)' /\ Backed(r)'
<1> DEFINE t == [trace[r] EXCEPT !.verified = TRUE]
<1>1. /\ t \in Traces /\ SameCalls(t, trace[r]) /\ SameStanding(t, trace[r])
      /\ t.verified /\ t.text = trace[r].text /\ t.toolCommitted = trace[r].toolCommitted
  BY AtRequest DEF Traces, SameCalls, SameStanding
<1>2. /\ pc[r] = "ladder" /\ pc[r] # "idle" /\ Trace(r, t)
      /\ query' = query /\ memory' = memory
  BY DEF LadderPasses
<1>3. CASE ToGate(trace[r].text)
  <2>1. Reaches(r, "committing", t, memory[r]) /\ Propose(r, trace[r].text)
    BY <1>2, <1>3 DEF LadderPasses, At, Reaches
  <2>2. gate'[r].pc = "validating" /\ gate'[r].call = trace[r].text
    BY <1>3, <2>1, ProposeReports DEF RouterInv, IInv, ToGate
  <2> HIDE DEF t
  <2>3. Frames(r) /\ pc'[r] = "committing" /\ trace'[r] = t /\ memory'[r] = memory[r]
    BY <1>1, <1>2, <2>1, ReachesFrames, AtRequest DEF RouterInv, RoutePCs
  <2>4. Spent(r)'
    BY <1>1, <1>2, <2>3, AtRequest DEF Spent, AtSmall, SameCalls
  <2>5. Taught(r)'
    BY <1>1, <1>2, <2>3, AtRequest DEF Taught, AtSmall, AtFrontier, SameStanding
  <2>6. Offered(r)'
    BY <1>1, <1>2, <2>2, <2>3, AtRequest DEF Offered, InGate
  <2> QED
    BY <2>3, <2>4, <2>5, <2>6 DEF Local, Backed
<1>4. CASE ~ToGate(trace[r].text)
  <2>1. Reaches(r, "accepting", t, memory[r]) /\ gate' = gate
    BY <1>2, <1>4 DEF LadderPasses, At, Reaches, gateVars
  <2> HIDE DEF t
  <2>2. Frames(r) /\ pc'[r] = "accepting" /\ trace'[r] = t /\ memory'[r] = memory[r]
    BY <1>1, <1>2, <2>1, ReachesFrames, AtRequest DEF RouterInv, RoutePCs
  <2>3. Spent(r)'
    BY <1>1, <1>2, <2>2, AtRequest DEF Spent, AtSmall, SameCalls
  <2>4. Taught(r)'
    BY <1>1, <1>2, <2>2, AtRequest DEF Taught, AtSmall, AtFrontier, SameStanding
  <2>5. ~ToGate(trace'[r].text)
    BY <1>1, <1>4, <2>2
  <2>6. Offered(r)'
    BY <1>1, <1>2, <2>1, <2>2, <2>5, AtRequest DEF Offered, InGate, ToGate
  <2> QED
    BY <2>2, <2>3, <2>4, <2>5, <2>6 DEF Local, Backed, ToGate
<1> QED
  BY <1>3, <1>4

\* A rejected output costs the rules it was written with one failure, and is
\* logged only where the frontier model takes over.
LEMMA RejectLocal ==
    ASSUME RouterInv, NEW r \in Requests, pc[r] \in {"ladder", "committing"},
           NEW t \in Traces, SameCalls(t, trace[r]), SameStanding(t, trace[r]),
           NEW c \in FailureCategory, Reject(r, t, c),
           query' = query, gate' = gate, gate[r].pc \in Resting
    PROVE  Frames(r) /\ Local(r)' /\ Backed(r)'
<1> DEFINE blamed == [memory[r] EXCEPT !.blame = @ + CreditOf(r)]
           logged == [blamed EXCEPT !.logged = @ + LogOf(r)]
<1>1. memory[r] = NoFootprint /\ CreditOf(r) \in 0..1 /\ LogOf(r) \in 0..1
  BY AtRequest DEF Taught, AtSmall, CreditOf, LogOf
<1>2. /\ blamed \in Footprints /\ blamed.credit = 0 /\ blamed.blame \in 0..1
      /\ blamed.logged = 0 /\ blamed.golden = 0 /\ blamed.exemplar = 0
  BY <1>1 DEF Footprints, NoFootprint
<1>3. CASE Leaves(r, logged) /\ Trace(r, Escalated(t, c)) /\ At(r, "frontier")
  <2> DEFINE u == Escalated(t, c)
  <2>1. Reaches(r, "frontier", u, logged)
    BY <1>3 DEF At, Reaches
  <2> HIDE DEF blamed
  <2>2. /\ logged \in Footprints /\ logged.credit = 0 /\ logged.blame \in 0..1
        /\ logged.logged \in 0..1 /\ logged.golden = 0 /\ logged.exemplar = 0
    BY <1>1, <1>2 DEF Footprints
  <2>3. /\ u \in Traces /\ SameCalls(u, t)
        /\ u.escalated /\ u.tier = "FRONTIER" /\ u.surfaced = t.surfaced
    BY EscalatedTrace
  <2> HIDE DEF u, logged
  <2>4. Frames(r) /\ pc'[r] = "frontier" /\ trace'[r] = u /\ memory'[r] = logged
    BY <2>1, <2>2, <2>3, ReachesFrames, AtRequest DEF RouterInv, RoutePCs
  <2>5. Spent(r)'
    BY <2>3, <2>4, AtRequest DEF Spent, AtSmall, SameCalls
  <2>6. Taught(r)'
    BY <2>2, <2>3, <2>4, AtRequest DEF Taught, AtSmall, AtFrontier, SameStanding
  <2>7. Offered(r)'
    BY <2>4, AtRequest DEF Offered, InGate
  <2> QED
    BY <2>4, <2>5, <2>6, <2>7 DEF Local, Backed
<1>4. CASE Leaves(r, blamed) /\ Trace(r, [t EXCEPT !.fault = "memory"]) /\ At(r, "raised")
  <2> DEFINE u == [t EXCEPT !.fault = "memory"]
  <2>1. Reaches(r, "raised", u, blamed)
    BY <1>4 DEF At, Reaches
  <2>2. u \in Traces /\ SameCalls(u, t)
    BY DEF Traces, SameCalls
  <2> HIDE DEF u, blamed
  <2>3. Frames(r) /\ pc'[r] = "raised" /\ trace'[r] = u /\ memory'[r] = blamed
    BY <1>2, <2>1, <2>2, ReachesFrames, AtRequest DEF RouterInv, RoutePCs, Finished
  <2>4. Spent(r)'
    BY <2>2, <2>3, AtRequest DEF Spent, AtSmall, SameCalls
  <2>5. Taught(r)'
    BY <1>2, <2>3 DEF Taught, AtSmall, AtFrontier
  <2>6. Offered(r)'
    BY <2>3, AtRequest DEF Offered, InGate
  <2> QED
    BY <2>3, <2>4, <2>5, <2>6 DEF Local, Backed
<1> QED
  BY <1>3, <1>4 DEF Reject

LEMMA LadderRejectsLocal ==
    ASSUME RouterInv, NEW r \in Requests, LadderRejects(r)
    PROVE  Frames(r) /\ Local(r)' /\ Backed(r)'
<1>1. /\ pc[r] = "ladder" /\ pc[r] # "idle" /\ gate[r].pc \in Resting
      /\ query' = query /\ gate' = gate
  BY AtRequest DEF LadderRejects, gateVars, Offered, InGate
<1>2. PICK c \in VerifierCategories :
         IF c \in Transient /\ ~trace[r].retried
           THEN /\ Trace(r, [trace[r] EXCEPT !.retried = TRUE])
                /\ At(r, "resample")
                /\ UNCHANGED memory
           ELSE Reject(r, trace[r], IF c = NoCategory THEN "SILENT_SEMANTIC" ELSE c)
  BY DEF LadderRejects
<1>3. CASE c \in Transient /\ ~trace[r].retried
  <2> DEFINE t == [trace[r] EXCEPT !.retried = TRUE]
  <2>1. Reaches(r, "resample", t, memory[r])
    BY <1>1, <1>2, <1>3 DEF At, Reaches
  <2>2. /\ t \in Traces /\ t.retried /\ t.smallCalls = trace[r].smallCalls
        /\ t.frontierCalls = trace[r].frontierCalls /\ SameStanding(t, trace[r])
    BY AtRequest DEF Traces, SameStanding
  <2> HIDE DEF t
  <2>3. Frames(r) /\ pc'[r] = "resample" /\ trace'[r] = t /\ memory'[r] = memory[r]
    BY <1>1, <2>1, <2>2, ReachesFrames, AtRequest DEF RouterInv, RoutePCs
  <2>4. Spent(r)'
    BY <1>1, <1>3, <2>2, <2>3, AtRequest DEF Spent, AtSmall
  <2>5. Taught(r)'
    BY <1>1, <2>2, <2>3, AtRequest DEF Taught, AtSmall, AtFrontier, SameStanding
  <2>6. Offered(r)'
    BY <1>1, <2>3, AtRequest DEF Offered, InGate
  <2> QED
    BY <2>3, <2>4, <2>5, <2>6 DEF Local, Backed
<1>4. CASE ~(c \in Transient /\ ~trace[r].retried)
  <2> DEFINE d == IF c = NoCategory THEN "SILENT_SEMANTIC" ELSE c
  <2>1. d \in FailureCategory
    BY TraceTypes, RouterAssumption
  <2>2. Reject(r, trace[r], d)
    BY <1>2, <1>4
  <2> HIDE DEF d
  <2>3. SameCalls(trace[r], trace[r]) /\ SameStanding(trace[r], trace[r])
    BY DEF SameCalls, SameStanding
  <2> QED
    BY <1>1, <2>1, <2>2, <2>3, RejectLocal, AtRequest
<1> QED
  BY <1>3, <1>4

LEMMA BookkeptTrace ==
    ASSUME RouterInv, NEW r \in Requests
    PROVE  /\ Bookkept(r) \in Traces /\ SameCalls(Bookkept(r), trace[r])
           /\ SameStanding(Bookkept(r), trace[r])
           /\ Bookkept(r).text = trace[r].text
           /\ Bookkept(r).verified = trace[r].verified
           /\ gate[r].committed => Bookkept(r).toolCommitted
<1>1. gate[r].category \in FailureCategory \cup {NoCategory}
  BY AtRequest DEF Outcomes
<1> QED
  BY <1>1, AtRequest DEF Bookkept, Traces, SameCalls, SameStanding

LEMMA SurfacedTrace ==
    ASSUME NEW t \in Traces
    PROVE  /\ Surfaced(t) \in Traces /\ SameCalls(Surfaced(t), t)
           /\ Surfaced(t).surfaced /\ Surfaced(t).escalated = t.escalated
           /\ Surfaced(t).tier = t.tier
           /\ Surfaced(t).output = "surfaced" /\ ~ToGate(Surfaced(t).output)
  BY RouterAssumption DEF Surfaced, Traces, SameCalls, ToGate

LEMMA AnsweredTrace ==
    ASSUME NEW t \in Traces
    PROVE  /\ WithAnswer(t) \in Traces /\ SameCalls(WithAnswer(t), t)
           /\ SameStanding(WithAnswer(t), t) /\ SameText(WithAnswer(t), t)
           /\ WithAnswer(t).output = t.text
  BY DEF WithAnswer, Traces, SameCalls, SameStanding, SameText

LEMMA CommitDoneLocal ==
    ASSUME RouterInv, NEW r \in Requests, CommitDone(r)
    PROVE  Frames(r) /\ Local(r)' /\ Backed(r)'
<1> DEFINE b == Bookkept(r)
<1>1. /\ pc[r] = "committing" /\ pc[r] # "idle"
      /\ gate[r].pc = "done" /\ gate[r].pc \in Resting
      /\ query' = query /\ gate' = gate /\ effects' = effects
  BY DEF CommitDone, gateVars, Resting
<1>2. /\ b \in Traces /\ SameCalls(b, trace[r]) /\ SameStanding(b, trace[r])
      /\ b.text = trace[r].text /\ b.verified = trace[r].verified
      /\ gate[r].committed => b.toolCommitted
  BY BookkeptTrace
<1>3. CASE gate[r].committed /\ Trace(r, b) /\ At(r, "accepting") /\ UNCHANGED memory
  <2>1. Reaches(r, "accepting", b, memory[r])
    BY <1>1, <1>3 DEF At, Reaches
  <2> HIDE DEF b
  <2>2. Frames(r) /\ pc'[r] = "accepting" /\ trace'[r] = b /\ memory'[r] = memory[r]
    BY <1>1, <1>2, <2>1, ReachesFrames, AtRequest DEF RouterInv, RoutePCs
  <2>3. Spent(r)'
    BY <1>1, <1>2, <2>2, AtRequest DEF Spent, AtSmall, SameCalls
  <2>4. Taught(r)'
    BY <1>1, <1>2, <2>2, AtRequest DEF Taught, AtSmall, AtFrontier, SameStanding
  <2>5. Offered(r)'
    BY <1>1, <1>2, <1>3, <2>2, AtRequest DEF Offered, InGate
  <2>6. effects[<<RidOf[r], trace[r].text>>] > 0
    BY <1>1, <1>3, AtRequest DEF RouterInv, IInv, Happened, Key, Offered, InGate
  <2> QED
    BY <1>1, <1>2, <2>2, <2>3, <2>4, <2>5, <2>6 DEF Local, Backed
<1>4. CASE Trace(r, Surfaced(b)) /\ At(r, "returned") /\ UNCHANGED memory
  <2> DEFINE t == Surfaced(b)
  <2>1. Reaches(r, "returned", t, memory[r])
    BY <1>1, <1>4 DEF At, Reaches
  <2> HIDE DEF b
  <2>2. /\ t \in Traces /\ SameCalls(t, b) /\ t.escalated = b.escalated
        /\ ~ToGate(t.output)
    BY <1>2, SurfacedTrace
  <2> HIDE DEF t
  <2>3. Frames(r) /\ pc'[r] = "returned" /\ trace'[r] = t /\ memory'[r] = memory[r]
    BY <1>1, <2>1, <2>2, ReachesFrames, AtRequest DEF RouterInv, RoutePCs, Finished
  <2>4. Spent(r)'
    BY <1>1, <1>2, <2>2, <2>3, AtRequest DEF Spent, AtSmall, SameCalls
  <2>5. Taught(r)'
    BY <1>1, <1>2, <2>2, <2>3, AtRequest DEF Taught, AtSmall, AtFrontier, NoFootprint
  <2>6. Offered(r)'
    BY <1>1, <2>3, AtRequest DEF Offered, InGate
  <2> QED
    BY <2>2, <2>3, <2>4, <2>5, <2>6 DEF Local, Backed, ToGate
<1>5. CASE ShouldEscalate(r) /\ Reject(r, b, gate[r].category)
  <2>1. gate[r].category \in FailureCategory
    BY <1>5 DEF ShouldEscalate, FailureCategory
  <2> HIDE DEF b
  <2> QED
    BY <1>1, <1>2, <1>5, <2>1, RejectLocal
<1> QED
  BY <1>3, <1>4, <1>5 DEF CommitDone

LEMMA AcceptLocal ==
    ASSUME RouterInv, NEW r \in Requests, Accept(r)
    PROVE  Frames(r) /\ Local(r)' /\ Backed(r)'
<1> DEFINE t == WithAnswer(trace[r])
           credited == [memory[r] EXCEPT !.credit = @ + CreditOf(r)]
           learnt == [credited EXCEPT !.golden = @ + GoldenOf(r)]
<1>1. /\ pc[r] = "accepting" /\ pc[r] # "idle"
      /\ query' = query /\ gate' = gate /\ effects' = effects
  BY DEF Accept, gateVars
<1>2. memory[r] = NoFootprint /\ CreditOf(r) \in 0..1 /\ GoldenOf(r) \in 0..1
  BY <1>1, AtRequest DEF Taught, AtSmall, CreditOf, GoldenOf
<1>3. /\ credited \in Footprints /\ credited.credit \in 0..1 /\ credited.blame = 0
      /\ credited.logged = 0 /\ credited.golden = 0 /\ credited.exemplar = 0
  BY <1>2 DEF Footprints, NoFootprint
<1>4. /\ t \in Traces /\ SameCalls(t, trace[r]) /\ SameStanding(t, trace[r])
      /\ SameText(t, trace[r]) /\ t.output = trace[r].text
  BY AtRequest, AnsweredTrace
<1>5. CASE At(r, "returned") /\ Trace(r, t) /\ Leaves(r, learnt)
  <2>1. Reaches(r, "returned", t, learnt)
    BY <1>1, <1>5 DEF At, Reaches
  <2> HIDE DEF t, credited
  <2>2. /\ learnt \in Footprints /\ learnt.credit \in 0..1 /\ learnt.blame = 0
        /\ learnt.logged = 0 /\ learnt.golden \in 0..1 /\ learnt.exemplar = 0
    BY <1>2, <1>3 DEF Footprints
  <2> HIDE DEF learnt
  <2>3. Frames(r) /\ pc'[r] = "returned" /\ trace'[r] = t /\ memory'[r] = learnt
    BY <1>1, <1>4, <2>1, <2>2, ReachesFrames DEF RouterInv, RoutePCs, Finished
  <2>4. Spent(r)'
    BY <1>4, <2>3, AtRequest DEF Spent, AtSmall, SameCalls
  <2>5. Taught(r)'
    BY <1>1, <1>4, <2>2, <2>3, AtRequest DEF Taught, AtSmall, AtFrontier, SameStanding
  <2>6. Offered(r)'
    BY <1>1, <2>3, AtRequest DEF Offered, InGate
  <2>7. t.tier = "SMALL"
    BY <1>1, <1>4, AtRequest DEF Taught, AtSmall, SameStanding
  <2>8. ToGate(t.output) => effects[<<RidOf[r], t.output>>] > 0
    BY <1>1, <1>4 DEF RouterInv, Backed
  <2>9. Backed(r)'
    BY <1>1, <2>3, <2>7, <2>8 DEF Backed, ToGate
  <2> QED
    BY <2>3, <2>4, <2>5, <2>6, <2>9 DEF Local
<1>6. CASE /\ At(r, "raised") /\ Trace(r, [t EXCEPT !.fault = "memory"])
           /\ Leaves(r, credited)
  <2> DEFINE u == [t EXCEPT !.fault = "memory"]
  <2>1. Reaches(r, "raised", u, credited)
    BY <1>1, <1>6 DEF At, Reaches
  <2> HIDE DEF t, credited
  <2>2. u \in Traces /\ SameCalls(u, t)
    BY <1>4 DEF Traces, SameCalls
  <2> HIDE DEF u
  <2>3. Frames(r) /\ pc'[r] = "raised" /\ trace'[r] = u /\ memory'[r] = credited
    BY <1>1, <1>3, <2>1, <2>2, ReachesFrames DEF RouterInv, RoutePCs, Finished
  <2>4. Spent(r)'
    BY <1>4, <2>2, <2>3, AtRequest DEF Spent, AtSmall, SameCalls
  <2>5. Taught(r)'
    BY <1>3, <2>3 DEF Taught, AtSmall, AtFrontier
  <2>6. Offered(r)'
    BY <1>1, <2>3, AtRequest DEF Offered, InGate
  <2> QED
    BY <2>3, <2>4, <2>5, <2>6 DEF Local, Backed
<1> QED
  BY <1>5, <1>6 DEF Accept

\* The end of a request the frontier model answered or failed to.
LEMMA FinishFrontierLocal ==
    ASSUME RouterInv, NEW r \in Requests, pc[r] \in AtFrontier,
           NEW t \in Traces, FinishFrontier(r, t), query' = query, gate' = gate,
           effects' = effects, gate[r].pc \in Resting,
           t.smallCalls <= 2 /\ t.frontierCalls <= 1,
           t.escalated = trace[r].escalated, t.tier = "FRONTIER",
           ToGate(t.output) => effects[<<RidOf[r], t.output>>] > 0
    PROVE  Frames(r) /\ Local(r)' /\ Backed(r)'
<1> DEFINE m == [memory[r] EXCEPT !.exemplar = @ + ExemplarOf(t)]
<1>1. /\ memory[r] \in Footprints /\ memory[r].exemplar = 0
      /\ memory[r].credit = 0 /\ memory[r].golden = 0
  BY AtRequest DEF Taught
<1>2. ExemplarOf(t) \in 0..(IF t.escalated /\ ~t.surfaced THEN 1 ELSE 0)
  BY DEF ExemplarOf
<1>3. /\ m \in Footprints /\ m.exemplar = ExemplarOf(t)
      /\ m.credit = 0 /\ m.golden = 0
      /\ m.blame = memory[r].blame /\ m.logged = memory[r].logged
  BY <1>1, <1>2 DEF Footprints
<1>4. Reaches(r, "returned", t, m)
  BY DEF FinishFrontier, At, Reaches
<1> HIDE DEF m
<1>5. Frames(r) /\ pc'[r] = "returned" /\ trace'[r] = t /\ memory'[r] = m
  BY <1>3, <1>4, ReachesFrames DEF RouterInv, AtFrontier, RoutePCs, Finished
<1>6. Spent(r)'
  BY <1>5 DEF Spent, AtSmall
<1>7. Taught(r)'
  BY <1>2, <1>3, <1>5, AtRequest DEF Taught, AtSmall, AtFrontier
<1>8. Offered(r)'
  BY <1>5, AtRequest DEF Offered, InGate
<1>9. Backed(r)'
  BY <1>5 DEF Backed, ToGate
<1> QED
  BY <1>5, <1>6, <1>7, <1>8, <1>9 DEF Local

LEMMA FrontierAnswersLocal ==
    ASSUME RouterInv, NEW r \in Requests, FrontierAnswers(r)
    PROVE  Frames(r) /\ Local(r)' /\ Backed(r)'
<1> DEFINE b == FrontierCalled(trace[r])
<1>1. /\ b \in Traces /\ b.smallCalls = trace[r].smallCalls
      /\ b.frontierCalls = trace[r].frontierCalls + 1 /\ SameStanding(b, trace[r])
  BY AtRequest, Called
<1>2. /\ pc[r] = "frontier" /\ pc[r] # "idle" /\ pc[r] \in AtFrontier
      /\ query' = query /\ gate[r].pc \in Resting
  BY AtRequest DEF FrontierAnswers, AtFrontier, Offered, InGate
<1>3. PICK x \in Texts :
         LET t == [b EXCEPT !.text = x, !.verified = FALSE] IN
         IF ToGate(x)
           THEN /\ Propose(r, x) /\ At(r, "frontierCommitting")
                /\ Trace(r, t) /\ UNCHANGED memory
           ELSE FinishFrontier(r, WithAnswer(t)) /\ UNCHANGED gateVars
  BY DEF FrontierAnswers
<1> DEFINE t == [b EXCEPT !.text = x, !.verified = FALSE]
<1> HIDE DEF b
<1>4. /\ t \in Traces /\ t.smallCalls = b.smallCalls
      /\ t.frontierCalls = b.frontierCalls /\ SameStanding(t, b) /\ t.text = x
  BY <1>1 DEF Traces, SameStanding
<1>5. CASE ToGate(x)
  <2>1. Reaches(r, "frontierCommitting", t, memory[r]) /\ Propose(r, x)
    BY <1>2, <1>3, <1>5 DEF At, Reaches
  <2>2. gate'[r].pc = "validating" /\ gate'[r].call = x
    BY <1>5, <2>1, ProposeReports DEF RouterInv, IInv, ToGate
  <2> HIDE DEF t
  <2>3. /\ Frames(r) /\ pc'[r] = "frontierCommitting" /\ trace'[r] = t
        /\ memory'[r] = memory[r]
    BY <1>2, <1>4, <2>1, ReachesFrames, AtRequest DEF RouterInv, RoutePCs
  <2>4. Spent(r)'
    BY <1>1, <1>2, <1>4, <2>3, AtRequest DEF Spent, AtSmall
  <2>5. Taught(r)'
    BY <1>1, <1>2, <1>4, <2>3, AtRequest DEF Taught, AtSmall, AtFrontier, SameStanding
  <2>6. Offered(r)'
    BY <1>4, <2>2, <2>3 DEF Offered, InGate
  <2> QED
    BY <2>3, <2>4, <2>5, <2>6 DEF Local, Backed
<1>6. CASE ~ToGate(x)
  <2> DEFINE u == WithAnswer(t)
  <2>1. FinishFrontier(r, u) /\ gate' = gate /\ effects' = effects
    BY <1>3, <1>6 DEF gateVars
  <2> HIDE DEF t
  <2>2. /\ u \in Traces /\ SameCalls(u, t) /\ SameStanding(u, t) /\ u.output = x
    BY <1>4, AnsweredTrace
  <2> HIDE DEF u
  <2>3. /\ u.smallCalls <= 2 /\ u.frontierCalls <= 1
        /\ u.escalated = trace[r].escalated /\ u.tier = "FRONTIER"
    BY <1>1, <1>2, <1>4, <2>2, AtRequest DEF SameCalls, SameStanding, Spent, Taught
  <2> QED
    BY <1>2, <1>6, <2>1, <2>2, <2>3, FinishFrontierLocal
<1> QED
  BY <1>5, <1>6

LEMMA FrontierCommitDoneLocal ==
    ASSUME RouterInv, NEW r \in Requests, FrontierCommitDone(r)
    PROVE  Frames(r) /\ Local(r)' /\ Backed(r)'
<1> DEFINE b == Bookkept(r)
<1>1. /\ pc[r] = "frontierCommitting" /\ pc[r] \in AtFrontier
      /\ gate[r].pc \in Resting
      /\ query' = query /\ gate' = gate /\ effects' = effects
      /\ FinishFrontier(r, IF gate[r].committed THEN WithAnswer(b) ELSE Surfaced(b))
  BY DEF FrontierCommitDone, gateVars, Resting, AtFrontier
<1>2. /\ b \in Traces /\ SameCalls(b, trace[r]) /\ SameStanding(b, trace[r])
      /\ b.text = trace[r].text
  BY BookkeptTrace
<1> HIDE DEF b
<1>3. /\ b.smallCalls <= 2 /\ b.frontierCalls <= 1
      /\ b.escalated = trace[r].escalated /\ b.tier = "FRONTIER"
  BY <1>1, <1>2, AtRequest DEF SameCalls, SameStanding, Spent, Taught
<1>4. CASE gate[r].committed
  <2> DEFINE t == WithAnswer(b)
  <2>1. /\ t \in Traces /\ SameCalls(t, b) /\ SameStanding(t, b)
        /\ t.output = trace[r].text
    BY <1>2, AnsweredTrace
  <2>2. FinishFrontier(r, t)
    BY <1>1, <1>4
  <2> HIDE DEF t
  <2>3. effects[<<RidOf[r], trace[r].text>>] > 0
    BY <1>1, <1>4, AtRequest DEF RouterInv, IInv, Happened, Key, Offered, InGate
  <2> QED
    BY <1>1, <1>3, <2>1, <2>2, <2>3, FinishFrontierLocal DEF SameCalls, SameStanding
<1>5. CASE ~gate[r].committed
  <2> DEFINE t == Surfaced(b)
  <2>1. /\ t \in Traces /\ SameCalls(t, b) /\ t.escalated = b.escalated
        /\ t.tier = b.tier /\ ~ToGate(t.output)
    BY <1>2, SurfacedTrace
  <2>2. FinishFrontier(r, t)
    BY <1>1, <1>5
  <2> HIDE DEF t
  <2> QED
    BY <1>1, <1>3, <2>1, <2>2, FinishFrontierLocal DEF SameCalls
<1> QED
  BY <1>4, <1>5

\* The router's own steps, in the terms of the lemmas above.
LEMMA RouteStepLocal ==
    ASSUME RouterInv, NEW r \in Requests, Arrive(r) \/ RouteStep(r)
    PROVE  Frames(r) /\ Local(r)' /\ Backed(r)'
  BY ArriveLocal, CacheHitLocal, PredictHardLocal, TrySmallLocal, SmallAnswersLocal,
     SmallFaultsLocal, ResampleFaultsLocal, JudgeFaultsLocal, LadderPassesLocal,
     LadderRejectsLocal, CommitDoneLocal, GateRaisesLocal, AcceptLocal,
     FrontierAnswersLocal, FrontierFaultsLocal, FrontierCommitDoneLocal
  DEF RouteStep

\* They apply nothing themselves, leave the calls of others alone and end for good.
LEMMA RouteStepGate ==
    ASSUME RouterInv, NEW r \in Requests, Arrive(r) \/ RouteStep(r)
    PROVE  /\ effects' = effects /\ pc[r] \notin Finished
           /\ \A s \in Requests \ {r} : gate'[s] = gate[s]
           /\ Accept(r) \/ cache' = cache
<1>1. CASE LadderPasses(r)
  <2>1. CASE ToGate(trace[r].text)
    BY <1>1, <2>1, ProposeReports
    DEF LadderPasses, Propose, RouterInv, IInv, ToGate, Finished
  <2>2. CASE ~ToGate(trace[r].text)
    BY <1>1, <2>2 DEF LadderPasses, gateVars, Finished
  <2> QED BY <2>1, <2>2
<1>2. CASE FrontierAnswers(r)
  <2>1. pc[r] \notin Finished /\ cache' = cache
    BY <1>2 DEF FrontierAnswers, Finished
  <2>2. PICK x \in Texts : \/ ToGate(x) /\ Propose(r, x)
                          \/ UNCHANGED gateVars
    BY <1>2 DEF FrontierAnswers
  <2>3. CASE ToGate(x) /\ Propose(r, x)
    BY <2>1, <2>3, ProposeReports DEF Propose, RouterInv, IInv, ToGate
  <2> QED BY <2>1, <2>2, <2>3 DEF gateVars
<1>3. CASE Arrive(r) \/ Accept(r)
  BY <1>3 DEF Arrive, Accept, gateVars, Finished
<1>4. CASE CacheHit(r) \/ PredictHard(r) \/ TrySmall(r) \/ SmallAnswers(r)
           \/ SmallFaults(r) \/ ResampleFaults(r) \/ JudgeFaults(r)
  BY <1>4 DEF CacheHit, PredictHard, TrySmall, SmallAnswers, SmallFaults,
              ResampleFaults, JudgeFaults, gateVars, Finished
<1>5. CASE LadderRejects(r) \/ CommitDone(r) \/ GateRaises(r) \/ FrontierFaults(r)
           \/ FrontierCommitDone(r)
  BY <1>5 DEF LadderRejects, CommitDone, GateRaises, FrontierFaults,
              FrontierCommitDone, gateVars, Finished
<1> QED
  BY <1>1, <1>2, <1>3, <1>4, <1>5 DEF RouteStep

\* What Accept puts into the cache.
LEMMA AcceptCaches ==
    ASSUME RouterInv, NEW r \in Requests, Accept(r), cache' # cache
    PROVE  /\ cache' = [cache EXCEPT ![CacheKey(query[r])] = trace[r].text]
           /\ CacheKey(query[r]) \in CacheKeys
           /\ trace[r].text \in Replayable \cap Texts
           /\ pc'[r] = "returned" /\ trace'[r].tier = "SMALL"
           /\ trace'[r].output = trace[r].text /\ query'[r] = query[r]
           /\ ToGate(trace[r].text) => effects[<<RidOf[r], trace[r].text>>] > 0
<1>1. /\ pc[r] = "accepting" /\ Cacheable(r) /\ At(r, "returned")
      /\ Trace(r, WithAnswer(trace[r])) /\ query' = query
      /\ cache' = [cache EXCEPT ![CacheKey(query[r])] = trace[r].text]
  BY DEF Accept
<1>2. CacheKey(query[r]) \in CacheKeys /\ trace[r].text \in Texts
  BY <1>1, AtRequest, KeyOfQuery DEF Offered
<1>3. trace[r].text \in Replayable
  <2>1. ToGate(trace[r].text) => trace[r].toolCommitted
    BY <1>1, AtRequest DEF Offered
  <2>2. Gated => trace[r].text \notin Irreversible
    BY <1>1, <2>1, GateAssumption DEF Cacheable, ToGate
  <2> QED BY <1>2, <2>2 DEF Replayable
<1>4. pc'[r] = "returned" /\ trace'[r] = WithAnswer(trace[r])
  BY <1>1 DEF At, Trace, RouterInv, RouterTyped, RouterTypeOK
<1>5. WithAnswer(trace[r]).tier = "SMALL" /\ WithAnswer(trace[r]).output = trace[r].text
  BY <1>1, AtRequest, AnsweredTrace DEF SameStanding, Taught, AtSmall
<1>6. ToGate(trace[r].text) => effects[<<RidOf[r], trace[r].text>>] > 0
  BY <1>1 DEF RouterInv, Backed
<1> QED
  BY <1>1, <1>2, <1>3, <1>4, <1>5, <1>6

\* A step that keeps the requests that were answered keeps what they vouch for.
LEMMA VouchersKept ==
    ASSUME RouterInv, NEW r \in Requests, Frames(r), pc[r] \notin Finished
    PROVE  \A s \in Requests : pc[s] = "returned" =>
              /\ pc'[s] = "returned" /\ query'[s] = query[s] /\ trace'[s] = trace[s]
  BY DEF Frames, Finished

LEMMA RouteStepInv ==
    ASSUME RouterInv, IInv', NEW r \in Requests, Arrive(r) \/ RouteStep(r)
    PROVE  RouterInv'
<1>1. Frames(r) /\ Local(r)' /\ Backed(r)'
  BY RouteStepLocal
<1>2. /\ effects' = effects /\ pc[r] \notin Finished
      /\ \A s \in Requests \ {r} : gate'[s] = gate[s]
      /\ Accept(r) \/ cache' = cache
  BY RouteStepGate
<1>3. \A s \in Requests \ {r} : Local(s)' /\ Backed(s)'
  <2> SUFFICES ASSUME NEW s \in Requests \ {r} PROVE Local(s)' /\ Backed(s)'
    OBVIOUS
  <2>1. /\ pc'[s] = pc[s] /\ trace'[s] = trace[s] /\ memory'[s] = memory[s]
        /\ gate'[s] = gate[s]
    BY <1>1, <1>2 DEF Frames
  <2>2. Local(s) /\ Backed(s)
    BY DEF RouterInv
  <2>3. Spent(s)' /\ Taught(s)'
    BY <2>1, <2>2 DEF Local, Spent, Taught
  <2>4. Offered(s)'
    BY <2>1, <2>2 DEF Local, Offered, ToGate
  <2>5. Backed(s)'
    BY <1>2, <2>1, <2>2 DEF Backed, ToGate
  <2> QED BY <2>3, <2>4, <2>5 DEF Local
<1>4. CASE cache' = cache
  <2>1. RouterTyped'
    BY <1>1, <1>4 DEF IInv, Typed, Frames, RouterInv, RouterTyped, RouterTypeOK
  <2>2. CacheExecuted'
    BY <1>2, <1>4 DEF RouterInv, CacheExecuted, ToGate
  <2>3. CacheVouched'
    BY <1>1, <1>2, <1>4, VouchersKept DEF RouterInv, CacheVouched
  <2> QED BY <1>1, <1>3, <2>1, <2>2, <2>3 DEF RouterInv
<1>5. CASE cache' # cache
  <2> DEFINE k == CacheKey(query[r])
  <2>1. /\ cache' = [cache EXCEPT ![k] = trace[r].text] /\ k \in CacheKeys
        /\ trace[r].text \in Replayable \cap Texts
        /\ pc'[r] = "returned" /\ trace'[r].tier = "SMALL"
        /\ trace'[r].output = trace[r].text /\ query'[r] = query[r]
        /\ ToGate(trace[r].text) => effects[<<RidOf[r], trace[r].text>>] > 0
    BY <1>2, <1>5, AcceptCaches
  <2>2. cache \in [CacheKeys -> Texts \cup {NoEntry}]
    BY DEF RouterInv, RouterTyped, RouterTypeOK
  <2>3. cache' \in [CacheKeys -> Texts \cup {NoEntry}]
    BY <2>1, <2>2
  <2>4. RouterTyped'
    BY <1>1, <2>3 DEF IInv, Typed, Frames, RouterInv, RouterTyped, RouterTypeOK
  <2>5. CacheExecuted'
    <3>1. RidOf[r] \in Rids
      BY GateAssumption
    <3> QED BY <1>2, <2>1, <2>2, <3>1 DEF RouterInv, CacheExecuted, ToGate
  <2>6. CacheVouched'
    <3> SUFFICES ASSUME NEW j \in CacheKeys, cache'[j] # NoEntry
                 PROVE  /\ cache'[j] \in Replayable
                        /\ \E s \in Requests :
                              /\ pc'[s] = "returned" /\ trace'[s].tier = "SMALL"
                              /\ CacheKey(query'[s]) = j /\ trace'[s].output = cache'[j]
      BY DEF CacheVouched, CacheKey
    <3>1. CASE j = k
      BY <2>1, <2>2, <3>1
    <3>2. CASE j # k
      BY <1>1, <1>2, <2>1, <2>2, <3>2, VouchersKept DEF RouterInv, CacheVouched
    <3> QED BY <3>1, <3>2
  <2> QED BY <1>1, <1>3, <2>4, <2>5, <2>6 DEF RouterInv
<1> QED
  BY <1>4, <1>5

\* The gate works on a request only while it waits for its call.
LEMMA GateStepInv ==
    ASSUME RouterInv, IInv', [Next]_gateVars, UNCHANGED routeVars,
           \A r \in Requests : gate'[r] = gate[r] \/ GateStep(r)
    PROVE  RouterInv'
<1>1. /\ pc' = pc /\ query' = query /\ trace' = trace /\ memory' = memory
      /\ cache' = cache
  BY DEF routeVars
<1>2. \A k \in Keys : effects[k] > 0 => effects'[k] > 0
  BY EffectsKept DEF RouterInv, IInv
<1>3. ASSUME NEW r \in Requests
      PROVE  Local(r)'
  <2>1. Spent(r)' /\ Taught(r)'
    BY <1>1 DEF RouterInv, Local, Spent, Taught
  <2>2. CASE gate'[r] = gate[r]
    BY <1>1, <2>1, <2>2 DEF RouterInv, Local, Offered, ToGate
  <2>3. CASE GateStep(r)
    <3>1. Summary(r)
      BY <2>3, StepSummary DEF GateStep, RouterInv, IInv
    <3>2. gate[r].pc \notin Resting /\ gate'[r].call = gate[r].call
      BY <3>1 DEF Summary, Frame
    <3>3. Offered(r)'
      BY <1>1, <3>2 DEF RouterInv, Local, Offered, ToGate, InGate
    <3> QED BY <2>1, <3>3 DEF Local
  <2> QED BY <2>2, <2>3
<1>4. ASSUME NEW r \in Requests
      PROVE  Backed(r)'
  <2>1. Backed(r) /\ RidOf[r] \in Rids
    BY GateAssumption DEF RouterInv
  <2>2. \A c \in Calls, i \in Rids : effects[<<i, c>>] > 0 => effects'[<<i, c>>] > 0
    BY <1>2 DEF Keys
  <2> QED BY <1>1, <2>1, <2>2 DEF Backed, ToGate
<1>5. RouterTyped'
  BY <1>1 DEF IInv, Typed, RouterInv, RouterTyped, RouterTypeOK
<1>6. CacheExecuted'
  <2>1. \A c \in Calls, i \in Rids : effects[<<i, c>>] > 0 => effects'[<<i, c>>] > 0
    BY <1>2 DEF Keys
  <2> QED BY <1>1, <2>1 DEF RouterInv, CacheExecuted, ToGate
<1>7. CacheVouched'
  BY <1>1 DEF RouterInv, CacheVouched
<1> QED
  BY <1>3, <1>4, <1>5, <1>6, <1>7 DEF RouterInv

LEMMA ForgetInv ==
    ASSUME RouterInv, IInv', NEW k \in CacheKeys, Forget(k)
    PROVE  RouterInv'
<1>1. /\ pc' = pc /\ query' = query /\ trace' = trace /\ memory' = memory
      /\ gate' = gate /\ effects' = effects
      /\ cache' = [cache EXCEPT ![k] = NoEntry]
      /\ cache \in [CacheKeys -> Texts \cup {NoEntry}]
  BY DEF Forget, gateVars, RouterInv, RouterTyped, RouterTypeOK
<1>2. RouterTyped'
  BY <1>1 DEF IInv, Typed, RouterInv, RouterTyped, RouterTypeOK
<1>3. \A r \in Requests : Local(r)' /\ Backed(r)'
  <2>1. \A r \in Requests : Spent(r)' /\ Taught(r)'
    BY <1>1 DEF RouterInv, Local, Spent, Taught
  <2>2. \A r \in Requests : Offered(r)' /\ Backed(r)'
    BY <1>1 DEF RouterInv, Local, Offered, Backed, ToGate
  <2> QED BY <2>1, <2>2 DEF Local
<1>4. CacheExecuted'
  <2>1. ~ToGate(NoEntry)
    BY RouterAssumption DEF ToGate
  <2> QED BY <1>1, <2>1 DEF RouterInv, CacheExecuted, ToGate
<1>5. CacheVouched'
  BY <1>1 DEF RouterInv, CacheVouched
<1> QED
  BY <1>2, <1>3, <1>4, <1>5 DEF RouterInv

LEMMA RouterStepInv ==
    ASSUME RouterInv, IInv', [RouterNext]_allVars
    PROVE  RouterInv'
<1>1. CASE UNCHANGED allVars
  <2>1. UNCHANGED routeVars /\ UNCHANGED gateVars
    BY <1>1 DEF allVars
  <2> QED BY <2>1, GateStepInv DEF gateVars
<1>2. ASSUME NEW r \in Requests, Arrive(r) \/ RouteStep(r)
      PROVE  RouterInv'
  BY <1>2, RouteStepInv
<1>3. ASSUME NEW r \in Requests, GateStep(r)
      PROVE  RouterInv'
  <2>1. Summary(r)
    BY <1>3, StepSummary DEF GateStep, RouterInv, IInv
  <2>2. \A s \in Requests \ {r} : gate'[s] = gate[s]
    BY <2>1 DEF Summary, Frame
  <2>3. [Next]_gateVars /\ UNCHANGED routeVars
    BY <1>3 DEF GateStep, Next
  <2> QED BY <1>3, <2>2, <2>3, GateStepInv
<1>4. ASSUME NEW k \in CacheKeys, Forget(k)
      PROVE  RouterInv'
  BY <1>4, ForgetInv
<1> QED
  BY <1>1, <1>2, <1>3, <1>4 DEF RouterNext

LEMMA RouterInitInv == RouterInit => RouterInv
<1> SUFFICES ASSUME RouterInit PROVE RouterInv
  OBVIOUS
<1>1. IInv
  BY IInvInit DEF RouterInit
<1>2. BlankTrace \in Traces /\ NoFootprint \in Footprints
  BY DEF BlankTrace, Traces, NoFootprint, Footprints
<1>3. RouterTyped
  BY <1>1, <1>2 DEF RouterInit, IInv, Typed, RouterTyped, RouterTypeOK, RoutePCs
<1>4. ASSUME NEW r \in Requests
      PROVE  Local(r) /\ Backed(r)
  <2>1. /\ pc[r] = "idle" /\ trace[r] = BlankTrace /\ memory[r] = NoFootprint
        /\ gate[r].pc = "idle"
    BY DEF RouterInit, Init, Untouched, Fresh
  <2>2. /\ BlankTrace.smallCalls = 0 /\ BlankTrace.frontierCalls = 0
        /\ ~BlankTrace.retried /\ ~BlankTrace.escalated /\ ~BlankTrace.surfaced
    BY DEF BlankTrace
  <2>3. /\ NoFootprint.credit = 0 /\ NoFootprint.blame = 0 /\ NoFootprint.logged = 0
        /\ NoFootprint.golden = 0 /\ NoFootprint.exemplar = 0
    BY DEF NoFootprint
  <2>4. Spent(r)
    BY <2>1, <2>2 DEF Spent, AtSmall
  <2>5. Taught(r)
    BY <2>1, <2>2, <2>3 DEF Taught, AtSmall, AtFrontier
  <2>6. Offered(r) /\ Backed(r)
    BY <2>1 DEF Offered, Backed, InGate, Resting
  <2> QED BY <2>4, <2>5, <2>6 DEF Local
<1>5. CacheExecuted /\ CacheVouched
  BY RouterAssumption DEF RouterInit, CacheExecuted, CacheVouched, ToGate
<1> QED
  BY <1>1, <1>3, <1>4, <1>5 DEF RouterInv

LEMMA RouterInvariant == RouterSafetySpec => []RouterInv
<1>1. RouterSafetySpec => []IInv
  BY RouterImplementsGate, IInvariant, PTL
<1>2. RouterInv /\ IInv' /\ [RouterNext]_allVars => RouterInv'
  BY RouterStepInv
<1> QED
  BY <1>1, <1>2, RouterInitInv, PTL DEF RouterSafetySpec
-----------------------------------------------------------------------------
\* The router's state keeps its types, whatever models, verifiers, backend and
\* file system do.
THEOREM RouterTypeCorrect == RouterSafetySpec => []RouterTypeOK
<1>1. RouterInv => RouterTypeOK
  BY DEF RouterInv, RouterTyped
<1> QED
  BY <1>1, RouterInvariant, PTL

\* No mix of timeouts, transient verdicts and tool failures makes a request
\* call the small model three times or the frontier model twice.
THEOREM CallsBounded == RouterSafetySpec => []CallBudget
<1>1. RouterInv => CallBudget
  BY DEF RouterInv, Local, Spent, CallBudget
<1> QED
  BY <1>1, RouterInvariant, PTL

\* On every path through route(), and however saves fail, a request teaches the
\* memory one lesson at most, and the right one.
THEOREM OneLessonTaught == RouterSafetySpec => []OneLesson
<1>1. RouterInv => OneLesson
  BY DEF RouterInv, Local, Taught, OneLesson
<1> QED
  BY <1>1, RouterInvariant, PTL

\* A call that is given as an answer was executed, by this request or, when it
\* comes out of the cache, by an earlier one, whatever was evicted since.
THEOREM AnswersAreExecuted == RouterSafetySpec => []AnswerExecuted
<1>1. RouterInv => AnswerExecuted
  BY DEF RouterInv, Backed, AnswerExecuted
<1> QED
  BY <1>1, RouterInvariant, PTL

\* With keys honoured, a backend that fails only before it applies a call and no
\* result verifiers, escalation never adds a second irreversible effect.
THEOREM OneIrreversibleEffect == RouterSafetySpec => []SingleIrreversibleEffect
<1>1. Sole => SingleIrreversibleEffect
  <2> SUFFICES ASSUME Sole, ~LateFaults, ~ResultVerifiers,
                      NEW r \in Requests, Unshared(r),
                      NEW c \in Irrevocable(RidOf[r]), NEW d \in Irrevocable(RidOf[r])
               PROVE  c = d
    BY DEF SingleIrreversibleEffect, Unshared
  <2>1. <<RidOf[r], c>> \in Keys /\ <<RidOf[r], d>> \in Keys
    BY GateAssumption DEF Keys, Irrevocable
  <2>2. <<RidOf[r], c>> = Key(r) /\ <<RidOf[r], d>> = Key(r)
    BY <2>1 DEF Sole, Irrevocable
  <2> QED BY <2>2
<1>2. RouterSafetySpec => []Sole
  BY RouterImplementsGate, SoleInvariant, PTL
<1> QED
  BY <1>1, <1>2, PTL

\* What the backend applies is the text the ladder passed, or the frontier's.
THEOREM OnlyVerifiedExecutes == RouterSafetySpec => SmallExecutesVerified
<1> DEFINE Verified ==
      \A k \in Keys : effects'[k] > effects[k] =>
          \E r \in Requests :
              /\ RidOf[r] = k[1] /\ trace[r].text = k[2]
              /\ \/ pc[r] = "committing" /\ trace[r].verified
                 \/ pc[r] = "frontierCommitting" /\ trace[r].frontierCalls = 1
<1>1. RouterSafetySpec => [](RouterInv /\ Checked)
  <2>1. Init => Typed /\ Checked
    BY TypedInit DEF Init, Checked, Untouched, Fresh
  <2>2. Typed /\ Checked /\ [Next]_gateVars => (Typed /\ Checked)'
    BY TypedStep, CheckedStep
  <2>3. SafetySpec => []Checked
    BY <2>1, <2>2, PTL DEF SafetySpec
  <2> QED BY <2>3, RouterImplementsGate, RouterInvariant, PTL
<1>2. ASSUME RouterInv, Checked, [RouterNext]_allVars
      PROVE  Verified
  <2> SUFFICES ASSUME NEW k \in Keys, effects'[k] > effects[k]
               PROVE  \E r \in Requests :
                         /\ RidOf[r] = k[1] /\ trace[r].text = k[2]
                         /\ \/ pc[r] = "committing" /\ trace[r].verified
                            \/ pc[r] = "frontierCommitting" /\ trace[r].frontierCalls = 1
    OBVIOUS
  <2>1. PICK r \in Requests : Key(r) = k /\ gate[r].pc = "executing"
    BY <1>2, RouterStepAtGate, EffectStep DEF RouterInv, IInv
  <2>2. pc[r] \in InGate /\ gate[r].call = trace[r].text
    BY <1>2, <2>1, AtRequest DEF Offered, Resting
  <2>3. /\ pc[r] = "committing" => trace[r].verified
        /\ pc[r] = "frontierCommitting" => trace[r].frontierCalls = 1
    BY <1>2, AtRequest DEF Offered, Spent
  <2> QED BY <2>1, <2>2, <2>3 DEF Key, InGate
<1>3. RouterInv /\ Checked /\ [RouterNext]_allVars => [Verified]_allVars
  BY <1>2
<1> QED
  BY <1>1, <1>3, PTL DEF RouterSafetySpec, SmallExecutesVerified
-----------------------------------------------------------------------------
(* The router implements RouteContract: the mapping of Contract, by name.   *)

Phases == [r \in Requests |-> Phase[pc[r]]]

Asked ==
    [r \in Requests |-> IF pc[r] = "idle" THEN NoEntry
                                         ELSE <<query[r].tenant, query[r].text>>]

Given == [r \in Requests |-> IF pc[r] = "returned" THEN trace[r].output ELSE NoEntry]

Vouches(r) ==
    pc[r] = "returned" /\ trace[r].tier = "SMALL" /\ trace[r].output \in Replayable

Vouched ==
    {<< <<query[r].tenant, query[r].text>>, trace[r].output >> :
        r \in {s \in Requests : /\ pc[s] = "returned"
                                /\ trace[s].tier = "SMALL"
                                /\ trace[s].output \in Replayable}}

LEMMA PhaseValues ==
    /\ Phase["idle"] = "new" /\ Phase["lookup"] = "asked"
    /\ Phase["returned"] = "answered" /\ Phase["raised"] = "raised"
    /\ \A p \in AtFrontier : Phase[p] = "frontier"
    /\ \A p \in AtSmall : Phase[p] = "small"
  BY DEF Phase, RoutePCs, Finished, AtFrontier, AtSmall

\* The mapped state after a step of r: its phase, what it asked, its answer.
LEMMA MappedStep ==
    ASSUME RouterInv, NEW r \in Requests, Frames(r), pc[r] \notin Finished
    PROVE  /\ Phases' = [Phases EXCEPT ![r] = Phase[pc'[r]]]
           /\ pc[r] # "idle" /\ pc'[r] # "idle" /\ query' = query => Asked' = Asked
           /\ pc'[r] # "returned" => Given' = Given
           /\ pc'[r] = "returned" => Given' = [Given EXCEPT ![r] = trace'[r].output]
           /\ Vouched' = IF Vouches(r)'
                           THEN Vouched \cup {<< <<query'[r].tenant, query'[r].text>>,
                                                 trace'[r].output >>}
                           ELSE Vouched
<1>1. \A s \in Requests \ {r} :
         /\ pc'[s] = pc[s] /\ query'[s] = query[s] /\ trace'[s] = trace[s]
  BY DEF Frames
<1>2. pc[r] # "returned"
  BY DEF Finished
<1>3. Phases' = [Phases EXCEPT ![r] = Phase[pc'[r]]]
  BY <1>1 DEF Phases
<1>4. pc[r] # "idle" /\ pc'[r] # "idle" /\ query' = query => Asked' = Asked
  BY <1>1 DEF Asked
<1>5. /\ pc'[r] # "returned" => Given' = Given
      /\ pc'[r] = "returned" => Given' = [Given EXCEPT ![r] = trace'[r].output]
  BY <1>1, <1>2 DEF Given
<1>6. Vouched' = IF Vouches(r)'
                   THEN Vouched \cup {<< <<query'[r].tenant, query'[r].text>>,
                                         trace'[r].output >>}
                   ELSE Vouched
  <2> DEFINE Set == {s \in Requests : /\ pc[s] = "returned"
                                      /\ trace[s].tier = "SMALL"
                                      /\ trace[s].output \in Replayable}
             Later == {s \in Requests : /\ pc'[s] = "returned"
                                        /\ trace'[s].tier = "SMALL"
                                        /\ trace'[s].output \in Replayable}
  <2>1. Later = IF Vouches(r)' THEN Set \cup {r} ELSE Set
    BY <1>1, <1>2 DEF Vouches, Replayable, Texts
  <2>2. \A s \in Set : s \in Requests \ {r}
    BY <1>2
  <2>3. Vouched = {<< <<query[s].tenant, query[s].text>>, trace[s].output >> : s \in Set}
    BY DEF Vouched
  <2>4. Vouched' = {<< <<query'[s].tenant, query'[s].text>>, trace'[s].output >> :
                       s \in Later}
    BY DEF Vouched, Replayable, Texts
  <2> HIDE DEF Set, Later
  <2> QED BY <1>1, <2>1, <2>2, <2>3, <2>4
<1> QED
  BY <1>3, <1>4, <1>5, <1>6

\* How a step of the router takes r on, without an answer or with one.
Onward(r) ==
    /\ pc'[r] \notin {"idle", "returned"}
    /\ \/ Phase[pc'[r]] = Phase[pc[r]]
       \/ Phase[pc[r]] = "asked" /\ Phase[pc'[r]] \in {"small", "frontier"}
       \/ Phase[pc[r]] = "small" /\ Phase[pc'[r]] = "frontier"
       \/ Phase[pc'[r]] = "raised"

Answers(r) ==
    /\ pc'[r] = "returned"
    /\ \/ /\ pc[r] = "lookup" /\ trace'[r].tier = "CACHE"
          /\ Cached(r) # NoEntry /\ trace'[r].output = Cached(r)
       \/ /\ pc[r] = "accepting" /\ trace'[r].tier = "SMALL"
          /\ trace'[r].output \in Texts
       \/ /\ pc[r] \in AtFrontier /\ trace'[r].tier = "FRONTIER"
          /\ trace'[r].output \in Texts
       \/ /\ pc[r] \in AtSmall \cup AtFrontier /\ trace'[r].output = "surfaced"

LEMMA FrontierFinishes ==
    ASSUME RouterInv, NEW r \in Requests, pc[r] \in AtFrontier,
           NEW t \in Traces, FinishFrontier(r, t),
           \/ t.tier = "FRONTIER" /\ t.output \in Texts
           \/ t.output = "surfaced"
    PROVE  Answers(r)
<1>1. pc'[r] = "returned" /\ trace'[r] = t
  BY DEF FinishFrontier, At, Trace, RouterInv, RouterTyped, RouterTypeOK
<1> QED
  BY <1>1 DEF Answers

LEMMA RejectMoves ==
    ASSUME RouterInv, NEW r \in Requests, pc[r] \in {"ladder", "committing"},
           NEW t, NEW c, Reject(r, t, c)
    PROVE  Onward(r)
<1>1. pc'[r] \in {"frontier", "raised"}
  BY DEF Reject, At, RouterInv, RouterTyped, RouterTypeOK
<1> QED
  BY <1>1, PhaseValues DEF Onward, AtSmall, AtFrontier

LEMMA RouteStepMoves ==
    ASSUME RouterInv, NEW r \in Requests, RouteStep(r)
    PROVE  /\ query' = query /\ pc[r] \notin {"idle"} \cup Finished
           /\ Onward(r) \/ Answers(r)
<1>0. /\ pc \in [Requests -> RoutePCs] /\ trace \in [Requests -> Traces]
      /\ pc[r] \in RoutePCs
  BY DEF RouterInv, RouterTyped, RouterTypeOK
<1>a. ASSUME NEW p \in RoutePCs, At(r, p)
      PROVE  pc'[r] = p
  BY <1>0, <1>a DEF At
<1>b. ASSUME NEW t, Trace(r, t)
      PROVE  trace'[r] = t
  BY <1>0, <1>b DEF Trace
<1> USE <1>0, PhaseValues
<1>1. CASE CacheHit(r)
  <2>1. pc'[r] = "returned"
    BY <1>1, <1>a DEF CacheHit, RoutePCs, Finished
  <2> DEFINE t == [trace[r] EXCEPT !.tier = "CACHE", !.reason = "CACHE_HIT",
                                   !.output = Cached(r)]
  <2>2. trace'[r] = t
    BY <1>1, <1>b DEF CacheHit
  <2>3. t.tier = "CACHE" /\ t.output = Cached(r)
    BY AtRequest DEF Traces
  <2> QED BY <1>1, <2>1, <2>2, <2>3 DEF CacheHit, Answers, Finished
<1>2. CASE PredictHard(r)
  BY <1>2, <1>a DEF PredictHard, Onward, RoutePCs, Finished, AtFrontier
<1>3. CASE TrySmall(r)
  BY <1>3, <1>a DEF TrySmall, Onward, RoutePCs, Finished, AtSmall
<1>4. CASE SmallAnswers(r)
  BY <1>4, <1>a DEF SmallAnswers, Onward, RoutePCs, Finished, AtSmall
<1>5. CASE SmallFaults(r)
  <2>1. pc'[r] = "small" \/ pc'[r] = "frontier"
    BY <1>5, <1>a DEF SmallFaults, RoutePCs
  <2> QED BY <1>5, <2>1 DEF SmallFaults, Onward, Finished, AtSmall, AtFrontier
<1>6. CASE ResampleFaults(r)
  BY <1>6, <1>a DEF ResampleFaults, Onward, RoutePCs, Finished
<1>7. CASE JudgeFaults(r)
  BY <1>7, <1>a DEF JudgeFaults, Raise, Onward, RoutePCs, Finished
<1>8. CASE LadderPasses(r)
  <2>1. pc'[r] = "committing" \/ pc'[r] = "accepting"
    BY <1>8, <1>a DEF LadderPasses, RoutePCs
  <2> QED BY <1>8, <2>1 DEF LadderPasses, Onward, Finished, AtSmall
<1>9. CASE LadderRejects(r)
  <2>1. pc[r] = "ladder" /\ query' = query
    BY <1>9 DEF LadderRejects
  <2>2. CASE At(r, "resample")
    BY <2>1, <2>2, <1>a DEF Onward, RoutePCs, Finished, AtSmall
  <2>3. ASSUME NEW c, Reject(r, trace[r], c)
        PROVE  Onward(r)
    BY <2>1, <2>3, RejectMoves
  <2> QED BY <1>9, <2>1, <2>2, <2>3 DEF LadderRejects, Finished
<1>10. CASE CommitDone(r)
  <2>1. pc[r] = "committing" /\ query' = query
    BY <1>10 DEF CommitDone
  <2>2. CASE At(r, "accepting")
    BY <2>1, <2>2, <1>a DEF Onward, RoutePCs, Finished, AtSmall
  <2>3. CASE Trace(r, Surfaced(Bookkept(r))) /\ At(r, "returned")
    <3>1. pc'[r] = "returned" /\ trace'[r] = Surfaced(Bookkept(r))
      BY <2>3, <1>a, <1>b DEF RoutePCs, Finished
    <3>2. trace'[r].output = "surfaced"
      BY <3>1, BookkeptTrace, SurfacedTrace
    <3> QED BY <2>1, <3>1, <3>2 DEF Answers, AtSmall, Finished
  <2>4. ASSUME NEW t, NEW c, Reject(r, t, c)
        PROVE  Onward(r)
    BY <2>1, <2>4, RejectMoves
  <2> QED BY <1>10, <2>1, <2>2, <2>3, <2>4 DEF CommitDone, Finished
<1>11. CASE GateRaises(r)
  BY <1>11, <1>a DEF GateRaises, Raise, Onward, RoutePCs, Finished
<1>12. CASE Accept(r)
  <2>1. pc[r] = "accepting" /\ query' = query
    BY <1>12 DEF Accept
  <2>2. CASE At(r, "returned") /\ Trace(r, WithAnswer(trace[r]))
    <3>1. pc'[r] = "returned" /\ trace'[r] = WithAnswer(trace[r])
      BY <2>2, <1>a, <1>b DEF RoutePCs, Finished
    <3>2. trace'[r].tier = "SMALL" /\ trace'[r].output \in Texts
      BY <2>1, <3>1, AtRequest, AnsweredTrace DEF SameStanding, Taught, Offered, AtSmall
    <3> QED BY <2>1, <3>1, <3>2 DEF Answers, Finished
  <2>3. CASE At(r, "raised")
    BY <2>1, <2>3, <1>a DEF Onward, RoutePCs, Finished
  <2> QED BY <1>12, <2>1, <2>2, <2>3 DEF Accept
<1>13. CASE FrontierAnswers(r)
  <2>1. pc[r] = "frontier" /\ pc[r] \in AtFrontier /\ query' = query
    BY <1>13 DEF FrontierAnswers, AtFrontier
  <2>2. CASE At(r, "frontierCommitting")
    BY <2>1, <2>2, <1>a DEF Onward, RoutePCs, Finished, AtFrontier
  <2>3. ASSUME NEW x \in Texts,
               FinishFrontier(r, WithAnswer([FrontierCalled(trace[r])
                                                EXCEPT !.text = x, !.verified = FALSE]))
        PROVE  Answers(r)
    <3> DEFINE b == FrontierCalled(trace[r])
               t == [b EXCEPT !.text = x, !.verified = FALSE]
    <3>1. b \in Traces /\ b.tier = "FRONTIER"
      BY <2>1, AtRequest, Called DEF SameStanding, Taught
    <3>2. FinishFrontier(r, WithAnswer(t))
      BY <2>3
    <3> HIDE DEF b
    <3>3. t \in Traces /\ t.tier = "FRONTIER" /\ t.text = x
      BY <3>1 DEF Traces
    <3> HIDE DEF t
    <3> QED BY <2>1, <3>2, <3>3, AnsweredTrace, FrontierFinishes DEF SameStanding
  <2> QED BY <1>13, <2>1, <2>2, <2>3 DEF FrontierAnswers, Finished
<1>14. CASE FrontierFaults(r)
  BY <1>14, <1>a DEF FrontierFaults, Onward, RoutePCs, Finished
<1>15. CASE FrontierCommitDone(r)
  <2>1. /\ pc[r] = "frontierCommitting" /\ pc[r] \in AtFrontier /\ query' = query
        /\ FinishFrontier(r, IF gate[r].committed THEN WithAnswer(Bookkept(r))
                                                  ELSE Surfaced(Bookkept(r)))
    BY <1>15 DEF FrontierCommitDone, AtFrontier
  <2>2. /\ Bookkept(r) \in Traces /\ Bookkept(r).tier = "FRONTIER"
        /\ Bookkept(r).text \in Texts
    BY <2>1, AtRequest, BookkeptTrace DEF SameStanding, Taught, Offered, InGate
  <2>3. CASE gate[r].committed
    BY <2>1, <2>2, <2>3, AnsweredTrace, FrontierFinishes DEF SameStanding, Finished
  <2>4. CASE ~gate[r].committed
    BY <2>1, <2>2, <2>4, SurfacedTrace, FrontierFinishes DEF Finished
  <2> QED BY <2>3, <2>4
<1> QED
  BY <1>1, <1>2, <1>3, <1>4, <1>5, <1>6, <1>7, <1>8, <1>9, <1>10, <1>11, <1>12,
     <1>13, <1>14, <1>15 DEF RouteStep

LEMMA ArriveMaps ==
    ASSUME RouterInv, NEW r \in Requests, Arrive(r)
    PROVE  Contract!Ask(r)
<1>1. /\ pc[r] = "idle" /\ pc[r] \notin Finished /\ Frames(r)
  BY ArriveLocal DEF Arrive, Finished
<1>2. PICK q \in Queries :
         /\ query' = [query EXCEPT ![r] = q]
         /\ At(r, "frontier") \/ At(r, "lookup")
  BY DEF Arrive
<1>3. pc'[r] \in {"frontier", "lookup"} /\ query'[r] = q
  BY <1>2 DEF At, RouterInv, RouterTyped, RouterTypeOK
<1>4. Phases[r] = "new" /\ Phase[pc'[r]] \in {"asked", "frontier"}
  BY <1>1, <1>3, PhaseValues DEF Phases, AtFrontier
<1>5. /\ Phases' = [Phases EXCEPT ![r] = Phase[pc'[r]]]
      /\ Given' = Given /\ Vouched' = Vouched
  BY <1>1, <1>3, MappedStep DEF Vouches
<1>6. Asked' = [Asked EXCEPT ![r] = <<q.tenant, q.text>>]
  BY <1>1, <1>3 DEF Asked, Frames
<1>7. <<q.tenant, q.text>> \in {<<x.tenant, x.text>> : x \in Queries}
  OBVIOUS
<1> QED
  BY <1>4, <1>5, <1>6, <1>7
  DEF Contract!Ask, Contract!Enter, Phases, Asked, Given, Vouched

\* A step without an answer: a stutter, a choice, an escalation or a raise.
LEMMA OnwardMaps ==
    ASSUME RouterInv, NEW r \in Requests, Frames(r), query' = query,
           pc[r] \notin {"idle"} \cup Finished, Onward(r)
    PROVE  [Contract!Next]_(Contract!contractVars)
<1>1. /\ Phases' = [Phases EXCEPT ![r] = Phase[pc'[r]]]
      /\ Asked' = Asked /\ Given' = Given /\ Vouched' = Vouched
  BY MappedStep DEF Onward, Vouches
<1>2. Phases[r] = Phase[pc[r]] /\ Phase[pc[r]] \in {"asked", "small", "frontier"}
  BY PhaseValues, AtRequest DEF Phases, RoutePCs, AtSmall, AtFrontier, Finished
<1>3. CASE Phase[pc'[r]] = Phase[pc[r]]
  <2>1. Phases' = Phases
    BY <1>1, <1>2, <1>3 DEF Phases
  <2> QED
    BY <1>1, <2>1 DEF Contract!contractVars, Phases, Asked, Given, Vouched
<1>4. CASE Phase[pc[r]] = "asked" /\ Phase[pc'[r]] \in {"small", "frontier"}
  <2>1. Contract!Choose(r)
    BY <1>1, <1>2, <1>4
    DEF Contract!Choose, Contract!Enter, Phases, Asked, Given, Vouched
  <2> QED BY <2>1 DEF Contract!Next
<1>5. CASE Phase[pc[r]] = "small" /\ Phase[pc'[r]] = "frontier"
  <2>1. Contract!Escalate(r)
    BY <1>1, <1>2, <1>5
    DEF Contract!Escalate, Contract!Enter, Phases, Asked, Given, Vouched
  <2> QED BY <2>1 DEF Contract!Next
<1>6. CASE Phase[pc'[r]] = "raised"
  <2>1. Contract!Raise(r)
    BY <1>1, <1>2, <1>6
    DEF Contract!Raise, Contract!Enter, Contract!Active, Phases, Asked, Given, Vouched
  <2> QED BY <2>1 DEF Contract!Next
<1> QED
  BY <1>3, <1>4, <1>5, <1>6 DEF Onward

\* A step with an answer is the contract's answer of the same kind.
LEMMA AnswersMaps ==
    ASSUME RouterInv, NEW r \in Requests, Frames(r), query' = query,
           pc[r] \notin {"idle"} \cup Finished, Answers(r)
    PROVE  Contract!Next
<1> DEFINE a == trace'[r].output
           k == <<query[r].tenant, query[r].text>>
<1>1. /\ Phases' = [Phases EXCEPT ![r] = "answered"]
      /\ Given' = [Given EXCEPT ![r] = a] /\ Asked' = Asked
      /\ Vouched' = IF Vouches(r)' THEN Vouched \cup {<<k, a>>} ELSE Vouched
      /\ Asked[r] = k /\ Phases[r] = Phase[pc[r]]
  BY MappedStep, PhaseValues DEF Answers, Asked, Phases
<1>2. CASE /\ pc[r] = "lookup" /\ trace'[r].tier = "CACHE"
           /\ Cached(r) # NoEntry /\ a = Cached(r)
  <2>1. CacheKey(query[r]) \in CacheKeys
    BY AtRequest, KeyOfQuery
  <2>2. a \in Texts
    BY <1>2, <2>1 DEF Cached, RouterInv, RouterTyped, RouterTypeOK
  <2>3. PICK s \in Requests :
           /\ pc[s] = "returned" /\ trace[s].tier = "SMALL" /\ a \in Replayable
           /\ CacheKey(query[s]) = CacheKey(query[r]) /\ trace[s].output = a
    BY <1>2, <2>1 DEF Cached, RouterInv, CacheVouched
  <2>4. <<k, a>> \in Vouched
    BY <2>3 DEF Vouched, CacheKey
  <2>5. Vouched' = Vouched /\ Phases[r] = "asked"
    BY <1>1, <1>2, PhaseValues DEF Vouches
  <2>6. Contract!AnswerFromCache(r)
    BY <1>1, <2>2, <2>4, <2>5
    DEF Contract!AnswerFromCache, Contract!Answer, Contract!Enter,
        Phases, Asked, Given, Vouched
  <2> QED BY <2>6 DEF Contract!Next
<1>3. CASE pc[r] = "accepting" /\ trace'[r].tier = "SMALL" /\ a \in Texts
  <2>1. Vouches(r)' <=> a \in Replayable
    BY <1>3 DEF Answers, Vouches, Replayable, Texts
  <2>2. Phases[r] = "small"
    BY <1>1, <1>3, PhaseValues DEF AtSmall
  <2>3. Contract!AnswerSmall(r)
    BY <1>1, <1>3, <2>1, <2>2
    DEF Contract!AnswerSmall, Contract!Answer, Contract!Enter,
        Phases, Asked, Given, Vouched
  <2> QED BY <2>3 DEF Contract!Next
<1>4. CASE pc[r] \in AtFrontier /\ trace'[r].tier = "FRONTIER" /\ a \in Texts
  <2>1. Vouched' = Vouched /\ Phases[r] = "frontier"
    BY <1>1, <1>4, PhaseValues DEF Vouches
  <2>2. Contract!AnswerFrontier(r)
    BY <1>1, <1>4, <2>1
    DEF Contract!AnswerFrontier, Contract!Answer, Contract!Enter,
        Phases, Asked, Given, Vouched
  <2> QED BY <2>2 DEF Contract!Next
<1>5. CASE pc[r] \in AtSmall \cup AtFrontier /\ a = "surfaced"
  <2>1. ~Vouches(r)'
    BY <1>5, RouterAssumption DEF Vouches, Replayable, Texts
  <2>2. Phases[r] \in {"small", "frontier"}
    BY <1>1, <1>5, PhaseValues
  <2>3. Contract!Surface(r)
    BY <1>1, <1>5, <2>1, <2>2
    DEF Contract!Surface, Contract!Answer, Contract!Enter,
        Phases, Asked, Given, Vouched
  <2> QED BY <2>3 DEF Contract!Next
<1> QED
  BY <1>2, <1>3, <1>4, <1>5 DEF Answers

\* Every behaviour of the router, the gate and the cache is one the contract
\* allows: one way up, one answer, and a cache that replays to a tenant only
\* what was accepted for that tenant's same query and did nothing irreversible.
THEOREM RouterKeepsContract == RouterSafetySpec => RouterImplementsContract
<1>1. RouterInit => Contract!Init
  <2> SUFFICES ASSUME RouterInit PROVE Contract!Init
    OBVIOUS
  <2>1. \A r \in Requests : pc[r] = "idle"
    BY DEF RouterInit
  <2>2. Phases = [r \in Requests |-> "new"]
    BY <2>1, PhaseValues DEF Phases
  <2>3. Asked = [r \in Requests |-> NoEntry] /\ Given = [r \in Requests |-> NoEntry]
    BY <2>1 DEF Asked, Given
  <2>4. Vouched = {}
    BY <2>1 DEF Vouched
  <2> QED
    BY <2>2, <2>3, <2>4 DEF Contract!Init, Phases, Asked, Given, Vouched
<1>2. ASSUME RouterInv, [RouterNext]_allVars
      PROVE  [Contract!Next]_(Contract!contractVars)
  <2>1. CASE UNCHANGED <<pc, query, trace>>
    <3>1. Phases' = Phases /\ Asked' = Asked /\ Given' = Given /\ Vouched' = Vouched
      BY <2>1 DEF Phases, Asked, Given, Vouched, Replayable, Texts
    <3> QED
      BY <3>1 DEF Contract!contractVars, Phases, Asked, Given, Vouched
  <2>2. ASSUME NEW r \in Requests, Arrive(r)
        PROVE  [Contract!Next]_(Contract!contractVars)
    BY <1>2, <2>2, ArriveMaps DEF Contract!Next
  <2>3. ASSUME NEW r \in Requests, RouteStep(r)
        PROVE  [Contract!Next]_(Contract!contractVars)
    <3>1. Frames(r)
      BY <1>2, <2>3, RouteStepLocal
    <3>2. /\ query' = query /\ pc[r] \notin {"idle"} \cup Finished
          /\ Onward(r) \/ Answers(r)
      BY <1>2, <2>3, RouteStepMoves
    <3> QED
      BY <1>2, <3>1, <3>2, OnwardMaps, AnswersMaps
  <2>4. CASE \E r \in Requests : GateStep(r)
    BY <2>1, <2>4 DEF GateStep, routeVars
  <2>5. CASE \E k \in CacheKeys : Forget(k)
    BY <2>1, <2>5 DEF Forget
  <2>6. CASE UNCHANGED allVars
    BY <2>1, <2>6 DEF allVars, routeVars
  <2> QED
    BY <1>2, <2>2, <2>3, <2>4, <2>5, <2>6 DEF RouterNext
<1>3. RouterInv /\ [RouterNext]_allVars => [Contract!Next]_(Contract!contractVars)
  BY <1>2
<1> QED
  BY <1>1, <1>3, RouterInvariant, PTL
  DEF RouterSafetySpec, RouterImplementsContract, Contract!Spec
-----------------------------------------------------------------------------
(* What a request's place says of the failures on its trace.                *)

\* The fields of a trace that tell what the tool calls came to.
SameTale(t, u) ==
    /\ t.toolFailure = u.toolFailure /\ t.toolCommitted = u.toolCommitted
    /\ t.escalated = u.escalated /\ t.cause = u.cause /\ t.surfaced = u.surfaced

Recorded(r) ==
    /\ pc[r] \in {"idle", "lookup"} \cup AtSmall => trace[r].toolFailure = NoCategory
    /\ pc[r] \in {"idle", "lookup", "small", "resample", "ladder"} =>
          gate[r].round = 0 /\ ~gate[r].committed
    /\ pc[r] \in {"committing", "accepting"} => gate[r].round <= 1
    /\ pc[r] \in {"idle", "lookup", "small", "resample", "ladder", "committing"} =>
          ~trace[r].toolCommitted
    /\ pc[r] = "accepting" => trace[r].toolCommitted = gate[r].committed
    /\ pc[r] \in AtFrontier =>
          /\ ~trace[r].toolCommitted
          /\ trace[r].toolFailure # NoCategory =>
                trace[r].escalated /\ trace[r].cause = trace[r].toolFailure
    /\ pc[r] = "frontier" =>
          /\ ~gate[r].committed /\ gate[r].round <= 1
          /\ gate[r].round = 1 => trace[r].toolFailure # NoCategory
    /\ pc[r] = "frontierCommitting" /\ gate[r].round = 2 =>
          trace[r].toolFailure # NoCategory
    /\ pc[r] = "returned" =>
          /\ trace[r].toolCommitted = gate[r].committed
          /\ gate[r].round = 2 => trace[r].toolFailure # NoCategory
          /\ trace[r].surfaced =>
                trace[r].toolFailure # NoCategory /\ ~trace[r].toolCommitted
          /\ trace[r].toolFailure # NoCategory /\ ~trace[r].surfaced =>
                trace[r].escalated /\ trace[r].cause = trace[r].toolFailure

LEMMA UncategorisedIsNone == NoCategory \notin FailureCategory
  BY DEF NoCategory, FailureCategory, Transient, Terminal, Escalating

\* What the bookkeeping of a commit that is over leaves on the trace.
LEMMA BookkeptTale ==
    ASSUME RouterInv, Settled, NEW r \in Requests, gate[r].pc = "done"
    PROVE  /\ Bookkept(r) \in Traces
           /\ Bookkept(r).toolCommitted = gate[r].committed
           /\ Bookkept(r).escalated = trace[r].escalated
           /\ Bookkept(r).cause = trace[r].cause
           /\ Bookkept(r).surfaced = trace[r].surfaced
           /\ gate[r].committed =>
                 Bookkept(r).toolFailure = trace[r].toolFailure
           /\ ~gate[r].committed =>
                 /\ Bookkept(r).toolFailure = gate[r].category
                 /\ Bookkept(r).toolFailure # NoCategory
<1>1. trace[r] \in Traces /\ Bookkept(r) \in Traces
  BY AtRequest, BookkeptTrace
<1>2. CASE gate[r].committed
  <2>1. gate[r].committed = TRUE
    BY <1>2, AtRequest DEF Outcomes
  <2> DEFINE b == [trace[r] EXCEPT !.toolCommitted = TRUE]
  <2>2. b.toolCommitted = TRUE /\ b.toolFailure = trace[r].toolFailure
    BY <1>1 DEF Traces
  <2>3. /\ b.escalated = trace[r].escalated /\ b.cause = trace[r].cause
        /\ b.surfaced = trace[r].surfaced
    BY <1>1 DEF Traces
  <2>4. Bookkept(r) = b
    BY <1>2 DEF Bookkept
  <2> HIDE DEF b
  <2> QED BY <1>1, <1>2, <2>1, <2>2, <2>3, <2>4
<1>3. CASE ~gate[r].committed
  <2>1. gate[r].committed = FALSE
    BY <1>3, AtRequest DEF Outcomes
  <2>2. gate[r].category # NoCategory
    BY <1>3, UncategorisedIsNone DEF Settled
  <2> DEFINE b == [trace[r] EXCEPT !.toolCommitted = FALSE,
                                   !.toolFailure = gate[r].category]
  <2>3. b.toolCommitted = FALSE /\ b.toolFailure = gate[r].category
    BY <1>1 DEF Traces
  <2>4. /\ b.escalated = trace[r].escalated /\ b.cause = trace[r].cause
        /\ b.surfaced = trace[r].surfaced
    BY <1>1 DEF Traces
  <2>5. Bookkept(r) = b
    BY <1>3 DEF Bookkept
  <2> HIDE DEF b
  <2> QED BY <1>1, <1>3, <2>1, <2>2, <2>3, <2>4, <2>5
<1> QED
  BY <1>2, <1>3

LEMMA EscalatedTale ==
    ASSUME NEW t \in Traces, NEW c \in FailureCategory
    PROVE  /\ Escalated(t, c).escalated /\ Escalated(t, c).cause = c
           /\ Escalated(t, c).toolFailure = t.toolFailure
           /\ Escalated(t, c).toolCommitted = t.toolCommitted
  BY DEF Escalated, Traces

LEMMA SurfacedTale ==
    ASSUME NEW t \in Traces
    PROVE  /\ Surfaced(t).surfaced
           /\ Surfaced(t).toolFailure = t.toolFailure
           /\ Surfaced(t).toolCommitted = t.toolCommitted
  BY DEF Surfaced, Traces

LEMMA AnsweredTale ==
    ASSUME NEW t \in Traces
    PROVE  SameTale(WithAnswer(t), t)
  BY DEF WithAnswer, Traces, SameTale

LEMMA CalledTale ==
    ASSUME NEW t \in Traces
    PROVE  SameTale(SmallCalled(t), t) /\ SameTale(FrontierCalled(t), t)
  BY DEF SmallCalled, FrontierCalled, Traces, SameTale

\* A rejection escalates for its category what was bookkept so far.
LEMMA RejectRecorded ==
    ASSUME RouterInv, NEW r \in Requests, NEW t \in Traces, ~t.toolCommitted,
           NEW c \in FailureCategory, Reject(r, t, c), gate' = gate,
           ~gate[r].committed, gate[r].round <= 1,
           gate[r].round = 1 => t.toolFailure # NoCategory,
           t.toolFailure # NoCategory => t.toolFailure = c
    PROVE  Recorded(r)'
<1> DEFINE u == Escalated(t, c)
<1>1. \/ pc'[r] = "frontier" /\ trace'[r] = u
      \/ pc'[r] = "raised"
  BY DEF Reject, At, Trace, RouterInv, RouterTyped, RouterTypeOK
<1>2. /\ u.escalated /\ u.cause = c /\ u.toolFailure = t.toolFailure
      /\ u.toolCommitted = t.toolCommitted
  BY EscalatedTale
<1> HIDE DEF u
<1> QED
  BY <1>1, <1>2 DEF Recorded, AtSmall, AtFrontier

\* The router's end of a request at the frontier: t tells how it ended.
LEMMA FinishRecorded ==
    ASSUME RouterInv, NEW r \in Requests, NEW t \in Traces, FinishFrontier(r, t),
           gate' = gate, t.toolCommitted = gate[r].committed,
           gate[r].round = 2 => t.toolFailure # NoCategory,
           t.surfaced => t.toolFailure # NoCategory /\ ~t.toolCommitted,
           t.toolFailure # NoCategory /\ ~t.surfaced =>
              t.escalated /\ t.cause = t.toolFailure
    PROVE  Recorded(r)'
<1>1. pc'[r] = "returned" /\ trace'[r] = t
  BY DEF FinishFrontier, At, Trace, RouterInv, RouterTyped, RouterTypeOK
<1> QED
  BY <1>1 DEF Recorded, AtSmall, AtFrontier

LEMMA RouteStepRecorded ==
    ASSUME RouterInv, Settled, NEW r \in Requests, Recorded(r), RouteStep(r)
    PROVE  Recorded(r)'
<1>0. /\ pc \in [Requests -> RoutePCs] /\ trace \in [Requests -> Traces]
      /\ trace[r] \in Traces /\ gate[r] \in Outcomes
      /\ gate[r].round \in 0..2 /\ gate[r].committed \in BOOLEAN
      /\ trace[r].toolCommitted \in BOOLEAN
  BY AtRequest DEF RouterInv, RouterTyped, RouterTypeOK, Outcomes, Traces
<1>a. ASSUME NEW p, At(r, p)
      PROVE  pc'[r] = p
  BY <1>0, <1>a DEF At
<1>b. ASSUME NEW t, Trace(r, t)
      PROVE  trace'[r] = t
  BY <1>0, <1>b DEF Trace
<1>c. ASSUME pc'[r] = "raised"
      PROVE  Recorded(r)'
  BY <1>c DEF Recorded, AtSmall, AtFrontier
<1>d. pc[r] \in AtFrontier => ~trace[r].surfaced
  BY AtRequest DEF Taught
<1>e. pc[r] \in {"lookup"} \cup AtSmall => ~trace[r].surfaced /\ ~trace[r].escalated
  BY AtRequest DEF Taught
<1>1. CASE CacheHit(r)
  <2> DEFINE t == [trace[r] EXCEPT !.tier = "CACHE", !.reason = "CACHE_HIT",
                                   !.output = Cached(r)]
  <2>1. pc'[r] = "returned" /\ trace'[r] = t /\ gate' = gate /\ pc[r] = "lookup"
    BY <1>1, <1>a, <1>b DEF CacheHit, gateVars
  <2>2. SameTale(t, trace[r])
    BY <1>0 DEF Traces, SameTale
  <2> HIDE DEF t
  <2> QED BY <1>0, <1>e, <2>1, <2>2 DEF Recorded, SameTale, AtSmall, AtFrontier
<1>2. CASE PredictHard(r)
  <2> DEFINE t == [trace[r] EXCEPT !.tier = "FRONTIER", !.reason = "PREDICTED_HARD"]
  <2>1. pc'[r] = "frontier" /\ trace'[r] = t /\ gate' = gate /\ pc[r] = "lookup"
    BY <1>2, <1>a, <1>b DEF PredictHard, gateVars
  <2>2. SameTale(t, trace[r])
    BY <1>0 DEF Traces, SameTale
  <2> HIDE DEF t
  <2> QED BY <1>0, <2>1, <2>2 DEF Recorded, SameTale, AtSmall, AtFrontier
<1>3. CASE TrySmall(r)
  <2>1. PICK rules : Trace(r, [trace[r] EXCEPT !.tier = "SMALL", !.reason = "OPTIMISTIC",
                                               !.rules = rules])
    BY <1>3 DEF TrySmall
  <2> DEFINE t == [trace[r] EXCEPT !.tier = "SMALL", !.reason = "OPTIMISTIC",
                                   !.rules = rules]
  <2>2. pc'[r] = "small" /\ trace'[r] = t /\ gate' = gate /\ pc[r] = "lookup"
    BY <1>3, <1>a, <1>b, <2>1 DEF TrySmall, gateVars
  <2>3. SameTale(t, trace[r])
    BY <1>0 DEF Traces, SameTale
  <2> HIDE DEF t
  <2> QED BY <1>0, <2>2, <2>3 DEF Recorded, SameTale, AtSmall, AtFrontier
<1>4. CASE SmallAnswers(r)
  <2> DEFINE b == SmallCalled(trace[r])
  <2>1. PICK x \in Texts : Trace(r, [b EXCEPT !.text = x])
    BY <1>4 DEF SmallAnswers
  <2> DEFINE t == [b EXCEPT !.text = x]
  <2>2. /\ pc'[r] = "ladder" /\ trace'[r] = t /\ gate' = gate
        /\ pc[r] \in {"small", "resample"}
    BY <1>4, <1>a, <1>b, <2>1 DEF SmallAnswers, gateVars
  <2>3. b \in Traces /\ SameTale(b, trace[r])
    BY <1>0, Called, CalledTale
  <2> HIDE DEF b
  <2>4. SameTale(t, b)
    BY <2>3 DEF Traces, SameTale
  <2> HIDE DEF t
  <2> QED BY <1>0, <2>2, <2>3, <2>4 DEF Recorded, SameTale, AtSmall, AtFrontier
<1>5. CASE SmallFaults(r)
  <2> DEFINE b == SmallCalled(trace[r])
  <2>1. b \in Traces /\ SameTale(b, trace[r])
    BY <1>0, Called, CalledTale
  <2>2. gate' = gate /\ pc[r] = "small"
    BY <1>5 DEF SmallFaults, gateVars
  <2>3. CASE ~trace[r].retried
    <3> DEFINE t == [b EXCEPT !.retried = TRUE]
    <3>1. pc'[r] = "small" /\ trace'[r] = t
      BY <1>5, <1>b, <2>2, <2>3 DEF SmallFaults
    <3> HIDE DEF b
    <3>2. SameTale(t, b)
      BY <2>1 DEF Traces, SameTale
    <3> HIDE DEF t
    <3> QED BY <1>0, <2>1, <2>2, <3>1, <3>2 DEF Recorded, SameTale, AtSmall, AtFrontier
  <2>4. CASE trace[r].retried
    <3>1. PICK c \in {"TIMEOUT", "PROVIDER_FAULT"} :
             Trace(r, Escalated(b, c)) /\ At(r, "frontier")
      BY <1>5, <2>4 DEF SmallFaults
    <3> DEFINE t == Escalated(b, c)
    <3>2. pc'[r] = "frontier" /\ trace'[r] = t
      BY <3>1, <1>a, <1>b
    <3> HIDE DEF b
    <3>3. t.toolFailure = b.toolFailure /\ t.toolCommitted = b.toolCommitted
      BY <2>1, TraceTypes, EscalatedTale
    <3> HIDE DEF t
    <3> QED BY <1>0, <2>1, <2>2, <3>2, <3>3 DEF Recorded, SameTale, AtSmall, AtFrontier
  <2> QED BY <2>3, <2>4
<1>6. CASE ResampleFaults(r) \/ JudgeFaults(r) \/ GateRaises(r) \/ FrontierFaults(r)
  <2>1. pc'[r] = "raised"
    BY <1>6, <1>a DEF ResampleFaults, JudgeFaults, GateRaises, FrontierFaults, Raise
  <2> QED BY <2>1, <1>c
<1>7. CASE LadderPasses(r)
  <2> DEFINE t == [trace[r] EXCEPT !.verified = TRUE]
  <2>1. trace'[r] = t /\ pc[r] = "ladder"
    BY <1>7, <1>b DEF LadderPasses
  <2>2. SameTale(t, trace[r])
    BY <1>0 DEF Traces, SameTale
  <2> HIDE DEF t
  <2>3. CASE ToGate(trace[r].text)
    <3>1. Propose(r, trace[r].text) /\ pc'[r] = "committing"
      BY <1>7, <1>a, <2>3 DEF LadderPasses
    <3>2. gate'[r].round = gate[r].round + 1
      BY <2>3, <3>1, ProposeSettles DEF RouterInv, IInv, ToGate
    <3> QED BY <1>0, <2>1, <2>2, <3>1, <3>2 DEF Recorded, SameTale, AtSmall, AtFrontier
  <2>4. CASE ~ToGate(trace[r].text)
    <3>1. gate' = gate /\ pc'[r] = "accepting"
      BY <1>7, <1>a, <2>4 DEF LadderPasses, gateVars
    <3> QED BY <1>0, <2>1, <2>2, <3>1 DEF Recorded, SameTale, AtSmall, AtFrontier
  <2> QED BY <2>3, <2>4
<1>8. CASE LadderRejects(r)
  <2>1. pc[r] = "ladder" /\ gate' = gate
    BY <1>8 DEF LadderRejects, gateVars
  <2>2. PICK c \in VerifierCategories :
           IF c \in Transient /\ ~trace[r].retried
             THEN /\ Trace(r, [trace[r] EXCEPT !.retried = TRUE])
                  /\ At(r, "resample")
             ELSE Reject(r, trace[r], IF c = NoCategory THEN "SILENT_SEMANTIC" ELSE c)
    BY <1>8 DEF LadderRejects
  <2>3. CASE c \in Transient /\ ~trace[r].retried
    <3> DEFINE t == [trace[r] EXCEPT !.retried = TRUE]
    <3>1. pc'[r] = "resample" /\ trace'[r] = t
      BY <1>a, <1>b, <2>2, <2>3
    <3>2. SameTale(t, trace[r])
      BY <1>0 DEF Traces, SameTale
    <3> HIDE DEF t
    <3> QED BY <1>0, <2>1, <3>1, <3>2 DEF Recorded, SameTale, AtSmall, AtFrontier
  <2>4. CASE ~(c \in Transient /\ ~trace[r].retried)
    <3> DEFINE d == IF c = NoCategory THEN "SILENT_SEMANTIC" ELSE c
    <3>1. d \in FailureCategory
      BY TraceTypes, RouterAssumption
    <3>2. Reject(r, trace[r], d)
      BY <2>2, <2>4
    <3> HIDE DEF d
    <3>3. /\ trace[r].toolFailure = NoCategory /\ ~trace[r].toolCommitted
          /\ gate[r].round = 0 /\ ~gate[r].committed
      BY <2>1 DEF Recorded, AtSmall
    <3> QED BY <1>0, <2>1, <3>1, <3>2, <3>3, RejectRecorded
  <2> QED BY <2>3, <2>4
<1>9. CASE CommitDone(r)
  <2> DEFINE b == Bookkept(r)
  <2>1. pc[r] = "committing" /\ gate[r].pc = "done" /\ gate' = gate
    BY <1>9 DEF CommitDone, gateVars
  <2>2. /\ b \in Traces /\ b.toolCommitted = gate[r].committed
        /\ gate[r].committed => b.toolFailure = trace[r].toolFailure
        /\ ~gate[r].committed =>
              b.toolFailure = gate[r].category /\ b.toolFailure # NoCategory
    BY <2>1, BookkeptTale
  <2>3. trace[r].toolFailure = NoCategory /\ gate[r].round <= 1
    BY <2>1 DEF Recorded, AtSmall
  <2>4. CASE gate[r].committed /\ Trace(r, b) /\ At(r, "accepting")
    <3>1. pc'[r] = "accepting" /\ trace'[r] = b
      BY <2>4, <1>a, <1>b
    <3> HIDE DEF b
    <3> QED BY <2>1, <2>2, <2>3, <2>4, <3>1 DEF Recorded, AtSmall, AtFrontier
  <2>5. CASE ~gate[r].committed /\ Trace(r, Surfaced(b)) /\ At(r, "returned")
    <3> DEFINE t == Surfaced(b)
    <3>1. pc'[r] = "returned" /\ trace'[r] = t
      BY <2>5, <1>a, <1>b
    <3> HIDE DEF b
    <3>2. /\ t.surfaced /\ t.toolFailure = b.toolFailure
          /\ t.toolCommitted = b.toolCommitted
      BY <2>2, SurfacedTale
    <3> HIDE DEF t
    <3> QED BY <2>1, <2>2, <2>3, <2>5, <3>1, <3>2 DEF Recorded, AtSmall, AtFrontier
  <2>6. CASE ~gate[r].committed /\ ShouldEscalate(r) /\ Reject(r, b, gate[r].category)
    <3>1. gate[r].category \in FailureCategory
      BY <2>6 DEF ShouldEscalate, FailureCategory
    <3> HIDE DEF b
    <3> QED BY <2>1, <2>2, <2>3, <2>6, <3>1, RejectRecorded
  <2> QED BY <1>9, <2>4, <2>5, <2>6 DEF CommitDone
<1>10. CASE Accept(r)
  <2>1. pc[r] = "accepting" /\ gate' = gate
    BY <1>10 DEF Accept, gateVars
  <2>2. CASE At(r, "returned") /\ Trace(r, WithAnswer(trace[r]))
    <3>1. pc'[r] = "returned" /\ trace'[r] = WithAnswer(trace[r])
      BY <2>2, <1>a, <1>b
    <3>2. SameTale(trace'[r], trace[r])
      BY <1>0, <3>1, AnsweredTale
    <3>3. /\ ~trace[r].surfaced /\ trace[r].toolFailure = NoCategory
          /\ trace[r].toolCommitted = gate[r].committed /\ gate[r].round <= 1
      BY <1>e, <2>1 DEF Recorded, AtSmall
    <3> QED BY <1>0, <2>1, <3>1, <3>2, <3>3 DEF Recorded, SameTale, AtSmall, AtFrontier
  <2>3. CASE At(r, "raised")
    BY <2>3, <1>a, <1>c
  <2> QED BY <1>10, <2>2, <2>3 DEF Accept
<1>11. CASE FrontierAnswers(r)
  <2>1. pc[r] = "frontier" /\ pc[r] \in AtFrontier
    BY <1>11 DEF FrontierAnswers, AtFrontier
  <2> DEFINE b == FrontierCalled(trace[r])
  <2>2. PICK x \in Texts :
           LET t == [b EXCEPT !.text = x, !.verified = FALSE] IN
           IF ToGate(x)
             THEN /\ Propose(r, x) /\ At(r, "frontierCommitting")
                  /\ Trace(r, t)
             ELSE FinishFrontier(r, WithAnswer(t)) /\ UNCHANGED gateVars
    BY <1>11 DEF FrontierAnswers
  <2> DEFINE t == [b EXCEPT !.text = x, !.verified = FALSE]
  <2>3. b \in Traces /\ SameTale(b, trace[r])
    BY <1>0, Called, CalledTale
  <2>4. /\ ToGate(x) => /\ Propose(r, x) /\ At(r, "frontierCommitting")
                        /\ Trace(r, t)
        /\ ~ToGate(x) => FinishFrontier(r, WithAnswer(t)) /\ gate' = gate
    BY <2>2 DEF gateVars
  <2> HIDE DEF b
  <2>5. t \in Traces /\ SameTale(t, b)
    BY <2>3 DEF Traces, SameTale
  <2> HIDE DEF t
  <2>6. SameTale(t, trace[r])
    BY <2>3, <2>5 DEF SameTale
  <2>7. CASE ToGate(x)
    <3>1. pc'[r] = "frontierCommitting" /\ trace'[r] = t /\ Propose(r, x)
      BY <2>4, <2>7, <1>a, <1>b
    <3>2. gate'[r].round = gate[r].round + 1
      BY <2>7, <3>1, ProposeSettles DEF RouterInv, IInv, ToGate
    <3> QED BY <1>0, <2>1, <2>6, <3>1, <3>2 DEF Recorded, SameTale, AtSmall, AtFrontier
  <2>8. CASE ~ToGate(x)
    <3>1. WithAnswer(t) \in Traces /\ SameTale(WithAnswer(t), t)
      BY <2>5, AnsweredTrace, AnsweredTale
    <3>2. FinishFrontier(r, WithAnswer(t)) /\ gate' = gate
      BY <2>4, <2>8
    <3>3. /\ ~trace[r].surfaced /\ trace[r].toolCommitted = gate[r].committed
          /\ gate[r].round # 2
          /\ trace[r].toolFailure # NoCategory =>
                trace[r].escalated /\ trace[r].cause = trace[r].toolFailure
      BY <1>0, <1>d, <2>1 DEF Recorded
    <3> QED BY <2>6, <3>1, <3>2, <3>3, FinishRecorded DEF SameTale
  <2> QED BY <2>7, <2>8
<1>12. CASE FrontierCommitDone(r)
  <2> DEFINE b == Bookkept(r)
  <2>1. /\ pc[r] = "frontierCommitting" /\ pc[r] \in AtFrontier
        /\ gate[r].pc = "done" /\ gate' = gate
        /\ FinishFrontier(r, IF gate[r].committed THEN WithAnswer(b) ELSE Surfaced(b))
    BY <1>12 DEF FrontierCommitDone, gateVars, AtFrontier
  <2>2. /\ b \in Traces /\ b.toolCommitted = gate[r].committed
        /\ b.escalated = trace[r].escalated /\ b.cause = trace[r].cause
        /\ b.surfaced = trace[r].surfaced
        /\ gate[r].committed => b.toolFailure = trace[r].toolFailure
        /\ ~gate[r].committed => b.toolFailure # NoCategory
    BY <2>1, BookkeptTale
  <2> HIDE DEF b
  <2>3. /\ ~trace[r].surfaced
        /\ gate[r].round = 2 => trace[r].toolFailure # NoCategory
        /\ trace[r].toolFailure # NoCategory =>
              trace[r].escalated /\ trace[r].cause = trace[r].toolFailure
    BY <1>d, <2>1 DEF Recorded
  <2>4. CASE gate[r].committed
    <3>1. WithAnswer(b) \in Traces /\ SameTale(WithAnswer(b), b)
      BY <2>2, AnsweredTrace, AnsweredTale
    <3>2. FinishFrontier(r, WithAnswer(b))
      BY <2>1, <2>4
    <3> QED BY <2>1, <2>2, <2>3, <2>4, <3>1, <3>2, FinishRecorded DEF SameTale
  <2>5. CASE ~gate[r].committed
    <3>1. /\ Surfaced(b) \in Traces /\ Surfaced(b).surfaced
          /\ Surfaced(b).toolFailure = b.toolFailure
          /\ Surfaced(b).toolCommitted = b.toolCommitted
      BY <2>2, SurfacedTrace, SurfacedTale
    <3>2. FinishFrontier(r, Surfaced(b))
      BY <2>1, <2>5
    <3> QED BY <2>1, <2>2, <2>5, <3>1, <3>2, FinishRecorded
  <2> QED BY <2>4, <2>5
<1> QED
  BY <1>1, <1>2, <1>3, <1>4, <1>5, <1>6, <1>7, <1>8, <1>9, <1>10, <1>11, <1>12
  DEF RouteStep

LEMMA ArriveRecorded ==
    ASSUME RouterInv, NEW r \in Requests, Recorded(r), Arrive(r)
    PROVE  Recorded(r)'
<1>1. /\ pc[r] = "idle" /\ gate' = gate
      /\ pc \in [Requests -> RoutePCs] /\ trace \in [Requests -> Traces]
  BY DEF Arrive, gateVars, RouterInv, RouterTyped, RouterTypeOK
<1> DEFINE t == [BlankTrace EXCEPT !.tier = "FRONTIER", !.reason = "POLICY_FORCED"]
<1>2. \/ pc'[r] = "frontier" /\ trace'[r] = t
      \/ pc'[r] = "lookup" /\ trace'[r] = trace[r]
  BY <1>1 DEF Arrive, At, Trace
<1>3. t.toolFailure = NoCategory /\ ~t.toolCommitted
  BY DEF BlankTrace
<1> HIDE DEF t
<1> QED
  BY <1>1, <1>2, <1>3 DEF Recorded, AtSmall, AtFrontier

\* Meanwhile the gate keeps the round of the call it is working on.
LEMMA RecordedStep ==
    ASSUME RouterInv, Settled, \A r \in Requests : Recorded(r), [RouterNext]_allVars
    PROVE  \A r \in Requests : Recorded(r)'
<1>1. CASE UNCHANGED allVars
  BY <1>1 DEF allVars, routeVars, gateVars, Recorded
<1>2. ASSUME NEW r \in Requests, Arrive(r) \/ RouteStep(r), NEW s \in Requests
      PROVE  Recorded(s)'
  <2>1. CASE s = r
    BY <1>2, <2>1, ArriveRecorded, RouteStepRecorded
  <2>2. CASE s # r
    <3>1. /\ pc'[s] = pc[s] /\ trace'[s] = trace[s] /\ gate'[s] = gate[s]
      BY <1>2, <2>2, RouteStepLocal, RouteStepGate DEF Frames
    <3> QED BY <3>1 DEF Recorded
  <2> QED BY <2>1, <2>2
<1>3. ASSUME NEW r \in Requests, GateStep(r), NEW s \in Requests
      PROVE  Recorded(s)'
  <2>1. Summary(r) /\ Settles(r) /\ pc' = pc /\ trace' = trace
    BY <1>3, StepSummary, StepSettles DEF GateStep, routeVars, RouterInv, IInv
  <2>2. CASE s = r
    <3>1. pc[r] \in InGate /\ gate'[r].round = gate[r].round
      BY <2>1, AtRequest DEF Summary, Settles, Offered
    <3> QED BY <2>1, <2>2, <3>1 DEF Recorded, InGate, AtSmall, AtFrontier
  <2>3. CASE s # r
    BY <2>1, <2>3 DEF Settles, Frame, Recorded
  <2> QED BY <2>2, <2>3
<1>4. ASSUME NEW k \in CacheKeys, Forget(k)
      PROVE  \A r \in Requests : Recorded(r)'
  BY <1>4 DEF Forget, gateVars, Recorded
<1> QED
  BY <1>1, <1>2, <1>3, <1>4 DEF RouterNext

\* However a request's tool calls failed, were escalated, recovered or came up
\* again, the trace it is answered with tells which.
THEOREM TracesTell == RouterSafetySpec => []TraceTellsRecovery
<1> DEFINE Inv == \A r \in Requests : Recorded(r)
<1>1. RouterInit => Inv
  <2> SUFFICES ASSUME RouterInit, NEW r \in Requests
               PROVE  Recorded(r)
    OBVIOUS
  <2>1. /\ pc[r] = "idle" /\ gate[r].round = 0 /\ ~gate[r].committed
        /\ trace[r].toolFailure = NoCategory /\ ~trace[r].toolCommitted
    BY DEF RouterInit, Init, Untouched, Fresh, BlankTrace
  <2> QED BY <2>1 DEF Recorded, AtFrontier
<1>2. RouterInv /\ Settled /\ Inv /\ [RouterNext]_allVars => Inv'
  BY RecordedStep
<1>3. Inv => TraceTellsRecovery
  BY DEF Recorded, TraceTellsRecovery
<1>4. RouterSafetySpec => []Settled
  BY RouterImplementsGate, SettledInvariant, PTL
<1> HIDE DEF Inv
<1> QED
  BY <1>1, <1>2, <1>3, <1>4, RouterInvariant, PTL DEF RouterSafetySpec
=============================================================================
