---------------------------- MODULE SmartRouter ----------------------------
(***************************************************************************)
(* SmartRouter.route (routing/router.py): policy, exact cache, difficulty  *)
(* classifier, small model with one retry, verifier ladder, commit gate,   *)
(* escalation to the frontier model and what each request leaves in the    *)
(* cache and in the reflexion memory.  The commit gate is the module       *)
(* CommitGate; its actions interleave with the router's.                   *)
(*                                                                         *)
(* Several invocations run at once on one router: route() takes no lock,   *)
(* and the cache, the memory and the gateway are shared between them.      *)
(***************************************************************************)
EXTENDS CommitGate

CONSTANTS
    Queries,             \* [tenant, text, risk, sensitive]: what callers ask
    FrontierOnlyTenants, \* PolicyGate.frontier_only_tenants
    FrontierOnIrreversibleIntent,   \* PolicyGate.frontier_on_irreversible_intent
    Override,            \* the values of override_frontier callers pass
    Prose,               \* a model output that is no tool-call envelope
    VerifierCategories,  \* categories the wired verifiers report
    Gated,               \* commit_gate is not None
    Classified,          \* classifier is not None
    Judged,              \* the ladder has an LLM judge
    Memory,              \* reflexion is wired and enabled
    StoreFaults,         \* may RuleStore.save fail (disk full, permissions)?
    NoEntry              \* no text

Risks == {"READ_ONLY", "REVERSIBLE_WRITE", "IRREVERSIBLE_WRITE"}

ASSUME RouterAssumption ==
    /\ Approved = {}     \* route() never passes approved=True
    /\ \A q \in Queries : q.risk \in Risks /\ q.sensitive \in BOOLEAN
    /\ FrontierOnIrreversibleIntent \in BOOLEAN /\ Override \subseteq BOOLEAN
    /\ VerifierCategories \subseteq FailureCategory \cup {NoCategory}
    /\ Gated \in BOOLEAN /\ Classified \in BOOLEAN /\ Judged \in BOOLEAN
    /\ Memory \in BOOLEAN /\ StoreFaults \in BOOLEAN
    /\ Prose \notin Calls
    /\ {NoEntry, "surfaced"} \cap (Calls \cup {Prose}) = {}

VARIABLES
    pc,       \* where each invocation is in route()
    query,    \* what it asks
    trace,    \* its RequestTrace, with the local variable text
    memory,   \* what it left in the rule store and the reflexion memory
    cache     \* ExactCache as its callers see it: text by key, or NoEntry

routeVars == <<pc, query, trace, memory, cache>>
allVars == <<routeVars, gateVars>>

Texts == Calls \cup {Prose}

\* Faulty: one entry for all tenants.
CacheKeyOfAll(q) == <<q.text>>

\* cache_key, without the model: the router looks up its own small model only.
CacheKey(q) == <<q.tenant, q.text>>
CacheKeys == {CacheKey(q) : q \in Queries}

Finished == {"returned", "raised"}

RoutePCs == {"idle", "lookup", "small", "resample", "ladder", "committing",
             "accepting", "frontier", "frontierCommitting"} \cup Finished

Traces ==
    [tier: {"NONE", "CACHE", "SMALL", "FRONTIER"},
     reason: {"NONE", "CACHE_HIT", "POLICY_FORCED", "PREDICTED_HARD",
              "OPTIMISTIC", "VERIFIER_ESCALATION"},
     rules: BOOLEAN,           \* rules were retrieved into the prompt
     smallCalls: Nat,          \* history: calls issued, answered or not
     frontierCalls: Nat,
     retried: BOOLEAN,         \* small_retried
     text: Texts \cup {NoEntry},
     verified: BOOLEAN,        \* the ladder passed text
     escalated: BOOLEAN,
     cause: FailureCategory \cup {NoCategory},   \* why it escalated
     toolCommitted: BOOLEAN,
     toolFailure: FailureCategory \cup {NoCategory},
     surfaced: BOOLEAN,        \* surfaced_to_human
     output: Texts \cup {NoEntry, "surfaced"},   \* final_output
     fault: {"none", "model", "judge", "tool", "memory"}]   \* what raised

BlankTrace ==
    [tier |-> "NONE", reason |-> "NONE", rules |-> FALSE, smallCalls |-> 0,
     frontierCalls |-> 0, retried |-> FALSE, text |-> NoEntry,
     verified |-> FALSE, escalated |-> FALSE, cause |-> NoCategory,
     toolCommitted |-> FALSE, toolFailure |-> NoCategory,
     surfaced |-> FALSE, output |-> NoEntry,
     fault |-> "none"]

\* How often the invocation credited its rules, logged a failure, recorded a
\* golden success and a frontier correction.
Footprints == [credit: Nat, blame: Nat, logged: Nat, golden: Nat, exemplar: Nat]

NoFootprint == [credit |-> 0, blame |-> 0, logged |-> 0, golden |-> 0, exemplar |-> 0]

RouterTypeOK ==
    /\ TypeOK
    /\ pc \in [Requests -> RoutePCs]
    /\ \A r \in Requests : pc[r] # "idle" => query[r] \in Queries
    /\ trace \in [Requests -> Traces]
    /\ memory \in [Requests -> Footprints]
    /\ cache \in [CacheKeys -> Texts \cup {NoEntry}]

RouterInit ==
    /\ Init
    /\ pc = [r \in Requests |-> "idle"]
    /\ query = [r \in Requests |-> NoEntry]
    /\ trace = [r \in Requests |-> BlankTrace]
    /\ memory = [r \in Requests |-> NoFootprint]
    /\ cache = [k \in CacheKeys |-> NoEntry]
-----------------------------------------------------------------------------
At(r, p) == pc' = [pc EXCEPT ![r] = p]

Trace(r, t) == trace' = [trace EXCEPT ![r] = t]

Leaves(r, f) == memory' = [memory EXCEPT ![r] = f]

Raise(r, fault) ==
    /\ At(r, "raised")
    /\ Trace(r, [trace[r] EXCEPT !.fault = fault])

\* _call: one call of a model, answered or not.
SmallCalled(t) == [t EXCEPT !.smallCalls = @ + 1]

FrontierCalled(t) == [t EXCEPT !.frontierCalls = @ + 1]

\* PolicyGate.evaluate.
ForceFrontier(q, override) ==
    \/ override
    \/ q.tenant \in FrontierOnlyTenants
    \/ q.sensitive
    \/ FrontierOnIrreversibleIntent /\ q.risk = "IRREVERSIBLE_WRITE"

\* A call of route().  The caller of an earlier invocation with the same
\* request id has seen it end.
Arrive(r) ==
    /\ pc[r] = "idle"
    /\ \A s \in Requests \ {r} :
          RidOf[s] = RidOf[r] => pc[s] \in {"idle"} \cup Finished
    /\ \E q \in Queries, override \in Override :
          /\ query' = [query EXCEPT ![r] = q]
          /\ IF ForceFrontier(q, override)
               THEN /\ At(r, "frontier")
                    /\ Trace(r, [BlankTrace EXCEPT !.tier = "FRONTIER",
                                                   !.reason = "POLICY_FORCED"])
               ELSE At(r, "lookup") /\ UNCHANGED trace
    /\ UNCHANGED <<memory, cache, gateVars>>

Cached(r) == cache[CacheKey(query[r])]

CacheHit(r) ==
    /\ pc[r] = "lookup" /\ Cached(r) # NoEntry
    /\ At(r, "returned")
    /\ Trace(r, [trace[r] EXCEPT !.tier = "CACHE", !.reason = "CACHE_HIT",
                                 !.output = Cached(r)])
    /\ UNCHANGED <<query, memory, cache, gateVars>>

\* The classifier's p_small_succeeds is below the threshold.
PredictHard(r) ==
    /\ pc[r] = "lookup" /\ Cached(r) = NoEntry /\ Classified
    /\ At(r, "frontier")
    /\ Trace(r, [trace[r] EXCEPT !.tier = "FRONTIER", !.reason = "PREDICTED_HARD"])
    /\ UNCHANGED <<query, memory, cache, gateVars>>

TrySmall(r) ==
    /\ pc[r] = "lookup" /\ Cached(r) = NoEntry
    /\ At(r, "small")
    /\ \E rules \in {FALSE, Memory} :
          Trace(r, [trace[r] EXCEPT !.tier = "SMALL", !.reason = "OPTIMISTIC",
                                    !.rules = rules])
    /\ UNCHANGED <<query, memory, cache, gateVars>>

SmallAnswers(r) ==
    /\ pc[r] \in {"small", "resample"}
    /\ At(r, "ladder")
    /\ \E t \in Texts :
          Trace(r, [SmallCalled(trace[r]) EXCEPT !.text = t])
    /\ UNCHANGED <<query, memory, cache, gateVars>>

\* The part of _escalate before the frontier model answers.
Escalated(t, category) ==
    [t EXCEPT !.escalated = TRUE, !.cause = category, !.tier = "FRONTIER",
              !.reason = "VERIFIER_ESCALATION"]

\* A provider timeout or fault: retried once, then escalated.
SmallFaults(r) ==
    /\ pc[r] = "small"
    /\ \E c \in {"TIMEOUT", "PROVIDER_FAULT"} :
          IF ~trace[r].retried
            THEN Trace(r, [SmallCalled(trace[r]) EXCEPT !.retried = TRUE]) /\ UNCHANGED pc
            ELSE Trace(r, Escalated(SmallCalled(trace[r]), c)) /\ At(r, "frontier")
    /\ UNCHANGED <<query, memory, cache, gateVars>>

\* The call after a verifier's transient verdict is not guarded by a try.
ResampleFaults(r) ==
    /\ pc[r] = "resample"
    /\ At(r, "raised")
    /\ Trace(r, [SmallCalled(trace[r]) EXCEPT !.fault = "model"])
    /\ UNCHANGED <<query, memory, cache, gateVars>>

\* The judge is a model call of its own, made inside the ladder.
JudgeFaults(r) ==
    /\ pc[r] = "ladder" /\ Judged
    /\ Raise(r, "judge")
    /\ UNCHANGED <<query, memory, cache, gateVars>>

\* Faulty: prose reaches the gate too.
ToGateUnparsed(t) == Gated

ToGate(t) == Gated /\ t \in Calls

LadderPasses(r) ==
    /\ pc[r] = "ladder"
    /\ Trace(r, [trace[r] EXCEPT !.verified = TRUE])
    /\ IF ToGate(trace[r].text)
         THEN Propose(r, trace[r].text) /\ At(r, "committing")
         ELSE At(r, "accepting") /\ UNCHANGED gateVars
    /\ UNCHANGED <<query, memory, cache>>

\* _credit on the retrieved rules saves the rule store, which may fail.
CreditMayRaise(r) == trace[r].rules /\ StoreFaults

CreditOf(r) == IF trace[r].rules THEN 1 ELSE 0

\* Faulty: a surfaced tool failure is recorded as the frontier's correction.
ExemplarOfAny(t) == IF Memory /\ t.escalated THEN 1 ELSE 0

\* _log_failure, and what Reflexion.record_success and record_exemplar keep.
LogOf(r) == IF Memory THEN 1 ELSE 0

GoldenOf(r) == IF Memory THEN 1 ELSE 0

ExemplarOf(t) == IF Memory /\ t.escalated /\ ~t.surfaced THEN 1 ELSE 0

\* The small model's output was rejected: blame its rules, log the failure,
\* escalate.
Reject(r, t, category) ==
    LET blamed == [memory[r] EXCEPT !.blame = @ + CreditOf(r)] IN
    \/ /\ Leaves(r, [blamed EXCEPT !.logged = @ + LogOf(r)])
       /\ Trace(r, Escalated(t, category))
       /\ At(r, "frontier")
    \/ /\ CreditMayRaise(r)
       /\ Leaves(r, blamed)
       /\ Trace(r, [t EXCEPT !.fault = "memory"])
       /\ At(r, "raised")

\* Faulty: resamples however often the small model was retried.
LadderRejectsAgain(r) ==
    /\ pc[r] = "ladder"
    /\ \E c \in VerifierCategories :
          IF c \in Transient
            THEN /\ Trace(r, [trace[r] EXCEPT !.retried = TRUE])
                 /\ At(r, "resample")
                 /\ UNCHANGED memory
            ELSE Reject(r, trace[r], IF c = NoCategory THEN "SILENT_SEMANTIC" ELSE c)
    /\ UNCHANGED <<query, cache, gateVars>>

\* Faulty: a second transient verdict falls through to the commit.
LadderRejectsFallsThrough(r) ==
    /\ pc[r] = "ladder" /\ trace[r].retried /\ ToGate(trace[r].text)
    /\ VerifierCategories \cap Transient # {}
    /\ Propose(r, trace[r].text) /\ At(r, "committing")
    /\ UNCHANGED <<query, trace, memory, cache>>

\* A transient verdict is resampled unless the small model was already
\* retried; every other one escalates (VerifierLadder._finish).
LadderRejects(r) ==
    /\ pc[r] = "ladder"
    /\ \E c \in VerifierCategories :
          IF c \in Transient /\ ~trace[r].retried
            THEN /\ Trace(r, [trace[r] EXCEPT !.retried = TRUE])
                 /\ At(r, "resample")
                 /\ UNCHANGED memory
            ELSE Reject(r, trace[r], IF c = NoCategory THEN "SILENT_SEMANTIC" ELSE c)
    /\ UNCHANGED <<query, cache, gateVars>>

\* Faulty: a commit that succeeds takes back the failure reported before it.
BookkeptClears(r) ==
    [trace[r] EXCEPT !.toolCommitted = gate[r].committed,
                     !.toolFailure = gate[r].category]

\* _commit's bookkeeping on the trace, for either model's call.
Bookkept(r) ==
    IF gate[r].committed
      THEN [trace[r] EXCEPT !.toolCommitted = TRUE]
      ELSE [trace[r] EXCEPT !.toolCommitted = FALSE, !.toolFailure = gate[r].category]

WithAnswer(t) == [t EXCEPT !.output = t.text]

Surfaced(t) == [t EXCEPT !.surfaced = TRUE, !.output = "surfaced"]

\* Faulty: only terminal categories are surfaced, so that a tool that is still
\* down is neither surfaced nor escalated.
CommitDoneTerminal(r) ==
    /\ pc[r] = "committing" /\ gate[r].pc = "done"
    /\ \/ /\ gate[r].committed
          /\ Trace(r, Bookkept(r)) /\ At(r, "accepting") /\ UNCHANGED memory
       \/ /\ gate[r].category \in Terminal
          /\ Trace(r, Surfaced(Bookkept(r))) /\ At(r, "returned") /\ UNCHANGED memory
       \/ /\ ~gate[r].committed /\ ShouldEscalate(r)
          /\ Reject(r, Bookkept(r), gate[r].category)
    /\ UNCHANGED <<query, cache, gateVars>>

CommitDone(r) ==
    /\ pc[r] = "committing" /\ gate[r].pc = "done"
    /\ \/ /\ gate[r].committed
          /\ Trace(r, Bookkept(r)) /\ At(r, "accepting") /\ UNCHANGED memory
       \/ /\ ~gate[r].committed /\ ~ShouldEscalate(r)
          /\ Trace(r, Surfaced(Bookkept(r))) /\ At(r, "returned") /\ UNCHANGED memory
       \/ /\ ~gate[r].committed /\ ShouldEscalate(r)
          /\ Reject(r, Bookkept(r), gate[r].category)
    /\ UNCHANGED <<query, cache, gateVars>>

\* An exception out of the gate is not caught by the router.
GateRaises(r) ==
    /\ pc[r] \in {"committing", "frontierCommitting"} /\ gate[r].pc = "raised"
    /\ Raise(r, "tool")
    /\ UNCHANGED <<query, memory, cache, gateVars>>

Cacheable(r) == ~(trace[r].toolCommitted /\ Gated /\ trace[r].text \in Irreversible)

\* The small model's output becomes the answer.
Accept(r) ==
    /\ pc[r] = "accepting"
    /\ LET t == WithAnswer(trace[r])
           credited == [memory[r] EXCEPT !.credit = @ + CreditOf(r)] IN
       \/ /\ At(r, "returned") /\ Trace(r, t)
          /\ Leaves(r, [credited EXCEPT !.golden = @ + GoldenOf(r)])
          /\ cache' = IF Cacheable(r)
                        THEN [cache EXCEPT ![CacheKey(query[r])] = trace[r].text]
                        ELSE cache
       \/ /\ CreditMayRaise(r)
          /\ At(r, "raised") /\ Trace(r, [t EXCEPT !.fault = "memory"])
          /\ Leaves(r, credited) /\ UNCHANGED cache
    /\ UNCHANGED <<query, gateVars>>

\* The end of _finish_frontier and of _escalate: t is the final trace, and the
\* frontier's correction of an escalated request becomes an exemplar.
FinishFrontier(r, t) ==
    /\ At(r, "returned") /\ Trace(r, t)
    /\ Leaves(r, [memory[r] EXCEPT !.exemplar = @ + ExemplarOf(t)])

\* Faulty: the frontier's raw proposal is the answer; nothing executes.
FrontierAnswersUngated(r) ==
    /\ pc[r] = "frontier"
    /\ \E x \in Texts :
          FinishFrontier(r, WithAnswer([FrontierCalled(trace[r]) EXCEPT !.text = x]))
    /\ UNCHANGED <<query, cache, gateVars>>

FrontierAnswers(r) ==
    /\ pc[r] = "frontier"
    /\ \E x \in Texts :
          LET t == [FrontierCalled(trace[r]) EXCEPT !.text = x, !.verified = FALSE] IN
          IF ToGate(x)
            THEN /\ Propose(r, x) /\ At(r, "frontierCommitting")
                 /\ Trace(r, t) /\ UNCHANGED memory
            ELSE FinishFrontier(r, WithAnswer(t)) /\ UNCHANGED gateVars
    /\ UNCHANGED <<query, cache>>

FrontierFaults(r) ==
    /\ pc[r] = "frontier"
    /\ At(r, "raised")
    /\ Trace(r, [FrontierCalled(trace[r]) EXCEPT !.fault = "model"])
    /\ UNCHANGED <<query, memory, cache, gateVars>>

FrontierCommitDone(r) ==
    /\ pc[r] = "frontierCommitting" /\ gate[r].pc = "done"
    /\ FinishFrontier(r, IF gate[r].committed THEN WithAnswer(Bookkept(r))
                                             ELSE Surfaced(Bookkept(r)))
    /\ UNCHANGED <<query, cache, gateVars>>

\* An entry expires or is evicted.
Forget(k) ==
    /\ cache[k] # NoEntry
    /\ cache' = [cache EXCEPT ![k] = NoEntry]
    /\ UNCHANGED <<pc, query, trace, memory, gateVars>>

GateStep(r) == Step(r) /\ UNCHANGED routeVars

RouteStep(r) ==
    \/ CacheHit(r) \/ PredictHard(r) \/ TrySmall(r) \/ SmallAnswers(r)
    \/ SmallFaults(r) \/ ResampleFaults(r) \/ JudgeFaults(r) \/ LadderPasses(r)
    \/ LadderRejects(r) \/ CommitDone(r) \/ GateRaises(r) \/ Accept(r)
    \/ FrontierAnswers(r) \/ FrontierFaults(r) \/ FrontierCommitDone(r)

RouterNext ==
    \/ \E r \in Requests : Arrive(r) \/ RouteStep(r) \/ GateStep(r)
    \/ \E k \in CacheKeys : Forget(k)

RouterSafetySpec == RouterInit /\ [][RouterNext]_allVars

\* route() runs on its caller's thread; models and backend answer or fail.
RouterSpec ==
    /\ RouterSafetySpec
    /\ \A r \in Requests : WF_allVars(RouteStep(r) \/ GateStep(r))
-----------------------------------------------------------------------------
\* Two small calls and one frontier call bound what a request can spend,
\* whatever mix of timeouts, transient verdicts and tool failures it meets
\* (routing/router.py:238, 265, 425).
CallBudget ==
    \A r \in Requests : trace[r].smallCalls <= 2 /\ trace[r].frontierCalls <= 1

\* A request teaches the memory at most one lesson about the small model: its
\* rules are credited or blamed once, a success is recorded only of an answer
\* the small model gave, a failure or a correction only of one it did not
\* (routing/router.py:281-282, 300-302, 310-313, 412-419).
OneLesson ==
    \A r \in Requests :
        /\ memory[r].credit + memory[r].blame <= 1
        /\ memory[r].golden + memory[r].logged <= 1
        /\ memory[r].golden = 1 => trace[r].tier = "SMALL" /\ ~trace[r].surfaced
        /\ memory[r].logged = 1 => trace[r].escalated
        /\ memory[r].exemplar <= (IF trace[r].escalated /\ ~trace[r].surfaced THEN 1 ELSE 0)

\* The irreversible calls applied for one request id.
Irrevocable(i) == {c \in Irreversible : effects[<<i, c>>] > 0}

\* One route() call does not carry out two irreversible calls: escalation
\* follows only outcomes of which nothing was applied.  It takes a gateway
\* that honours keys, a backend that fails before it applies a call and no
\* result verifiers, whose verdict comes after the effect
\* (tools/commit.py:11-12, routing/router.py:289).
SingleIrreversibleEffect ==
    HonoursKeys /\ ~LateFaults /\ ~ResultVerifiers =>
        \A r \in Requests :
            (\A s \in Requests \ {r} : RidOf[s] # RidOf[r]) =>
                \A c, d \in Irrevocable(RidOf[r]) : c = d

\* A tool call returned as an answer was executed: for this request or, out of
\* the cache, for an earlier one (routing/router.py:290-310, 425-428).
AnswerExecuted ==
    \A r \in Requests :
        pc[r] = "returned" /\ ToGate(trace[r].output) =>
            IF trace[r].tier = "CACHE"
              THEN \E i \in Rids : effects[<<i, trace[r].output>>] > 0
              ELSE effects[<<RidOf[r], trace[r].output>>] > 0

\* The trace of an answered request tells what its tool calls came to:
\* committed as the gate's last word was; a failure that was surfaced or, on an
\* escalated request, recovered from or answered without a tool, and then the
\* very failure it was escalated for.  A second commit that succeeds hides
\* none before it (schemas/trace.py:41-48, routing/router.py:334-346).
TraceTellsRecovery ==
    \A r \in Requests : pc[r] = "returned" =>
        /\ trace[r].toolCommitted = gate[r].committed
        /\ gate[r].round = 2 => trace[r].toolFailure # NoCategory
        /\ trace[r].surfaced =>
              trace[r].toolFailure # NoCategory /\ ~trace[r].toolCommitted
        /\ trace[r].toolFailure # NoCategory /\ ~trace[r].surfaced =>
              trace[r].escalated /\ trace[r].cause = trace[r].toolFailure

\* The backend applies a call of the small model only if the ladder passed the
\* very text it came from; the frontier's are applied unverified
\* (routing/router.py:289, 422-433).
SmallExecutesVerified ==
    [][\A k \in Keys : effects'[k] > effects[k] =>
          \E r \in Requests :
              /\ RidOf[r] = k[1] /\ trace[r].text = k[2]
              /\ \/ pc[r] = "committing" /\ trace[r].verified
                 \/ pc[r] = "frontierCommitting" /\ trace[r].frontierCalls = 1]_allVars

\* Every request is answered or raises: no tool outcome, verdict or fault
\* leaves it between two branches (routing/router.py:137-318).
EveryRequestEnds ==
    \A r \in Requests : pc[r] # "idle" ~> pc[r] \in Finished

Replayable == IF Gated THEN Texts \ Irreversible ELSE Texts

Phase ==
    [p \in RoutePCs |->
        CASE p = "idle"     -> "new"
          [] p = "lookup"   -> "asked"
          [] p = "returned" -> "answered"
          [] p = "raised"   -> "raised"
          [] p \in {"frontier", "frontierCommitting"} -> "frontier"
          [] OTHER          -> "small"]

Contract ==
    INSTANCE RouteContract WITH
        Keys    <- {<<q.tenant, q.text>> : q \in Queries},
        None    <- NoEntry,
        phase   <- [r \in Requests |-> Phase[pc[r]]],
        key     <- [r \in Requests |-> IF pc[r] = "idle" THEN NoEntry
                                        ELSE <<query[r].tenant, query[r].text>>],
        answer  <- [r \in Requests |-> IF pc[r] = "returned" THEN trace[r].output
                                                           ELSE NoEntry],
        vouched <- {<< <<query[r].tenant, query[r].text>>, trace[r].output >> :
                       r \in {s \in Requests : /\ pc[s] = "returned"
                                               /\ trace[s].tier = "SMALL"
                                               /\ trace[s].output \in Replayable}}

\* The router keeps the promise of RouteContract: one way up, one answer, and
\* a cache that replays only accepted, harmless answers to the same tenant's
\* same query.
RouterImplementsContract == Contract!Spec
-----------------------------------------------------------------------------
\* memory/reflexion.py:26-27: on the request path the memory never fails a
\* request.
MemoryNeverFailsRequests == \A r \in Requests : trace[r].fault # "memory"
=============================================================================
