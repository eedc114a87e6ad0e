# smart_router in TLA+

A verification project for `smart_router`: TLA+ modules that model its control flow, TLC
configurations that check them on small instances, and TLAPS proofs of the properties that matter
most for every instance.

`smart_router` answers requests with a small language model where that is good enough and with a
frontier model where it is not. Everything the small model says passes a ladder of verifiers; tool
calls pass a two-phase commit gate before they reach a live system; failures are kept and, offline,
distilled into rules that are injected into later prompts.

## 1. Inventory

| Part | Source | State it keeps | Operations | Talks to |
|---|---|---|---|---|
| Commit gate | `tools/commit.py` | none between calls; one `CommitOutcome` per call | `propose`, `validate`, `commit` | registry, gateway, result verifiers |
| MCP gateways | `tools/gateway.py`, `tools/stdio_gateway.py` | results by idempotency key (mock); a thread, an event loop and a session (stdio) | `call`, `list_tools`, `start`, `close` | the tool servers |
| Router | `routing/router.py` | one `RequestTrace` per request | `route` | everything below |
| Policy gate | `routing/policy.py` | configuration | `evaluate` | |
| Exact cache | `cache/exact.py` | ordered entries with expiry | `get`, `put` | |
| Classifier, threshold | `routing/classifier.py`, `routing/threshold.py` | a fitted model | `predict`, `min_success_prob` | embedder |
| Verifier ladder | `verify/ladder.py`, `verify/expensive.py` | the sampler's random generator | `run`, `should_judge` | verifiers, judge model |
| Verifiers | `verify/free.py`, `cheap.py`, `result.py` | none | `check` | |
| Tool registry | `tools/registry.py`, `schema.py`, `reversibility.py` | specs by name | `get`, `audit`, `validate_schema` | |
| Model clients | `gateway/` | none | `complete` | providers |
| Prompt | `prompt.py` | conversation history | `assemble`, `ConversationHistory.append` | |
| Failure log | `memory/failures.py` | records in memory and in a JSONL file | `record`, `load`, `remove`, `cluster` | file system |
| Rule store | `memory/store.py`, `lifecycle.py`, `schemas/rule.py` | rules and an id counter, in memory and in `rules.json` | `add`, `record_outcome`, `reconcile`, `invalidate_for_model`, `pull` | file system |
| Learning loop | `memory/loop.py`, `gate.py`, `critic.py`, `replay.py`, `hygiene.py` | none between runs | `run` | failure log, rule store, models |
| Reflexion | `memory/reflexion.py`, `retrieval.py`, `exemplars.py` | retrievers and versions per tenant, golden cases, exemplars | `retrieve`, `refresh`, `learn`, `record_*` | all of the memory |
| Command line, demos, telemetry | `cli.py`, `demo.py`, `probe.py`, ... | none | | |

How they interact. `route` is a synchronous call on its caller's thread; it calls the policy, the
cache, the classifier, a model, the ladder, the commit gate and, perhaps, the frontier model and the
gate again. Nothing is locked: requests that run at the same time share the cache, the gateway and
the memory. Learning is a separate entry point, in practice a separate process, which shares the
memory's files with the routers.

What is hard. (a) Effects are irrevocable, and three things may repeat one: the gate's retry, a
caller that sends a request again, and escalation. (b) Two kinds of failure, "try again" and "ask a
stronger model", cross at five places of `route` and share one flag. (c) One request leaves traces
in four stores on paths that merge. (d) A cache entry outlives the request, the rules and the tenant
that caused it. (e) The memory's files are written without locks, some in place, by two processes.
The complete list, line by line, is under `hazards` in `PROJECT.json`.

What makes each part correct:

* commit gate: nothing is applied that was not validated, approved and rehearsed as configured;
  nothing is applied twice under one key; what is reported as committed happened; every call is
  answered, and a transient fault is reported only when the attempts are used up;
* router: bounded model calls; no answer that claims an unexecuted call; one irreversible effect per
  request; one lesson per request; a trace that tells what failed and whether it was recovered; the
  cache replays only harmless answers, to the same tenant and
  query; every request ends;
* cache: its bound, least recently used eviction, no expired or replaced value;
* ladder: it and the gate agree about every call, and a constrained decoder emits nothing they reject;
* prompt: nothing learnt from one tenant reaches another's, and the cacheable prefix only grows;
* stdio gateway: ready means usable, every operation ends, and unless somebody closed it, its session
  dropped or two threads started it, nothing but a `ToolError` or the session's own call fails;
* files of the memory: a restart gives what was there, a torn line costs one other, files are bounded;
* memory: a rule served is promoted, in scope and validated; evidence is neither lost nor counted
  twice, across crashes and processes.

## 2. Modules

| Module | Models | Depends on |
|---|---|---|
| `Taxonomy` | the failure categories and tool errors | |
| `CommitGate` | commit gate and gateway, one process per request | `Taxonomy` |
| `SmartRouter` | `route`, composed with the gate | `CommitGate` |
| `RouteContract` | abstract: what a caller may rely on | |
| `ExactCache` | the cache in detail | |
| `LossyMap` | abstract: what a cache promises | |
| `JsonLines` | a JSON-lines file, its torn lines, how it is read back | |
| `FailureLog` | the failure log and its file, one process after the other | `JsonLines` |
| `RecentStore` | exemplars and golden cases: the most recent per key, and their file | `JsonLines` |
| `Serving` | from the memory to the prompt: snapshots, retrieval, assembly, conversation | |
| `ToolSchemas` | JSON values and the schemas a tool's specification gives | |
| `SchemaWalk` | one level of the schema validator | `ToolSchemas` |
| `SchemaValidator` | the validator: the walk, all the way down | `SchemaWalk` |
| `VerifierLadder` | the ladder of verifiers, beside what the gate says of the same text | `Taxonomy`, `ToolSchemas` |
| `StdioGateway` | threads that start, call and close the stdio gateway | |
| `Lifecycle` | what evidence is worth and the state it earns | |
| `RuleMemory` | the learned rules: store, log, learning passes, processes | `Lifecycle` |
| `CommitGate_proofs`, `SmartRouter_proofs`, `RuleMemory_proofs`, `ExactCache_proofs`, `Serving_proofs` | theorems about the module of that name | it, `TLAPS` |
| `MemoryFiles_proofs` | theorems about `FailureLog` and `RecentStore` | both |
| `ToolPath_proofs` | theorems about `VerifierLadder` and `StdioGateway` | both, `SchemaWalk` |
| `Iteration` | lemmas about loops | `TLAPS` |
| `MCCommitGate`, `MCSmartRouter`, `MCRuleMemory`, `MCVerifierLadder` | finite instances | |
| `MCParts` | finite instances of the components that live on their own | those components |

**CommitGate.** `gate[r]` holds the local variables of the `commit` call that invocation `r` is in
or came from, and the `CommitOutcome` it builds: `pc` is the line it has reached. `stored` is the
mock gateway's `_committed`. `effects` is history: how often the backend applied each key's call.
A call (a tool with its arguments) is a model value, and what the registry and the schema walk say
of it are constant sets: `Known`, `WellFormed`, `Irreversible`, `DryRunnable`; what the server says
of it are `Exposed` and `Rehearses`, which need not agree with the registry. `Approved` are the
invocations committed with `approved=True`; the router commits none so. The two gateways differ
in `HonoursKeys` and, since a remote server may apply a call and then fail, in `LateFaults`. The
backend's effect, the return of its result and the record under the key are separate steps, so that
other requests interleave and faults fall between them. `Alone` is an assumption about the caller: a
request is sent again only after it returned. Neither `route` (`router.py:137-149`) nor the mock
gateway, which looks a key up before it executes and records it after (`gateway.py:101`, `120`),
enforces it; two invocations of one request id at once would both be executed. An exception outside the `ToolError`
hierarchy leaves `commit` and `route` (`Crash`).

**SmartRouter** extends it. `pc[r]` is the place in `route`, `trace[r]` the `RequestTrace` with the
local variable `text` and a few counters, `memory[r]` counts what the request left in the rule store
(`credit`, `blame`), the failure log (`logged`), the golden set and the exemplars, `cache` is the
shared cache through its interface. A model's answer is a call or `Prose`. The ladder's verdict is a
choice between passing, a category and a judge fault. `CommitDone`, `Accept`, `Reject` and
`FinishFrontier` each stand for everything the code does between two points at which another
request, a model or a backend may act. `StoreFaults` lets `RuleStore.save` raise, which the router
does not catch.

**RouteContract** knows phases (asked, small, frontier, answered, raised) and the set of answers the
small model was vouched for. `SmartRouter!RouterImplementsContract` maps the router to it; `vouched`
is computed from the traces of the requests that were answered.

**ExactCache** keeps the order of keys as a sequence and time as a bounded clock. It implements
**LossyMap**, which is how `SmartRouter` uses its cache: `Accept` puts, `Forget` loses. A lookup is one
step; in the code it is two accesses to the map without a lock (`exact.py:66`, then `71` or `75`), and
a second thread that evicts or expires the entry between them makes the other raise a `KeyError`.

**RuleMemory** models the rules mode of the memory as processes and two files. A process of
`Routers` serves requests, one of `Learners` runs learning passes; a demo is both in one, while
`smart-router route` and `smart-router learn` are two (`cli.py:12`). Each has its own copy of the
rules (`store`) and of the failures (`log`), read from `rules.json` (`disk`) and `failures.jsonl`
(`logDisk`) when it starts and written back whole, and `served`, the rules in its retrievers, which
only `refresh()` changes; `retrieved` is what its requests may have been given and may still credit.
A learning pass is a sequence of steps, one per cluster, largest first, so that requests, reviews,
crashes, another process and an upgrade of the model fall between them; the pass keeps the model it
was given. `TurnsSpec` is the memory whose processes take turns: one starts when the other has ended.
What a critic writes is a choice of trigger, what a replay measures a choice of passed queries.
`next_rule_id` is consumed by every cluster the critic is asked about. `Lifecycle` has the decision:
the Wilson bound is multiplied out into integers (with z² = 3.84) so that both TLC and the proofs
compute it. A rule a pass accepts is added to the shadow and saved, and decided on and saved again:
two steps (`Accept`, `Decide`), with crashes and requests between them.
The log of this module is a set: at the cap, `MaxRecords`, any of its failures may be the oldest
(`FailureLog` has the order), and under `WriteFaults` each write of `failures.jsonl` may fail and is
swallowed. `recorded`, `learnt`, `excused`, `unsettled` and `named` are history: `excused` has what the
cap dropped and what was not written whole, `unsettled` what passes consumed that broke off or whose
removal was not written.
`Review` is external: the repository has the flag and reads it, and leaves setting it to a human.
`reconcile` and `pull` are operations of the store that nothing in production calls; they are
modelled as calls any process may make.

**JsonLines** is what `FailureLog` and the two stores of `reflexion.py` do to a file. A write that
fails, or that a crash cuts short, leaves nothing, a part of its row, the row without its newline,
or all of it (`Extents`); the next append continues the last line, whatever it is. A replacement goes
through a temporary file and is all or nothing. Lines that do not parse are skipped.

**FailureLog** numbers the failures; a record is its number. `session` is the embedder of the running
process: rows of another embedding space are not loaded, and are gone with the next rewrite.
`RecordFailure` appends and, over the cap, drops the oldest record and rewrites the file, all of it
`record()`; errors of either write are swallowed. `acked`, `excused`, `tears` and `mirrored` are
history.

**RecentStore** stands for `ExemplarStore` and `GoldenSet`, which do the same with different rows: a
key is tenant and fingerprint, the value what the item says. The file is appended to while the count
of its lines is below a multiple of the capacity and replaced by the kept items otherwise; the count
is kept in memory, and does not count lines that do not parse. The code's factor is 4.

**Serving** takes the memory as a set of items, each a promoted rule or an exemplar, in a vector
space that is a line (`place`). `refresh()` cuts a snapshot per tenant; a request of a tenant without
one falls back to the snapshot for everyone; `Retrieve` ranks by maximal marginal relevance and
Wilson score (rules) or by similarity (exemplars), taking one item after the other, and skips what is
below the floor or over the token budget; `Assemble` puts the block before the user's turn and
outside the prefix. Requests do not change the memory here, so one conversation stands for any
number. Versions are hashes of the snapshots' content and left out. The caller owns the history and
may try to append any message of the prompt to it; `ConversationHistory.append` decides.

**ToolSchemas** represents a JSON value by a record of one field named for its type, a schema by a
record of its keywords, and a pattern by the strings it matches. **SchemaWalk** is one level of
`validate_schema` over them: what the keywords of a schema say of a value, and what `accepts` says of
the schemas inside it. **SchemaValidator** ties the knot, `Validates(v, schema) == Walk(Validates, v,
schema)`. That is recursive, and nothing can be proved on top of a recursive operator (see 4); the
ladder therefore takes the validator as a constant, `Accepts`, the instance for TLC gives it
`Validates`, and the proof that needs to know what a validator does assumes `Walks`.
**VerifierLadder** lets a small model's response be a text and the flaws that verifiers other than the
schema walk would find in it. It takes one step per verifier, and then the judge's: mandatory for the
risk class of the query, sampled otherwise. The same texts go through the gate's `propose` and
`validate`, so that the two readers of a call can be compared. `SmartRouter` makes the ladder's verdict
a choice; this module is where it comes from.

**StdioGateway** has the gateway's fields (`gw`), the background threads (`bg`), numbered, and the
callers' operations (`caller`), one step per access to a shared field, since there is no lock. A
loop, a session, a stop event and a list of specs are named by the thread that made them, so that
those of a dead thread can be told from those of the present one. The fields the loop sets after
`list_tools` without an `await` between them are set in one step. What a call does at the server is
`CommitGate`'s; here the server answers, with a result or an error. An error reply of the protocol, or a
result that fails validation, is raised as it is (`stdio_gateway.py:151`, `180`): outside the `ToolError`
family, with the session alive ("raised"). Exceptions of the gateway's own steps are kept apart
("crashed"): a session or thread that is `None`, a thread started twice or joined before it started, a
closed loop, a session of another loop. A session that drops is `Fails`.

**MCParts** checks the components that interact with the rest only through an interface modelled
elsewhere: they share no variable, and each moves only while every other is in its initial state.
Their behaviours are thus exactly those of each alone, and their states add instead of multiplying.

Definitions under a comment `Faulty:` are seeded faults: plausible bugs of the definition that
follows. Each property is checked to fail when one of them takes its place.

## 3. Runs

| Run | Checks | Instance |
|---|---|---|
| `commit_mock` | `TypeOK`, `AtMostOnce`, `CommittedHappened`, `TransientExhausted`, `CheckedBeforeEffect`, `Answered` | one request id sent twice, once approved and once not, two proposals each; approvals required; a read, a rehearsable write, an unknown, a malformed and a drifted call; one retry |
| `route_one` | `RouterTypeOK`, `CallBudget`, `OneLesson`, `SingleIrreversibleEffect`, `AnswerExecuted`, `TraceTellsRecovery`, `SmallExecutesVerified`, `EveryRequestEnds` | one request, everything switched on |
| `route_pair` | `AnswerExecuted`, `RouterImplementsContract` | two concurrent requests of two tenants, shared cache and gateway, result verifiers |
| `parts` | see below | cache, failure log, recent items, serving, ladder and stdio gateway, each on its own |
| `memory_one` | `TypeOK`, `PassedWithinTrials`, `Durable`, `IdsNeverReused`, `EvidenceKept`, `RevivedInShadow` | two processes that take turns, one of which only learns; one tenant, two failures learnt from one after the other, two triggers, two checkpoints |
| `memory_global` | `OneRulePerTrigger`, `GlobalReviewed`, `GatedOutKept`, `PaidOnce` | two processes that take turns, failures in pairs for one tenant and for all, a gate that wants two queries, a log that holds three and whose writes may fail, saves that a crash may tear |

`parts` asks one thing of six components, that each keeps its promises on its own:

| Component | Properties | What they say |
|---|---|---|
| `ExactCache` | `TypeOK`, `KeptWhileRecent`, `CacheImplementsLossyMap` | the cache is the lossy map the router uses |
| `FailureLog` | `TearCostsOne`, `LogReloads` | a torn line costs one other record; without errors a restart gives the same records |
| `RecentStore` | `FileBounded`, `RecentReloads` | the file is bounded; trimming at each addition and once at the end agree |
| `Serving` | `TenantIsolation`, `PrefixExtends` | nothing of one tenant in another's prompt; the prefix of a conversation only grows |
| `VerifierLadder` | `LadderAgreesWithGate`, `ConstrainedAccepted` | the two readers of a call agree; nothing a constrained decoder may emit is rejected for its tool or arguments |
| `StdioGateway` | `ReadyMeansLoaded`, `CrashExplained`, `OperationsEnd` | a gateway that says it is ready has tools or an error; its own steps do not fail before a close, a drop or two starts at once; operations end, but for a call whose loop closed or is not its session's |

Six more runs each exhibit a sentence of the repository that the code does not keep
(`findings` in `PROJECT.json` quotes them):

| Run | Sentence | What the code does |
|---|---|---|
| `double_execution` | a retry cannot double-execute (`tools/commit.py:60`) | the stdio gateway ignores the key |
| `unjudged_write` | the tool's reversibility decides on the mandatory judge (`tools/reversibility.py:3`, `tools/registry.py:33`) | the query's risk class does; a destructive call under a harmless query is judged only if sampled |
| `memory_fails_request` | the memory never fails a request (`memory/reflexion.py:27`) | saving the credit of a rule may |
| `pulled_still_served` | `pull` is immediate removal from service (`memory/store.py:152`) | the retrievers of the last refresh still hold the rule (`reflexion.py:417-419`) |
| `gated_out_lost` | clusters the gate stopped keep accumulating (`memory/loop.py:82`) | the learner rewrites the log without what the router appended |
| `superseded_evidence` | evidence gathered against a superseded checkpoint is not evidence (`memory/loop.py:64`) | an upgrade resets a rule's state and keeps its counts (`store.py:144`); when its trigger is synthesised again, they are taken over and the rule is due for promotion |

`superseded_evidence` credits no outcomes, so that every trial there is a replay of one model or the
other, and asks more to promote (30%), so that one replay does not suffice and two do.

Other disagreements met while modelling, without a run of their own:

* `tools/commit.py:140` says transient tool faults retry the tool; a transient fault of the dry run
  ends the commit at once (`commit.py:174`).
* `memory/replay.py:3` says no rule is served on synthesis; a wording that failed its replay takes
  over the counts of the one it replaces (`store.py:84-85`), on which `reconcile` promotes it.
* `schemas/verification.py:22` says timeouts never escalate; the second one of a request does
  (`router.py:251`, `279`).
* `schemas/trace.py:45` calls `tool_failure` the first failure seen; an escalated request commits twice
  and a second failure overwrites the first (`router.py:344`). What the pair of fields is for, to tell
  failed from recovered, does hold (`TraceTellsRecovery`).
* `memory/store.py:3` says an id is never reused after pruning; with a router beside the learner, the
  older counter is written back (`store.py:48-60`).
* `memory/retrieval.py:8` says the lowest-confidence rules are dropped first; the loop skips a rule
  that does not fit and goes on, so a long rule of high confidence may go while lower ones stay.
* `memory/reflexion.py:439-441` makes every request replayable from its logged version; rules and
  version are read one after the other, so a refresh in between logs one that was not served
  (`417-422`). It calls a served snapshot immutable, too; its rules are the store's own objects, which
  outcomes and `pull` change (`store.py:109-126`).
* `memory/failures.py:179` says removed records are not paid for again; a rewrite that fails is
  swallowed (`200`), and they are back after a restart (an exception of `PaidOnce`).
* `tools/stdio_gateway.py:10-13` describes one session for the gateway's life; two callers that start
  together, or one that starts again after a timeout and a close, make two. While another thread is
  starting, or after it failed, `list_tools` is empty and every tool is not found. A start after a
  close finds `_ready` set and serves the old specs on a closed loop; a second close raises.
* `memory/loop.py:35-36` says a consumed failure is not paid for again; a pass that crashes, or whose
  critic raises on a later cluster, consumes nothing (`reflexion.py:511-512`; the other exception of
  `PaidOnce`).

What no sentence of the repository denies and no property can forbid, since the code does it:

* A result verifier that rejects a call rejects one that was executed (`commit.py:194`). The request
  escalates, and the frontier model's call is executed, too.
* A fault of the judge's model call ends the request, although the answer passed every other verifier
  (`verify/ladder.py:61`).
* A call waits for its server without a timeout (`stdio_gateway.py:151`).
* What `call_tool` raises itself, an error reply of the protocol or a result that fails validation,
  passes the commit gate, which catches `ToolError`s, and ends the request (`stdio_gateway.py:180`).
* Two requests in one cache lookup may raise a `KeyError`, and two invocations of one request id in the
  gate may both execute (see `ExactCache` and `CommitGate` above).

Bounds. The control of a request is loop-free but for the two bounded retries, so one request with
one retry reaches every branch; one tool retry distinguishes first, middle and last attempt together
with the dry run. Sharing shows with two requests: no action involves three. Two irreversible calls
suffice to break `SingleIrreversibleEffect`. In the cache, three keys are the fewest that evict from
two entries, and two entries the fewest that have an order. In the memory, two triggers for two ids
let a rule be new, be synthesised again and meet another; `MaxTrials`, `MaxMisfired` and `Ids` bound
the counts and ids, and the thresholds of those instances (20% to promote, 10% to demote) are low so
that two trials pass through every state. Models and triggers are interchangeable and no property of
those runs is a liveness property, so their permutations are used as symmetry. `GatedOutKept` needs
the gate to stop a cluster and admit it when it has grown: pairs of failures and a minimum of two; four
failures for a log of three reach the cap, in memory and at the start. `PaidOnce` needs a pass after a
pass, in the same process and in the next. Queries of one tenant are interchangeable, and their
permutations symmetry, too.
`Durable`, `IdsNeverReused` and `GatedOutKept` need processes to take turns; `gated_out_lost` shows it
for the last. Two processes are enough for one to start from what another left.

In `parts`: the log holds two records, so that four failures trim it, reload it and trim it again;
two torn lines can follow each other, and two embedders are enough to be foreign to one another. Three
keys for two items evict, and a factor of 2 compacts after four lines. A prompt has room for two of
the three items, one of which is beyond the floor for one of the places, and a conversation of two
turns extends a prefix that was extended. The 24 texts have, for each keyword of the schemas, one it
accepts and one it rejects, and the shapes `propose` treats apart; the three tools are a flat one, a
nested one and one that declares nothing. Two callers and two background threads, three operations
between them, have every pair of operations overlap and a third follow; the gateway alone was also
checked with three threads and four operations.

`CHECK_DEADLOCK FALSE` everywhere: requests end, and the finite instance then stops.

Fairness. `Spec` and `RouterSpec` assume weak fairness of the steps of each request, nothing more:
`route` and `commit` run on their caller's thread and never wait for another request, so a request
that can go on eventually does. It includes that models and backends answer or fail. The code does
not enforce that: `StdioMCPGateway` waits without a timeout (a hazard in the list). Arrivals, cache
expiry and everything a request does not wait for are not fair. `GatewayFairness` is weak fairness of
each caller's steps: callers run, waits with a timeout end, and a server that was initialised answers.
Nothing is assumed of a server that is starting, of the background thread, or of a call on the wrong
loop, and `OperationsEnd` excepts the calls nothing can wake.

## 4. Proofs

Every theorem holds for all values of the constants that satisfy the assumptions named beside their
declaration. These say what type a constant has, that markers such as `NoEntry`, `Nothing` or `Junk`
are not data, and that sets the code keeps in memory are finite; none bounds a size. Where a theorem
needs more of a configuration, its statement says so.

`CommitGate_proofs`, from `GateAssumption`:

* `TypeCorrect`: `SafetySpec => []TypeOK`. The induction is on `Typed`, which adds that
  whoever is no longer idle has proposed a call.
* `AppliedAtMostOnce`: `SafetySpec => []AtMostOnce`. Not inductive by itself. `Exclusive` says that
  invocations with one request id are not inside the gate together; `Once` that, with keys honoured
  and no late faults, a key has been applied if it is stored or its call waits between effect and
  record, and not otherwise; so a call that is about to be applied under a key has not been.
* `CommitIsReal`: `SafetySpec => []CommittedHappened`, from `Happened`: whoever is past the effect,
  or reports a commit, and every stored key, has been applied.
* `NothingUnchecked`: `SafetySpec => CheckedBeforeEffect`, from `Checked`: whoever executes was
  admitted, and rehearsed where that is due. It needs neither keys nor a backend that fails early, so it
  covers the stdio gateway, too.
* `RetriesUsedUp`: `SafetySpec => []TransientExhausted`, from `Reported`: no attempt is counted before
  the gate executes, and a category belongs to a call that is done and not committed.

`SmartRouter_proofs`, from `RouterAssumption` and the gate's:

* `RouterImplementsGate`: every step of the router is a step of the gate or leaves its variables
  alone, so `RouterSafetySpec => SafetySpec`, and the gate's theorems carry over to the whole router;
  two of them are stated (`RouterAppliesAtMostOnce`, `RouterAppliesNothingUnchecked`).
* `RouterTypeCorrect`, `CallsBounded`, `OneLessonTaught`, `AnswersAreExecuted`,
  `OnlyVerifiedExecutes`: the properties of `route_one`, for any number of concurrent requests. The
  induction is on `RouterInv`: for each place in `route`, what the trace, the calls made, the lessons
  left and the gate say of the request there (`Local`), that an answer which is a call is backed by
  an effect (`Backed`), and that what the cache holds was executed (`CacheExecuted`) and vouched for
  (`CacheVouched`). The last two are there because a request may be answered from what another left.
  One lemma per step of `route` keeps it.
* `TracesTell`: `RouterSafetySpec => []TraceTellsRecovery`. `Recorded` says for each place in `route`
  which failure the trace may hold, which round the gate is in and whether it committed; `Settled` of
  the gate, that a call left uncommitted has a category. A trace is bookkept only where the gate is
  done, and an escalation takes its cause from what was just bookkept.
* `OneIrreversibleEffect`: needs `Sole` of the gate besides: under a request id nobody shares, with no
  late faults and no result verifiers, what was applied is the call the invocation still holds and
  reports as committed. So the router escalates only where nothing was applied. The two conditions are
  in the property; without them it is false.
* `RouterKeepsContract`: `RouterSafetySpec => RouterImplementsContract`, a step simulation. Arrivals
  and escalations map to the steps of the contract, whatever goes on inside a phase to stuttering;
  an answer out of the cache maps to an answer vouched for, which is what `CacheVouched` is for.

`RuleMemory_proofs`, from `LifecycleAssumption`, `MemoryAssumption` and `DistinctAssumption`, for any
number of processes:

* `MemoryTypeCorrect`, `EvidenceAddsUp`, `GlobalRulesReviewed`, `TriggersUnique`:
  `Spec => []` of `TypeOK`, `PassedWithinTrials`, `GlobalReviewed`, `OneRulePerTrigger`. None is
  inductive alone: a process starts from the file, so the file must be as sound as every process's
  copy, and several processes overwrite it with theirs. `Inductive` says that of all copies
  (`SoundStore`: evidence adds up, promoted means reviewed where due, one rule per tenant and
  trigger), with the types of the rest. The argument follows the code: lemmas say that each operation
  on one rule (`Evaluated`, `Merged`, `Revalidated`) and on one store (`Added`, `EachRule`, `Issued`)
  keeps it sound, `SaveKeeps` carries that to memory and file, one lemma per action does the rest.
* `OnlySynthesisRevives`: `Spec => RevivedInShadow`. Every step of a store keeps its rules and their
  evidence, and those it brings back are in shadow, from a pass that synthesised them (`Earns`).

and, for any number of processes that take turns (`TurnsSpec`; `OneProcessTakesTurns` says that a
memory of one process is such a one):

* `TurnsAreDurable`: `[]Durable`, from `Saved`: while the file is whole, it has the rules of the
  process that is running.
* `TurnsKeepGatedOut`: `[]GatedOutKept`, from `Logged`: what is in the file the process has in memory,
  unless a critic answered for it, the cap dropped it or its row was not written whole; so a rewrite
  from memory loses nothing else. A pass consumes only what a critic answered for.
* `TurnsPayOnce`: `PaidOnce`, from `Settled`: a failure that is still in memory or in the file although
  a critic answered for it was consumed by the pass under way or is `unsettled`, and a pass has every
  failure in one cluster only (`ClustersApart`); and from `Origin`: nothing is there that was not logged.
* `TurnsKeepIds`, `TurnsKeepEvidence`: `[]IdsNeverReused` and `EvidenceKept`, if saves
  are not torn besides (`~TornWrites`), from `Remembered`: the rules ever named are those on disk.

The hypotheses are needed. Two processes at once write their copies over each other's, without what
the other issued, counted and logged since (`gated_out_lost` shows one case); a torn `rules.json` is
read as an empty store whose ids start again.

`ExactCache_proofs`, from `CacheAssumption`: `CacheTypeCorrect`, `RecentAreKept` and
`CacheIsLossyMap`, from `CacheInv`: keys in `order` are distinct, entries are the last put, and as many
keys were used since an evicted one as the cache holds (`Used`). The refinement maps the entries that
have not expired to the map; eviction and the passing of time lose, a put of a key replaces.

`Serving_proofs`, from `ServingAssumption`: `TenantsAreIsolated` and `PrefixOnlyGrows`, from
`ServingInv`: a snapshot has only what its tenant may see (`SnapshotsCut`), so have what a request was
given and what its prompt holds (`Given`), and the prefix of the last prompt is the standing part and
the conversation up to some message of it (`PrefixIsPast`). That retrieval returns only what it was
given to search, in whatever order and number, is a fact about its loops.

`MemoryFiles_proofs`, from `LogAssumption` and `RecentAssumption`:

* `RestartKeepsRecords`: `LogSpec => []LogReloads`, from `Mirrors`: while every write succeeded, the
  file gives what the process has, now and after every append and rewrite.
* `TearsArePaidFor`: `LogSpec => []TearCostsOne`, from `LossesPaid`: what the file lost and an
  unfinished last line, which will cost the next append, together are at most the tears; and so is
  what the process has not got, since it will rewrite the file with what it has.
* `FilesStayBounded`: `RecentSpec => []FileBounded`, from `LengthExplained`: the count in memory and
  the file differ by no more than the faults so far, before and after a restart counts again.
* `RestartKeepsItems`: `RecentSpec => []RecentReloads`, from `InStep`. The lemmas it rests on are about
  the replay: replaying one more row is putting its item, no key comes twice, and trimming commutes
  with putting, so one trim at the end gives what a trim at each addition did.

`ToolPath_proofs`:

* `ReadyIsLoaded`, `CrashesExplained`: `GatewaySpec =>` `[]ReadyMeansLoaded` and `[]CrashExplained`, from
  `GatewayAssumption`, for any number of callers, threads and operations. `GatewayInv` adds that, as
  long as nothing unusual happened, there is one background thread, the gateway's fields are of it,
  and every caller is where it lets it be (`Undisturbed`): then no call can meet a closed loop, a missing
  session or one of another loop. What `call_tool` raises is not among these failures; the gateway has
  no handler for it, and the theorem says nothing of it.
* `LadderAndGateAgree`: `LadderSpec => []LadderAgreesWithGate`, for a ladder that has the tool-call
  verifier in it (`VerifiesCalls`; `tools/yantra_demo.py:94` builds one that has not, before a gate).
  From `Climbed`: what was climbed was passed, and only that verifier says anything of tools. It holds
  for whatever `validate_schema` computes, `Accepts` being a constant: ladder and gate ask the same of
  the same arguments.
* `ConstrainedIsAccepted`: `LadderSpec => []ConstrainedAccepted`, for any registry and any texts, from
  three hypotheses. `Walks`: what the validator accepts, one level of the walk accepts; `Validates`
  is defined so, and a stricter validator is covered, too. `TakesObjects`: every tool's schema has type
  object, as MCP's inputs and the synthesized schemas have. Otherwise `"arguments": null` may satisfy a
  tool's schema while the gate reads it as the empty object, which need not. And the registry has a
  tool: the envelope schema of an empty one is any object, and the gate knows no tool to accept. The
  argument takes an accepted text apart level by level (`EnvelopeIsACall`, `CallIsComplete`): it names
  one tool, since names are unique, and its arguments are those the gate then validates by the same
  schema. `Climbed` says the rest, that only an unreadable text violates the schema.

Loops over data. The model's loops are recursive functions of the number of steps done, and what one
computes takes an induction over that number. `Iteration` has the lemmas: there is a function that
does what a loop says (`Iterates`), what holds at the start and passes from each step to the next holds
at all of them (`CountsUp`), what holds of the empty sequence and passes to one more element holds of
every sequence (`Appending`), and finitely many values have a greatest (`GreatestOver`). Each is proved
from the smallest counterexample.

Only model-checked: liveness (`Answered`, `EveryRequestEnds`, `OperationsEnd`), which is out of the
prover's reach, as are fairness and `ENABLED`; and that `Validates`, being recursive, satisfies
`Walks`, which is its definition. Every other property of a passing run is the statement of a theorem.

## 5. Plan

Done: gate, router, cache, their contracts; the rules mode of the memory; the files of the memory;
serving and prompt; the ladder with the schema walk; the stdio gateway; a proof of every safety
property of a passing run. What is left, in this order:

1. What a learner beside a router that only reads would keep (`Durable`, `GatedOutKept`,
   `IdsNeverReused`): which of them needs the router not to write, and which the learner. No
   configuration of the code has such a router yet.
2. Hazards no property covers. `reflexion.py:421` reads a request's rules and their version one after
   the other; `Serving` leaves versions out, and they would come with a step between the two reads. A
   cache lookup in two steps, with what a second thread does to the entry between them.
3. Pure operators: classification of HTTP status, noise band of the replay, the result verifiers.

A run is made for a question, not for a module: components that do not interact are checked together.

## 6. Not modelled

Wording, formats and numbers: prompts, JSON, regular expressions, embeddings, prices, latencies and
statistics. Where control depends on one (a risk class, a similarity, a probability) the model makes
the choice nondeterministically. The result verifiers and those of the ladder other than the schema
walk are such choices, as are `make_replay`'s measurements. Status, audits and the configuration's
parsing only read. The command line, demos and reports do input and output only. The remote tool
servers are external: what is assumed of them is said under `CommitGate` and `StdioGateway`.
