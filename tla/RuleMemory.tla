----------------------------- MODULE RuleMemory -----------------------------
(***************************************************************************)
(* The rules mode of the reflexion memory: rule store (memory/store.py),   *)
(* failure log as the learning loop sees it (memory/failures.py), learning *)
(* loop (memory/loop.py, gate.py, critic.py, replay.py) and the snapshot a *)
(* router serves from (memory/reflexion.py).                               *)
(*                                                                         *)
(* Each process -- a router, or the learn command -- loads rules.json and  *)
(* failures.jsonl when it starts, works on its own copy and saves the      *)
(* whole store after each change.  A process may crash between two steps   *)
(* of a learning pass and, TornWrites, in the middle of a save.  Writes of *)
(* failures.jsonl may fail, WriteFaults; its rows are FailureLog's.        *)
(***************************************************************************)
EXTENDS Lifecycle, FiniteSets, FiniteSetsExt

CONSTANTS
    Routers,       \* processes that serve requests
    Learners,      \* processes that run learning passes
    Failures,      \* [id, topic, query, tenant]: what may be logged, each once
    RuleShaped,    \* topics of a category the gate admits and not mostly
                   \* preventable by construction
    MinDistinct,   \* SuppressionGate.min_distinct_queries
    Triggers,      \* trigger conditions a critic may write
    Models,        \* small-model checkpoints
    Ids,           \* bound: rule ids 1..n that may be issued
    MaxTrials,     \* bound: trials a rule is credited with
    MaxMisfired,   \* bound: misfires of a rule
    TornWrites,    \* may a crash truncate rules.json?
    MaxRecords,    \* FailureLog.max_records
    WriteFaults,   \* may writes of failures.jsonl fail?
    NoRule, NoModel, Torn

ASSUME MemoryAssumption ==
    /\ IsFiniteSet(Failures) /\ \A f \in Failures : f.tenant \in Tenants
    /\ MinDistinct \in Nat \ {0} /\ MaxTrials \in Nat /\ MaxMisfired \in Nat
    /\ Ids \subseteq Nat \ {0} /\ IsFiniteSet(Ids)
    /\ TornWrites \in BOOLEAN /\ WriteFaults \in BOOLEAN
    /\ MaxRecords \in Nat \ {0} /\ NoModel \notin Models

Procs == Routers \cup Learners

VARIABLES
    up,        \* processes running
    store,     \* RuleStore in each process: _rules and _issued
    disk,      \* rules.json: a store, or Torn
    log,       \* FailureLog._records in each process, as a set
    logDisk,   \* failures.jsonl
    served,    \* rules in the retrievers of each process
    retrieved, \* rules a request of each process may have been given
    learner,   \* the learning pass of each process
    live,      \* the small model's checkpoint
    recorded,  \* history: failures logged so far
    learnt,    \* history: failures a critic's answer was kept on
    excused,   \* history: failures dropped at the cap, or whose append failed
    unsettled, \* history: failures of passes whose end did not reach the log
    named      \* history: <<id, tenant, trigger>> ever stored

ruleVars == <<store, disk, served, retrieved, named>>
logVars == <<log, logDisk, recorded, learnt, excused, unsettled>>
memVars == <<up, ruleVars, logVars, learner, live>>

Rules ==
    [tenant: Tenants, trigger: Triggers, state: RuleStates,
     trials: Nat, passed: Nat, misfires: Nat,
     reviewed: BOOLEAN, model: Models \cup {NoModel}]

Stores == [rules: [Ids -> Rules \cup {NoRule}], issued: Nat]

ASSUME DistinctAssumption == NoRule \notin Rules /\ Torn \notin Stores

Blank == [rules |-> [i \in Ids |-> NoRule], issued |-> 0]

\* A learning pass: the clusters still to visit, the failures consumed, the
\* live_model it was given, and the rule it added and has not decided on, if any.
Idle == [pc |-> "idle", todo |-> {}, consumed |-> {}, model |-> NoModel, added |-> 0]

Stored(s) == {i \in Ids : s.rules[i] # NoRule}

Promoted(s) == {i \in Stored(s) : s.rules[i].state = "PROMOTED"}

TypeOK ==
    /\ up \subseteq Procs
    /\ store \in [Procs -> Stores] /\ disk \in Stores \cup {Torn}
    /\ log \in [Procs -> SUBSET Failures] /\ logDisk \subseteq Failures
    /\ served \in [Procs -> SUBSET Ids] /\ retrieved \in [Procs -> SUBSET Ids]
    /\ learner \in [Procs -> [pc: {"idle", "running"},
                              todo: SUBSET ((SUBSET Failures) \ {{}}),
                              consumed: SUBSET Failures,
                              model: Models \cup {NoModel},
                              added: Ids \cup {0}]]
    /\ live \in Models /\ recorded \subseteq Failures /\ learnt \subseteq Failures
    /\ excused \subseteq Failures /\ unsettled \subseteq Failures
    /\ named \subseteq Ids \X Tenants \X Triggers

Init ==
    /\ up = {}
    /\ store = [p \in Procs |-> Blank] /\ disk = Blank
    /\ log = [p \in Procs |-> {}] /\ logDisk = {}
    /\ served = [p \in Procs |-> {}] /\ retrieved = [p \in Procs |-> {}]
    /\ learner = [p \in Procs |-> Idle]
    /\ live \in Models
    /\ recorded = {} /\ learnt = {} /\ excused = {} /\ unsettled = {} /\ named = {}
-----------------------------------------------------------------------------
Names(s) == {<<i, s.rules[i].tenant, s.rules[i].trigger>> : i \in Stored(s)}

\* The process's store becomes s; save() writes the whole of it.
Unsaved(p, s) == store' = [store EXCEPT ![p] = s]

\* Faulty: the counter is written as it was before the id was issued.
SaveBeforeIssue(p, s) ==
    /\ Unsaved(p, s) /\ disk' = [s EXCEPT !.issued = store[p].issued]
    /\ named' = named \cup Names(s)

Save(p, s) == Unsaved(p, s) /\ disk' = s /\ named' = named \cup Names(s)

\* load(): a corrupted file is read as an empty store.
Loaded(d) == IF d = Torn THEN Blank ELSE d

\* refresh(): what the retrievers serve is what is promoted now.
Refresh(p, s) ==
    /\ served' = [served EXCEPT ![p] = Promoted(s)]
    /\ retrieved' = [retrieved EXCEPT ![p] = @ \cup Promoted(s)]

\* What the cap leaves of the failure log: the last max_records.  A set does not
\* know which came last, so this is any of them.
Capped(records) ==
    IF Cardinality(records) <= MaxRecords THEN {records}
    ELSE {kept \in SUBSET records : Cardinality(kept) = MaxRecords}

Start(p) ==
    /\ p \notin up
    /\ up' = up \cup {p}
    /\ Unsaved(p, Loaded(disk)) /\ Refresh(p, Loaded(disk))
    /\ \E kept \in Capped(logDisk) :
          /\ log' = [log EXCEPT ![p] = kept]
          /\ excused' = excused \cup (logDisk \ kept)
    /\ UNCHANGED <<disk, named, logDisk, recorded, learnt, unsettled, learner, live>>

Stop(p) ==
    /\ p \in up
    /\ up' = up \ {p}
    /\ Unsaved(p, Blank)
    /\ served' = [served EXCEPT ![p] = {}] /\ retrieved' = [retrieved EXCEPT ![p] = {}]
    /\ log' = [log EXCEPT ![p] = {}]
    /\ learner' = [learner EXCEPT ![p] = Idle]
    /\ unsettled' = unsettled \cup learner[p].consumed
    /\ UNCHANGED <<named, logDisk, recorded, learnt, excused, live>>

Crash(p) == Stop(p) /\ UNCHANGED disk

\* The crash hits save() between truncating the file and writing it.
CrashSaving(p) ==
    /\ TornWrites /\ (learner[p].pc = "running" \/ Stored(store[p]) # {})
    /\ Stop(p) /\ disk' = Torn

\* Whether a write of failures.jsonl succeeds.  Its errors are swallowed, and a row
\* appended after a torn line is lost like one whose append failed.
Written == IF WriteFaults THEN BOOLEAN ELSE {TRUE}

\* FailureLog.record: append in memory and to the file; over the cap, drop the
\* oldest and rewrite the file.
Record(p, f) ==
    LET all == log[p] \cup {f} IN
    /\ p \in up \cap Routers /\ f \notin recorded
    /\ \E kept \in Capped(all), appended \in Written, rewritten \in Written :
          /\ f \in kept
          /\ log' = [log EXCEPT ![p] = kept]
          /\ logDisk' = CASE kept # all /\ rewritten -> kept
                          [] ~(kept # all /\ rewritten) /\ appended -> logDisk \cup {f}
                          [] OTHER -> logDisk
          /\ excused' = excused \cup (all \ kept) \cup (IF appended THEN {} ELSE {f})
    /\ recorded' = recorded \cup {f}
    /\ UNCHANGED <<up, ruleVars, learnt, unsettled, learner, live>>

Changed(p, i, rule) == [store[p] EXCEPT !.rules[i] = rule]

\* record_outcome: a request that was given the rule passed or not, or the rule
\* fired where it does not apply.
Credit(p, i, ok) ==
    /\ p \in up \cap Routers /\ i \in retrieved[p] \cap Stored(store[p])
    /\ store[p].rules[i].trials < MaxTrials
    /\ LET one == IF ok THEN 1 ELSE 0 IN
       Save(p, Changed(p, i, [store[p].rules[i] EXCEPT
            !.trials = @ + 1, !.passed = @ + one]))
    /\ UNCHANGED <<up, served, retrieved, logVars, learner, live>>

Misfire(p, i) ==
    /\ p \in up \cap Routers /\ i \in retrieved[p] \cap Stored(store[p])
    /\ store[p].rules[i].misfires < MaxMisfired
    /\ Save(p, Changed(p, i, [store[p].rules[i] EXCEPT !.misfires = @ + 1]))
    /\ UNCHANGED <<up, served, retrieved, logVars, learner, live>>

\* A human reads a rule.
Review(p, i) ==
    /\ p \in up /\ i \in Stored(store[p]) /\ store[p].rules[i].tenant = Global
    /\ Save(p, Changed(p, i, [store[p].rules[i] EXCEPT !.reviewed = TRUE]))
    /\ UNCHANGED <<up, served, retrieved, logVars, learner, live>>

\* Faulty: the retirement is not saved.
PullUnsaved(p, i) ==
    /\ p \in up /\ i \in Stored(store[p])
    /\ Unsaved(p, Changed(p, i, [store[p].rules[i] EXCEPT !.state = "RETIRED"]))
    /\ UNCHANGED <<up, disk, named, served, retrieved, logVars, learner, live>>

Pull(p, i) ==
    /\ p \in up /\ i \in Stored(store[p])
    /\ Save(p, Changed(p, i, [store[p].rules[i] EXCEPT !.state = "RETIRED"]))
    /\ UNCHANGED <<up, served, retrieved, logVars, learner, live>>

\* A pass over all rules that saves if one of them changes.
SaveChanges(p, s) ==
    IF s # store[p] THEN Save(p, s) ELSE UNCHANGED <<store, disk, named>>

EachRule(s, new(_)) ==
    [s EXCEPT !.rules = [i \in Ids |->
        IF i \in Stored(s) THEN new(s.rules[i]) ELSE NoRule]]

Reconciled(rule) == [rule EXCEPT !.state = Evaluated(rule)]

Reconcile(p) ==
    /\ p \in up
    /\ SaveChanges(p, EachRule(store[p], Reconciled))
    /\ UNCHANGED <<up, served, retrieved, logVars, learner, live>>

\* The small model is replaced.
Upgrade ==
    /\ live' \in Models \ {live}
    /\ UNCHANGED <<up, ruleVars, logVars, learner>>
-----------------------------------------------------------------------------
\* FailureLog.cluster: similar failures of one tenant and category.
Clusters(records) ==
    {{f \in records : f.topic = g.topic /\ f.tenant = g.tenant} : g \in records}

\* SuppressionGate.evaluate.
Admits(cluster) ==
    /\ \A f \in cluster : f.topic \in RuleShaped
    /\ Cardinality({f.query : f \in cluster}) >= MinDistinct

\* invalidate_for_model: evidence of another checkpoint is no evidence.
Revalidated(rule) ==
    IF rule.state = "PROMOTED" /\ rule.model \notin {NoModel, live}
      THEN [rule EXCEPT !.state = "SHADOW"]
      ELSE rule

\* learn() is entered: LearningLoop.run up to its first cluster.
LearnStart(p) ==
    /\ p \in up \cap Learners /\ learner[p].pc = "idle"
    /\ SaveChanges(p, EachRule(store[p], Revalidated))
    /\ learner' = [learner EXCEPT ![p] =
            [Idle EXCEPT !.pc = "running", !.todo = Clusters(log[p]), !.model = live]]
    /\ UNCHANGED <<up, served, retrieved, logVars, live>>

\* The largest cluster is next.
Visit(p, cluster) ==
    /\ p \in up /\ learner[p].added = 0 /\ cluster \in learner[p].todo
    /\ \A other \in learner[p].todo : Cardinality(other) <= Cardinality(cluster)

\* The pass goes on without the cluster, or has yet to decide on the rule it added.
Done(p, cluster, consumed, added) ==
    learner' = [learner EXCEPT ![p].todo = @ \ {cluster},
                               ![p].consumed = @ \cup consumed, ![p].added = added]

\* Faulty: a cluster the gate stops is consumed.
GateOutConsumed(p, cluster) ==
    /\ Visit(p, cluster) /\ ~Admits(cluster)
    /\ Done(p, cluster, cluster, 0)
    /\ UNCHANGED <<up, ruleVars, logVars, live>>

GateOut(p, cluster) ==
    /\ Visit(p, cluster) /\ ~Admits(cluster)
    /\ Done(p, cluster, {}, 0)
    /\ UNCHANGED <<up, ruleVars, logVars, live>>

\* next_rule_id(), in memory until the next save.
Issued(p) == [store[p] EXCEPT !.issued = @ + 1]

\* The critic is asked.
Ask(p, cluster) ==
    /\ Visit(p, cluster) /\ Admits(cluster)
    /\ Issued(p).issued \in Ids
    /\ UNCHANGED <<up, log, logDisk, recorded, excused, served, retrieved, live>>

\* It answers: whatever comes of it, the cluster is consumed.
Answered(p, cluster, added) ==
    /\ Ask(p, cluster) /\ Done(p, cluster, cluster, added)
    /\ learnt' = learnt \cup cluster /\ UNCHANGED unsettled

\* It has no rule to offer.
Abstain(p, cluster) ==
    /\ Answered(p, cluster, 0)
    /\ Unsaved(p, Issued(p)) /\ UNCHANGED <<disk, named>>

\* The critic's, or during the replay the judge's, model call fails: learn()
\* raises, nothing is consumed and nothing refreshed.
LearnRaises(p, cluster) ==
    /\ Ask(p, cluster) /\ learner' = [learner EXCEPT ![p] = Idle]
    /\ unsettled' = unsettled \cup learner[p].consumed
    /\ Unsaved(p, Issued(p)) /\ UNCHANGED <<disk, named, learnt>>

\* Rules of the same tenant with the same trigger.
Twins(s, rule) ==
    {i \in Stored(s) : /\ s.rules[i].tenant = rule.tenant
                       /\ s.rules[i].trigger = rule.trigger}

Larger(a, b) == IF a < b THEN b ELSE a

\* Faulty: the passes of both are counted against the trials of one; the state
\* of the rule found is kept for a text nobody reviewed; its evidence is not.
MergedSum(rule, twin) ==
    [rule EXCEPT !.trials = Larger(@, twin.trials), !.passed = @ + twin.passed]

MergedKeepsState(rule, twin) ==
    [twin EXCEPT !.trials = Larger(@, rule.trials), !.passed = Larger(@, rule.passed),
                 !.reviewed = FALSE, !.model = rule.model]

MergedForgets(rule, twin) == rule

\* The telemetry of the rule found survives, larger count by larger count.
Merged(rule, twin) ==
    [rule EXCEPT !.trials = Larger(@, twin.trials), !.passed = Larger(@, twin.passed),
                 !.misfires = Larger(@, twin.misfires)]

\* Faulty: every rule gets an id of its own.
IdForNew(s, rule) == s.issued

\* The id under which add() stores a rule.
IdFor(s, rule) ==
    IF Twins(s, rule) = {} THEN s.issued ELSE CHOOSE i \in Twins(s, rule) : TRUE

\* add(), without its save.
Added(s, rule) ==
    LET i == IdFor(s, rule) IN
    [s EXCEPT !.rules[i] = IF s.rules[i] = NoRule THEN rule
                                                  ELSE Merged(rule, s.rules[i])]

\* What the critic distils from a cluster, in the state the loop gives it.
Candidate(cluster, trigger, state, trials, passed, model) ==
    [tenant |-> (CHOOSE f \in cluster : TRUE).tenant, trigger |-> trigger,
     state |-> state, trials |-> trials, passed |-> passed, misfires |-> 0,
     reviewed |-> FALSE, model |-> model]

\* What fails the hygiene filter is quarantined; what fails its replay -- the
\* cluster, the golden cases or the rules it would ship with -- stays in shadow.
Rejected == {"QUARANTINED", "SHADOW"}

\* A rejected rule is kept and not served.
Reject(p, cluster) ==
    /\ Answered(p, cluster, 0)
    /\ \E trigger \in Triggers, state \in Rejected :
          Save(p, Added(Issued(p), Candidate(cluster, trigger, state, 0, 0, NoModel)))

\* ReplayHarness.verdict: at least 60% of the cluster's queries pass with the rule.
Resolves(n, cluster) == 5 * n >= 3 * Cardinality(cluster)

\* The replayed queries are the rule's first trials: it is added to the shadow.
Accept(p, cluster) ==
    \E trigger \in Triggers, n \in 1..Cardinality(cluster) :
       LET rule == Candidate(cluster, trigger, "SHADOW", Cardinality(cluster), n,
                             learner[p].model) IN
       /\ Answered(p, cluster, IdFor(Issued(p), rule))
       /\ Resolves(n, cluster)
       /\ Save(p, Added(Issued(p), rule))

\* And the lifecycle decides on what is stored by now, which is saved again.
Decide(p) ==
    LET i == learner[p].added IN
    /\ p \in up /\ i \in Stored(store[p])
    /\ Save(p, Changed(p, i, Reconciled(store[p].rules[i])))
    /\ learner' = [learner EXCEPT ![p].added = 0]
    /\ UNCHANGED <<up, served, retrieved, logVars, live>>

\* The failures a pass has not consumed.
Unconsumed(p) == {f \in log[p] : f \notin learner[p].consumed}

EndsPass(p) ==
    /\ p \in up /\ learner[p].pc = "running" /\ learner[p].todo = {}
    /\ learner[p].added = 0
    /\ log' = [log EXCEPT ![p] = Unconsumed(p)]
    /\ Refresh(p, store[p])
    /\ learner' = [learner EXCEPT ![p] = Idle]
    /\ UNCHANGED <<up, store, disk, named, recorded, learnt, excused, live>>

\* Faulty: what was consumed is removed from memory only.
LearnEndUnwritten(p) ==
    EndsPass(p) /\ unsettled' = unsettled \ learner[p].consumed /\ UNCHANGED logDisk

\* The end of learn(): FailureLog.remove, which rewrites the file from memory
\* if it removed anything, and refresh.
LearnEnd(p) ==
    /\ EndsPass(p)
    /\ \E rewritten \in Written :
          IF Unconsumed(p) # log[p] /\ rewritten
            THEN /\ logDisk' = Unconsumed(p)
                 /\ unsettled' = unsettled \ learner[p].consumed
            ELSE /\ unsettled' = unsettled \cup learner[p].consumed
                 /\ UNCHANGED logDisk

LearnStep(p) ==
    \/ \E cluster \in learner[p].todo :
          \/ GateOut(p, cluster) \/ Abstain(p, cluster) \/ LearnRaises(p, cluster)
          \/ Reject(p, cluster) \/ Accept(p, cluster)
    \/ Decide(p) \/ LearnEnd(p)

Next ==
    \/ \E p \in Procs :
          \/ Start(p) \/ Crash(p) \/ CrashSaving(p) \/ Reconcile(p)
          \/ LearnStart(p) \/ LearnStep(p)
          \/ \E f \in Failures : Record(p, f)
          \/ \E i \in Ids : \/ Credit(p, i, TRUE) \/ Credit(p, i, FALSE)
                            \/ Misfire(p, i) \/ Review(p, i) \/ Pull(p, i)
    \/ Upgrade

Spec == Init /\ [][Next]_memVars

\* The state directory belongs to one process at a time: a demo that routes and
\* learns, or `learn` run while no router is.
TakingTurns == \A p, q \in up : p = q

TurnsSpec == Init /\ [][Next /\ TakingTurns']_memVars
-----------------------------------------------------------------------------
\* A tenant's trigger names one rule: synthesising it again never leaves two
\* rules that both fire (RuleStore.add).
OneRulePerTrigger ==
    \A p \in Procs : \A i, j \in Stored(store[p]) :
        (/\ store[p].rules[i].tenant = store[p].rules[j].tenant
         /\ store[p].rules[i].trigger = store[p].rules[j].trigger) => i = j

\* However outcomes, replays and merges of a re-synthesised rule interleave, no
\* rule is credited with more passes than trials (RuleStore.add, record_outcome).
PassedWithinTrials ==
    \A p \in Procs : \A i \in Stored(store[p]) :
        store[p].rules[i].passed <= store[p].rules[i].trials

\* A rule for every tenant is promoted only while the text it has now has been
\* read by a human (LifecyclePolicy.evaluate, schemas/rule.py).
GlobalReviewed ==
    \A p \in Procs : \A i \in Promoted(store[p]) : Reviewed(store[p].rules[i])

\* With one process at a time, rules.json is what the process holds, but for ids
\* issued for rules that were not written: a crash loses no rule, count or
\* transition (RuleStore.save after each change).
Durable ==
    \A p \in up : up = {p} /\ disk # Torn =>
        /\ disk.rules = store[p].rules
        /\ disk.issued <= store[p].issued

\* An id names one rule for ever (issued_rule_count).
IdsNeverReused == \A m, n \in named : m[1] = n[1] => m = n

\* A failure that was logged stays in failures.jsonl until a critic has answered for
\* its cluster, unless the cap dropped it or its row never got there: what the gate
\* stops keeps accumulating, through crashes, torn rule files, passes that raise
\* and rewrites that fail (LearningLoop.run, FailureLog.record, remove).
GatedOutKept == \A f \in recorded : f \in logDisk \cup learnt \cup excused

\* The critic is not paid for a failure again, unless the pass that paid for it
\* broke off or its removal did not reach the file (FailureLog.remove,
\* memory/failures.py:179).
PaidOnce ==
    [][\A p \in Procs :
         (learner'[p].consumed \ learner[p].consumed) \cap learnt \subseteq unsettled]_learner

\* What a rule has been tried and has passed is never forgotten in rules.json,
\* by re-synthesis, transitions or restarts (RuleStore.add).
EvidenceKept ==
    [][\A i \in Ids : disk.rules[i] # NoRule =>
         /\ disk'.rules[i] # NoRule
         /\ disk.rules[i].trials <= disk'.rules[i].trials
         /\ disk.rules[i].passed <= disk'.rules[i].passed
         /\ disk.rules[i].misfires <= disk'.rules[i].misfires]_disk

OutOfService(rule) == rule.state \in {"DEMOTED", "RETIRED", "QUARANTINED"}

\* A rule taken out of service comes back only when a learning pass synthesises it
\* again, and then into shadow: no outcome, reconciliation or decision revives it,
\* and no pass puts it into service at once (LifecyclePolicy.evaluate,
\* LearningLoop.run).
RevivedInShadow ==
    [][\A p \in Procs : \A i \in Stored(store[p]) \cap Stored(store'[p]) :
         (/\ OutOfService(store[p].rules[i])
          /\ ~OutOfService(store'[p].rules[i])) =>
              /\ learner'[p].todo # learner[p].todo
              /\ store'[p].rules[i].state = "SHADOW"]_store

\* memory/store.py:152: a rule that is pulled is out of service at once, without
\* waiting for the next refresh.
PullLeavesService ==
    [][\A p \in Procs, i \in Ids : Pull(p, i) => i \notin served'[p]]_memVars

\* memory/loop.py:64: evidence gathered against a superseded checkpoint is not
\* evidence.  A rule validated against another model that a pass tries again is
\* due for promotion only if the replay of that pass earns it (stated for rules
\* whose only trials are replays).
SupersededIsNoEvidence ==
    [][\A p \in Procs : \A i \in Stored(store[p]) \cap Stored(store'[p]) :
         (/\ learner'[p].added = i /\ learner[p].added # i
          /\ store[p].rules[i].model \notin {NoModel, learner[p].model}
          /\ Evaluated(store'[p].rules[i]) = "PROMOTED") =>
              \E cluster \in learner[p].todo \ learner'[p].todo :
                  WilsonAtLeast(Cardinality(cluster), Cardinality(cluster), PromoteAt)]_store
=============================================================================
