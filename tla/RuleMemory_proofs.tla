-------------------------- MODULE RuleMemory_proofs --------------------------
(***************************************************************************)
(* What is true of every rule in every store, in memory and on disk, for   *)
(* any number of processes, failures, rules, trials and any thresholds;    *)
(* which steps bring a rule back into service; and what processes that     *)
(* take turns, so that nobody overwrites another's saves, never lose.      *)
(***************************************************************************)
EXTENDS RuleMemory, FiniteSetTheorems, TLAPS

\* A rule whose evidence adds up and that is in service only after the review
\* its scope asks for.
Sound(rule) ==
    /\ rule.passed <= rule.trials
    /\ rule.state = "PROMOTED" => Reviewed(rule)

\* The rules add() takes for the same.
Same(a, b) == a.tenant = b.tenant /\ a.trigger = b.trigger

\* No other rule than the one under id i is the same as the rule.
OnlyAt(s, i, rule) == \A j \in Stored(s) : Same(s.rules[j], rule) => j = i

SoundStore(s) ==
    /\ s \in Stores
    /\ \A i \in Stored(s) : Sound(s.rules[i]) /\ OnlyAt(s, i, s.rules[i])

\* The rules: every copy of the store is sound, the file included, which the
\* next process starts from.
StoresSound ==
    /\ store \in [Procs -> Stores] /\ disk \in Stores \cup {Torn}
    /\ named \subseteq Ids \X Tenants \X Triggers
    /\ \A p \in Procs : SoundStore(store[p])
    /\ disk # Torn => SoundStore(disk)

Passes ==
    [pc: {"idle", "running"}, todo: SUBSET ((SUBSET Failures) \ {{}}),
     consumed: SUBSET Failures, model: Models \cup {NoModel}, added: Ids \cup {0}]

\* The failures and what is done with them.
LearningTyped ==
    /\ up \subseteq Procs
    /\ log \in [Procs -> SUBSET Failures] /\ logDisk \subseteq Failures
    /\ served \in [Procs -> SUBSET Ids] /\ retrieved \in [Procs -> SUBSET Ids]
    /\ learner \in [Procs -> Passes]
    /\ live \in Models /\ recorded \subseteq Failures /\ learnt \subseteq Failures
    /\ excused \subseteq Failures /\ unsettled \subseteq Failures

Inductive == StoresSound /\ LearningTyped

LEMMA InductiveImplies ==
    Inductive => TypeOK /\ PassedWithinTrials /\ GlobalReviewed /\ OneRulePerTrigger
  BY DEF Inductive, StoresSound, LearningTyped, Passes, SoundStore, Sound, TypeOK,
         PassedWithinTrials, GlobalReviewed, OneRulePerTrigger, OnlyAt, Same,
         Promoted, Stored
-----------------------------------------------------------------------------
\* Rules.

LEMMA StoredRules ==
    ASSUME NEW s \in Stores, NEW i \in Stored(s)
    PROVE  i \in Ids /\ s.rules[i] \in Rules
  BY DEF Stored, Stores

LEMMA PutSound ==
    ASSUME NEW s, SoundStore(s), NEW i \in Ids, NEW rule \in Rules, Sound(rule),
           OnlyAt(s, i, rule)
    PROVE  SoundStore([s EXCEPT !.rules[i] = rule])
<1> DEFINE t == [s EXCEPT !.rules[i] = rule]
<1>1. t \in Stores
  BY DEF SoundStore, Stores
<1>2. /\ t.rules[i] = rule
      /\ \A j \in Stored(t) : j # i => j \in Stored(s) /\ t.rules[j] = s.rules[j]
  BY DEF SoundStore, Stores, Stored
<1> HIDE DEF t
<1>3. ASSUME NEW j \in Stored(t) PROVE Sound(t.rules[j]) /\ OnlyAt(t, j, t.rules[j])
  <2>1. CASE j = i
    BY <1>2, <2>1 DEF OnlyAt
  <2>2. CASE j # i
    BY <1>2, <1>3, <2>2 DEF SoundStore, OnlyAt, Same
  <2> QED BY <2>1, <2>2
<1> QED BY <1>1, <1>3 DEF SoundStore, t

LEMMA BlankSound == SoundStore(Blank)
  BY DistinctAssumption DEF SoundStore, Blank, Stores, Stored

LEMMA IssuedSound ==
    ASSUME NEW p, SoundStore(store[p])
    PROVE  SoundStore(Issued(p)) /\ Issued(p).issued \in Nat
  BY DEF Issued, SoundStore, Stores, Stored, OnlyAt

\* The lifecycle promotes no rule that lacks a review it needs.
LEMMA EvaluatedState ==
    ASSUME NEW rule \in Rules
    PROVE  /\ Evaluated(rule) \in RuleStates
           /\ Evaluated(rule) = "PROMOTED" => rule.state = "PROMOTED" \/ Reviewed(rule)
<1> DEFINE wilson == WilsonAtLeast(rule.passed, rule.trials, PromoteAt)
           decayed == rule.trials >= MinTrialsToDemote
                      /\ ~WilsonAtLeast(rule.passed, rule.trials, DemoteAt)
           misfiring == Misfiring(rule)
           reviewed == Reviewed(rule)
<1>1. rule.state \in RuleStates
  BY DEF Rules
<1> HIDE DEF wilson, decayed, misfiring, reviewed
<1>2. Evaluated(rule) =
        CASE rule.state = "QUARANTINED" -> "QUARANTINED"
          [] rule.state # "QUARANTINED" /\ misfiring -> "DEMOTED"
          [] rule.state \in {"PROPOSED", "SHADOW"} /\ ~misfiring ->
                IF wilson /\ reviewed THEN "PROMOTED" ELSE "SHADOW"
          [] rule.state = "PROMOTED" /\ ~misfiring ->
                IF decayed THEN "DEMOTED" ELSE "PROMOTED"
          [] rule.state \in {"DEMOTED", "RETIRED"} /\ ~misfiring -> rule.state
  BY DEF Evaluated, wilson, decayed, misfiring, reviewed
<1>3. Evaluated(rule) \in RuleStates
      /\ (Evaluated(rule) = "PROMOTED" => rule.state = "PROMOTED" \/ reviewed)
  BY <1>1, <1>2 DEF RuleStates
<1> QED BY <1>3 DEF reviewed

LEMMA ReconciledSound ==
    ASSUME NEW rule \in Rules, Sound(rule)
    PROVE  /\ Reconciled(rule) \in Rules /\ Sound(Reconciled(rule))
           /\ Same(Reconciled(rule), rule)
  BY EvaluatedState DEF Reconciled, Rules, Sound, Reviewed, Same

LEMMA RevalidatedSound ==
    ASSUME NEW rule \in Rules, Sound(rule)
    PROVE  /\ Revalidated(rule) \in Rules /\ Sound(Revalidated(rule))
           /\ Same(Revalidated(rule), rule)
  BY DEF Revalidated, Rules, RuleStates, Sound, Reviewed, Same

\* Merging keeps the larger counts of two rules whose passes are within their
\* trials, and the state, review and text of one of them.
LEMMA MergedSound ==
    ASSUME NEW rule \in Rules, Sound(rule), NEW twin \in Rules, Sound(twin)
    PROVE  /\ Merged(rule, twin) \in Rules /\ Sound(Merged(rule, twin))
           /\ Same(Merged(rule, twin), rule)
<1>1. /\ Larger(rule.trials, twin.trials) \in Nat
      /\ Larger(rule.passed, twin.passed) \in Nat
      /\ Larger(rule.misfires, twin.misfires) \in Nat
      /\ Larger(rule.passed, twin.passed) <= Larger(rule.trials, twin.trials)
  BY DEF Rules, Sound, Larger
<1>2. Merged(rule, twin) \in Rules
  BY <1>1 DEF Merged, Rules
<1>3. /\ Merged(rule, twin).trials = Larger(rule.trials, twin.trials)
      /\ Merged(rule, twin).passed = Larger(rule.passed, twin.passed)
      /\ Merged(rule, twin).state = rule.state
      /\ Merged(rule, twin).reviewed = rule.reviewed
      /\ Merged(rule, twin).tenant = rule.tenant
      /\ Merged(rule, twin).trigger = rule.trigger
  BY DEF Merged, Rules
<1> QED BY <1>1, <1>2, <1>3 DEF Sound, Reviewed, Same

LEMMA IdForTyped ==
    ASSUME NEW s, s.issued \in Ids, NEW rule
    PROVE  IdFor(s, rule) \in Ids
  BY DEF IdFor, Twins, Stored

\* add() finds the one rule that is the same, or there is none.
LEMMA IdForOnly ==
    ASSUME NEW s, SoundStore(s), NEW rule
    PROVE  OnlyAt(s, IdFor(s, rule), rule)
<1>1. CASE Twins(s, rule) = {}
  BY <1>1 DEF Twins, OnlyAt, Same
<1>2. CASE Twins(s, rule) # {}
  <2>1. IdFor(s, rule) \in Twins(s, rule)
    BY <1>2 DEF IdFor
  <2> QED BY <2>1 DEF Twins, OnlyAt, Same, SoundStore
<1> QED BY <1>1, <1>2

LEMMA AddedSound ==
    ASSUME NEW s, SoundStore(s), s.issued \in Ids, NEW rule \in Rules, Sound(rule)
    PROVE  /\ SoundStore(Added(s, rule))
           /\ Added(s, rule).rules[IdFor(s, rule)] \in Rules
           /\ Sound(Added(s, rule).rules[IdFor(s, rule)])
<1> DEFINE i == IdFor(s, rule)
           new == IF s.rules[i] = NoRule THEN rule ELSE Merged(rule, s.rules[i])
<1>1. i \in Ids
  BY IdForTyped
<1>2. new \in Rules /\ Sound(new) /\ Same(new, rule)
  <2>1. CASE s.rules[i] = NoRule
    BY <2>1 DEF Same
  <2>2. CASE s.rules[i] # NoRule
    <3>1. i \in Stored(s)
      BY <1>1, <2>2 DEF Stored
    <3>2. s.rules[i] \in Rules /\ Sound(s.rules[i])
      BY <3>1, StoredRules DEF SoundStore
    <3> QED BY <2>2, <3>2, MergedSound
  <2> QED BY <2>1, <2>2
<1>3. Added(s, rule) = [s EXCEPT !.rules[i] = new]
  BY DEF Added
<1>4. Added(s, rule).rules[i] = new
  BY <1>1, <1>3 DEF SoundStore, Stores
<1>5. OnlyAt(s, i, rule)
  BY IdForOnly
<1> HIDE DEF i, new
<1>6. OnlyAt(s, i, new)
  BY <1>2, <1>5 DEF OnlyAt, Same
<1>7. SoundStore(Added(s, rule))
  BY <1>1, <1>2, <1>3, <1>6, PutSound
<1> QED BY <1>2, <1>4, <1>7 DEF i

LEMMA CandidateSound ==
    ASSUME NEW cluster \in (SUBSET Failures) \ {{}}, NEW trigger \in Triggers,
           NEW state \in {"QUARANTINED", "SHADOW"}, NEW trials \in Nat,
           NEW passed \in Nat, passed <= trials, NEW model \in Models \cup {NoModel}
    PROVE  /\ Candidate(cluster, trigger, state, trials, passed, model) \in Rules
           /\ Sound(Candidate(cluster, trigger, state, trials, passed, model))
<1>1. (CHOOSE f \in cluster : TRUE).tenant \in Tenants
  BY MemoryAssumption
<1> QED BY <1>1 DEF Candidate, Rules, RuleStates, Sound
-----------------------------------------------------------------------------
\* Stores.

LEMMA NamesTyped ==
    ASSUME NEW s \in Stores
    PROVE  Names(s) \subseteq Ids \X Tenants \X Triggers
<1> SUFFICES ASSUME NEW i \in Stored(s)
             PROVE  <<i, s.rules[i].tenant, s.rules[i].trigger>>
                        \in Ids \X Tenants \X Triggers
  BY DEF Names
<1>1. i \in Ids /\ s.rules[i] \in Rules
  BY StoredRules
<1> QED BY <1>1 DEF Rules

LEMMA UnsavedKeeps ==
    ASSUME StoresSound, NEW p \in Procs, NEW s, SoundStore(s), Unsaved(p, s),
           UNCHANGED <<disk, named>>
    PROVE  StoresSound'
<1>1. store' \in [Procs -> Stores]
  BY DEF StoresSound, Unsaved, SoundStore
<1>2. \A q \in Procs : SoundStore(store'[q])
  BY DEF StoresSound, Unsaved
<1> QED BY <1>1, <1>2 DEF StoresSound, SoundStore, Stored, OnlyAt

LEMMA SaveKeeps ==
    ASSUME StoresSound, NEW p \in Procs, NEW s, SoundStore(s), Save(p, s)
    PROVE  StoresSound'
<1>1. store' \in [Procs -> Stores]
  BY DEF StoresSound, Save, Unsaved, SoundStore
<1>2. \A q \in Procs : SoundStore(store'[q])
  BY DEF StoresSound, Save, Unsaved
<1>3. disk' \in Stores /\ SoundStore(disk')
  BY DEF Save, SoundStore
<1>4. named' \subseteq Ids \X Tenants \X Triggers
  BY NamesTyped DEF StoresSound, Save, SoundStore
<1> QED BY <1>1, <1>2, <1>3, <1>4 DEF StoresSound

LEMMA SaveChangesKeeps ==
    ASSUME StoresSound, NEW p \in Procs, NEW s, SoundStore(s), SaveChanges(p, s)
    PROVE  StoresSound'
<1>1. CASE s # store[p]
  BY <1>1, SaveKeeps DEF SaveChanges
<1>2. CASE s = store[p]
  BY <1>2 DEF SaveChanges, StoresSound
<1> QED BY <1>1, <1>2

LEMMA ReconcileSound ==
    ASSUME NEW s, SoundStore(s)
    PROVE  SoundStore(EachRule(s, Reconciled))
<1> DEFINE t == EachRule(s, Reconciled)
           f == [i \in Ids |-> IF i \in Stored(s) THEN Reconciled(s.rules[i]) ELSE NoRule]
<1>1. \A i \in Stored(s) : /\ i \in Ids /\ Reconciled(s.rules[i]) \in Rules
                           /\ Sound(Reconciled(s.rules[i]))
                           /\ Same(Reconciled(s.rules[i]), s.rules[i])
  BY StoredRules, ReconciledSound DEF SoundStore
<1>2. t.rules = f /\ t.issued = s.issued /\ t = [rules |-> f, issued |-> s.issued]
  BY DEF EachRule, SoundStore, Stores
<1>3. f \in [Ids -> Rules \cup {NoRule}]
  BY <1>1
<1>4. t \in Stores
  BY <1>2, <1>3 DEF SoundStore, Stores
<1>5. \A i \in Stored(t) : /\ i \in Stored(s) /\ Sound(t.rules[i])
                           /\ Same(t.rules[i], s.rules[i])
  BY <1>1, <1>2 DEF Stored
<1> HIDE DEF t
<1>6. \A i \in Stored(t) : OnlyAt(t, i, t.rules[i])
  BY <1>5 DEF SoundStore, OnlyAt, Same
<1> QED BY <1>4, <1>5, <1>6 DEF SoundStore, t

LEMMA RevalidateSound ==
    ASSUME NEW s, SoundStore(s)
    PROVE  SoundStore(EachRule(s, Revalidated))
<1> DEFINE t == EachRule(s, Revalidated)
           f == [i \in Ids |-> IF i \in Stored(s) THEN Revalidated(s.rules[i]) ELSE NoRule]
<1>1. \A i \in Stored(s) : /\ i \in Ids /\ Revalidated(s.rules[i]) \in Rules
                           /\ Sound(Revalidated(s.rules[i]))
                           /\ Same(Revalidated(s.rules[i]), s.rules[i])
  BY StoredRules, RevalidatedSound DEF SoundStore
<1>2. t.rules = f /\ t.issued = s.issued /\ t = [rules |-> f, issued |-> s.issued]
  BY DEF EachRule, SoundStore, Stores
<1>3. f \in [Ids -> Rules \cup {NoRule}]
  BY <1>1
<1>4. t \in Stores
  BY <1>2, <1>3 DEF SoundStore, Stores
<1>5. \A i \in Stored(t) : /\ i \in Stored(s) /\ Sound(t.rules[i])
                           /\ Same(t.rules[i], s.rules[i])
  BY <1>1, <1>2 DEF Stored
<1> HIDE DEF t
<1>6. \A i \in Stored(t) : OnlyAt(t, i, t.rules[i])
  BY <1>5 DEF SoundStore, OnlyAt, Same
<1> QED BY <1>4, <1>5, <1>6 DEF SoundStore, t

LEMMA LoadedSound ==
    ASSUME StoresSound PROVE SoundStore(Loaded(disk))
  BY BlankSound DEF StoresSound, Loaded

LEMMA ChangedKeeps ==
    ASSUME StoresSound, NEW p \in Procs, NEW i \in Stored(store[p]),
           NEW rule \in Rules, Sound(rule), Same(rule, store[p].rules[i]),
           Save(p, Changed(p, i, rule))
    PROVE  StoresSound'
<1>1. SoundStore(store[p]) /\ i \in Ids
  BY DEF StoresSound, Stored
<1>2. OnlyAt(store[p], i, rule)
  BY <1>1 DEF SoundStore, OnlyAt, Same
<1>3. SoundStore(Changed(p, i, rule))
  BY <1>1, <1>2, PutSound DEF Changed
<1> QED BY <1>3, SaveKeeps

\* The rule of a process's store that an operation is about.
LEMMA OwnRule ==
    ASSUME StoresSound, NEW p \in Procs, NEW i \in Stored(store[p])
    PROVE  i \in Ids /\ store[p].rules[i] \in Rules /\ Sound(store[p].rules[i])
  BY StoredRules DEF StoresSound, SoundStore
-----------------------------------------------------------------------------
\* Processes and outcomes.

\* The cap only drops.
LEMMA CappedSubset ==
    ASSUME NEW records, NEW kept \in Capped(records)
    PROVE  kept \subseteq records
  BY DEF Capped

LEMMA StartKeeps ==
    ASSUME Inductive, NEW p \in Procs, Start(p)
    PROVE  Inductive'
<1>1. SoundStore(Loaded(disk))
  BY LoadedSound DEF Inductive
<1>2. StoresSound'
  BY <1>1, UnsavedKeeps DEF Inductive, Start
<1>3. Promoted(Loaded(disk)) \subseteq Ids
  BY DEF Promoted, Stored
<1>4. PICK kept \in Capped(logDisk) :
          log' = [log EXCEPT ![p] = kept] /\ excused' = excused \cup (logDisk \ kept)
  BY DEF Start
<1>5. kept \subseteq logDisk
  BY CappedSubset
<1>6. LearningTyped'
  BY <1>3, <1>4, <1>5 DEF Inductive, LearningTyped, Start, Refresh
<1> QED BY <1>2, <1>6 DEF Inductive

LEMMA StopTyped ==
    ASSUME LearningTyped, NEW p \in Procs, Stop(p)
    PROVE  LearningTyped'
<1>1. Idle \in Passes
  BY DEF Idle, Passes
<1>2. learner[p].consumed \subseteq Failures
  BY DEF LearningTyped, Passes
<1> QED BY <1>1, <1>2 DEF LearningTyped, Stop

LEMMA RecordTyped ==
    ASSUME LearningTyped, NEW p \in Procs, NEW f \in Failures, Record(p, f)
    PROVE  LearningTyped'
<1>1. PICK kept \in Capped(log[p] \cup {f}), appended \in BOOLEAN :
        /\ log' = [log EXCEPT ![p] = kept]
        /\ logDisk' \in {kept, logDisk \cup {f}, logDisk}
        /\ excused' = excused \cup ((log[p] \cup {f}) \ kept)
                      \cup (IF appended THEN {} ELSE {f})
  BY DEF Record, Written
<1>2. kept \subseteq Failures /\ log[p] \subseteq Failures
  BY CappedSubset DEF LearningTyped
<1> QED BY <1>1, <1>2 DEF LearningTyped, Record, ruleVars

LEMMA CrashKeeps ==
    ASSUME Inductive, NEW p \in Procs, Crash(p) \/ CrashSaving(p)
    PROVE  Inductive'
<1>1. Stop(p) /\ (disk' = disk \/ disk' = Torn)
  BY DEF Crash, CrashSaving
<1>2. LearningTyped'
  BY <1>1, StopTyped DEF Inductive
<1>3. store' \in [Procs -> Stores] /\ \A q \in Procs : SoundStore(store'[q])
  BY <1>1, BlankSound DEF Inductive, StoresSound, Stop, Unsaved, SoundStore
<1>4. StoresSound'
  BY <1>1, <1>3 DEF Inductive, StoresSound, Stop, SoundStore, Stored, OnlyAt
<1> QED BY <1>2, <1>4 DEF Inductive

LEMMA CreditKeeps ==
    ASSUME StoresSound, NEW p \in Procs, NEW i \in Ids, NEW ok \in BOOLEAN,
           Credit(p, i, ok)
    PROVE  StoresSound'
<1> DEFINE one == IF ok THEN 1 ELSE 0
           rule == [store[p].rules[i] EXCEPT !.trials = @ + 1, !.passed = @ + one]
<1>1. store[p].rules[i] \in Rules /\ Sound(store[p].rules[i])
  BY OwnRule DEF Credit
<1>2. one \in {0, 1}
  OBVIOUS
<1> HIDE DEF one
<1>3. rule \in Rules
  <2>1. /\ store[p].rules[i].trials + 1 \in Nat
        /\ store[p].rules[i].passed + one \in Nat
    BY <1>1, <1>2 DEF Rules
  <2> QED BY <1>1, <2>1 DEF Rules
<1>4. /\ rule.trials = store[p].rules[i].trials + 1
      /\ rule.passed = store[p].rules[i].passed + one
      /\ rule.state = store[p].rules[i].state
      /\ rule.tenant = store[p].rules[i].tenant
      /\ rule.trigger = store[p].rules[i].trigger
      /\ rule.reviewed = store[p].rules[i].reviewed
      /\ store[p].rules[i].trials \in Nat /\ store[p].rules[i].passed \in Nat
  BY <1>1 DEF Rules
<1>5. Sound(rule) /\ Same(rule, store[p].rules[i])
  BY <1>1, <1>2, <1>4 DEF Sound, Reviewed, Same
<1>6. Save(p, Changed(p, i, rule)) /\ i \in Stored(store[p])
  BY DEF Credit, one
<1> HIDE DEF rule
<1> QED BY <1>3, <1>5, <1>6, ChangedKeeps

LEMMA MisfireKeeps ==
    ASSUME StoresSound, NEW p \in Procs, NEW i \in Ids, Misfire(p, i)
    PROVE  StoresSound'
<1> DEFINE rule == [store[p].rules[i] EXCEPT !.misfires = @ + 1]
<1>1. store[p].rules[i] \in Rules /\ Sound(store[p].rules[i])
  BY OwnRule DEF Misfire
<1>2. rule \in Rules /\ Sound(rule) /\ Same(rule, store[p].rules[i])
  BY <1>1 DEF Rules, Sound, Reviewed, Same
<1> QED BY <1>2, ChangedKeeps DEF Misfire

LEMMA ReviewKeeps ==
    ASSUME StoresSound, NEW p \in Procs, NEW i \in Ids, Review(p, i)
    PROVE  StoresSound'
<1> DEFINE rule == [store[p].rules[i] EXCEPT !.reviewed = TRUE]
<1>1. store[p].rules[i] \in Rules /\ Sound(store[p].rules[i])
  BY OwnRule DEF Review
<1>2. rule \in Rules /\ Sound(rule) /\ Same(rule, store[p].rules[i])
  BY <1>1 DEF Rules, Sound, Reviewed, Same
<1> QED BY <1>2, ChangedKeeps DEF Review

LEMMA PullKeeps ==
    ASSUME StoresSound, NEW p \in Procs, NEW i \in Ids, Pull(p, i)
    PROVE  StoresSound'
<1> DEFINE rule == [store[p].rules[i] EXCEPT !.state = "RETIRED"]
<1>1. store[p].rules[i] \in Rules /\ Sound(store[p].rules[i])
  BY OwnRule DEF Pull
<1>2. rule \in Rules /\ Sound(rule) /\ Same(rule, store[p].rules[i])
  BY <1>1 DEF Rules, RuleStates, Sound, Reviewed, Same
<1> QED BY <1>2, ChangedKeeps DEF Pull

LEMMA ReconcileKeeps ==
    ASSUME StoresSound, NEW p \in Procs, Reconcile(p)
    PROVE  StoresSound'
<1>1. SoundStore(EachRule(store[p], Reconciled))
  BY ReconcileSound DEF StoresSound
<1> QED BY <1>1, SaveChangesKeeps DEF Reconcile
-----------------------------------------------------------------------------
\* Learning.

LEMMA ClustersTyped ==
    ASSUME NEW records \in SUBSET Failures
    PROVE  Clusters(records) \in SUBSET ((SUBSET Failures) \ {{}})
<1> SUFFICES ASSUME NEW g \in records
             PROVE  {f \in records : f.topic = g.topic /\ f.tenant = g.tenant}
                        \in (SUBSET Failures) \ {{}}
  BY DEF Clusters
<1>1. g \in {f \in records : f.topic = g.topic /\ f.tenant = g.tenant}
  OBVIOUS
<1> QED BY <1>1

LEMMA LearnStartKeeps ==
    ASSUME Inductive, NEW p \in Procs, LearnStart(p)
    PROVE  Inductive'
<1>1. SoundStore(EachRule(store[p], Revalidated))
  BY RevalidateSound DEF Inductive, StoresSound
<1>2. StoresSound'
  BY <1>1, SaveChangesKeeps DEF Inductive, LearnStart
<1>3. Clusters(log[p]) \in SUBSET ((SUBSET Failures) \ {{}})
  BY ClustersTyped DEF Inductive, LearningTyped
<1>4. LearningTyped'
  BY <1>3 DEF Inductive, LearningTyped, Passes, LearnStart, Idle, logVars
<1> QED BY <1>2, <1>4 DEF Inductive

LEMMA DoneTyped ==
    ASSUME LearningTyped, NEW p \in Procs, NEW cluster \in learner[p].todo,
           NEW consumed \in SUBSET Failures, NEW added \in Ids \cup {0},
           Done(p, cluster, consumed, added)
    PROVE  /\ learner' \in [Procs -> Passes]
           /\ cluster \in (SUBSET Failures) \ {{}}
<1>1. learner[p] \in Passes
  BY DEF LearningTyped
<1> DEFINE l == [learner[p] EXCEPT !.todo = @ \ {cluster}, !.consumed = @ \cup consumed,
                                    !.added = added]
<1>2. l \in Passes
  BY <1>1 DEF Passes
<1>3. learner' = [learner EXCEPT ![p] = l]
  BY <1>1 DEF LearningTyped, Done
<1> HIDE DEF l
<1> QED BY <1>1, <1>2, <1>3 DEF LearningTyped, Passes

LEMMA AnsweredTyped ==
    ASSUME LearningTyped, NEW p \in Procs, NEW cluster, NEW added \in Ids \cup {0},
           Answered(p, cluster, added)
    PROVE  LearningTyped' /\ cluster \in (SUBSET Failures) \ {{}}
<1>1. cluster \in learner[p].todo
  BY DEF Answered, Ask, Visit
<1>2. cluster \in (SUBSET Failures) \ {{}}
  BY <1>1 DEF LearningTyped, Passes
<1> QED BY <1>1, <1>2, DoneTyped DEF LearningTyped, Answered, Ask

LEMMA IssuedId ==
    ASSUME StoresSound, NEW p \in Procs, NEW cluster, Ask(p, cluster)
    PROVE  SoundStore(Issued(p)) /\ Issued(p).issued \in Ids
  BY IssuedSound DEF StoresSound, Ask

LEMMA ClusterSize ==
    ASSUME NEW cluster \in SUBSET Failures
    PROVE  Cardinality(cluster) \in Nat
<1>1. IsFiniteSet(cluster)
  BY FS_Subset, MemoryAssumption
<1> QED BY <1>1, FS_CardinalityType

LEMMA RejectKeeps ==
    ASSUME Inductive, NEW p \in Procs, NEW cluster, Reject(p, cluster)
    PROVE  Inductive'
<1>1. LearningTyped' /\ cluster \in (SUBSET Failures) \ {{}}
  BY AnsweredTyped DEF Reject, Inductive
<1>2. SoundStore(Issued(p)) /\ Issued(p).issued \in Ids
  BY IssuedId DEF Reject, Answered, Inductive
<1>3. PICK trigger \in Triggers, state \in Rejected :
          Save(p, Added(Issued(p), Candidate(cluster, trigger, state, 0, 0, NoModel)))
  BY DEF Reject
<1> DEFINE rule == Candidate(cluster, trigger, state, 0, 0, NoModel)
<1>4. rule \in Rules /\ Sound(rule)
  BY <1>1, CandidateSound DEF Rejected
<1> HIDE DEF rule
<1>5. SoundStore(Added(Issued(p), rule))
  BY <1>2, <1>4, AddedSound
<1>6. Save(p, Added(Issued(p), rule))
  BY <1>3 DEF rule
<1>7. StoresSound'
  BY <1>5, <1>6, SaveKeeps DEF Inductive
<1> QED BY <1>1, <1>7 DEF Inductive

\* What a pass accepts: the rule, its trials, and where add() puts it.
LEMMA AcceptedRule ==
    ASSUME Inductive, NEW p \in Procs, NEW cluster, Accept(p, cluster)
    PROVE  \E rule \in Rules :
              /\ Sound(rule) /\ rule.state = "SHADOW"
              /\ IdFor(Issued(p), rule) \in Ids
              /\ Answered(p, cluster, IdFor(Issued(p), rule))
              /\ Save(p, Added(Issued(p), rule))
<1>1. PICK trigger \in Triggers, n \in 1..Cardinality(cluster) :
        LET rule == Candidate(cluster, trigger, "SHADOW", Cardinality(cluster), n,
                              learner[p].model)
        IN  /\ Answered(p, cluster, IdFor(Issued(p), rule))
            /\ Save(p, Added(Issued(p), rule))
  BY DEF Accept
<1> DEFINE rule == Candidate(cluster, trigger, "SHADOW", Cardinality(cluster), n,
                             learner[p].model)
<1>2. cluster \in (SUBSET Failures) \ {{}}
  <2>1. cluster \in learner[p].todo
    BY <1>1 DEF Answered, Ask, Visit
  <2> QED BY <2>1 DEF Inductive, LearningTyped, Passes
<1>3. rule \in Rules /\ Sound(rule) /\ rule.state = "SHADOW"
  <2>1. Cardinality(cluster) \in Nat
    BY <1>2, ClusterSize
  <2>2. learner[p].model \in Models \cup {NoModel}
    BY DEF Inductive, LearningTyped, Passes
  <2>3. n \in Nat /\ n <= Cardinality(cluster)
    BY <2>1
  <2>4. rule \in Rules /\ Sound(rule)
    BY <1>2, <2>1, <2>2, <2>3, CandidateSound
  <2> QED BY <2>4 DEF Candidate
<1>4. Answered(p, cluster, IdFor(Issued(p), rule)) /\ Save(p, Added(Issued(p), rule))
  BY <1>1
<1> HIDE DEF rule
<1>5. IdFor(Issued(p), rule) \in Ids
  BY <1>4, IssuedId, IdForTyped DEF Answered, Inductive, SoundStore
<1> QED BY <1>3, <1>4, <1>5

LEMMA AcceptKeeps ==
    ASSUME Inductive, NEW p \in Procs, NEW cluster, Accept(p, cluster)
    PROVE  Inductive'
<1>1. PICK rule \in Rules :
          /\ Sound(rule) /\ IdFor(Issued(p), rule) \in Ids
          /\ Answered(p, cluster, IdFor(Issued(p), rule))
          /\ Save(p, Added(Issued(p), rule))
  BY AcceptedRule
<1>2. LearningTyped'
  BY <1>1, AnsweredTyped DEF Inductive
<1>3. SoundStore(Issued(p)) /\ Issued(p).issued \in Ids
  BY <1>1, IssuedId DEF Answered, Inductive
<1>4. SoundStore(Added(Issued(p), rule))
  BY <1>1, <1>3, AddedSound
<1>5. StoresSound'
  BY <1>1, <1>4, SaveKeeps DEF Inductive
<1> QED BY <1>2, <1>5 DEF Inductive

LEMMA DecideKeeps ==
    ASSUME Inductive, NEW p \in Procs, Decide(p)
    PROVE  Inductive'
<1> DEFINE i == learner[p].added
           rule == Reconciled(store[p].rules[i])
<1>1. StoresSound /\ i \in Stored(store[p]) /\ Save(p, Changed(p, i, rule))
  BY DEF Decide, Inductive
<1>2. rule \in Rules /\ Sound(rule) /\ Same(rule, store[p].rules[i])
  BY <1>1, OwnRule, ReconciledSound
<1>3. LearningTyped'
  BY DEF Inductive, LearningTyped, Passes, Decide, logVars
<1> HIDE DEF i, rule
<1>4. StoresSound'
  BY <1>1, <1>2, ChangedKeeps DEF rule
<1> QED BY <1>3, <1>4 DEF Inductive

LEMMA AbstainKeeps ==
    ASSUME Inductive, NEW p \in Procs, NEW cluster, Abstain(p, cluster)
    PROVE  Inductive'
<1>1. LearningTyped'
  BY AnsweredTyped DEF Abstain, Inductive
<1>2. SoundStore(Issued(p))
  BY IssuedId DEF Abstain, Answered, Inductive
<1>3. StoresSound'
  BY <1>2, UnsavedKeeps DEF Abstain, Inductive
<1> QED BY <1>1, <1>3 DEF Inductive

LEMMA LearnRaisesKeeps ==
    ASSUME Inductive, NEW p \in Procs, NEW cluster, LearnRaises(p, cluster)
    PROVE  Inductive'
<1>1. LearningTyped'
  <2>1. learner[p].consumed \subseteq Failures /\ Idle \in Passes
    BY DEF Inductive, LearningTyped, Passes, Idle
  <2> QED BY <2>1 DEF LearnRaises, Ask, Inductive, LearningTyped
<1>2. SoundStore(Issued(p))
  BY IssuedId DEF LearnRaises, Inductive
<1>3. StoresSound'
  BY <1>2, UnsavedKeeps DEF LearnRaises, Inductive
<1> QED BY <1>1, <1>3 DEF Inductive

LEMMA LearnEndTyped ==
    ASSUME LearningTyped, NEW p \in Procs, LearnEnd(p)
    PROVE  LearningTyped'
<1>1. Unconsumed(p) \subseteq Failures /\ learner[p].consumed \subseteq Failures
  BY DEF LearningTyped, Passes, Unconsumed
<1>2. /\ log' = [log EXCEPT ![p] = Unconsumed(p)]
      /\ logDisk' \in {Unconsumed(p), logDisk}
      /\ unsettled' \in {unsettled \ learner[p].consumed, unsettled \cup learner[p].consumed}
  BY DEF LearnEnd, EndsPass
<1>3. Promoted(store[p]) \subseteq Ids /\ Idle \in Passes
  BY DEF Promoted, Stored, Passes, Idle
<1> QED BY <1>1, <1>2, <1>3 DEF LearningTyped, LearnEnd, EndsPass, Refresh
-----------------------------------------------------------------------------
\* The specification.

LEMMA InitInductive == Init => Inductive
<1> SUFFICES ASSUME Init PROVE Inductive
  OBVIOUS
<1>1. StoresSound
  BY BlankSound DEF Init, StoresSound, SoundStore
<1>2. LearningTyped
  BY DEF Init, LearningTyped, Passes, Idle
<1> QED BY <1>1, <1>2 DEF Inductive

\* An operation on one rule leaves the failures and the learning pass alone.
LEMMA RuleOperationTyped ==
    ASSUME LearningTyped,
           UNCHANGED <<up, served, retrieved, logVars, learner, live>>
    PROVE  LearningTyped'
  BY DEF LearningTyped, logVars

LEMMA NextInductive == Inductive /\ [Next]_memVars => Inductive'
<1> SUFFICES ASSUME Inductive, [Next]_memVars PROVE Inductive'
  OBVIOUS
<1>1. ASSUME NEW p \in Procs, Start(p) PROVE Inductive'
  BY <1>1, StartKeeps
<1>2. ASSUME NEW p \in Procs, Crash(p) \/ CrashSaving(p) PROVE Inductive'
  BY <1>2, CrashKeeps
<1>3. ASSUME NEW p \in Procs, Reconcile(p) PROVE Inductive'
  BY <1>3, ReconcileKeeps, RuleOperationTyped DEF Inductive, Reconcile
<1>4. ASSUME NEW p \in Procs, LearnStart(p) PROVE Inductive'
  BY <1>4, LearnStartKeeps
<1>5. ASSUME NEW p \in Procs, LearnStep(p) PROVE Inductive'
  <2>1. ASSUME NEW cluster \in learner[p].todo, GateOut(p, cluster) PROVE Inductive'
    BY <2>1, DoneTyped
       DEF GateOut, Inductive, LearningTyped, StoresSound, ruleVars, logVars,
           SoundStore, Stored, OnlyAt
  <2>2. ASSUME NEW cluster \in learner[p].todo, Abstain(p, cluster) PROVE Inductive'
    BY <2>2, AbstainKeeps
  <2>3. ASSUME NEW cluster \in learner[p].todo, LearnRaises(p, cluster) PROVE Inductive'
    BY <2>3, LearnRaisesKeeps
  <2>4. ASSUME NEW cluster \in learner[p].todo, Reject(p, cluster) PROVE Inductive'
    BY <2>4, RejectKeeps
  <2>5. ASSUME NEW cluster \in learner[p].todo, Accept(p, cluster) PROVE Inductive'
    BY <2>5, AcceptKeeps
  <2>6. CASE Decide(p)
    BY <2>6, DecideKeeps
  <2>7. CASE LearnEnd(p)
    <3>1. LearningTyped'
      BY <2>7, LearnEndTyped DEF Inductive
    <3>2. StoresSound'
      BY <2>7 DEF LearnEnd, EndsPass, Inductive, StoresSound, SoundStore, Stored, OnlyAt
    <3> QED BY <3>1, <3>2 DEF Inductive
  <2> QED BY <1>5, <2>1, <2>2, <2>3, <2>4, <2>5, <2>6, <2>7 DEF LearnStep
<1>6. ASSUME NEW p \in Procs, NEW f \in Failures, Record(p, f) PROVE Inductive'
  <2>1. StoresSound'
    BY <1>6 DEF Record, Inductive, StoresSound, ruleVars, SoundStore, Stored, OnlyAt
  <2> QED BY <1>6, <2>1, RecordTyped DEF Inductive
<1>7. ASSUME NEW p \in Procs, NEW i \in Ids,
             Credit(p, i, TRUE) \/ Credit(p, i, FALSE)
      PROVE  Inductive'
  <2>1. PICK ok \in BOOLEAN : Credit(p, i, ok)
    BY <1>7
  <2> QED BY <2>1, CreditKeeps, RuleOperationTyped DEF Inductive, Credit
<1>8. ASSUME NEW p \in Procs, NEW i \in Ids, Misfire(p, i) PROVE Inductive'
  BY <1>8, MisfireKeeps, RuleOperationTyped DEF Inductive, Misfire
<1>9. ASSUME NEW p \in Procs, NEW i \in Ids, Review(p, i) PROVE Inductive'
  BY <1>9, ReviewKeeps, RuleOperationTyped DEF Inductive, Review
<1>10. ASSUME NEW p \in Procs, NEW i \in Ids, Pull(p, i) PROVE Inductive'
  BY <1>10, PullKeeps, RuleOperationTyped DEF Inductive, Pull
<1>11. CASE Upgrade
  BY <1>11 DEF Upgrade, Inductive, LearningTyped, StoresSound, ruleVars, logVars,
               SoundStore, Stored, OnlyAt
<1>12. CASE UNCHANGED memVars
  BY <1>12 DEF memVars, Inductive, LearningTyped, StoresSound, ruleVars, logVars,
               SoundStore, Stored, OnlyAt
<1> QED BY <1>1, <1>2, <1>3, <1>4, <1>5, <1>6, <1>7, <1>8, <1>9, <1>10, <1>11, <1>12
        DEF Next

\* Every state keeps its type, whatever critics, replays and crashes do.
THEOREM MemoryTypeCorrect == Spec => []TypeOK
  BY InitInductive, NextInductive, InductiveImplies, PTL DEF Spec

\* No rule is ever credited with more passes than trials, in any order of
\* outcomes, merges, crashes and saves of any number of processes.
THEOREM EvidenceAddsUp == Spec => []PassedWithinTrials
  BY InitInductive, NextInductive, InductiveImplies, PTL DEF Spec

\* No process ever holds a promoted rule for every tenant whose present text was
\* not reviewed, though any process may overwrite the store of any other.
THEOREM GlobalRulesReviewed == Spec => []GlobalReviewed
  BY InitInductive, NextInductive, InductiveImplies, PTL DEF Spec

\* No store ever holds two rules of one tenant with one trigger, however many
\* learning passes synthesise it.
THEOREM TriggersUnique == Spec => []OneRulePerTrigger
  BY InitInductive, NextInductive, InductiveImplies, PTL DEF Spec
-----------------------------------------------------------------------------
\* What a step makes of a store: no rule is lost, nor what it was tried at.

\* A rule with the name of another and at least its evidence.
Carries(old, new) ==
    /\ Same(new, old)
    /\ old.trials <= new.trials /\ old.passed <= new.passed
    /\ old.misfires <= new.misfires

Grows(s, t) ==
    \A i \in Stored(s) : i \in Stored(t) /\ Carries(s.rules[i], t.rules[i])

\* The next id has not been given to a rule.
FreshIds(s) == \A i \in Stored(s) : i <= s.issued

Progress(s, t) ==
    t \in Stores /\ FreshIds(t) /\ Grows(s, t) /\ s.issued <= t.issued

\* Rules out of service in one store and not in another.
Revived(s, t) == {i \in Stored(s) : OutOfService(s.rules[i]) /\ ~OutOfService(t.rules[i])}

LEMMA CarriesItself ==
    ASSUME NEW rule \in Rules PROVE Carries(rule, rule)
  BY DEF Carries, Same, Rules

LEMMA CarriesTransitive ==
    ASSUME NEW a \in Rules, NEW b \in Rules, NEW c \in Rules, Carries(a, b), Carries(b, c)
    PROVE  Carries(a, c)
  BY DEF Carries, Same, Rules

LEMMA ProgressTransitive ==
    ASSUME NEW s \in Stores, NEW t \in Stores, NEW u, Progress(s, t), Progress(t, u)
    PROVE  Progress(s, u)
<1>1. u \in Stores /\ s.issued <= u.issued
  BY DEF Progress, Stores
<1>2. ASSUME NEW i \in Stored(s) PROVE i \in Stored(u) /\ Carries(s.rules[i], u.rules[i])
  <2>1. i \in Stored(t) /\ i \in Stored(u)
    BY DEF Progress, Grows
  <2>2. s.rules[i] \in Rules /\ t.rules[i] \in Rules /\ u.rules[i] \in Rules
    BY <1>1, <2>1, StoredRules
  <2>3. Carries(s.rules[i], t.rules[i]) /\ Carries(t.rules[i], u.rules[i])
    BY <2>1 DEF Progress, Grows
  <2> QED BY <2>1, <2>2, <2>3, CarriesTransitive
<1> QED BY <1>1, <1>2 DEF Progress, Grows

\* Writing one rule: it carries what it replaces, or its id was given out.
LEMMA PutProgress ==
    ASSUME NEW s \in Stores, FreshIds(s), NEW i \in Ids, i <= s.issued,
           NEW rule \in Rules, i \in Stored(s) => Carries(s.rules[i], rule)
    PROVE  /\ Progress(s, [s EXCEPT !.rules[i] = rule])
           /\ \A j \in Revived(s, [s EXCEPT !.rules[i] = rule]) :
                 j = i /\ ~OutOfService(rule)
<1> DEFINE t == [s EXCEPT !.rules[i] = rule]
<1>1. /\ t \in Stores /\ t.issued = s.issued /\ s.issued \in Nat
      /\ t.rules[i] = rule /\ \A j \in Ids : j # i => t.rules[j] = s.rules[j]
  BY DEF Stores
<1> HIDE DEF t
<1>2. i \in Stored(t) /\ \A j \in Ids : j # i => (j \in Stored(t) <=> j \in Stored(s))
  BY <1>1, DistinctAssumption DEF Stored
<1>3. FreshIds(t)
  BY <1>1, <1>2 DEF FreshIds, Stored
<1>4. ASSUME NEW j \in Stored(s) PROVE j \in Stored(t) /\ Carries(s.rules[j], t.rules[j])
  <2>1. j \in Ids /\ s.rules[j] \in Rules
    BY StoredRules
  <2>2. CASE j = i
    BY <1>1, <1>2, <2>2
  <2>3. CASE j # i
    BY <1>1, <1>2, <2>1, <2>3, CarriesItself
  <2> QED BY <2>2, <2>3
<1>5. ASSUME NEW j \in Revived(s, t) PROVE j = i /\ ~OutOfService(rule)
  <2>1. j \in Ids /\ OutOfService(s.rules[j]) /\ ~OutOfService(t.rules[j])
    BY DEF Revived, Stored
  <2> QED BY <1>1, <2>1
<1>6. Progress(s, t)
  BY <1>1, <1>3, <1>4 DEF Progress, Grows
<1> QED BY <1>5, <1>6 DEF t

\* The lifecycle moves no rule out of service back into it.
LEMMA ReconciledCarries ==
    ASSUME NEW rule \in Rules
    PROVE  /\ Carries(rule, Reconciled(rule))
           /\ OutOfService(rule) => OutOfService(Reconciled(rule))
<1>1. Carries(rule, Reconciled(rule)) /\ Reconciled(rule).state = Evaluated(rule)
  BY DEF Carries, Same, Rules, Reconciled
<1>2. OutOfService(rule) => Evaluated(rule) \in {"DEMOTED", "RETIRED", "QUARANTINED"}
  <2> DEFINE wilson == WilsonAtLeast(rule.passed, rule.trials, PromoteAt)
             decayed == rule.trials >= MinTrialsToDemote
                        /\ ~WilsonAtLeast(rule.passed, rule.trials, DemoteAt)
             misfiring == Misfiring(rule)
             reviewed == Reviewed(rule)
  <2> HIDE DEF wilson, decayed, misfiring, reviewed
  <2>1. Evaluated(rule) =
          CASE rule.state = "QUARANTINED" -> "QUARANTINED"
            [] rule.state # "QUARANTINED" /\ misfiring -> "DEMOTED"
            [] rule.state \in {"PROPOSED", "SHADOW"} /\ ~misfiring ->
                  IF wilson /\ reviewed THEN "PROMOTED" ELSE "SHADOW"
            [] rule.state = "PROMOTED" /\ ~misfiring ->
                  IF decayed THEN "DEMOTED" ELSE "PROMOTED"
            [] rule.state \in {"DEMOTED", "RETIRED"} /\ ~misfiring -> rule.state
    BY DEF Evaluated, wilson, decayed, misfiring, reviewed
  <2> QED BY <2>1 DEF OutOfService
<1> QED BY <1>1, <1>2 DEF OutOfService

LEMMA RevalidatedCarries ==
    ASSUME NEW rule \in Rules
    PROVE  /\ Carries(rule, Revalidated(rule))
           /\ OutOfService(rule) => OutOfService(Revalidated(rule))
  BY DEF Carries, Same, Rules, Revalidated, OutOfService

LEMMA MergedCarries ==
    ASSUME NEW rule \in Rules, NEW twin \in Rules, Same(rule, twin)
    PROVE  Carries(twin, Merged(rule, twin))
<1>1. /\ twin.trials <= Larger(rule.trials, twin.trials)
      /\ twin.passed <= Larger(rule.passed, twin.passed)
      /\ twin.misfires <= Larger(rule.misfires, twin.misfires)
  BY DEF Rules, Larger
<1>2. /\ Merged(rule, twin).trials = Larger(rule.trials, twin.trials)
      /\ Merged(rule, twin).passed = Larger(rule.passed, twin.passed)
      /\ Merged(rule, twin).misfires = Larger(rule.misfires, twin.misfires)
      /\ Merged(rule, twin).tenant = rule.tenant
      /\ Merged(rule, twin).trigger = rule.trigger
  BY DEF Merged, Rules
<1> QED BY <1>1, <1>2 DEF Carries, Same

LEMMA ReconcileProgress ==
    ASSUME NEW s \in Stores, FreshIds(s)
    PROVE  /\ Progress(s, EachRule(s, Reconciled))
           /\ Revived(s, EachRule(s, Reconciled)) = {}
<1> DEFINE t == EachRule(s, Reconciled)
           f == [i \in Ids |-> IF i \in Stored(s) THEN Reconciled(s.rules[i]) ELSE NoRule]
<1>1. t.rules = f /\ t.issued = s.issued /\ t = [rules |-> f, issued |-> s.issued]
  BY DEF EachRule, Stores
<1>2. ASSUME NEW i \in Stored(s)
      PROVE  /\ i \in Ids /\ f[i] = Reconciled(s.rules[i]) /\ f[i] \in Rules
             /\ Carries(s.rules[i], f[i])
             /\ OutOfService(s.rules[i]) => OutOfService(f[i])
  <2>1. i \in Ids /\ s.rules[i] \in Rules
    BY StoredRules
  <2>2. Reconciled(s.rules[i]) \in Rules
    BY <2>1, EvaluatedState DEF Reconciled, Rules
  <2> QED BY <2>1, <2>2, ReconciledCarries
<1>3. t \in Stores /\ Stored(t) = Stored(s)
  <2>1. f \in [Ids -> Rules \cup {NoRule}]
    BY <1>2
  <2>2. \A i \in Ids : f[i] # NoRule <=> i \in Stored(s)
    BY <1>2, DistinctAssumption
  <2> QED BY <1>1, <2>1, <2>2 DEF Stores, Stored
<1> HIDE DEF f
<1>4. Progress(s, t)
  BY <1>1, <1>2, <1>3 DEF Progress, Grows, FreshIds, Stores
<1>5. Revived(s, t) = {}
  BY <1>1, <1>2 DEF Revived
<1> QED BY <1>4, <1>5

LEMMA RevalidateProgress ==
    ASSUME NEW s \in Stores, FreshIds(s)
    PROVE  /\ Progress(s, EachRule(s, Revalidated))
           /\ Revived(s, EachRule(s, Revalidated)) = {}
<1> DEFINE t == EachRule(s, Revalidated)
           f == [i \in Ids |-> IF i \in Stored(s) THEN Revalidated(s.rules[i]) ELSE NoRule]
<1>1. t.rules = f /\ t.issued = s.issued /\ t = [rules |-> f, issued |-> s.issued]
  BY DEF EachRule, Stores
<1>2. ASSUME NEW i \in Stored(s)
      PROVE  /\ i \in Ids /\ f[i] = Revalidated(s.rules[i]) /\ f[i] \in Rules
             /\ Carries(s.rules[i], f[i])
             /\ OutOfService(s.rules[i]) => OutOfService(f[i])
  <2>1. i \in Ids /\ s.rules[i] \in Rules
    BY StoredRules
  <2>2. Revalidated(s.rules[i]) \in Rules
    BY <2>1 DEF Revalidated, Rules, RuleStates
  <2> QED BY <2>1, <2>2, RevalidatedCarries
<1>3. t \in Stores /\ Stored(t) = Stored(s)
  <2>1. f \in [Ids -> Rules \cup {NoRule}]
    BY <1>2
  <2>2. \A i \in Ids : f[i] # NoRule <=> i \in Stored(s)
    BY <1>2, DistinctAssumption
  <2> QED BY <1>1, <2>1, <2>2 DEF Stores, Stored
<1> HIDE DEF f
<1>4. Progress(s, t)
  BY <1>1, <1>2, <1>3 DEF Progress, Grows, FreshIds, Stores
<1>5. Revived(s, t) = {}
  BY <1>1, <1>2 DEF Revived
<1> QED BY <1>4, <1>5
-----------------------------------------------------------------------------
\* What a step of the memory does to the store of the process that takes it.

\* Ids are issued before they name a rule, and a process starts with nothing.
Issuing ==
    /\ \A p \in Procs : FreshIds(store[p])
    /\ disk # Torn => FreshIds(disk)
    /\ \A p \in Procs : p \notin up => store[p] = Blank

\* The process keeps every rule and its evidence; what was out of service comes
\* back through a learning pass, into shadow.
Earns(p, s) ==
    /\ Progress(store[p], s)
    /\ \A i \in Revived(store[p], s) :
          learner'[p].todo # learner[p].todo /\ s.rules[i].state = "SHADOW"

\* It saves the store, or only issues an id.
Works(p) ==
    /\ p \in up /\ up' = up
    /\ \E s : /\ Earns(p, s)
             /\ \/ Save(p, s)
                \/ Unsaved(p, s) /\ s.rules = store[p].rules /\ UNCHANGED <<disk, named>>

Rests == UNCHANGED <<up, store, disk, named>>

LEMMA OwnStore ==
    ASSUME StoresSound, Issuing, NEW p \in Procs
    PROVE  /\ store[p] \in Stores /\ FreshIds(store[p]) /\ SoundStore(store[p])
  BY DEF StoresSound, Issuing

LEMMA SameProgress ==
    ASSUME NEW s \in Stores, FreshIds(s), NEW t \in Stores, t.rules = s.rules,
           s.issued <= t.issued
    PROVE  Progress(s, t) /\ Revived(s, t) = {}
<1>1. Stored(t) = Stored(s)
  BY DEF Stored
<1>2. \A i \in Stored(s) : s.rules[i] \in Rules /\ i <= t.issued
  BY StoredRules, MemoryAssumption DEF FreshIds, Stores, Stored
<1>3. Grows(s, t)
  BY <1>1, <1>2, CarriesItself DEF Grows
<1>4. FreshIds(t)
  BY <1>1, <1>2 DEF FreshIds
<1> QED BY <1>1, <1>3, <1>4 DEF Progress, Revived

\* An outcome, a review or a retirement changes one rule of the process's own.
LEMMA ChangedWorks ==
    ASSUME StoresSound, Issuing, NEW p \in up, p \in Procs, up' = up,
           NEW i \in Stored(store[p]), NEW rule \in Rules,
           Carries(store[p].rules[i], rule),
           OutOfService(store[p].rules[i]) => OutOfService(rule),
           Save(p, Changed(p, i, rule))
    PROVE  Works(p)
<1>1. i \in Ids /\ i <= store[p].issued /\ store[p] \in Stores /\ FreshIds(store[p])
  BY OwnStore DEF Stored, FreshIds
<1>2. /\ Progress(store[p], Changed(p, i, rule))
      /\ \A j \in Revived(store[p], Changed(p, i, rule)) :
            j = i /\ ~OutOfService(rule)
  BY <1>1, PutProgress DEF Changed
<1>3. Revived(store[p], Changed(p, i, rule)) = {}
  BY <1>2 DEF Revived
<1> QED BY <1>2, <1>3 DEF Works, Earns

LEMMA OutcomeWorks ==
    ASSUME StoresSound, Issuing, NEW p \in Procs, NEW i \in Ids,
           \/ Credit(p, i, TRUE) \/ Credit(p, i, FALSE)
           \/ Misfire(p, i) \/ Review(p, i) \/ Pull(p, i)
    PROVE  Works(p)
<1> DEFINE old == store[p].rules[i]
<1>1. i \in Stored(store[p]) /\ p \in up /\ up' = up
  BY DEF Credit, Misfire, Review, Pull
<1>2. old \in Rules
  BY <1>1, OwnRule
<1>3. ASSUME NEW ok \in BOOLEAN, Credit(p, i, ok) PROVE Works(p)
  <2> DEFINE one == IF ok THEN 1 ELSE 0
             rule == [old EXCEPT !.trials = @ + 1, !.passed = @ + one]
  <2>1. Save(p, Changed(p, i, rule))
    BY <1>3 DEF Credit
  <2>2. one \in Nat /\ old.trials \in Nat /\ old.passed \in Nat /\ old.misfires \in Nat
    BY <1>2 DEF Rules
  <2> HIDE DEF one
  <2>3. rule \in Rules
    <3>1. old.trials + 1 \in Nat /\ old.passed + one \in Nat
      BY <2>2
    <3> QED BY <1>2, <3>1 DEF Rules
  <2>4. /\ rule.trials = old.trials + 1 /\ rule.passed = old.passed + one
        /\ rule.misfires = old.misfires /\ rule.state = old.state
        /\ rule.tenant = old.tenant /\ rule.trigger = old.trigger
    BY <1>2 DEF Rules
  <2> HIDE DEF rule
  <2>5. Carries(old, rule) /\ (OutOfService(old) => OutOfService(rule))
    BY <2>2, <2>4 DEF Carries, Same, OutOfService
  <2> QED BY <1>1, <2>1, <2>3, <2>5, ChangedWorks
<1>4. CASE Misfire(p, i)
  <2> DEFINE rule == [old EXCEPT !.misfires = @ + 1]
  <2>1. rule \in Rules /\ Carries(old, rule) /\ rule.state = old.state
    BY <1>2 DEF Rules, Carries, Same
  <2>2. Save(p, Changed(p, i, rule))
    BY <1>4 DEF Misfire
  <2> HIDE DEF rule
  <2> QED BY <1>1, <2>1, <2>2, ChangedWorks DEF OutOfService
<1>5. CASE Review(p, i)
  <2> DEFINE rule == [old EXCEPT !.reviewed = TRUE]
  <2>1. rule \in Rules /\ Carries(old, rule) /\ rule.state = old.state
    <3>1. rule \in Rules
      BY <1>2 DEF Rules
    <3>2. /\ rule.trials = old.trials /\ rule.passed = old.passed
          /\ rule.misfires = old.misfires /\ rule.state = old.state
          /\ rule.tenant = old.tenant /\ rule.trigger = old.trigger
      BY <1>2 DEF Rules
    <3> HIDE DEF rule
    <3> QED BY <1>2, <3>1, <3>2 DEF Rules, Carries, Same
  <2>2. Save(p, Changed(p, i, rule))
    BY <1>5 DEF Review
  <2> HIDE DEF rule
  <2> QED BY <1>1, <2>1, <2>2, ChangedWorks DEF OutOfService
<1>6. CASE Pull(p, i)
  <2> DEFINE rule == [old EXCEPT !.state = "RETIRED"]
  <2>1. rule \in Rules /\ Carries(old, rule) /\ rule.state = "RETIRED"
    BY <1>2 DEF Rules, RuleStates, Carries, Same
  <2>2. Save(p, Changed(p, i, rule))
    BY <1>6 DEF Pull
  <2> HIDE DEF rule
  <2> QED BY <1>1, <2>1, <2>2, ChangedWorks DEF OutOfService
<1> QED BY <1>3, <1>4, <1>5, <1>6

\* A pass over all rules, saved if it changed one.
LEMMA SaveChangesWorks ==
    ASSUME NEW p \in up, up' = up, NEW s, SaveChanges(p, s), Progress(store[p], s),
           Revived(store[p], s) = {}
    PROVE  Works(p) \/ Rests
  BY DEF SaveChanges, Works, Earns, Rests

LEMMA EachRuleWorks ==
    ASSUME StoresSound, Issuing, NEW p \in Procs, Reconcile(p) \/ LearnStart(p)
    PROVE  Works(p) \/ Rests
<1>1. store[p] \in Stores /\ FreshIds(store[p]) /\ p \in up /\ up' = up
  BY OwnStore DEF Reconcile, LearnStart
<1>2. CASE Reconcile(p)
  BY <1>1, <1>2, ReconcileProgress, SaveChangesWorks DEF Reconcile
<1>3. CASE LearnStart(p)
  BY <1>1, <1>3, RevalidateProgress, SaveChangesWorks DEF LearnStart
<1> QED BY <1>2, <1>3

\* The id asked for is new, and issuing it changes no rule.
LEMMA IssuedProgress ==
    ASSUME StoresSound, Issuing, NEW p \in Procs, NEW cluster, Ask(p, cluster)
    PROVE  /\ Issued(p) \in Stores /\ Issued(p).rules = store[p].rules
           /\ Issued(p).issued = store[p].issued + 1 /\ Issued(p).issued \in Ids
           /\ SoundStore(Issued(p)) /\ Issued(p).issued \notin Stored(Issued(p))
           /\ Progress(store[p], Issued(p)) /\ Revived(store[p], Issued(p)) = {}
           /\ FreshIds(Issued(p))
<1>1. store[p] \in Stores /\ FreshIds(store[p]) /\ SoundStore(Issued(p))
  BY OwnStore, IssuedId
<1>2. /\ Issued(p) \in Stores /\ Issued(p).rules = store[p].rules
      /\ Issued(p).issued = store[p].issued + 1 /\ Issued(p).issued \in Ids
      /\ store[p].issued \in Nat
  BY <1>1 DEF Issued, Stores, Ask
<1>3. Progress(store[p], Issued(p)) /\ Revived(store[p], Issued(p)) = {}
  BY <1>1, <1>2, SameProgress
<1>4. Issued(p).issued \notin Stored(Issued(p))
  BY <1>1, <1>2 DEF FreshIds, Stored
<1> QED BY <1>1, <1>2, <1>3, <1>4 DEF Progress

LEMMA AskWorks ==
    ASSUME StoresSound, Issuing, NEW p \in Procs, NEW cluster,
           Abstain(p, cluster) \/ LearnRaises(p, cluster)
    PROVE  Works(p)
<1>1. /\ Ask(p, cluster) /\ p \in up /\ up' = up
      /\ Unsaved(p, Issued(p)) /\ UNCHANGED <<disk, named>>
  BY DEF Abstain, LearnRaises, Answered, Ask, Visit
<1>2. /\ Progress(store[p], Issued(p)) /\ Revived(store[p], Issued(p)) = {}
      /\ Issued(p).rules = store[p].rules
  BY <1>1, IssuedProgress
<1> QED BY <1>1, <1>2 DEF Works, Earns

\* add() puts the rule where it replaces only a rule of its name.
LEMMA AddedProgress ==
    ASSUME NEW s \in Stores, FreshIds(s), s.issued \in Ids, s.issued \notin Stored(s),
           NEW rule \in Rules, Sound(rule), SoundStore(s)
    PROVE  /\ Progress(s, Added(s, rule))
           /\ \A j \in Revived(s, Added(s, rule)) :
                 j = IdFor(s, rule) /\ ~OutOfService(rule)
           /\ IdFor(s, rule) \in Ids /\ IdFor(s, rule) <= s.issued
           /\ Added(s, rule).rules[IdFor(s, rule)] \in Rules
           /\ Added(s, rule).rules[IdFor(s, rule)].state = rule.state
<1> DEFINE i == IdFor(s, rule)
           new == IF s.rules[i] = NoRule THEN rule ELSE Merged(rule, s.rules[i])
<1>1. i \in Ids /\ s.issued \in Nat
  BY IdForTyped DEF Stores
<1>2. i = s.issued \/ (i \in Stored(s) /\ Same(rule, s.rules[i]))
  BY DEF IdFor, Twins, Same
<1>3. i <= s.issued
  BY <1>1, <1>2 DEF FreshIds
<1> HIDE DEF i
<1>4. /\ new \in Rules /\ new.state = rule.state
      /\ i \in Stored(s) => Carries(s.rules[i], new)
  <2>1. CASE i \in Stored(s)
    <3>1. s.rules[i] \in Rules /\ Sound(s.rules[i]) /\ Same(rule, s.rules[i])
      BY <1>2, <2>1, StoredRules DEF SoundStore
    <3>2. new = Merged(rule, s.rules[i])
      BY <2>1 DEF Stored
    <3>3. Merged(rule, s.rules[i]) \in Rules /\ Carries(s.rules[i], Merged(rule, s.rules[i]))
      BY <3>1, MergedSound, MergedCarries
    <3>4. Merged(rule, s.rules[i]).state = rule.state
      BY DEF Merged, Rules
    <3> QED BY <3>2, <3>3, <3>4
  <2>2. CASE i \notin Stored(s)
    BY <1>1, <2>2 DEF Stored
  <2> QED BY <2>1, <2>2
<1>5. Added(s, rule) = [s EXCEPT !.rules[i] = new]
  BY DEF Added, i
<1>6. Added(s, rule).rules[i] = new
  BY <1>1, <1>5 DEF Stores
<1> HIDE DEF new
<1>7. /\ Progress(s, Added(s, rule))
      /\ \A j \in Revived(s, Added(s, rule)) : j = i /\ ~OutOfService(new)
  BY <1>1, <1>3, <1>4, <1>5, PutProgress
<1> QED BY <1>1, <1>3, <1>4, <1>6, <1>7 DEF i, OutOfService

\* A cluster the critic answered for leaves the pass's list.
LEMMA DoneShrinks ==
    ASSUME LearningTyped, NEW p \in Procs, NEW cluster, NEW consumed, NEW added,
           cluster \in learner[p].todo, Done(p, cluster, consumed, added)
    PROVE  learner'[p].todo # learner[p].todo
<1>1. learner'[p].todo = learner[p].todo \ {cluster}
  BY DEF LearningTyped, Done
<1> QED BY <1>1

\* Only add() brings back a rule that was out of service, and not into service.
LEMMA AddedWorks ==
    ASSUME Inductive, Issuing, NEW p \in Procs, NEW cluster, NEW added,
           Answered(p, cluster, added), NEW rule \in Rules, Sound(rule),
           rule.state \in Rejected, Save(p, Added(Issued(p), rule))
    PROVE  Works(p)
<1> DEFINE s == Added(Issued(p), rule)
<1>1. StoresSound /\ LearningTyped /\ Ask(p, cluster) /\ p \in up /\ up' = up
  BY DEF Inductive, Answered, Ask, Visit
<1>2. learner'[p].todo # learner[p].todo
  BY <1>1, DoneShrinks DEF Answered, Ask, Visit
<1>3. /\ Issued(p) \in Stores /\ Issued(p).rules = store[p].rules
      /\ Progress(store[p], Issued(p)) /\ Progress(Issued(p), s)
      /\ \A j \in Revived(Issued(p), s) : s.rules[j].state = rule.state /\ ~OutOfService(rule)
  BY <1>1, IssuedProgress, AddedProgress
<1>4. store[p] \in Stores /\ s \in Stores /\ Save(p, s)
  BY <1>1, <1>3, OwnStore DEF Progress
<1> HIDE DEF s
<1>5. Progress(store[p], s)
  BY <1>3, <1>4, ProgressTransitive
<1>6. Revived(store[p], s) = Revived(Issued(p), s)
  BY <1>3 DEF Revived, Stored
<1>7. ~OutOfService(rule) => rule.state = "SHADOW"
  BY DEF Rejected, OutOfService
<1> QED BY <1>1, <1>2, <1>3, <1>4, <1>5, <1>6, <1>7 DEF Works, Earns

LEMMA RejectWorks ==
    ASSUME Inductive, Issuing, NEW p \in Procs, NEW cluster, Reject(p, cluster)
    PROVE  Works(p)
<1>1. cluster \in (SUBSET Failures) \ {{}}
  BY AnsweredTyped DEF Reject, Inductive
<1>2. PICK trigger \in Triggers, state \in Rejected :
          Save(p, Added(Issued(p), Candidate(cluster, trigger, state, 0, 0, NoModel)))
  BY DEF Reject
<1> DEFINE rule == Candidate(cluster, trigger, state, 0, 0, NoModel)
<1>3. rule \in Rules /\ Sound(rule) /\ rule.state \in Rejected
  BY <1>1, CandidateSound DEF Rejected, Candidate
<1> HIDE DEF rule
<1> QED BY <1>2, <1>3, AddedWorks DEF Reject, rule

LEMMA AcceptWorks ==
    ASSUME Inductive, Issuing, NEW p \in Procs, NEW cluster, Accept(p, cluster)
    PROVE  Works(p)
<1>1. PICK rule \in Rules :
          /\ Sound(rule) /\ rule.state = "SHADOW"
          /\ Answered(p, cluster, IdFor(Issued(p), rule))
          /\ Save(p, Added(Issued(p), rule))
  BY AcceptedRule
<1> QED BY <1>1, AddedWorks DEF Rejected

\* The decision after it is the lifecycle's.
LEMMA DecideWorks ==
    ASSUME StoresSound, Issuing, NEW p \in Procs, Decide(p)
    PROVE  Works(p)
<1> DEFINE i == learner[p].added
           rule == Reconciled(store[p].rules[i])
<1>1. /\ p \in up /\ up' = up /\ i \in Stored(store[p])
      /\ Save(p, Changed(p, i, rule))
  BY DEF Decide
<1>2. store[p].rules[i] \in Rules /\ Sound(store[p].rules[i])
  BY <1>1, OwnRule
<1>3. /\ rule \in Rules /\ Carries(store[p].rules[i], rule)
      /\ OutOfService(store[p].rules[i]) => OutOfService(rule)
  BY <1>2, ReconciledSound, ReconciledCarries
<1> HIDE DEF i, rule
<1> QED BY <1>1, <1>3, ChangedWorks

\* Every step is one of these.
LEMMA MemoryStep ==
    ASSUME Inductive, Issuing, [Next]_memVars
    PROVE  \/ Rests
           \/ \E p \in Procs : Works(p) \/ Start(p) \/ Crash(p) \/ CrashSaving(p)
<1>1. StoresSound
  BY DEF Inductive
<1>2. ASSUME NEW p \in Procs, Reconcile(p) \/ LearnStart(p) PROVE Works(p) \/ Rests
  BY <1>1, <1>2, EachRuleWorks
<1>3. ASSUME NEW p \in Procs, LearnStep(p) PROVE Works(p) \/ Rests
  <2>1. ASSUME NEW cluster, GateOut(p, cluster) PROVE Rests
    BY <2>1 DEF GateOut, Rests, ruleVars
  <2>2. ASSUME LearnEnd(p) PROVE Rests
    BY <2>2 DEF LearnEnd, EndsPass, Rests
  <2> QED BY <1>1, <1>3, <2>1, <2>2, AskWorks, RejectWorks, AcceptWorks, DecideWorks
          DEF LearnStep
<1>4. ASSUME NEW p \in Procs, NEW f \in Failures, Record(p, f) PROVE Rests
  BY <1>4 DEF Record, Rests, ruleVars
<1>5. ASSUME NEW p \in Procs, NEW i \in Ids,
             \/ Credit(p, i, TRUE) \/ Credit(p, i, FALSE)
             \/ Misfire(p, i) \/ Review(p, i) \/ Pull(p, i)
      PROVE  Works(p)
  BY <1>1, <1>5, OutcomeWorks
<1>6. CASE Upgrade
  BY <1>6 DEF Upgrade, Rests, ruleVars
<1>7. CASE UNCHANGED memVars
  BY <1>7 DEF memVars, Rests, ruleVars
<1> QED BY <1>2, <1>3, <1>4, <1>5, <1>6, <1>7 DEF Next

\* What Works makes of the store and the file.
LEMMA WorksStore ==
    ASSUME StoresSound, Issuing, NEW p \in Procs, Works(p)
    PROVE  /\ p \in up /\ up' = up /\ Earns(p, store'[p])
           /\ \A q \in Procs : q # p => store'[q] = store[q]
           /\ \/ disk' = store'[p] /\ named' = named \cup Names(store'[p])
              \/ store'[p].rules = store[p].rules /\ UNCHANGED <<disk, named>>
<1>1. PICK s : /\ Earns(p, s) /\ Unsaved(p, s)
               /\ \/ disk' = s /\ named' = named \cup Names(s)
                  \/ s.rules = store[p].rules /\ UNCHANGED <<disk, named>>
  BY DEF Works, Save
<1>2. store'[p] = s /\ \A q \in Procs : q # p => store'[q] = store[q]
  BY <1>1 DEF StoresSound, Unsaved
<1> QED BY <1>1, <1>2 DEF Works

\* Starting reads the file; stopping forgets the store.
LEMMA StartStore ==
    ASSUME StoresSound, NEW p \in Procs, Start(p)
    PROVE  /\ p \notin up /\ up' = up \cup {p} /\ UNCHANGED <<disk, named>>
           /\ store'[p] = Loaded(disk)
           /\ \A q \in Procs : q # p => store'[q] = store[q]
  BY DEF StoresSound, Start, Unsaved

LEMMA StopStore ==
    ASSUME StoresSound, NEW p \in Procs, Crash(p) \/ CrashSaving(p)
    PROVE  /\ up' = up \ {p} /\ named' = named /\ store'[p] = Blank
           /\ disk' = disk \/ (TornWrites /\ disk' = Torn)
           /\ \A q \in Procs : q # p => store'[q] = store[q]
  BY DEF StoresSound, Crash, CrashSaving, Stop, Unsaved

LEMMA IssuingInv ==
    ASSUME Inductive, Issuing, [Next]_memVars
    PROVE  Issuing'
<1>1. StoresSound
  BY DEF Inductive
<1>2. FreshIds(Blank) /\ FreshIds(Loaded(disk))
  BY DEF FreshIds, Blank, Stored, Loaded, Issuing
<1>3. CASE Rests
  BY <1>3 DEF Rests, Issuing, FreshIds, Stored
<1>4. ASSUME NEW p \in Procs, Works(p) PROVE Issuing'
  <2>1. FreshIds(store'[p])
    BY <1>1, <1>4, WorksStore DEF Earns, Progress
  <2>2. disk' = store'[p] \/ disk' = disk
    BY <1>1, <1>4, WorksStore
  <2> QED BY <1>1, <1>4, <2>1, <2>2, WorksStore DEF Issuing
<1>5. ASSUME NEW p \in Procs, Start(p) PROVE Issuing'
  BY <1>1, <1>2, <1>5, StartStore DEF Issuing
<1>6. ASSUME NEW p \in Procs, Crash(p) \/ CrashSaving(p) PROVE Issuing'
  BY <1>1, <1>2, <1>6, StopStore DEF Issuing
<1> QED BY <1>3, <1>4, <1>5, <1>6, MemoryStep

\* Ids are issued before they are used, whatever was lost in a crash.
LEMMA MemoryInvariant == Spec => [](Inductive /\ Issuing)
<1>1. Init => Issuing
  BY DEF Init, Issuing, FreshIds, Blank, Stored
<1>2. Inductive /\ Issuing /\ [Next]_memVars => Issuing'
  BY IssuingInv
<1> QED BY <1>1, <1>2, InitInductive, NextInductive, PTL DEF Spec

\* Outcomes, reviews, reconciliation, decisions, merges and restarts never bring back
\* a rule that was demoted, retired or quarantined: only a learning pass that
\* synthesises it again does, and that puts it into shadow, for any number of
\* processes (LifecyclePolicy.evaluate, LearningLoop.run).
THEOREM OnlySynthesisRevives == Spec => RevivedInShadow
<1> DEFINE Back(p, i) ==
      (OutOfService(store[p].rules[i]) /\ ~OutOfService(store'[p].rules[i])) =>
          learner'[p].todo # learner[p].todo /\ store'[p].rules[i].state = "SHADOW"
<1>1. ASSUME Inductive, Issuing, [Next]_memVars, NEW p \in Procs,
             NEW i \in Stored(store[p]), i \in Stored(store'[p])
      PROVE  Back(p, i)
  <2>1. StoresSound
    BY <1>1 DEF Inductive
  <2>2. store'[p] = store[p] => Back(p, i)
    OBVIOUS
  <2>3. CASE Rests
    BY <2>2, <2>3 DEF Rests
  <2>4. ASSUME NEW q \in Procs, Works(q) PROVE Back(p, i)
    <3>1. CASE q = p
      <4>1. Earns(p, store'[p])
        BY <1>1, <2>1, <2>4, <3>1, WorksStore
      <4> QED BY <1>1, <4>1 DEF Earns, Revived
    <3>2. CASE q # p
      BY <1>1, <2>1, <2>2, <2>4, <3>2, WorksStore
    <3> QED BY <3>1, <3>2
  <2>5. ASSUME NEW q \in Procs, Start(q) PROVE Back(p, i)
    <3>1. q # p
      BY <1>1, <2>1, <2>5, StartStore DEF Issuing, Blank, Stored
    <3> QED BY <2>1, <2>2, <2>5, <3>1, StartStore
  <2>6. ASSUME NEW q \in Procs, Crash(q) \/ CrashSaving(q) PROVE Back(p, i)
    <3>1. q # p
      BY <1>1, <2>1, <2>6, StopStore DEF Blank, Stored
    <3> QED BY <2>1, <2>2, <2>6, <3>1, StopStore
  <2> QED BY <1>1, <2>3, <2>4, <2>5, <2>6, MemoryStep
<1>2. Inductive /\ Issuing /\ [Next]_memVars =>
        [\A p \in Procs : \A i \in Stored(store[p]) \cap Stored(store'[p]) :
           (/\ OutOfService(store[p].rules[i])
            /\ ~OutOfService(store'[p].rules[i])) =>
                /\ learner'[p].todo # learner[p].todo
                /\ store'[p].rules[i].state = "SHADOW"]_store
  BY <1>1
<1> QED BY <1>2, MemoryInvariant, PTL DEF Spec, RevivedInShadow
-----------------------------------------------------------------------------
\* One process after the other: a router that learns in the background, or a
\* learning pass between two routers.  Of several at once, each saves its own copy
\* over the others'.

\* A process that is the only one always has its turn.
THEOREM OneProcessTakesTurns ==
    ASSUME \A p, q \in Procs : p = q PROVE Spec => TurnsSpec
<1>1. LearningTyped' => TakingTurns'
  BY DEF LearningTyped, TakingTurns
<1>2. Inductive => LearningTyped
  BY DEF Inductive
<1> QED BY <1>1, <1>2, MemoryInvariant, PTL DEF Spec, TurnsSpec

LEMMA TurnsInvariant == TurnsSpec => Spec /\ [](Inductive /\ Issuing /\ TakingTurns)
<1>1. Init => TakingTurns
  BY DEF Init, TakingTurns
<1>2. TakingTurns /\ [Next /\ TakingTurns']_memVars => TakingTurns'
  BY DEF TakingTurns, memVars
<1> QED BY <1>1, <1>2, MemoryInvariant, PTL DEF Spec, TurnsSpec

\* rules.json is what the process holds, but for ids issued since.
Saved ==
    \A p \in up : disk # Torn => /\ disk.rules = store[p].rules
                                 /\ disk.issued <= store[p].issued

LEMMA SavedInv ==
    ASSUME TakingTurns, Inductive, Issuing, Saved, [Next]_memVars, TakingTurns'
    PROVE  Saved'
<1>1. StoresSound /\ up \subseteq Procs
  BY DEF Inductive, LearningTyped
<1>2. CASE Rests
  BY <1>2 DEF Rests, Saved
<1>3. ASSUME NEW p \in Procs, Works(p) PROVE Saved'
  <2>1. /\ p \in up /\ up' = up /\ Progress(store[p], store'[p])
        /\ \/ disk' = store'[p]
           \/ store'[p].rules = store[p].rules /\ disk' = disk
    BY <1>1, <1>3, WorksStore DEF Earns
  <2>2. store'[p] \in Stores /\ store[p] \in Stores
    BY <1>1, <2>1 DEF Progress, StoresSound
  <2>3. disk' # Torn => /\ disk'.rules = store'[p].rules
                         /\ disk'.issued <= store'[p].issued
    <3>1. CASE disk' = store'[p]
      BY <2>2, <3>1 DEF Stores
    <3>2. CASE store'[p].rules = store[p].rules /\ disk' = disk
      <4>1. ASSUME disk # Torn PROVE disk.issued <= store'[p].issued
        <5>1. disk.issued <= store[p].issued /\ store[p].issued <= store'[p].issued
          BY <2>1, <4>1 DEF Saved, Progress
        <5>2. disk.issued \in Nat /\ store[p].issued \in Nat /\ store'[p].issued \in Nat
          BY <1>1, <2>2, <4>1 DEF StoresSound, Stores
        <5> QED BY <5>1, <5>2
      <4> QED BY <2>1, <3>2, <4>1 DEF Saved
    <3> QED BY <2>1, <3>1, <3>2
  <2> QED BY <1>1, <2>1, <2>3 DEF Saved, TakingTurns
<1>4. ASSUME NEW p \in Procs, Start(p) PROVE Saved'
  <2>1. disk # Torn => disk.issued \in Nat
    BY <1>1 DEF StoresSound, Stores
  <2> QED BY <1>1, <1>4, <2>1, StartStore DEF Saved, TakingTurns, Loaded
<1>5. ASSUME NEW p \in Procs, Crash(p) \/ CrashSaving(p) PROVE Saved'
  BY <1>1, <1>5, StopStore DEF Saved, TakingTurns
<1> QED BY <1>2, <1>3, <1>4, <1>5, MemoryStep

\* The rules ever named are those on disk.
Remembered == disk # Torn /\ named = Names(disk)

LEMMA NamesGrow ==
    ASSUME NEW s, NEW t, Grows(s, t)
    PROVE  Names(s) \subseteq Names(t)
  BY DEF Grows, Carries, Same, Names

LEMMA RememberedInv ==
    ASSUME ~TornWrites, Inductive, Issuing, Saved, Remembered, [Next]_memVars
    PROVE  Remembered'
<1>1. StoresSound
  BY DEF Inductive
<1>2. CASE Rests
  BY <1>2 DEF Rests, Remembered, Names, Stored
<1>3. ASSUME NEW p \in Procs, Works(p) PROVE Remembered'
  <2>1. /\ p \in up /\ Progress(store[p], store'[p])
        /\ \/ disk' = store'[p] /\ named' = named \cup Names(store'[p])
           \/ UNCHANGED <<disk, named>>
    BY <1>1, <1>3, WorksStore DEF Earns
  <2>2. CASE disk' = store'[p] /\ named' = named \cup Names(store'[p])
    <3>1. Names(disk) = Names(store[p])
      BY <2>1 DEF Saved, Remembered, Names, Stored
    <3>2. Names(store[p]) \subseteq Names(store'[p])
      BY <2>1, NamesGrow DEF Progress
    <3>3. store'[p] # Torn
      BY <2>1, DistinctAssumption DEF Progress
    <3>4. Names(disk') = Names(store'[p]) /\ named' = Names(store'[p])
      BY <2>2, <3>1, <3>2 DEF Remembered
    <3> QED BY <2>2, <3>3, <3>4 DEF Remembered, Names, Stored
  <2>3. CASE UNCHANGED <<disk, named>>
    BY <2>3 DEF Remembered, Names, Stored
  <2> QED BY <2>1, <2>2, <2>3
<1>4. ASSUME NEW p \in Procs, Start(p) \/ Crash(p) \/ CrashSaving(p) PROVE Remembered'
  <2>1. disk' = disk /\ named' = named
    BY <1>1, <1>4, StartStore, StopStore
  <2> QED BY <2>1 DEF Remembered, Names, Stored
<1> QED BY <1>2, <1>3, <1>4, MemoryStep

LEMMA SavedInvariant == TurnsSpec => [](Inductive /\ Issuing /\ Saved)
<1>1. Init => Saved
  BY DEF Init, Saved
<1>2. /\ TakingTurns /\ TakingTurns' /\ Inductive /\ Issuing /\ Saved /\ [Next]_memVars
      => Saved'
  BY SavedInv
<1> QED BY <1>1, <1>2, TurnsInvariant, PTL DEF Spec

LEMMA RememberedInvariant ==
    ASSUME ~TornWrites
    PROVE  TurnsSpec => Spec /\ [](Inductive /\ Issuing /\ Saved /\ Remembered)
<1>1. Init => Remembered
  <2>1. Blank \in Stores /\ Names(Blank) = {}
    BY BlankSound DEF SoundStore, Names, Blank, Stored
  <2> QED BY <2>1, DistinctAssumption DEF Init, Remembered
<1>2. Inductive /\ Issuing /\ Saved /\ Remembered /\ [Next]_memVars => Remembered'
  BY RememberedInv
<1> QED BY <1>1, <1>2, SavedInvariant, TurnsInvariant, PTL DEF Spec

\* Processes that take turns lose no rule, count or transition in a crash that
\* leaves the file whole (RuleStore.save after each change).
THEOREM TurnsAreDurable == TurnsSpec => []Durable
<1>1. Saved => Durable
  BY DEF Saved, Durable
<1> QED BY <1>1, SavedInvariant, PTL

\* Processes that take turns never give a rule's id to another, across crashes, as
\* long as no save is torn (issued_rule_count).
THEOREM TurnsKeepIds ==
    ASSUME ~TornWrites PROVE TurnsSpec => []IdsNeverReused
<1>1. Remembered => IdsNeverReused
  BY DEF Remembered, Names, IdsNeverReused
<1> QED BY <1>1, RememberedInvariant, PTL

\* What a rule was tried at and passed never shrinks in the rules.json of processes
\* that take turns and whose saves are whole (RuleStore.add).
THEOREM TurnsKeepEvidence ==
    ASSUME ~TornWrites PROVE TurnsSpec => EvidenceKept
<1> DEFINE Kept(i) == disk.rules[i] # NoRule =>
               /\ disk'.rules[i] # NoRule
               /\ disk.rules[i].trials <= disk'.rules[i].trials
               /\ disk.rules[i].passed <= disk'.rules[i].passed
               /\ disk.rules[i].misfires <= disk'.rules[i].misfires
<1>1. ASSUME Inductive, Issuing, Saved, Remembered, [Next]_memVars, disk' # disk, NEW i \in Ids
      PROVE  Kept(i)
  <2>1. StoresSound
    BY <1>1 DEF Inductive
  <2>2. ASSUME NEW p \in Procs, Start(p) \/ Crash(p) \/ CrashSaving(p) PROVE disk' = disk
    BY <2>1, <2>2, StartStore, StopStore
  <2>3. PICK p \in Procs : Works(p)
    BY <1>1, <2>2, MemoryStep DEF Rests
  <2>4. /\ p \in up /\ disk' = store'[p] /\ Grows(store[p], store'[p])
    BY <1>1, <2>1, <2>3, WorksStore DEF Earns, Progress
  <2>5. disk.rules = store[p].rules
    BY <1>1, <2>4 DEF Saved, Remembered
  <2> QED BY <2>4, <2>5 DEF Grows, Carries, Stored
<1>2. Inductive /\ Issuing /\ Saved /\ Remembered /\ [Next]_memVars =>
        [\A i \in Ids : disk.rules[i] # NoRule =>
           /\ disk'.rules[i] # NoRule
           /\ disk.rules[i].trials <= disk'.rules[i].trials
           /\ disk.rules[i].passed <= disk'.rules[i].passed
           /\ disk.rules[i].misfires <= disk'.rules[i].misfires]_disk
  BY <1>1
<1> QED BY <1>2, RememberedInvariant, PTL DEF Spec, EvidenceKept

-----------------------------------------------------------------------------
\* Failures.

\* What a step does to the failures of a process that neither starts, stops nor
\* logs: nothing, but that a pass may have gone over a cluster.
Quiet ==
    /\ UNCHANGED <<up, logVars>>
    /\ \A p \in Procs : /\ learner'[p].pc = learner[p].pc
                        /\ learner'[p].consumed = learner[p].consumed
                        /\ learner'[p].todo \subseteq learner[p].todo

\* A critic answers for the cluster.
Learns(p, cluster) ==
    /\ p \in up /\ cluster \in learner[p].todo /\ learner[p].pc = learner'[p].pc
    /\ learner'[p].todo = learner[p].todo \ {cluster}
    /\ learner'[p].consumed = learner[p].consumed \cup cluster
    /\ \A q \in Procs : q # p => learner'[q] = learner[q]
    /\ learnt' = learnt \cup cluster
    /\ UNCHANGED <<up, log, logDisk, recorded, excused, unsettled>>

LEMMA AnsweredLearns ==
    ASSUME LearningTyped, NEW p \in Procs, NEW cluster, NEW added,
           Answered(p, cluster, added)
    PROVE  Learns(p, cluster)
<1>1. learner[p] \in Passes
  BY DEF LearningTyped
<1> DEFINE l == [learner[p] EXCEPT !.todo = @ \ {cluster}, !.consumed = @ \cup cluster,
                                    !.added = added]
<1>2. learner' = [learner EXCEPT ![p] = l]
  BY <1>1 DEF LearningTyped, Answered, Done
<1>3. /\ l.pc = learner[p].pc /\ l.todo = learner[p].todo \ {cluster}
      /\ l.consumed = learner[p].consumed \cup cluster
  BY <1>1 DEF Passes
<1> HIDE DEF l
<1>4. learner'[p] = l /\ \A q \in Procs : q # p => learner'[q] = learner[q]
  BY <1>2 DEF LearningTyped
<1>5. /\ p \in up /\ cluster \in learner[p].todo
      /\ UNCHANGED <<up, log, logDisk, recorded, excused>>
  BY DEF Answered, Ask, Visit
<1>6. learnt' = learnt \cup cluster /\ UNCHANGED unsettled
  BY DEF Answered
<1> QED BY <1>3, <1>4, <1>5, <1>6 DEF Learns

LEMMA GateOutQuiet ==
    ASSUME LearningTyped, NEW p \in Procs, NEW cluster, GateOut(p, cluster)
    PROVE  Quiet
<1>1. learner[p] \in Passes
  BY DEF LearningTyped
<1> DEFINE l == [learner[p] EXCEPT !.todo = @ \ {cluster}, !.consumed = @ \cup {},
                                    !.added = 0]
<1>2. learner' = [learner EXCEPT ![p] = l]
  BY <1>1 DEF LearningTyped, GateOut, Done
<1>3. /\ l.pc = learner[p].pc /\ l.todo \subseteq learner[p].todo
      /\ l.consumed = learner[p].consumed
  BY <1>1 DEF Passes
<1> HIDE DEF l
<1>4. \A q \in Procs : learner'[q] = IF q = p THEN l ELSE learner[q]
  BY <1>2 DEF LearningTyped
<1> QED BY <1>3, <1>4 DEF Quiet, GateOut

LEMMA DecideQuiet ==
    ASSUME LearningTyped, NEW p \in Procs, Decide(p)
    PROVE  Quiet
<1>1. learner[p] \in Passes /\ learner' = [learner EXCEPT ![p].added = 0]
  BY DEF LearningTyped, Decide
<1> QED BY <1>1 DEF Quiet, Decide, LearningTyped, Passes

\* The steps, as far as the failures are concerned.
LEMMA LogStep ==
    ASSUME LearningTyped, [Next]_memVars
    PROVE  \/ Quiet
           \/ \E p \in Procs :
                 \/ Start(p) \/ Stop(p) \/ LearnStart(p) \/ LearnEnd(p)
                 \/ \E f \in Failures : Record(p, f)
                 \/ \E cluster \in learner[p].todo :
                       Learns(p, cluster) \/ LearnRaises(p, cluster)
<1>1. ASSUME UNCHANGED <<up, logVars, learner>> PROVE Quiet
  BY <1>1 DEF Quiet
<1>2. CASE UNCHANGED memVars \/ Upgrade
  BY <1>1, <1>2 DEF memVars, Upgrade
<1>3. ASSUME NEW p \in Procs,
             \/ Reconcile(p)
             \/ \E i \in Ids : \/ Credit(p, i, TRUE) \/ Credit(p, i, FALSE)
                               \/ Misfire(p, i) \/ Review(p, i) \/ Pull(p, i)
      PROVE  Quiet
  BY <1>1, <1>3 DEF Reconcile, Credit, Misfire, Review, Pull
<1>4. ASSUME NEW p \in Procs, NEW cluster \in learner[p].todo,
             Abstain(p, cluster) \/ Reject(p, cluster) \/ Accept(p, cluster)
      PROVE  Learns(p, cluster)
  BY <1>4, AnsweredLearns DEF Abstain, Reject, Accept
<1>5. ASSUME NEW p \in Procs, Crash(p) \/ CrashSaving(p) PROVE Stop(p)
  BY <1>5 DEF Crash, CrashSaving
<1> QED BY <1>2, <1>3, <1>4, <1>5, GateOutQuiet, DecideQuiet DEF Next, LearnStep

\* What these steps do, one lemma per step.

LEMMA StartLog ==
    ASSUME LearningTyped, NEW p \in Procs, Start(p)
    PROVE  /\ p \notin up /\ up' = up \cup {p}
           /\ log'[p] \subseteq logDisk /\ excused' = excused \cup (logDisk \ log'[p])
           /\ \A q \in Procs : q # p => log'[q] = log[q]
           /\ UNCHANGED <<logDisk, recorded, learnt, unsettled, learner>>
<1>1. PICK kept \in Capped(logDisk) :
          log' = [log EXCEPT ![p] = kept] /\ excused' = excused \cup (logDisk \ kept)
  BY DEF Start
<1>2. log'[p] = kept /\ \A q \in Procs : q # p => log'[q] = log[q]
  BY <1>1 DEF LearningTyped
<1> QED BY <1>1, <1>2, CappedSubset DEF Start

LEMMA StopLog ==
    ASSUME LearningTyped, NEW p \in Procs, Stop(p)
    PROVE  /\ p \in up /\ up' = up \ {p} /\ log'[p] = {} /\ learner'[p] = Idle
           /\ \A q \in Procs : q # p => log'[q] = log[q] /\ learner'[q] = learner[q]
           /\ unsettled' = unsettled \cup learner[p].consumed
           /\ UNCHANGED <<logDisk, recorded, learnt, excused>>
  BY DEF Stop, LearningTyped

LEMMA RecordLog ==
    ASSUME LearningTyped, NEW p \in Procs, NEW f \in Failures, Record(p, f)
    PROVE  /\ p \in up /\ f \notin recorded /\ recorded' = recorded \cup {f}
           /\ log'[p] \subseteq log[p] \cup {f}
           /\ logDisk' \in {log'[p], logDisk \cup {f}, logDisk}
           /\ (log[p] \cup {f}) \ log'[p] \subseteq excused'
           /\ excused \subseteq excused'
           /\ f \in logDisk' \cup excused'
           /\ \A q \in Procs : q # p => log'[q] = log[q]
           /\ UNCHANGED <<up, learnt, unsettled, learner>>
<1>1. PICK kept \in Capped(log[p] \cup {f}), appended \in Written, rewritten \in Written :
          LET over == kept # log[p] \cup {f} /\ rewritten IN
          /\ f \in kept
          /\ log' = [log EXCEPT ![p] = kept]
          /\ logDisk' = CASE over -> kept
                          [] ~over /\ appended -> logDisk \cup {f}
                          [] OTHER -> logDisk
          /\ excused' = excused \cup ((log[p] \cup {f}) \ kept)
                        \cup (IF appended THEN {} ELSE {f})
  BY DEF Record
<1> DEFINE over == kept # log[p] \cup {f} /\ rewritten
<1>2. logDisk' = CASE over -> kept
                   [] ~over /\ appended -> logDisk \cup {f}
                   [] OTHER -> logDisk
  BY <1>1
<1> HIDE DEF over
<1>3. log'[p] = kept /\ \A q \in Procs : q # p => log'[q] = log[q]
  BY <1>1 DEF LearningTyped
<1>4. logDisk' \in {kept, logDisk \cup {f}, logDisk}
  BY <1>2
<1>5. f \in logDisk' \cup excused'
  BY <1>1, <1>2
<1>6. (log[p] \cup {f}) \ kept \subseteq excused' /\ excused \subseteq excused'
  BY <1>1
<1>7. /\ p \in up /\ f \notin recorded /\ recorded' = recorded \cup {f}
      /\ UNCHANGED <<up, learnt, unsettled, learner>>
  BY DEF Record
<1>8. kept \subseteq log[p] \cup {f}
  BY CappedSubset
<1> QED BY <1>3, <1>4, <1>5, <1>6, <1>7, <1>8

LEMMA LearnStartLog ==
    ASSUME LearningTyped, NEW p \in Procs, LearnStart(p)
    PROVE  /\ p \in up /\ learner[p].pc = "idle" /\ learner'[p].pc = "running"
           /\ learner'[p].todo = Clusters(log[p]) /\ learner'[p].consumed = {}
           /\ \A q \in Procs : q # p => learner'[q] = learner[q]
           /\ UNCHANGED <<up, logVars>>
  BY DEF LearnStart, LearningTyped, Idle

LEMMA RaisesLog ==
    ASSUME LearningTyped, NEW p \in Procs, NEW cluster, LearnRaises(p, cluster)
    PROVE  /\ p \in up /\ learner'[p] = Idle
           /\ \A q \in Procs : q # p => learner'[q] = learner[q]
           /\ unsettled' = unsettled \cup learner[p].consumed
           /\ UNCHANGED <<up, log, logDisk, recorded, learnt, excused>>
  BY DEF LearnRaises, Ask, Visit, LearningTyped

LEMMA LearnEndLog ==
    ASSUME LearningTyped, NEW p \in Procs, LearnEnd(p)
    PROVE  /\ p \in up /\ log'[p] = log[p] \ learner[p].consumed /\ learner'[p] = Idle
           /\ \A q \in Procs : q # p => log'[q] = log[q] /\ learner'[q] = learner[q]
           /\ learner[p].todo = {} /\ UNCHANGED <<up, recorded, learnt, excused>>
           /\ \/ logDisk' = log'[p] /\ unsettled' = unsettled \ learner[p].consumed
              \/ logDisk' = logDisk /\ unsettled' = unsettled \cup learner[p].consumed
<1>1. Unconsumed(p) = log[p] \ learner[p].consumed
  BY DEF Unconsumed
<1>2. /\ p \in up /\ log'[p] = Unconsumed(p) /\ learner'[p] = Idle
      /\ \A q \in Procs : q # p => log'[q] = log[q] /\ learner'[q] = learner[q]
      /\ learner[p].todo = {} /\ UNCHANGED <<up, recorded, learnt, excused>>
  BY DEF LearnEnd, EndsPass, LearningTyped
<1>3. \/ logDisk' = Unconsumed(p) /\ unsettled' = unsettled \ learner[p].consumed
      \/ logDisk' = logDisk /\ unsettled' = unsettled \cup learner[p].consumed
  BY DEF LearnEnd
<1> QED BY <1>1, <1>2, <1>3

\* A failure in the file is known to the process, or accounted for, and so is one
\* that was logged and is not in the file; what a pass consumed a critic answered for.
Logged ==
    /\ \A p \in up : logDisk \subseteq log[p] \cup learnt \cup excused
    /\ \A p \in Procs : learner[p].consumed \subseteq learnt
    /\ GatedOutKept

LEMMA LoggedInv ==
    ASSUME TakingTurns, LearningTyped, Logged, [Next]_memVars, TakingTurns'
    PROVE  Logged'
<1>1. up \subseteq Procs /\ Idle.consumed = {}
  BY DEF LearningTyped, Idle
<1>2. CASE Quiet
  BY <1>1, <1>2 DEF Quiet, logVars, Logged, GatedOutKept
<1>3. ASSUME NEW p \in Procs, Start(p) PROVE Logged'
  <2>1. up' = {p}
    BY <1>1, <1>3, StartLog DEF TakingTurns
  <2> QED BY <1>3, <2>1, StartLog DEF Logged, GatedOutKept
<1>4. ASSUME NEW p \in Procs, Stop(p) PROVE Logged'
  <2>1. up' = {}
    BY <1>1, <1>4, StopLog DEF TakingTurns
  <2>2. \A q \in Procs : learner'[q].consumed \subseteq learnt
    BY <1>1, <1>4, StopLog DEF Logged
  <2> QED BY <1>4, <2>1, <2>2, StopLog DEF Logged, GatedOutKept
<1>5. ASSUME NEW p \in Procs, NEW f \in Failures, Record(p, f) PROVE Logged'
  <2>1. up' = {p} /\ logDisk \subseteq log[p] \cup learnt \cup excused
    BY <1>1, <1>5, RecordLog DEF TakingTurns, Logged
  <2>2. logDisk' \subseteq log'[p] \cup learnt' \cup excused'
    BY <1>5, <2>1, RecordLog
  <2>3. logDisk \subseteq logDisk' \cup learnt' \cup excused'
    BY <1>5, <2>1, RecordLog
  <2>4. GatedOutKept'
    BY <1>5, <2>3, RecordLog DEF Logged, GatedOutKept
  <2>5. \A q \in Procs : learner'[q].consumed \subseteq learnt'
    BY <1>5, RecordLog DEF Logged
  <2> QED BY <2>1, <2>2, <2>4, <2>5 DEF Logged
<1>6. ASSUME NEW p \in Procs, LearnStart(p) PROVE Logged'
  <2>1. \A q \in Procs : learner'[q].consumed \subseteq learnt
    BY <1>6, LearnStartLog DEF Logged
  <2> QED BY <1>6, <2>1, LearnStartLog DEF logVars, Logged, GatedOutKept
<1>7. ASSUME NEW p \in Procs, NEW cluster \in learner[p].todo, Learns(p, cluster)
      PROVE  Logged'
  <2>1. \A q \in Procs : learner'[q].consumed \subseteq learnt'
    BY <1>7 DEF Learns, Logged
  <2> QED BY <1>7, <2>1 DEF Learns, Logged, GatedOutKept
<1>8. ASSUME NEW p \in Procs, NEW cluster, LearnRaises(p, cluster) PROVE Logged'
  <2>1. \A q \in Procs : learner'[q].consumed \subseteq learnt
    BY <1>1, <1>8, RaisesLog DEF Logged
  <2> QED BY <1>8, <2>1, RaisesLog DEF Logged, GatedOutKept
<1>9. ASSUME NEW p \in Procs, LearnEnd(p) PROVE Logged'
  <2>1. /\ up' = {p} /\ learner[p].consumed \subseteq learnt
        /\ logDisk \subseteq log[p] \cup learnt \cup excused
    BY <1>1, <1>9, LearnEndLog DEF TakingTurns, Logged
  <2>2. logDisk' \subseteq log'[p] \cup learnt' \cup excused'
    BY <1>9, <2>1, LearnEndLog
  <2>3. logDisk \subseteq logDisk' \cup learnt' \cup excused'
    BY <1>9, <2>1, LearnEndLog
  <2>4. GatedOutKept'
    BY <1>9, <2>3, LearnEndLog DEF Logged, GatedOutKept
  <2>5. \A q \in Procs : learner'[q].consumed \subseteq learnt'
    BY <1>1, <1>9, LearnEndLog DEF Logged
  <2> QED BY <2>1, <2>2, <2>4, <2>5 DEF Logged
<1> QED BY <1>2, <1>3, <1>4, <1>5, <1>6, <1>7, <1>8, <1>9, LogStep

\* Whatever a failed model call, the gate, a crash or a rewrite that failed left
\* behind is still there: of processes that take turns, a failure leaves
\* failures.jsonl only after a critic answered for its cluster or at the cap; and
\* only one whose row was not written whole never was in it (LearningLoop.run,
\* FailureLog.record, remove, load).
THEOREM TurnsKeepGatedOut == TurnsSpec => []GatedOutKept
<1>1. Init => Logged
  BY DEF Init, Logged, GatedOutKept, Idle
<1>2. /\ TakingTurns /\ TakingTurns' /\ LearningTyped /\ Logged /\ [Next]_memVars
      => Logged'
  BY LoggedInv
<1>3. (Inductive => LearningTyped) /\ (Logged => GatedOutKept)
  BY DEF Inductive, Logged
<1> QED BY <1>1, <1>2, <1>3, TurnsInvariant, PTL DEF Spec

\* The failures a process has, or would load.
Known(p) == log[p] \cup logDisk

\* A failure that is still there although it was paid for was consumed by the pass
\* under way, or by one whose end did not reach the file; a pass has each failure
\* in one cluster only.
Settled ==
    /\ \A p \in up : Known(p) \cap learnt \subseteq unsettled \cup learner[p].consumed
    /\ up = {} => logDisk \cap learnt \subseteq unsettled
    /\ \A p \in Procs : \A c \in learner[p].todo : c \cap learnt \subseteq unsettled
    /\ \A p \in Procs : \A c, d \in learner[p].todo : c # d => c \cap d = {}
    /\ \A p \in Procs : p \notin up \/ learner[p].pc = "idle" =>
          learner[p].todo = {} /\ learner[p].consumed = {}

\* Only what was logged is there.
Origin ==
    /\ learnt \subseteq recorded /\ logDisk \subseteq recorded
    /\ \A p \in Procs : log[p] \subseteq recorded
    /\ \A p \in Procs : \A c \in learner[p].todo : c \subseteq recorded

LEMMA ClustersApart ==
    ASSUME NEW records
    PROVE  /\ \A c \in Clusters(records) : c \subseteq records
           /\ \A c, d \in Clusters(records) : c # d => c \cap d = {}
  BY DEF Clusters

LEMMA OriginInv ==
    ASSUME LearningTyped, Origin, [Next]_memVars
    PROVE  Origin'
<1>1. Idle.todo = {}
  BY DEF Idle
<1>2. CASE Quiet
  BY <1>2 DEF Quiet, logVars, Origin
<1>3. ASSUME NEW p \in Procs, Start(p) PROVE Origin'
  BY <1>3, StartLog DEF Origin
<1>4. ASSUME NEW p \in Procs, Stop(p) PROVE Origin'
  BY <1>1, <1>4, StopLog DEF Origin
<1>5. ASSUME NEW p \in Procs, NEW f \in Failures, Record(p, f) PROVE Origin'
  <2>1. \A q \in Procs : log'[q] \subseteq recorded'
    BY <1>5, RecordLog DEF Origin
  <2>2. logDisk' \subseteq recorded'
    BY <1>5, <2>1, RecordLog DEF Origin
  <2> QED BY <1>5, <2>1, <2>2, RecordLog DEF Origin
<1>6. ASSUME NEW p \in Procs, LearnStart(p) PROVE Origin'
  <2>1. \A c \in learner'[p].todo : c \subseteq recorded
    BY <1>6, LearnStartLog, ClustersApart DEF Origin
  <2> QED BY <1>6, <2>1, LearnStartLog DEF logVars, Origin
<1>7. ASSUME NEW p \in Procs, NEW cluster \in learner[p].todo, Learns(p, cluster)
      PROVE  Origin'
  BY <1>7 DEF Learns, Origin
<1>8. ASSUME NEW p \in Procs, NEW cluster, LearnRaises(p, cluster) PROVE Origin'
  BY <1>1, <1>8, RaisesLog DEF Origin
<1>9. ASSUME NEW p \in Procs, LearnEnd(p) PROVE Origin'
  BY <1>1, <1>9, LearnEndLog DEF Origin
<1> QED BY <1>2, <1>3, <1>4, <1>5, <1>6, <1>7, <1>8, <1>9, LogStep

\* Of processes that take turns, those that are not up are idle.
LEMMA OthersIdle ==
    ASSUME TakingTurns, LearningTyped, Settled, NEW p \in up
    PROVE  /\ up = {p}
           /\ \A q \in Procs : q # p => learner[q].todo = {} /\ learner[q].consumed = {}
<1>1. up = {p}
  BY DEF TakingTurns
<1> QED BY <1>1 DEF Settled

LEMMA SettledInv ==
    ASSUME TakingTurns, LearningTyped, Origin, Settled, [Next]_memVars, TakingTurns'
    PROVE  Settled'
<1>1. up \subseteq Procs /\ Idle.todo = {} /\ Idle.consumed = {}
  BY DEF LearningTyped, Idle
<1>2. CASE Quiet
  <2>1. \A p \in up' : (Known(p) \cap learnt)' \subseteq unsettled' \cup learner'[p].consumed
    BY <1>1, <1>2 DEF Quiet, logVars, Settled, Known
  <2>2. \A p \in Procs : p \notin up' \/ learner'[p].pc = "idle" =>
          learner'[p].todo = {} /\ learner'[p].consumed = {}
    BY <1>1, <1>2 DEF Quiet, Settled
  <2> QED BY <1>2, <2>1, <2>2 DEF Quiet, logVars, Settled
<1>3. ASSUME NEW p \in Procs, Start(p) PROVE Settled'
  <2>1. up' = {p} /\ up = {}
    BY <1>1, <1>3, StartLog DEF TakingTurns
  <2>2. Known(p)' \subseteq logDisk
    BY <1>3, StartLog DEF Known
  <2>3. (Known(p) \cap learnt)' \subseteq unsettled' \cup learner'[p].consumed
    BY <1>3, <2>1, <2>2, StartLog DEF Settled
  <2> QED BY <1>3, <2>1, <2>3, StartLog DEF Settled
<1>4. ASSUME NEW p \in Procs, Stop(p) PROVE Settled'
  <2>1. up' = {} /\ p \in up
    BY <1>1, <1>4, StopLog DEF TakingTurns
  <2>2. logDisk' \cap learnt' \subseteq unsettled'
    BY <1>4, <2>1, StopLog DEF Settled, Known
  <2>3. \A q \in Procs : learner'[q].todo = {} /\ learner'[q].consumed = {}
    BY <1>1, <1>4, <2>1, StopLog, OthersIdle
  <2> QED BY <2>1, <2>2, <2>3 DEF Settled
<1>5. ASSUME NEW p \in Procs, NEW f \in Failures, Record(p, f) PROVE Settled'
  <2>1. up' = {p} /\ up = {p} /\ UNCHANGED <<learnt, unsettled, learner>>
    BY <1>1, <1>5, RecordLog DEF TakingTurns
  <2>2. Known(p)' \subseteq Known(p) \cup {f} /\ f \notin learnt
    BY <1>5, RecordLog DEF Known, Origin
  <2>3. (Known(p) \cap learnt)' \subseteq unsettled' \cup learner'[p].consumed
    BY <2>1, <2>2 DEF Settled
  <2> QED BY <2>1, <2>3 DEF Settled
<1>6. ASSUME NEW p \in Procs, LearnStart(p) PROVE Settled'
  <2>1. /\ p \in up /\ up' = up /\ UNCHANGED <<log, logDisk, learnt, unsettled>>
        /\ learner[p].consumed = {} /\ learner'[p].consumed = {}
        /\ learner'[p].pc = "running"
        /\ \A q \in Procs : q # p => learner'[q] = learner[q]
    BY <1>6, LearnStartLog DEF Settled, logVars
  <2>2. /\ \A c \in learner'[p].todo : c \subseteq log[p]
        /\ \A c, d \in learner'[p].todo : c # d => c \cap d = {}
    BY <1>6, LearnStartLog, ClustersApart
  <2>3. Known(p) \cap learnt \subseteq unsettled
    BY <2>1 DEF Settled
  <2>4. \A c \in learner'[p].todo : c \cap learnt \subseteq unsettled
    BY <2>2, <2>3 DEF Known
  <2>5. \A q \in up' : (Known(q) \cap learnt)' \subseteq unsettled' \cup learner'[q].consumed
    BY <1>1, <2>1, <2>3 DEF Settled, Known
  <2> QED BY <2>1, <2>2, <2>4, <2>5 DEF Settled
<1>7. ASSUME NEW p \in Procs, NEW cluster \in learner[p].todo, Learns(p, cluster)
      PROVE  Settled'
  <2>1. up' = {p} /\ up = {p}
        /\ \A q \in Procs : q # p => learner[q].todo = {} /\ learner[q].consumed = {}
    BY <1>7, OthersIdle DEF Learns
  <2>2. (Known(p) \cap learnt)' \subseteq unsettled' \cup learner'[p].consumed
    BY <1>7, <2>1 DEF Learns, Settled, Known
  <2>3. \A c \in learner'[p].todo : c \in learner[p].todo /\ c \cap cluster = {}
    BY <1>7 DEF Learns, Settled
  <2>4. \A c \in learner'[p].todo : c \cap learnt' \subseteq unsettled'
    BY <1>7, <2>3 DEF Learns, Settled
  <2>5. \A q \in Procs : \A c \in learner'[q].todo : c \cap learnt' \subseteq unsettled'
    BY <1>7, <2>1, <2>4 DEF Learns
  <2>6. \A q \in Procs : \A c, d \in learner'[q].todo : c # d => c \cap d = {}
    BY <1>7, <2>3 DEF Learns, Settled
  <2>7. learner[p].pc # "idle"
    BY <1>7 DEF Settled
  <2>8. \A q \in Procs : q \notin up' \/ learner'[q].pc = "idle" =>
          learner'[q].todo = {} /\ learner'[q].consumed = {}
    BY <1>7, <2>1, <2>7 DEF Learns
  <2> QED BY <2>1, <2>2, <2>5, <2>6, <2>8 DEF Settled
<1>8. ASSUME NEW p \in Procs, NEW cluster, LearnRaises(p, cluster) PROVE Settled'
  <2>1. up' = {p} /\ up = {p} /\ UNCHANGED <<log, logDisk, learnt>>
        /\ unsettled' = unsettled \cup learner[p].consumed
    BY <1>8, RaisesLog, OthersIdle
  <2>2. \A q \in Procs : learner'[q].todo = {} /\ learner'[q].consumed = {}
    BY <1>1, <1>8, RaisesLog, OthersIdle
  <2>3. (Known(p) \cap learnt)' \subseteq unsettled'
    BY <2>1 DEF Settled, Known
  <2> QED BY <2>1, <2>2, <2>3 DEF Settled
<1>9. ASSUME NEW p \in Procs, LearnEnd(p) PROVE Settled'
  <2>1. up' = {p} /\ up = {p} /\ UNCHANGED learnt
    BY <1>9, LearnEndLog, OthersIdle
  <2>2. \A q \in Procs : learner'[q].todo = {} /\ learner'[q].consumed = {}
    BY <1>1, <1>9, LearnEndLog, OthersIdle
  <2>3. (Known(p) \cap learnt)' \subseteq unsettled'
    <3>1. Known(p) \cap learnt \subseteq unsettled \cup learner[p].consumed
      BY <2>1 DEF Settled
    <3> QED BY <1>9, <2>1, <3>1, LearnEndLog DEF Known
  <2> QED BY <2>1, <2>2, <2>3 DEF Settled
<1> QED BY <1>2, <1>3, <1>4, <1>5, <1>6, <1>7, <1>8, <1>9, LogStep

\* Processes that take turns ask a critic about a failure it answered for only when
\* the pass that did raised, crashed or could not rewrite the file: removal at the
\* end of a pass is what later passes start from (FailureLog.remove, load).
THEOREM TurnsPayOnce == TurnsSpec => PaidOnce
<1> DEFINE Paid(p) ==
      (learner'[p].consumed \ learner[p].consumed) \cap learnt \subseteq unsettled
<1>1. Init => Origin /\ Settled
  BY DEF Init, Origin, Settled, Idle
<1>2. LearningTyped /\ Origin /\ [Next]_memVars => Origin'
  BY OriginInv
<1>3. /\ TakingTurns /\ TakingTurns' /\ LearningTyped /\ Origin /\ Settled /\ [Next]_memVars
      => Settled'
  BY SettledInv
<1>4. ASSUME LearningTyped, Settled, [Next]_memVars, NEW p \in Procs PROVE Paid(p)
  <2>1. Idle.consumed = {}
    BY DEF Idle
  <2>2. ASSUME NEW q \in Procs, NEW cluster \in learner[q].todo, Learns(q, cluster)
        PROVE  Paid(p)
    BY <1>4, <2>2 DEF Learns, Settled
  <2>3. ASSUME NEW q \in Procs,
               \/ Start(q) \/ Stop(q) \/ LearnStart(q) \/ LearnEnd(q)
               \/ \E f \in Failures : Record(q, f)
               \/ \E cluster : LearnRaises(q, cluster)
        PROVE  Paid(p)
    <3>1. learner'[p].consumed \subseteq learner[p].consumed
      BY <1>4, <2>1, <2>3, StartLog, StopLog, LearnStartLog, LearnEndLog, RecordLog,
         RaisesLog
    <3> QED BY <3>1
  <2>4. CASE Quiet
    BY <1>4, <2>4 DEF Quiet
  <2> QED BY <1>4, <2>2, <2>3, <2>4, LogStep
<1>5. LearningTyped /\ Settled /\ [Next]_memVars =>
        [\A p \in Procs :
           (learner'[p].consumed \ learner[p].consumed) \cap learnt \subseteq unsettled]_learner
  BY <1>4
<1>6. Inductive => LearningTyped
  BY DEF Inductive
<1> QED BY <1>1, <1>2, <1>3, <1>5, <1>6, TurnsInvariant, PTL DEF Spec, PaidOnce
=============================================================================
