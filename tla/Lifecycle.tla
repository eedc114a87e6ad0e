----------------------------- MODULE Lifecycle -----------------------------
(***************************************************************************)
(* What a rule's evidence is worth and which state it earns                *)
(* (memory/lifecycle.py, schemas/rule.py).                                 *)
(***************************************************************************)
EXTENDS Integers

CONSTANTS
    Tenants,
    Global,             \* GLOBAL_SCOPE: rules for every tenant
    PromoteAt,          \* promote_lower_bound, in percent
    DemoteAt,           \* demote_lower_bound, in percent
    MinTrialsToDemote,  \* min_trials_to_demote
    MaxMisfires,        \* max_false_trigger_rate, in percent
    ReviewGlobal        \* require_human_review_for_global

ASSUME LifecycleAssumption ==
    /\ Global \in Tenants
    /\ PromoteAt \in 1..99 /\ DemoteAt \in 1..PromoteAt
    /\ MinTrialsToDemote \in Nat /\ MaxMisfires \in 0..100
    /\ ReviewGlobal \in BOOLEAN

RuleStates ==
    {"PROPOSED", "SHADOW", "PROMOTED", "DEMOTED", "RETIRED", "QUARANTINED"}

\* wilson_lower_bound(passed, trials) >= percent / 100, with the square root
\* and the quotients multiplied out and z * z = 3.84.
WilsonAtLeast(passed, trials, percent) ==
    LET excess == 100 * passed - percent * trials IN
    /\ trials > 0 /\ excess >= 0
    /\ 25 * excess * excess >= 96 * percent * (100 - percent) * trials

\* false_trigger_rate above its maximum.
Misfiring(rule) ==
    /\ rule.trials > 0
    /\ 100 * rule.misfires > MaxMisfires * (rule.trials + rule.misfires)

Reviewed(rule) == ReviewGlobal /\ rule.tenant = Global => rule.reviewed

\* Faulty: the review of a rule for every tenant is not asked for.
EvaluatedUnreviewed(rule) ==
    IF rule.state \in {"PROPOSED", "SHADOW"}
      THEN IF WilsonAtLeast(rule.passed, rule.trials, PromoteAt) THEN "PROMOTED"
                                                                ELSE "SHADOW"
      ELSE rule.state

\* Faulty: every rule not promoted is a candidate again.
EvaluatedRevives(rule) ==
    IF /\ WilsonAtLeast(rule.passed, rule.trials, PromoteAt)
       /\ Reviewed(rule)
      THEN "PROMOTED" ELSE "SHADOW"

\* Faulty: a promoted rule moves on to a state the schema does not have.
EvaluatedMeasured(rule) ==
    IF rule.state = "PROMOTED" THEN "MEASURED" ELSE EvaluatedUnreviewed(rule)

\* LifecyclePolicy.evaluate, without a label bias.
Evaluated(rule) ==
    CASE rule.state = "QUARANTINED" -> "QUARANTINED"
      [] rule.state # "QUARANTINED" /\ Misfiring(rule) -> "DEMOTED"
      [] rule.state \in {"PROPOSED", "SHADOW"} /\ ~Misfiring(rule) ->
            IF WilsonAtLeast(rule.passed, rule.trials, PromoteAt) /\ Reviewed(rule)
              THEN "PROMOTED" ELSE "SHADOW"
      [] rule.state = "PROMOTED" /\ ~Misfiring(rule) ->
            IF /\ rule.trials >= MinTrialsToDemote
               /\ ~WilsonAtLeast(rule.passed, rule.trials, DemoteAt)
              THEN "DEMOTED" ELSE "PROMOTED"
      [] rule.state \in {"DEMOTED", "RETIRED"} /\ ~Misfiring(rule) -> rule.state
=============================================================================
