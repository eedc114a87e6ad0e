---------------------------- MODULE MCRuleMemory ----------------------------
(* Instances of RuleMemory small enough for TLC. *)
EXTENDS RuleMemory, TLC

CONSTANTS GlobalQueries, AcmeQueries   \* interchangeable queries of either tenant

FailuresOf(tenant, queries) ==
    {[id |-> q, topic |-> "schema", query |-> q, tenant |-> tenant] : q \in queries}

\* Failures for every tenant that may be learnt from together, and of one tenant.
PairedFailures == FailuresOf("GLOBAL", GlobalQueries) \cup FailuresOf("acme", AcmeQueries)

\* Three failures of one topic, one of which repeats a query, and one of another.
FourFailures ==
    {[id |-> 1, topic |-> "schema", query |-> 1, tenant |-> "acme"],
     [id |-> 2, topic |-> "schema", query |-> 1, tenant |-> "acme"],
     [id |-> 3, topic |-> "schema", query |-> 2, tenant |-> "acme"],
     [id |-> 4, topic |-> "tests",  query |-> 3, tenant |-> "acme"]}

\* Three failures of one tenant that share nothing.
ApartFailures ==
    {[id |-> 1, topic |-> "schema", query |-> 1, tenant |-> "acme"],
     [id |-> 2, topic |-> "tests", query |-> 2, tenant |-> "acme"],
     [id |-> 3, topic |-> "wrong", query |-> 3, tenant |-> "acme"]}

\* Learnt from one after the other, for the same tenant.
SameTenant ==
    {[id |-> 1, topic |-> "schema", query |-> 1, tenant |-> "acme"],
     [id |-> 2, topic |-> "tests", query |-> 2, tenant |-> "acme"]}

Alike ==
    UNION {Permutations(S) : S \in {Models, Triggers, GlobalQueries, AcmeQueries}}

AllTopics == {"schema", "tests", "wrong"}
SchemaOnly == {"schema"}
=============================================================================
