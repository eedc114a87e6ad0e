------------------------------ MODULE Serving ------------------------------
(***************************************************************************)
(* How the learnt memory reaches a prompt: refresh() cuts a snapshot per   *)
(* tenant (memory/reflexion.py), a retriever chooses from it under a token *)
(* budget (memory/retrieval.py, memory/exemplars.py, vectors.py), route()  *)
(* assembles the prompt (prompt.py) and the caller keeps the conversation. *)
(*                                                                         *)
(* An item is a promoted rule or an exemplar, with its place on a line     *)
(* that stands for the vector space: the nearer, the more similar.         *)
(***************************************************************************)
EXTENDS Integers, SequencesExt

CONSTANTS
    Items,        \* records [tenant, place, score, cost]
    Clients,      \* tenants that hold conversations
    Everyone,     \* GLOBAL_SCOPE
    Places,       \* where a query may lie
    TopK,         \* k
    TokenCap,     \* max_tokens
    Floor,        \* min_similarity
    MaxSim,       \* the similarity of what lies in one place
    MaxTurns,     \* bound: messages of a conversation
    Absent       \* no request is being served, or has a prompt

ASSUME ServingAssumption ==
    /\ TopK \in Nat /\ TokenCap \in Nat /\ Floor \in Int /\ MaxSim \in Int
    /\ Places \subseteq Int
    /\ IsFiniteSet(Items) /\ \A i \in Items : i.place \in Int /\ i.score \in Nat /\ i.cost \in Nat
    /\ Everyone \notin Clients /\ MaxTurns \in Nat

\* Requests leave the memory alone here, so one conversation stands for any number.
VARIABLES
    mode,       \* config.mode, "off" while there is no Reflexion
    kept,       \* the promoted rules, or the exemplars
    snapshots,  \* _retrievers: the items of each tenant that has one
    client,     \* whose conversation it is
    request,    \* [place, items, at], or Absent
    history,    \* its messages [role, items]: the items in their text
    prompt      \* its last prompt [prefix, volatile], or Absent

servingVars == <<mode, kept, snapshots, client, request, history, prompt>>

ServingInit ==
    /\ mode = "off" /\ kept = {} /\ snapshots = <<>> /\ client = Everyone
    /\ request = Absent /\ history = <<>> /\ prompt = Absent
-----------------------------------------------------------------------------
\* Faulty: every promoted rule is in every snapshot.
SnapshotOfAll(items, m, tenant) == items

\* RuleStore.promoted(tenant); an exemplar is its tenant's alone.
SnapshotOf(items, m, tenant) ==
    {i \in items : i.tenant = tenant \/ (m = "rules" /\ i.tenant = Everyone)}

\* The tenants refresh() cuts a snapshot for.
Served(items, m) ==
    {i.tenant : i \in items} \cup (IF m = "rules" THEN {Everyone} ELSE {})

Cut(items, m) == [t \in Served(items, m) |-> SnapshotOf(items, m, t)]

\* Exemplars are never for everyone.
Fits(i, m) == m = "rules" \/ i.tenant # Everyone

\* Construction ends with a refresh; then the conversation begins.
Configure(m) ==
    /\ mode = "off" /\ mode' = m
    /\ \E items \in SUBSET {i \in Items : Fits(i, m)} :
         kept' = items /\ snapshots' = Cut(items, m)
    /\ client' \in Clients
    /\ UNCHANGED <<request, history, prompt>>

\* The memory changes between refreshes: a rule is promoted or retired, an
\* exemplar recorded or evicted.
Learnt(i) ==
    /\ mode # "off" /\ Fits(i, mode)
    /\ kept' = IF i \in kept THEN kept \ {i} ELSE kept \cup {i}
    /\ UNCHANGED <<mode, snapshots, client, request, history, prompt>>

\* refresh(); versions are named after the content of the snapshots.
RefreshAll ==
    /\ mode # "off" /\ snapshots' = Cut(kept, mode)
    /\ UNCHANGED <<mode, kept, client, request, history, prompt>>
-----------------------------------------------------------------------------
Similarity(x, y) == MaxSim - (IF x < y THEN y - x ELSE x - y)

Largest(S) == CHOOSE x \in S : \A y \in S : x >= y

Redundancy(i, chosen) ==
    IF chosen = <<>> THEN 0
    ELSE Largest({Similarity(i.place, chosen[n].place) : n \in DOMAIN chosen})

\* search_mmr() takes rules by MMR, here times ten with a lambda_ of 0.7; search()
\* takes exemplars by similarity alone.
Marginal(i, m, place, chosen) ==
    IF m = "rules"
    THEN 7 * Similarity(i.place, place) - 3 * Redundancy(i, chosen)
    ELSE Similarity(i.place, place)

\* The next item to take: of equal scores the most similar item's.
BestOf(pool, m, place, chosen) ==
    LET Score(i) == Marginal(i, m, place, chosen) IN
    CHOOSE i \in pool : \A j \in pool :
        \/ Score(i) > Score(j)
        \/ Score(i) = Score(j) /\ Similarity(i.place, place) >= Similarity(j.place, place)

OneMore(chosen, items, m, place) ==
    LET pool == items \ ToSet(chosen) IN
    IF pool = {} THEN chosen ELSE Append(chosen, BestOf(pool, m, place, chosen))

\* search(), search_mmr(): up to k items, one after the other.
Search(items, m, place) ==
    LET chosen[n \in 0..TopK] ==
          IF n = 0 THEN <<>> ELSE OneMore(chosen[n - 1], items, m, place)
    IN chosen[TopK]

\* What was found spends the budget in this order: rules by their Wilson bound,
\* of equal bounds as they were found, and exemplars as they were found.
Foremost(left, found, m) ==
    CHOOSE n \in left : \A j \in left :
        \/ m = "rules" /\ found[n].score > found[j].score
        \/ (m = "rules" => found[n].score = found[j].score) /\ n <= j

\* What is below the floor, or does not fit any more, is passed over.
Spend(state, found, m, place) ==
    LET n == Foremost(state.left, found, m)
        over == \/ Similarity(found[n].place, place) < Floor
                \/ state.tokens + found[n].cost > TokenCap IN
    IF state.left = {} THEN state
    ELSE [left   |-> state.left \ {n},
          list   |-> IF over THEN state.list ELSE Append(state.list, found[n]),
          tokens |-> IF over THEN state.tokens ELSE state.tokens + found[n].cost]

\* retrieve()
Retrieve(items, m, place) ==
    LET found == Search(items, m, place)
        spent[n \in 0..TopK] ==
          IF n = 0 THEN [left |-> DOMAIN found, list |-> <<>>, tokens |-> 0]
          ELSE Spend(spent[n - 1], found, m, place)
    IN spent[TopK].list
-----------------------------------------------------------------------------
\* Faulty: who has no retriever is given another's.
SnapshotForAny(tenant) ==
    IF tenant \in DOMAIN snapshots THEN snapshots[tenant]
    ELSE IF DOMAIN snapshots = {} THEN {}
    ELSE snapshots[CHOOSE t \in DOMAIN snapshots : TRUE]

\* _retrievers.get(tenant_id) or _retrievers.get(GLOBAL_SCOPE)
SnapshotFor(tenant) ==
    IF tenant \in DOMAIN snapshots THEN snapshots[tenant]
    ELSE IF Everyone \in DOMAIN snapshots THEN snapshots[Everyone] ELSE {}

\* A request; one that policy or the classifier sends to the frontier model is
\* given nothing.
AskFor(place, small) ==
    /\ mode # "off" /\ request = Absent
    /\ request' = [place |-> place, items |-> <<>>,
                   at |-> IF small THEN "retrieving" ELSE "assembling"]
    /\ UNCHANGED <<mode, kept, snapshots, client, history, prompt>>

RetrieveItems ==
    /\ request # Absent /\ request.at = "retrieving"
    /\ request' = [request EXCEPT
         !.items = Retrieve(SnapshotFor(client), mode, request.place),
         !.at = "assembling"]
    /\ UNCHANGED <<mode, kept, snapshots, client, history, prompt>>

RulesBlock(items) ==
    IF items = <<>> THEN <<>> ELSE <<[role |-> "system", items |-> items]>>

\* The system prompt with the tools, and the turn being answered.
Standing == <<[role |-> "system", items |-> <<>>]>>

Turn == <<[role |-> "user", items |-> <<>>]>>

\* Faulty: the rules come with the system prompt.
AssembleRulesFirst(messages, items) ==
    [prefix |-> Standing \o RulesBlock(items) \o messages, volatile |-> Turn]

\* assemble()
Assemble(messages, items) ==
    [prefix |-> Standing \o messages, volatile |-> RulesBlock(items) \o Turn]

SendPrompt ==
    /\ request # Absent /\ request.at = "assembling"
    /\ prompt' = Assemble(history, request.items)
    /\ request' = Absent
    /\ UNCHANGED <<mode, kept, snapshots, client, history>>

\* ConversationHistory.append() takes clean roles and no rules block.
Persist(message) ==
    /\ message.role \in {"user", "assistant", "tool"} /\ message.items = <<>>
    /\ Len(history) < MaxTurns
    /\ history' = Append(history, message)
    /\ UNCHANGED <<mode, kept, snapshots, client, request, prompt>>

\* A caller appends what was said; it may try any message of the last prompt.
Messages ==
    {[role |-> "assistant", items |-> <<>>]}
    \cup (IF prompt = Absent THEN {} ELSE ToSet(prompt.volatile))

ServingNext ==
    \/ \E m \in {"rules", "exemplars"} : Configure(m)
    \/ \E i \in Items : Learnt(i)
    \/ \E place \in Places, small \in BOOLEAN : AskFor(place, small)
    \/ \E message \in Messages : Persist(message)
    \/ RefreshAll \/ RetrieveItems \/ SendPrompt

ServingSpec == ServingInit /\ [][ServingNext]_servingVars
-----------------------------------------------------------------------------
\* Nothing learnt from one tenant is in another's prompt, unless it is a rule
\* for everyone, however refreshes, fallbacks and requests interleave
\* (memory/reflexion.py:31-34, routing/router.py:202).
TenantIsolation ==
    prompt # Absent =>
        \A message \in ToSet(prompt.prefix \o prompt.volatile) :
            \A i \in ToSet(message.items) :
                i.tenant = client \/ (mode = "rules" /\ i.tenant = Everyone)

\* From turn to turn of a conversation the prefix of the prompt is only ever
\* extended, so that the provider's cache survives, whatever memory is injected
\* and refreshed in between (prompt.py:99-101, 109-111, 149-151).
PrefixExtends ==
    [][prompt # Absent => IsPrefix(prompt.prefix, prompt'.prefix)]_servingVars
=============================================================================
