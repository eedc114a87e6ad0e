------------------------------ MODULE MCParts -------------------------------
(***************************************************************************)
(* Finite instances of the components that have a life of their own:       *)
(* cache, failure log, recent items, served memory, verifiers, gateway.    *)
(* They share no variable, so a behaviour here is one of any one of them,  *)
(* and their states add instead of multiplying.                            *)
(***************************************************************************)
EXTENDS ExactCache, FailureLog, RecentStore, Serving, MCVerifierLadder, StdioGateway

\* Three keys for two entries, so that puts evict; two values, so that a stale one
\* shows; entries expire within the clock's bound.
CONSTANTS k1, k2, k3, a, b, e1, e2, c1, c2

\* What two tenants have learnt, and a rule for everyone that does not fit the budget
\* beside acme's and lies below the floor of one of the queries.
MCItems ==
    {[tenant |-> "acme",   place |-> 2, score |-> 5, cost |-> 3],
     [tenant |-> "globex", place |-> 1, score |-> 7, cost |-> 2],
     [tenant |-> "GLOBAL", place |-> 3, score |-> 6, cost |-> 3]}
-----------------------------------------------------------------------------
partVars == <<cacheVars, logVars, recentVars, servingVars, ladderVars, gwVars>>

\* A part may begin while every other is in its initial state, and stay there.
PartsInit == Init /\ LogInit /\ RecentInit /\ ServingInit /\ LadderInit /\ GatewayInit

PartsNext ==
    \/ /\ LogInit /\ RecentInit /\ ServingInit /\ LadderInit /\ GatewayInit
       /\ Next /\ UNCHANGED <<logVars, recentVars, servingVars, ladderVars, gwVars>>
    \/ /\ Init /\ RecentInit /\ ServingInit /\ LadderInit /\ GatewayInit
       /\ LogNext /\ UNCHANGED <<cacheVars, recentVars, servingVars, ladderVars, gwVars>>
    \/ /\ Init /\ LogInit /\ ServingInit /\ LadderInit /\ GatewayInit
       /\ RecentNext /\ UNCHANGED <<cacheVars, logVars, servingVars, ladderVars, gwVars>>
    \/ /\ Init /\ LogInit /\ RecentInit /\ LadderInit /\ GatewayInit
       /\ ServingNext /\ UNCHANGED <<cacheVars, logVars, recentVars, ladderVars, gwVars>>
    \/ /\ Init /\ LogInit /\ RecentInit /\ ServingInit /\ GatewayInit
       /\ LadderNext /\ UNCHANGED <<cacheVars, logVars, recentVars, servingVars, gwVars>>
    \/ /\ Init /\ LogInit /\ RecentInit /\ ServingInit /\ LadderInit
       /\ GatewayNext /\ UNCHANGED <<cacheVars, logVars, recentVars, servingVars, ladderVars>>

PartsSpec == PartsInit /\ [][PartsNext]_partVars /\ GatewayFairness
=============================================================================
