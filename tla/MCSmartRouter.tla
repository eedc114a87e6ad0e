---------------------------- MODULE MCSmartRouter ----------------------------
(***************************************************************************)
(* Finite instances of SmartRouter.  The models answer with prose, a read, *)
(* an irreversible write (send, or wipe) or a call whose arguments violate *)
(* its schema (ghost).                                                     *)
(***************************************************************************)
EXTENDS SmartRouter

CONSTANTS r1, r2, id1, id2, read, send, wipe, ghost, acme, globex

\* Each invocation with an id of its own, or one request sent twice.
MCOwnIds == [r \in Requests |-> IF r = r1 THEN id1 ELSE id2]
MCOneId == [r \in Requests |-> id1]

MCWellFormed == Calls \ {ghost}
MCIrreversible == Calls \cap {send, wipe}
MCNone == {}

Ask(tenant, risk, sensitive) ==
    [tenant |-> tenant, text |-> "q", risk |-> risk, sensitive |-> sensitive]

\* The same words from two tenants.
MCTenants == {Ask(acme, "READ_ONLY", FALSE), Ask(globex, "READ_ONLY", FALSE)}
\* One query, and one that policy keeps from the small model.
MCPolicy == {Ask(acme, "IRREVERSIBLE_WRITE", FALSE), Ask(globex, "READ_ONLY", TRUE)}
MCOneQuery == {Ask(acme, "READ_ONLY", FALSE)}
=============================================================================
