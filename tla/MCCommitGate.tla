---------------------------- MODULE MCCommitGate ----------------------------
(***************************************************************************)
(* Finite instances of CommitGate.  A request is sent twice under one id.  *)
(* Among its calls are a read, an irreversible write the server can        *)
(* rehearse (send) and one it cannot (wipe), a call of an unregistered     *)
(* tool (bogus), one with arguments outside its schema (ghost) and one of  *)
(* a registered tool the server has dropped since (drift).                 *)
(***************************************************************************)
EXTENDS CommitGate

CONSTANTS r1, r2, id1, read, send, wipe, bogus, ghost, drift

MCRidOf == [r \in Requests |-> id1]
MCKnown == Calls \ {bogus}
MCWellFormed == Calls \ {ghost}
MCIrreversible == Calls \cap {send, wipe}
MCDryRunnable == Calls \cap {send}
MCExposed == Calls \ {bogus, drift}
MCNone == {}
=============================================================================
