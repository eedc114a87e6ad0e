--------------------------- MODULE RouteContract ---------------------------
(***************************************************************************)
(* What the router promises its callers, with no word on how: a request is *)
(* tried on the small model or sent to the frontier model, moves from the  *)
(* first to the second at most once and never back, and ends with one      *)
(* answer, or by raising.  An answer out of the cache is one the small     *)
(* model was vouched for earlier, for the same tenant and query, and that  *)
(* carried out nothing irreversible.                                       *)
(***************************************************************************)
CONSTANTS
    Requests,       \* invocations of SmartRouter.route
    Keys,           \* <<tenant, normalized query>>
    Texts,          \* outputs of the models
    Replayable,     \* outputs that carry out nothing irreversible
    None            \* no key, no answer yet

VARIABLES
    phase,          \* how far each request has come
    key,            \* what it asks
    answer,         \* what it was answered: a text, or "surfaced"
    vouched         \* <<key, text>>: the small model's accepted answers

contractVars == <<phase, key, answer, vouched>>

Active == {"asked", "small", "frontier"}

Init ==
    /\ phase = [r \in Requests |-> "new"]
    /\ key = [r \in Requests |-> None]
    /\ answer = [r \in Requests |-> None]
    /\ vouched = {}

Enter(r, p) == phase' = [phase EXCEPT ![r] = p]

Answer(r, a) ==
    /\ Enter(r, "answered")
    /\ answer' = [answer EXCEPT ![r] = a]
    /\ UNCHANGED key

Ask(r) ==
    /\ phase[r] = "new"
    /\ Enter(r, "asked") \/ Enter(r, "frontier")
    /\ \E k \in Keys : key' = [key EXCEPT ![r] = k]
    /\ UNCHANGED <<answer, vouched>>

Choose(r) ==
    /\ phase[r] = "asked"
    /\ Enter(r, "small") \/ Enter(r, "frontier")
    /\ UNCHANGED <<key, answer, vouched>>

AnswerFromCache(r) ==
    /\ phase[r] = "asked"
    /\ \E t \in Texts : <<key[r], t>> \in vouched /\ Answer(r, t)
    /\ UNCHANGED vouched

AnswerSmall(r) ==
    /\ phase[r] = "small"
    /\ \E t \in Texts :
          /\ Answer(r, t)
          /\ vouched' = IF t \in Replayable THEN vouched \cup {<<key[r], t>>}
                                            ELSE vouched

Escalate(r) ==
    /\ phase[r] = "small" /\ Enter(r, "frontier")
    /\ UNCHANGED <<key, answer, vouched>>

AnswerFrontier(r) ==
    /\ phase[r] = "frontier"
    /\ \E t \in Texts : Answer(r, t)
    /\ UNCHANGED vouched

\* The tool outcome goes to a human.
Surface(r) ==
    /\ phase[r] \in {"small", "frontier"} /\ Answer(r, "surfaced")
    /\ UNCHANGED vouched

Raise(r) ==
    /\ phase[r] \in Active /\ Enter(r, "raised")
    /\ UNCHANGED <<key, answer, vouched>>

Next ==
    \E r \in Requests :
        \/ Ask(r) \/ Choose(r) \/ AnswerFromCache(r) \/ AnswerSmall(r)
        \/ Escalate(r) \/ AnswerFrontier(r) \/ Surface(r) \/ Raise(r)

Spec == Init /\ [][Next]_contractVars
=============================================================================
