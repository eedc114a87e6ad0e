------------------------------ MODULE LossyMap ------------------------------
(***************************************************************************)
(* What a cache promises: a key holds the last value put under it, or      *)
(* nothing.  Entries may be lost at any time, alone or along with a put.   *)
(* SmartRouter uses its cache through this interface (Forget, Accept).     *)
(***************************************************************************)
CONSTANTS Keys, Values, Nothing

VARIABLES
    last,     \* the last value put under each key
    held      \* what a lookup of each key answers

mapVars == <<last, held>>

Init ==
    /\ last = [k \in Keys |-> Nothing]
    /\ held = last

Losing(lost, map) == [k \in Keys |-> IF k \in lost THEN Nothing ELSE map[k]]

Put ==
    \E k \in Keys, v \in Values, lost \in SUBSET Keys :
        /\ last' = [last EXCEPT ![k] = v]
        /\ held' = Losing(lost, [held EXCEPT ![k] = v])

Lose ==
    /\ \E lost \in SUBSET Keys : held' = Losing(lost, held)
    /\ UNCHANGED last

Next == Put \/ Lose

Spec == Init /\ [][Next]_mapVars
=============================================================================
