--------------------------- MODULE OncePerWindow ----------------------------
(***************************************************************************)
(* What deduplication promises its callers: a request ID is let through    *)
(* once, and again only when the window it was let through under is over;  *)
(* "same Request-ID only triggers once within 10 minutes"                  *)
(* (docs/configuration.md).  Nothing is said of a cache or its cleaning.   *)
(***************************************************************************)
EXTENDS Naturals

CONSTANTS
    RequestIDs,        \* request RequestIDs
    Windows     \* window lengths in use

VARIABLES
    left,       \* request ID -> time left of the window it holds
    verdict     \* the last answer given

NoVerdict == [id |-> "none", duplicate |-> FALSE]

Init ==
    /\ left = [id \in RequestIDs |-> 0]
    /\ verdict = NoVerdict

LetThrough(id, window) ==
    /\ left[id] = 0
    /\ left' = [left EXCEPT ![id] = window]
    /\ verdict' = [id |-> id, duplicate |-> FALSE]

TurnAway(id) ==
    /\ left[id] > 0
    /\ verdict' = [id |-> id, duplicate |-> TRUE]
    /\ UNCHANGED left

Pass ==
    /\ left' = [id \in RequestIDs |-> IF left[id] = 0 THEN 0 ELSE left[id] - 1]
    /\ UNCHANGED verdict

Next ==
    \/ \E id \in RequestIDs, window \in Windows : LetThrough(id, window)
    \/ \E id \in RequestIDs : TurnAway(id)
    \/ Pass

Spec == Init /\ [][Next]_<<left, verdict>>

=============================================================================
