---------------------------- MODULE DedupWindow -----------------------------
(***************************************************************************)
(* The dedup cache in use: handlers ask it about request IDs while its     *)
(* background loop cleans it, until Engine.Stop closes dedupStop.          *)
(* Configs may ask with windows of different lengths.                      *)
(***************************************************************************)
EXTENDS DedupCache

CONSTANTS
    Windows,    \* the window lengths of the configs
    MaxTime     \* bound on the clock, for model checking

ASSUME WindowsAssumption == Windows \subseteq Nat \ {0}
ASSUME MaxTimeAssumption == MaxTime \in Nat

VARIABLES
    cleaning,   \* the cleanup loop runs
    verdict     \* the last answer of IsDuplicate

cacheVars == <<now, entries, cleaning, verdict>>

NoVerdict == [id |-> "none", duplicate |-> FALSE]

CacheInit ==
    /\ now = 0
    /\ DedupInit
    /\ cleaning = TRUE
    /\ verdict = NoVerdict

IsDuplicate(id, window) ==
    /\ IF Seen(id) THEN UNCHANGED entries ELSE Note(id, window)
    /\ verdict' = [id |-> id, duplicate |-> Seen(id)]
    /\ UNCHANGED <<now, cleaning>>

(* A tick of startCleanupLoop's ticker. *)
CleanupTick ==
    /\ cleaning
    /\ Cleanup
    /\ UNCHANGED <<now, cleaning, verdict>>

(* Engine.Stop closes dedupStop and the loop returns. *)
StopLoop ==
    /\ cleaning
    /\ cleaning' = FALSE
    /\ UNCHANGED <<now, entries, verdict>>

Tick ==
    /\ now < MaxTime
    /\ now' = now + 1
    /\ UNCHANGED <<entries, cleaning, verdict>>

CacheNext ==
    \/ \E id \in RequestIDs, window \in Windows : IsDuplicate(id, window)
    \/ CleanupTick
    \/ StopLoop
    \/ Tick

CacheSpec == CacheInit /\ [][CacheNext]_cacheVars

(* The ticker keeps firing while the loop runs. *)
FairCacheSpec == CacheSpec /\ WF_cacheVars(CleanupTick) /\ WF_cacheVars(Tick)

-----------------------------------------------------------------------------
CacheTypeOK ==
    /\ now \in Nat
    /\ DedupTypeOK
    /\ cleaning \in BOOLEAN
    /\ verdict \in [id : RequestIDs, duplicate : BOOLEAN] \cup {NoVerdict}

(* Whatever the cleanup loop deletes and whenever it runs, or stops, the   *)
(* answers are those of OncePerWindow.                                     *)
TimeLeft(id) == IF Seen(id) THEN entries[id] - now ELSE 0

Promise == INSTANCE OncePerWindow
               WITH left <- [id \in RequestIDs |-> TimeLeft(id)]
PromiseSpec == Promise!Spec

(* The cache does not grow without bound: an ID whose window is over is    *)
(* dropped, unless it is let through again or the loop is stopped.         *)
StaleDropped ==
    \A id \in RequestIDs : Stale(id) ~> (~ Stale(id) \/ ~ cleaning)

=============================================================================
