----------------------------- MODULE DedupCache -----------------------------
(***************************************************************************)
(* The cache of recently seen request RequestIDs (internal/engine/dedup.go).      *)
(* Each method holds dedupCache.mu from start to end, so each is one       *)
(* action.  Time is counted in the smallest unit two readings of           *)
(* time.Now() tell apart.                                                  *)
(***************************************************************************)
EXTENDS Integers

CONSTANTS
    RequestIDs         \* request RequestIDs

VARIABLES
    now,        \* time.Now()
    entries     \* dedupCache.entries: request ID -> expiry, Absent if missing

Absent == -1

DedupInit == entries = [id \in RequestIDs |-> Absent]

DedupTypeOK == entries \in [RequestIDs -> Nat \cup {Absent}]

(* IsDuplicate answers true: the ID has an entry that has not expired. *)
Seen(id) == entries[id] # Absent /\ now < entries[id]

(* IsDuplicate answers false: the ID is recorded for one window. *)
Note(id, window) == entries' = [entries EXCEPT ![id] = now + window]

(* Mutant of Stale: live entries are taken for stale ones. *)
StaleAlive(id) == entries[id] # Absent /\ now < entries[id]

(* Cleanup: the entries whose expiry lies in the past are deleted. *)
Stale(id) == entries[id] # Absent /\ now > entries[id]

(* Mutant of Cleanup: nothing is deleted. *)
CleanupNothing == UNCHANGED entries

Cleanup == entries' = [id \in RequestIDs |-> IF Stale(id) THEN Absent ELSE entries[id]]

=============================================================================
