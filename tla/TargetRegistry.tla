--------------------------- MODULE TargetRegistry ---------------------------
(***************************************************************************)
(* The pool of dynamically registered relay targets                        *)
(* (internal/engine/registry.go).  Every method holds TargetRegistry.mu    *)
(* from start to end, so each is one action.  A target is known by its     *)
(* URL; its token and tags follow the URL and are left out.                *)
(***************************************************************************)
EXTENDS Integers, FiniteSets

CONSTANTS
    URLs,
    MaxEntries,     \* server.max_registry_entries, 0 = unlimited
    MaxTTL          \* server.max_relay_ttl, 0 = unlimited

ASSUME URLsAssumption == IsFiniteSet(URLs)
ASSUME LimitsAssumption == MaxEntries \in Nat /\ MaxTTL \in Nat

VARIABLES
    now,        \* time.Now()
    entries     \* TargetRegistry.entries: URL -> [ttl, seen], Absent if missing

Absent == [ttl |-> -1, seen |-> -1]
Entry == [ttl : Int, seen : Nat]

RegistryInit == entries = [u \in URLs |-> Absent]
RegistryTypeOK == entries \in [URLs -> Entry \cup {Absent}]

Registered == {u \in URLs : entries[u] # Absent}

(* Mutant of NegotiateTTL: a target that asks for no expiry gets none. *)
NegotiateFinite(ttl) == IF MaxTTL > 0 /\ ttl > MaxTTL THEN MaxTTL ELSE ttl

(* negotiateTTL: the cap also stands for a TTL of 0, which never expires;  *)
(* a negative TTL is left as it is.                                        *)
NegotiateTTL(ttl) ==
    IF MaxTTL > 0 /\ (ttl = 0 \/ ttl > MaxTTL) THEN MaxTTL ELSE ttl

(* Register answers ErrRegistryFull. *)
Full(u) ==
    /\ entries[u] = Absent
    /\ MaxEntries > 0 /\ Cardinality(Registered) >= MaxEntries

(* Register: a new entry, or a refresh; both are seen now. *)
Register(u, ttl) ==
    entries' = IF Full(u)
               THEN entries
               ELSE [entries EXCEPT ![u] = [ttl |-> NegotiateTTL(ttl), seen |-> now]]

(* Mutant of Unregister: the entry is left to the next cleanup. *)
UnregisterMarks(u) ==
    entries' = [entries EXCEPT ![u] = IF @ = Absent THEN Absent ELSE [@ EXCEPT !.seen = 0]]

Unregister(u) == entries' = [entries EXCEPT ![u] = Absent]

(* Cleanup: ttl > 0 && now - lastSeen > ttl; a negative TTL never expires. *)
Expired(u) ==
    /\ entries[u] # Absent
    /\ entries[u].ttl > 0
    /\ now - entries[u].seen > entries[u].ttl

(* Mutant of Cleanup: the expired entries stay. *)
CleanupNone == UNCHANGED entries

Cleanup == entries' = [u \in URLs |-> IF Expired(u) THEN Absent ELSE entries[u]]

=============================================================================
