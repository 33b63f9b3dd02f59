------------------------------- MODULE MCStores ------------------------------
(* The two stores the engine keeps between requests.  They share nothing,   *)
(* so a behaviour here is one of the record ring or one of the dedup cache: *)
(* a ring of three slots is wrapped by five executions, which evict records *)
(* of executions that may still run.  The symmetry permutes the executions  *)
(* only; where the dedup cache moves these stay as they were at first, and  *)
(* where they move its liveness property has nothing to wait for.           *)
EXTENDS AsyncRecords, DedupWindow, TLC

VARIABLE store      \* the store in use

RecordsStep == store = "records" /\ Next /\ UNCHANGED <<store, cacheVars>>
DedupStep(A) == store = "dedup" /\ A /\ UNCHANGED <<store, vars>>

StoresInit == store \in {"records", "dedup"} /\ Init /\ CacheInit
StoresNext == RecordsStep \/ DedupStep(CacheNext)
StoresVars == <<store, vars, cacheVars>>
StoresSpec ==
    /\ StoresInit /\ [][StoresNext]_StoresVars
    /\ WF_StoresVars(DedupStep(CleanupTick)) /\ WF_StoresVars(DedupStep(Tick))

Symmetry == Permutations(Runs)

=============================================================================
