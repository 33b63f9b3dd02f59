---------------------------- MODULE AsyncRecords ----------------------------
(***************************************************************************)
(* The execution store in the hands of its only writers: dispatchAsync     *)
(* adds a record when it accepts a request, the background goroutine       *)
(* completes it by request ID when the actions have ended                  *)
(* (internal/engine/engine.go).  Executions overlap and end in any order.  *)
(*                                                                         *)
(* ParseRequest generates a fresh request ID unless the request carries    *)
(* one in X-HookRun-Request-ID; Inherited says whether requests do.  An    *)
(* inherited ID can come back: a relay retried by its sender, or one       *)
(* request relayed to the same instance over two paths.                    *)
(***************************************************************************)
EXTENDS ExecStore, Sequences

CONSTANT Inherited
ASSUME InheritedAssumption == Inherited \in BOOLEAN

VARIABLES
    stage,      \* execution -> "new", "running" or "ended"
    idOf,       \* execution -> its request ID, NoID before it starts
    outcome     \* execution -> how its actions ended, "none" before

vars == <<records, next, wrapped, index, stage, idOf, outcome>>

Init ==
    /\ StoreInit
    /\ stage = [r \in Runs |-> "new"]
    /\ idOf = [r \in Runs |-> NoID]
    /\ outcome = [r \in Runs |-> "none"]

(* The request ID an execution runs under. *)
MayCarry(id) == Inherited \/ \A r \in Runs : idOf[r] # id

Dispatch(r, id) ==
    /\ stage[r] = "new"
    /\ MayCarry(id)
    /\ Add([id |-> id, run |-> r, status |-> "running"])
    /\ stage' = [stage EXCEPT ![r] = "running"]
    /\ idOf' = [idOf EXCEPT ![r] = id]
    /\ UNCHANGED outcome

End(r, status) ==
    /\ stage[r] = "running"
    /\ Complete(idOf[r], status)
    /\ stage' = [stage EXCEPT ![r] = "ended"]
    /\ outcome' = [outcome EXCEPT ![r] = status]
    /\ UNCHANGED idOf

Next == \E r \in Runs :
            \/ \E id \in IDs : Dispatch(r, id)
            \/ \E status \in Finished : End(r, status)

Spec == Init /\ [][Next]_vars

-----------------------------------------------------------------------------
TypeOK ==
    /\ StoreTypeOK
    /\ stage \in [Runs -> {"new", "running", "ended"}]
    /\ idOf \in [Runs -> IDs \cup {NoID}]
    /\ outcome \in [Runs -> Finished \cup {"none"}]

(* Every record in the ring tells the truth about its own execution: it is *)
(* "running" exactly while that execution runs, and afterwards carries the *)
(* outcome of that execution and of no other.  Complete finds the record   *)
(* by request ID only, after any number of evictions.                      *)
RecordsTruthful ==
    \A s \in Slots : records[s] # Blank =>
        LET r == records[s].run
        IN  records[s].status =
                IF stage[r] = "ended" THEN outcome[r] ELSE "running"

(* Why it holds when every execution has an ID of its own: a record is     *)
(* found under its ID in the index, and the index finds nothing else.      *)
IDsUnique ==
    \A r, q \in Runs : idOf[r] = idOf[q] /\ idOf[r] # NoID => r = q
IDsGiven ==
    \A r \in Runs : IF stage[r] = "new" THEN idOf[r] = NoID ELSE idOf[r] \in IDs
RecordsOwned ==
    \A s \in Slots : records[s] # Blank =>
        /\ stage[records[s].run] # "new"
        /\ idOf[records[s].run] = records[s].id
RecordsIndexed ==
    \A s \in Slots : records[s] # Blank => index[records[s].id] = s
IndexSound ==
    \A id \in IDs : index[id] # NoSlot => records[index[id]].id = id

IInv ==
    /\ TypeOK
    /\ IDsUnique
    /\ IDsGiven
    /\ RecordsOwned
    /\ RecordsIndexed
    /\ IndexSound
    /\ RecordsTruthful

(* The ring with its index behaves as the log of ExecutionLog: listing it  *)
(* in full is that log.                                                    *)
Listing ==
    LET all == List(Capacity)
    IN  [i \in DOMAIN all |-> [run |-> all[i].run, status |-> all[i].status]]

Log == INSTANCE ExecutionLog WITH log <- Listing
LogSpec == Log!Spec

=============================================================================
