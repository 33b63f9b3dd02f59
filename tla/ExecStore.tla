------------------------------ MODULE ExecStore ------------------------------
(***************************************************************************)
(* The in-memory ring buffer of asynchronous execution records behind      *)
(* GET /api/executions (internal/execstore/store.go).  Every method holds  *)
(* Store.mu from start to end, so each is one action.                      *)
(*                                                                         *)
(* A record keeps its request ID, its status and the execution it          *)
(* describes: `run' stands for the Config, Rule and StartedAt fields, which *)
(* together say which execution the record is about.                       *)
(***************************************************************************)
EXTENDS Integers, FiniteSetsExt

CONSTANTS
    Capacity,   \* execstore.DefaultCapacity
    IDs,        \* request IDs
    Runs,       \* executions that may be recorded
    NoID,       \* the empty RequestID of a slot never written
    NoRun

ASSUME CapacityAssumption == Capacity \in Nat \ {0}
ASSUME NoIDAssumption == NoID \notin IDs

VARIABLES
    records,    \* Store.records: slot -> record
    next,       \* Store.next: the next slot to write
    wrapped,    \* Store.wrapped
    index       \* Store.index: request ID -> slot, NoSlot when absent

storeVars == <<records, next, wrapped, index>>

Slots == 0 .. Capacity - 1
NoSlot == -1
Finished == {"succeeded", "failed"}
Statuses == Finished \cup {"running"}

Record == [id : IDs, run : Runs, status : Statuses]
Blank == [id |-> NoID, run |-> NoRun, status |-> "none"]

StoreInit ==
    /\ records = [s \in Slots |-> Blank]
    /\ next = 0
    /\ wrapped = FALSE
    /\ index = [id \in IDs |-> NoSlot]

StoreTypeOK ==
    /\ records \in [Slots -> Record \cup {Blank}]
    /\ next \in Slots
    /\ wrapped \in BOOLEAN
    /\ index \in [IDs -> Slots \cup {NoSlot}]

(* Mutant of Evicted: the entry of the overwritten record is kept. *)
EvictedKept == index

(* The index without the entry of the record that occupies the next slot. *)
Evicted ==
    [id \in IDs |-> IF id = records[next].id THEN NoSlot ELSE index[id]]

(* Add: the oldest record makes room, then the new one is indexed. *)
Add(r) ==
    /\ records' = [records EXCEPT ![next] = r]
    /\ index' = [Evicted EXCEPT ![r.id] = next]
    /\ next' = (next + 1) % Capacity
    /\ wrapped' = (wrapped \/ next' = 0)

(* Complete: finalizes whatever record the index holds for the ID. *)
Complete(id, status) ==
    /\ records' = IF index[id] = NoSlot
                  THEN records
                  ELSE [records EXCEPT ![index[id]].status = status]
    /\ UNCHANGED <<next, wrapped, index>>

(* Mutant of SlotBack: counts from the slot to be written next. *)
SlotBackFromNext(i) == (next - i + 1 + 2 * Capacity) % Capacity

SlotBack(i) == (next - i + 2 * Capacity) % Capacity

(* List: up to limit records, newest first, up to the first blank slot. *)
List(limit) ==
    LET count == IF wrapped THEN Capacity ELSE next
        size  == IF limit <= 0 \/ limit > count THEN count ELSE limit
        full  == {n \in 0 .. size :
                    \A i \in 1 .. n : records[SlotBack(i)].id # NoID}
    IN  [i \in 1 .. Max(full) |-> records[SlotBack(i)]]

=============================================================================
