---------------------------- MODULE StoresProofs ----------------------------
(***************************************************************************)
(* The two stores the engine keeps between requests.                       *)
(*                                                                         *)
(* The ring of execution records: type correctness, whatever the request   *)
(* IDs; and when no ID is used twice, the truthfulness of its records, and *)
(* that listing it reads ExecutionLog.                                     *)
(*                                                                         *)
(* The dedup cache: it keeps the promise of OncePerWindow, for every set   *)
(* of request IDs and windows, without bound on the clock, and wherever    *)
(* the cleanup loop runs or stops.                                         *)
(***************************************************************************)
EXTENDS AsyncRecords, DedupWindow, SequenceTheorems, TLAPS

(* A record is not the blank slot, and its fields have their types. *)
LEMMA RecordTypes ==
    ASSUME NEW x \in Record
    PROVE  x # Blank /\ x.id \in IDs /\ x.run \in Runs /\ x.status \in Statuses
BY NoIDAssumption DEF Record, Blank

(* The next slot wraps around within the ring. *)
LEMMA NextSlot ==
    ASSUME NEW n \in Slots
    PROVE  (n + 1) % Capacity \in Slots
BY CapacityAssumption DEF Slots

(* Add and Complete keep the store well typed. *)
LEMMA AddType ==
    ASSUME StoreTypeOK, NEW r \in Record, Add(r)
    PROVE  StoreTypeOK'
<1>1. records' \in [Slots -> Record \cup {Blank}]
  BY DEF StoreTypeOK, Add
<1>2. next' \in Slots /\ wrapped' \in BOOLEAN
  BY NextSlot DEF StoreTypeOK, Add
<1>3. index' \in [IDs -> Slots \cup {NoSlot}]
  BY RecordTypes DEF StoreTypeOK, Add, Evicted
<1> QED  BY <1>1, <1>2, <1>3 DEF StoreTypeOK

(* Complete keeps the types when the index leads to a record. *)
LEMMA CompleteType ==
    ASSUME StoreTypeOK, NEW id \in IDs, NEW status \in Statuses,
           index[id] # NoSlot => records[index[id]] # Blank,
           Complete(id, status)
    PROVE  StoreTypeOK'
<1>1. CASE index[id] = NoSlot
  BY <1>1 DEF StoreTypeOK, Complete
<1>2. CASE index[id] # NoSlot
  <2>1. index[id] \in Slots /\ records[index[id]] \in Record
    BY <1>2 DEF StoreTypeOK
  <2>2. [records[index[id]] EXCEPT !.status = status] \in Record
    BY <2>1 DEF Record
  <2>3. records' = [records EXCEPT ![index[id]] =
                       [records[index[id]] EXCEPT !.status = status]]
    BY <1>2 DEF Complete
  <2> QED  BY <2>1, <2>2, <2>3 DEF StoreTypeOK, Complete
<1> QED  BY <1>1, <1>2

-----------------------------------------------------------------------------
(* The index only ever points at a slot that has been written. *)
IndexWritten == \A id \in IDs : index[id] # NoSlot => records[index[id]] # Blank

TInv == TypeOK /\ IndexWritten

(* The two steps keep the types. *)
LEMMA DispatchTypes ==
    ASSUME TInv, NEW r \in Runs, NEW id \in IDs, Dispatch(r, id)
    PROVE  TInv'
<1> DEFINE rec == [id |-> id, run |-> r, status |-> "running"]
<1>0. rec \in Record /\ rec # Blank
  BY NoIDAssumption DEF Record, Statuses, Blank
<1>1. Add(rec)
  BY DEF Dispatch
<1> HIDE DEF rec
<1>2. StoreTypeOK'
  BY <1>0, <1>1, AddType DEF TInv, TypeOK
<1>3. /\ stage' \in [Runs -> {"new", "running", "ended"}]
      /\ idOf' \in [Runs -> IDs \cup {NoID}]
      /\ outcome' \in [Runs -> Finished \cup {"none"}]
  BY DEF TInv, TypeOK, Dispatch
<1>4. IndexWritten'
  BY <1>0, <1>1 DEF TInv, TypeOK, StoreTypeOK, IndexWritten, Add, Evicted
<1> QED  BY <1>2, <1>3, <1>4 DEF TInv, TypeOK

LEMMA EndTypes ==
    ASSUME TInv, NEW r \in Runs, NEW status \in Finished, End(r, status),
           idOf[r] \in IDs
    PROVE  TInv'
<1>1. Complete(idOf[r], status)
  BY DEF End
<1>2. StoreTypeOK'
  BY <1>1, CompleteType DEF TInv, TypeOK, IndexWritten, Statuses
<1>3. /\ stage' \in [Runs -> {"new", "running", "ended"}]
      /\ idOf' \in [Runs -> IDs \cup {NoID}]
      /\ outcome' \in [Runs -> Finished \cup {"none"}]
  BY DEF TInv, TypeOK, End
<1>4. IndexWritten'
  <2>1. CASE index[idOf[r]] = NoSlot
    BY <1>1, <2>1 DEF TInv, IndexWritten, Complete
  <2>2. CASE index[idOf[r]] # NoSlot
    <3>1. records' = [records EXCEPT ![index[idOf[r]]] =
                         [records[index[idOf[r]]] EXCEPT !.status = status]]
      BY <1>1, <2>2 DEF Complete
    <3>2. records[index[idOf[r]]] \in Record
      BY <2>2 DEF TInv, TypeOK, StoreTypeOK, IndexWritten
    <3>3. [records[index[idOf[r]]] EXCEPT !.status = status] \in Record
      BY <3>2 DEF Record, Statuses
    <3>4. [records[index[idOf[r]]] EXCEPT !.status = status] # Blank
      BY <3>3, RecordTypes
    <3> QED
      BY <1>1, <3>1, <3>4 DEF TInv, TypeOK, StoreTypeOK, IndexWritten, Complete
  <2> QED  BY <2>1, <2>2
<1> QED  BY <1>2, <1>3, <1>4 DEF TInv, TypeOK

LEMMA InitTypes == Init => TInv /\ IDsGiven
<1> SUFFICES ASSUME Init PROVE TInv /\ IDsGiven
  OBVIOUS
<1>1. 0 \in Slots
  BY CapacityAssumption DEF Slots
<1>2. StoreTypeOK
  BY <1>1 DEF Init, StoreInit, StoreTypeOK
<1>3. TypeOK
  BY <1>2 DEF Init, TypeOK
<1>4. IndexWritten
  BY DEF Init, StoreInit, IndexWritten
<1>5. IDsGiven
  BY DEF Init, IDsGiven
<1> QED  BY <1>3, <1>4, <1>5 DEF TInv

LEMMA DispatchIDsGiven ==
    ASSUME TInv, IDsGiven, NEW r \in Runs, NEW id \in IDs, Dispatch(r, id)
    PROVE  IDsGiven'
BY DEF TInv, TypeOK, IDsGiven, Dispatch

LEMMA EndIDsGiven ==
    ASSUME TInv, IDsGiven, NEW r \in Runs, NEW status \in Finished, End(r, status)
    PROVE  IDsGiven' /\ idOf[r] \in IDs
BY DEF TInv, TypeOK, IDsGiven, End

(* Types are kept by every step. *)
LEMMA NextTypes == TInv /\ IDsGiven /\ [Next]_vars => (TInv /\ IDsGiven)'
<1> SUFFICES ASSUME TInv, IDsGiven, [Next]_vars
             PROVE  (TInv /\ IDsGiven)'
  OBVIOUS
<1>1. ASSUME NEW r \in Runs, NEW id \in IDs, Dispatch(r, id)
      PROVE  (TInv /\ IDsGiven)'
  BY <1>1, DispatchTypes, DispatchIDsGiven
<1>2. ASSUME NEW r \in Runs, NEW status \in Finished, End(r, status)
      PROVE  (TInv /\ IDsGiven)'
  BY <1>2, EndTypes, EndIDsGiven
<1>3. CASE UNCHANGED vars
  BY <1>3 DEF vars, TInv, TypeOK, StoreTypeOK, IndexWritten, IDsGiven
<1> QED  BY <1>1, <1>2, <1>3 DEF Next

(* The ring stays a ring and its index an index, for every capacity and    *)
(* every reuse of request IDs.                                             *)
THEOREM TypeCorrect == Spec => []TypeOK
<1>1. Spec => [](TInv /\ IDsGiven)
  BY InitTypes, NextTypes, PTL DEF Spec
<1>2. TInv /\ IDsGiven => TypeOK
  BY DEF TInv
<1> QED  BY <1>1, <1>2, PTL

-----------------------------------------------------------------------------
(***************************************************************************)
(* When no request ID is used twice.  Dispatch evicts the record of the    *)
(* next slot and its index entry; no other entry can go with it, since     *)
(* every record is indexed under its own ID.  End finds the record of its  *)
(* own execution, or none when that has been evicted.                      *)
(***************************************************************************)
LEMMA DispatchInv ==
    ASSUME IInv, TInv, ~ Inherited, NEW r \in Runs, NEW id \in IDs, Dispatch(r, id)
    PROVE  IInv'
<1> DEFINE rec == [id |-> id, run |-> r, status |-> "running"]
<1>t. TInv'
  BY DispatchTypes
<1>0. /\ stage[r] = "new"
      /\ \A q \in Runs : idOf[q] # id
      /\ stage' = [stage EXCEPT ![r] = "running"]
      /\ idOf' = [idOf EXCEPT ![r] = id]
      /\ outcome' = outcome
      /\ Add(rec)
  BY DEF Dispatch, MayCarry
<1>1. IDsUnique' /\ IDsGiven'
  BY <1>0 DEF IInv, TypeOK, IDsUnique, IDsGiven
<1>2. rec \in Record /\ rec # Blank /\ rec.id = id /\ rec.run = r /\ rec.status = "running"
  BY NoIDAssumption DEF Record, Statuses, Blank
<1> HIDE DEF rec
<1>3. /\ records' = [records EXCEPT ![next] = rec]
      /\ index' = [Evicted EXCEPT ![id] = next]
      /\ next \in Slots
  BY <1>0, <1>2 DEF Add, IInv, TypeOK, StoreTypeOK
<1>4. ASSUME NEW s \in Slots, s # next, records[s] # Blank
      PROVE  /\ records'[s] = records[s]
             /\ records[s].run \in Runs
             /\ records[s].run # r
             /\ records[s].id \in IDs
             /\ records[s].id # id
             /\ index'[records[s].id] = s
  <2>1. records[s] \in Record
    BY <1>4 DEF IInv, TypeOK, StoreTypeOK
  <2>2. /\ stage[records[s].run] # "new"
        /\ idOf[records[s].run] = records[s].id
        /\ index[records[s].id] = s
    BY <1>4 DEF IInv, RecordsOwned, RecordsIndexed
  <2>3. records[s].run \in Runs /\ records[s].id \in IDs
    BY <2>1, RecordTypes
  <2>4. records[s].run # r /\ records[s].id # id
    BY <1>0, <2>2, <2>3
  <2>5. records[s].id # records[next].id
    <3>1. CASE records[next] = Blank
      BY <3>1, <2>3, NoIDAssumption DEF Blank
    <3>2. CASE records[next] # Blank
      BY <3>2, <1>3, <1>4, <2>2 DEF IInv, RecordsIndexed
    <3> QED  BY <3>1, <3>2
  <2>6. index'[records[s].id] = s
    BY <1>3, <2>2, <2>3, <2>4, <2>5 DEF Evicted
  <2> QED  BY <1>3, <1>4, <2>3, <2>4, <2>6 DEF IInv, TypeOK, StoreTypeOK
<1>5. records'[next] = rec /\ index'[id] = next
  BY <1>3 DEF IInv, TypeOK, StoreTypeOK, Evicted
<1>6. \A s \in Slots : s # next => records'[s] = records[s]
  BY <1>3 DEF IInv, TypeOK, StoreTypeOK
<1>7. RecordsOwned'
  BY <1>0, <1>2, <1>4, <1>5, <1>6 DEF RecordsOwned, IInv, TypeOK
<1>8. RecordsIndexed'
  BY <1>2, <1>4, <1>5, <1>6 DEF RecordsIndexed
<1>9. IndexSound'
  <2> SUFFICES ASSUME NEW i \in IDs, index'[i] # NoSlot
               PROVE  records'[index'[i]].id = i
    BY DEF IndexSound
  <2>1. CASE i = id
    BY <2>1, <1>2, <1>5
  <2>2. CASE i # id
    <3>1. index'[i] = Evicted[i] /\ Evicted[i] # NoSlot
      BY <2>2, <1>3 DEF Evicted
    <3>2. i # records[next].id /\ index'[i] = index[i]
      BY <3>1 DEF Evicted
    <3>3. index[i] # NoSlot /\ records[index[i]].id = i /\ index[i] \in Slots
      BY <3>1, <3>2 DEF IInv, IndexSound, TypeOK, StoreTypeOK
    <3> QED  BY <1>6, <3>2, <3>3
  <2> QED  BY <2>1, <2>2
<1>10. RecordsTruthful'
  BY <1>0, <1>2, <1>4, <1>5, <1>6 DEF RecordsTruthful, IInv, TypeOK
<1> QED
  BY <1>t, <1>1, <1>7, <1>8, <1>9, <1>10 DEF IInv, TInv

(* An execution that ends changes its own record, and that only in its     *)
(* status, or none when its record has been evicted.                       *)
LEMMA EndRecords ==
    ASSUME IInv, TInv, NEW r \in Runs, NEW status \in Finished, End(r, status),
           NEW s \in Slots
    PROVE  /\ records'[s] # Blank <=> records[s] # Blank
           /\ records[s] # Blank =>
                /\ records[s].run \in Runs
                /\ records'[s].id = records[s].id
                /\ records'[s].run = records[s].run
                /\ records'[s].status =
                      IF records[s].run = r THEN status ELSE records[s].status
<1>0. index' = index /\ idOf[r] \in IDs
  BY EndIDsGiven DEF IInv, End, Complete
<1>1. ASSUME records[s] # Blank
      PROVE  /\ records[s] \in Record
             /\ records[s].run \in Runs
             /\ records[s].run = r <=> index[idOf[r]] = s
  <2>1. records[s] \in Record /\ records[s].run \in Runs /\ records[s].id \in IDs
    BY <1>1, RecordTypes DEF IInv, TypeOK, StoreTypeOK
  <2>2. idOf[records[s].run] = records[s].id /\ index[records[s].id] = s
    BY <1>1 DEF IInv, RecordsOwned, RecordsIndexed
  <2>3. ASSUME index[idOf[r]] = s PROVE records[s].run = r
    <3>1. s # NoSlot
      BY CapacityAssumption DEF Slots, NoSlot
    <3>2. records[s].id = idOf[r]
      BY <1>0, <2>3, <3>1 DEF IInv, IndexSound
    <3> QED
      BY <1>0, <2>1, <2>2, <3>2, NoIDAssumption DEF IInv, IDsUnique
  <2> QED  BY <2>1, <2>2, <2>3
<1>2. CASE index[idOf[r]] = NoSlot
  <2>1. records' = records
    BY <1>2 DEF End, Complete
  <2>2. s # NoSlot
    BY CapacityAssumption DEF Slots, NoSlot
  <2> QED  BY <1>1, <1>2, <2>1, <2>2
<1>3. CASE index[idOf[r]] # NoSlot /\ index[idOf[r]] # s
  <2>1. records'[s] = records[s]
    BY <1>3 DEF End, Complete, IInv, TypeOK, StoreTypeOK
  <2> QED  BY <1>1, <1>3, <2>1
<1>4. CASE index[idOf[r]] # NoSlot /\ index[idOf[r]] = s
  <2>1. records[s] # Blank
    BY <1>0, <1>4 DEF TInv, IndexWritten
  <2>2. records'[s] = [records[s] EXCEPT !.status = status]
    BY <1>4 DEF End, Complete, IInv, TypeOK, StoreTypeOK
  <2>3. records[s] \in Record /\ records[s].run = r
    BY <1>1, <1>4, <2>1
  <2>4. records'[s] \in Record /\ records'[s].id = records[s].id
        /\ records'[s].run = records[s].run /\ records'[s].status = status
    BY <2>2, <2>3 DEF Record, Statuses
  <2> QED  BY <1>1, <2>1, <2>3, <2>4, RecordTypes
<1> QED  BY <1>2, <1>3, <1>4

LEMMA EndInv ==
    ASSUME IInv, TInv, NEW r \in Runs, NEW status \in Finished, End(r, status)
    PROVE  IInv'
<1>t. TInv'
  BY EndTypes, EndIDsGiven DEF IInv
<1>0. /\ stage[r] = "running"
      /\ stage' = [stage EXCEPT ![r] = "ended"]
      /\ outcome' = [outcome EXCEPT ![r] = status]
      /\ idOf' = idOf
      /\ index' = index
      /\ idOf[r] \in IDs
  BY EndIDsGiven DEF IInv, End, Complete
<1>1. IDsUnique' /\ IDsGiven'
  BY <1>0 DEF IInv, TypeOK, IDsUnique, IDsGiven
<1>2. ASSUME NEW s \in Slots
      PROVE  /\ records'[s] # Blank <=> records[s] # Blank
             /\ records[s] # Blank =>
                  /\ records[s].run \in Runs
                  /\ records'[s].id = records[s].id
                  /\ records'[s].run = records[s].run
                  /\ records'[s].status =
                        IF records[s].run = r THEN status ELSE records[s].status
  BY EndRecords
<1>3. RecordsOwned'
  BY <1>0, <1>2 DEF RecordsOwned, IInv, TypeOK
<1>4. RecordsIndexed'
  BY <1>0, <1>2 DEF RecordsIndexed, IInv
<1>5. IndexSound'
  <2> SUFFICES ASSUME NEW i \in IDs, index[i] # NoSlot
               PROVE  records'[index[i]].id = i
    BY <1>0 DEF IndexSound
  <2>1. index[i] \in Slots /\ records[index[i]] # Blank /\ records[index[i]].id = i
    BY DEF IInv, IndexSound, TInv, IndexWritten, TypeOK, StoreTypeOK
  <2> QED  BY <1>2, <2>1
<1>6. RecordsTruthful'
  BY <1>0, <1>2 DEF RecordsTruthful, IInv, TypeOK
<1> QED
  BY <1>t, <1>1, <1>3, <1>4, <1>5, <1>6 DEF IInv, TInv

LEMMA IInvInit == Init => IInv /\ TInv
<1> SUFFICES ASSUME Init PROVE IInv /\ TInv
  OBVIOUS
<1>1. TInv /\ IDsGiven
  BY InitTypes
<1>2. IDsUnique /\ RecordsOwned /\ RecordsIndexed /\ IndexSound /\ RecordsTruthful
  BY DEF Init, StoreInit, IDsUnique, RecordsOwned, RecordsIndexed, IndexSound,
         RecordsTruthful
<1> QED  BY <1>1, <1>2 DEF IInv, TInv

(* IInv is kept by every step when IDs are not shared. *)
LEMMA IInvNext == ~ Inherited /\ IInv /\ TInv /\ [Next]_vars => (IInv /\ TInv)'
<1> SUFFICES ASSUME ~ Inherited, IInv, TInv, [Next]_vars
             PROVE  (IInv /\ TInv)'
  OBVIOUS
<1>1. ASSUME NEW r \in Runs, NEW id \in IDs, Dispatch(r, id)
      PROVE  (IInv /\ TInv)'
  BY <1>1, DispatchInv, DispatchTypes
<1>2. ASSUME NEW r \in Runs, NEW status \in Finished, End(r, status)
      PROVE  (IInv /\ TInv)'
  BY <1>2, EndInv, EndTypes, EndIDsGiven DEF IInv
<1>3. CASE UNCHANGED vars
  BY <1>3 DEF vars, IInv, TInv, TypeOK, StoreTypeOK, IDsUnique, IDsGiven,
              RecordsOwned, RecordsIndexed, IndexSound, IndexWritten,
              RecordsTruthful
<1> QED  BY <1>1, <1>2, <1>3 DEF Next

(* With a request ID of its own for every execution, each record GET       *)
(* /api/executions lists is running exactly while its execution runs and   *)
(* then carries the outcome of that execution.                             *)
THEOREM Truthful ==
    ASSUME ~ Inherited
    PROVE  Spec => []RecordsTruthful
<1>1. IInv => RecordsTruthful
  BY DEF IInv
<1> QED  BY <1>1, IInvInit, IInvNext, PTL DEF Spec

-----------------------------------------------------------------------------
(* The ring read in full.  It has been filled from slot 0 up to the next   *)
(* one to be written, or all around.                                       *)
Count == IF wrapped THEN Capacity ELSE next

Filled == \A s \in Slots : records[s] # Blank <=> wrapped \/ s < next

Entry(s) == [run |-> records[s].run, status |-> records[s].status]

(* Counting back from the next slot, around the ring. *)
LEMMA Back ==
    ASSUME NEW n \in Slots, NEW i \in 1 .. Capacity
    PROVE  (n - i + 2 * Capacity) % Capacity = IF i <= n THEN n - i ELSE n - i + Capacity
<1>1. Capacity \in Nat \ {0} /\ n \in 0 .. Capacity - 1
  BY CapacityAssumption DEF Slots
<1> QED  BY <1>1

(* One slot on is one more, or the first after the last. *)
LEMMA Forward ==
    ASSUME NEW n \in Slots
    PROVE  (n + 1) % Capacity = IF n + 1 = Capacity THEN 0 ELSE n + 1
<1>1. Capacity \in Nat \ {0} /\ n \in 0 .. Capacity - 1
  BY CapacityAssumption DEF Slots
<1> QED  BY <1>1

(* The largest of 0 .. n is n. *)
LEMMA MaxOfRange == ASSUME NEW n \in Nat PROVE Max(0 .. n) = n
BY DEF Max

(* The count is the length of the ring at most. *)
LEMMA CountValue == TypeOK => Count \in 0 .. Capacity
BY CapacityAssumption DEF Count, TypeOK, StoreTypeOK, Slots

(* What slot a place of the listing stands for, and the other way around. *)
LEMMA SlotBackValue ==
    ASSUME TypeOK, NEW i \in 1 .. Capacity
    PROVE  /\ SlotBack(i) = IF i <= next THEN next - i ELSE next - i + Capacity
           /\ SlotBack(i) \in Slots
<1>1. SlotBack(i) = IF i <= next THEN next - i ELSE next - i + Capacity
  BY Back DEF SlotBack, TypeOK, StoreTypeOK
<1> QED  BY <1>1, CapacityAssumption DEF TypeOK, StoreTypeOK, Slots

(* A slot that is in use is some number of places back. *)
LEMMA PlaceOfSlot ==
    ASSUME TypeOK, Filled, NEW s \in Slots, records[s] # Blank
    PROVE  \E i \in 1 .. Count : SlotBack(i) = s
<1> DEFINE i == IF s < next THEN next - s ELSE next - s + Capacity
<1>1. s \in 0 .. Capacity - 1 /\ next \in 0 .. Capacity - 1 /\ Capacity \in Nat \ {0}
  BY CapacityAssumption DEF TypeOK, StoreTypeOK, Slots
<1>2. i \in 1 .. Count /\ i \in 1 .. Capacity
  BY <1>1 DEF Filled, Count
<1>3. (IF i <= next THEN next - i ELSE next - i + Capacity) = s
  BY <1>1
<1> QED  BY <1>2, <1>3, SlotBackValue

(* The places of the listing are the records that are there. *)
LEMMA Listed ==
    ASSUME TypeOK, Filled, NEW i \in 1 .. Count
    PROVE  SlotBack(i) \in Slots /\ records[SlotBack(i)] \in Record
<1>1. i \in 1 .. Capacity
  BY CountValue, CapacityAssumption
<1>2. SlotBack(i) \in Slots /\ (wrapped \/ SlotBack(i) < next)
  BY <1>1, SlotBackValue, CapacityAssumption DEF Count, TypeOK, StoreTypeOK, Slots
<1> QED  BY <1>2 DEF Filled, TypeOK, StoreTypeOK

(* The listing has the entry of the slot i places back at place i. *)
LEMMA ListingValue ==
    TypeOK /\ Filled => Listing = [i \in 1 .. Count |-> Entry(SlotBack(i))]
<1> SUFFICES ASSUME TypeOK, Filled PROVE Listing = [i \in 1 .. Count |-> Entry(SlotBack(i))]
  OBVIOUS
<1> DEFINE size == IF Capacity <= 0 \/ Capacity > Count THEN Count ELSE Capacity
           full == {n \in 0 .. size : \A i \in 1 .. n : records[SlotBack(i)].id # NoID}
<1>1. Count \in 0 .. Capacity /\ Capacity \in Nat \ {0} /\ Count \in Nat
  BY CountValue, CapacityAssumption
<1>2. size = Count
  BY <1>1
<1>3. full = 0 .. Count
  <2>1. ASSUME NEW i \in 1 .. Count PROVE records[SlotBack(i)].id # NoID
    BY Listed, RecordTypes, NoIDAssumption
  <2>2. \A n \in 0 .. Count : 1 .. n \subseteq 1 .. Count
    BY <1>1
  <2> QED  BY <1>2, <2>1, <2>2
<1>4. Max(full) = Count
  BY <1>1, <1>3, MaxOfRange
<1>5. List(Capacity) = [i \in 1 .. Max(full) |-> records[SlotBack(i)]]
  BY DEF List, Count
<1>6. List(Capacity) = [i \in 1 .. Count |-> records[SlotBack(i)]]
  BY <1>4, <1>5
<1> QED  BY <1>6 DEF Listing, Entry

(* A listing is a sequence of entries. *)
Entries == [run : Runs, status : Statuses]

IsListing ==
    /\ Listing \in Seq(Entries)
    /\ Len(Listing) = Count
    /\ \A i \in 1 .. Count : Listing[i] = Entry(SlotBack(i))

(* It is a listing as the log has them. *)
LEMMA ListingType == TypeOK /\ Filled => IsListing
<1> SUFFICES ASSUME TypeOK, Filled PROVE IsListing
  OBVIOUS
<1>1. Listing = [i \in 1 .. Count |-> Entry(SlotBack(i))]
  BY ListingValue
<1>2. Count \in Nat
  BY CountValue, CapacityAssumption
<1>3. \A i \in 1 .. Count : Entry(SlotBack(i)) \in Entries
  BY Listed, RecordTypes DEF Entry, Entries
<1>4. Listing \in [1 .. Count -> Entries]
  BY <1>1, <1>3
<1> QED  BY <1>1, <1>2, <1>4, LenProperties DEF IsListing

LEMMA FilledInit == Init => Filled
BY DEF Init, StoreInit, Filled, Slots

(* An addition fills the next slot, or takes over the oldest. *)
LEMMA FilledAdd ==
    ASSUME TypeOK, Filled, NEW rec \in Record, Add(rec)
    PROVE  Filled'
<1>1. next' = IF next + 1 = Capacity THEN 0 ELSE next + 1
  BY Forward DEF Add, TypeOK, StoreTypeOK
<1>2. /\ \A s \in Slots : records'[s] = IF s = next THEN rec ELSE records[s]
      /\ wrapped' <=> wrapped \/ next' = 0
  BY DEF Add, TypeOK, StoreTypeOK
<1>3. rec # Blank
  BY RecordTypes
<1>4. next \in 0 .. Capacity - 1 /\ Capacity \in Nat \ {0} /\ Slots = 0 .. Capacity - 1
  BY CapacityAssumption DEF TypeOK, StoreTypeOK, Slots
<1> QED  BY <1>1, <1>2, <1>3, <1>4 DEF Filled

(* The slots in use are the latest ones after every step. *)
LEMMA FilledNext == IInv /\ TInv /\ Filled /\ [Next]_vars => Filled'
<1> SUFFICES ASSUME IInv, TInv, Filled, [Next]_vars PROVE Filled'
  OBVIOUS
<1>1. ASSUME NEW r \in Runs, NEW id \in IDs, Dispatch(r, id) PROVE Filled'
  <2>1. [id |-> id, run |-> r, status |-> "running"] \in Record
    BY DEF Record, Statuses
  <2> QED  BY <1>1, <2>1, FilledAdd DEF Dispatch, IInv
<1>2. ASSUME NEW r \in Runs, NEW status \in Finished, End(r, status) PROVE Filled'
  <2>1. UNCHANGED <<next, wrapped>>
    BY <1>2 DEF End, Complete
  <2> QED  BY <1>2, <2>1, EndRecords DEF Filled
<1>3. CASE UNCHANGED vars
  BY <1>3 DEF vars, Filled
<1> QED  BY <1>1, <1>2, <1>3 DEF Next

(* Adding a record turns the ring by one slot. *)
LEMMA Turned ==
    ASSUME TypeOK, Filled, NEW rec \in Record, Add(rec)
    PROVE  /\ Count' = IF Count = Capacity THEN Capacity ELSE Count + 1
           /\ Entry(SlotBack(1))' = [run |-> rec.run, status |-> rec.status]
           /\ \A i \in 1 .. Capacity - 1 :
                 Entry(SlotBack(i + 1))' = Entry(SlotBack(i))
<1>1. next' = IF next + 1 = Capacity THEN 0 ELSE next + 1
  BY Forward DEF Add, TypeOK, StoreTypeOK
<1>2. \A s \in Slots : records'[s] = IF s = next THEN rec ELSE records[s]
  BY DEF Add, TypeOK, StoreTypeOK
<1>3. next \in 0 .. Capacity - 1 /\ Capacity \in Nat \ {0} /\ Slots = 0 .. Capacity - 1
  BY CapacityAssumption DEF TypeOK, StoreTypeOK, Slots
<1>4. next' \in Slots
  BY <1>1, <1>3
<1>5. \A i \in 1 .. Capacity :
         SlotBack(i)' = IF i <= next' THEN next' - i ELSE next' - i + Capacity
  BY <1>4, Back DEF SlotBack
<1>6. Count' = IF Count = Capacity THEN Capacity ELSE Count + 1
  <2>1. wrapped' <=> wrapped \/ next' = 0
    BY DEF Add, TypeOK, StoreTypeOK
  <2> QED  BY <1>1, <1>3, <2>1 DEF Count
<1>7. SlotBack(1)' = next
  BY <1>1, <1>3, <1>5
<1>8. ASSUME NEW i \in 1 .. Capacity - 1
      PROVE  SlotBack(i + 1)' = SlotBack(i) /\ SlotBack(i) # next /\ SlotBack(i) \in Slots
  <2>1. i \in 1 .. Capacity /\ i + 1 \in 1 .. Capacity
    BY <1>3
  <2>2. SlotBack(i) = IF i <= next THEN next - i ELSE next - i + Capacity
    BY <2>1, SlotBackValue
  <2>3. SlotBack(i + 1)' = IF i + 1 <= next' THEN next' - (i + 1) ELSE next' - (i + 1) + Capacity
    BY <1>5, <2>1
  <2> QED  BY <1>1, <1>3, <2>1, <2>2, <2>3
<1>9. Entry(SlotBack(1))' = [run |-> rec.run, status |-> rec.status]
  BY <1>2, <1>3, <1>7 DEF Entry
<1>10. ASSUME NEW i \in 1 .. Capacity - 1
       PROVE  Entry(SlotBack(i + 1))' = Entry(SlotBack(i))
  BY <1>2, <1>8 DEF Entry
<1> QED  BY <1>6, <1>9, <1>10

(* Entries before others, cut to what fits. *)
LEMMA Prepended ==
    ASSUME NEW log \in Seq(Entries), NEW newer \in Seq(Entries), NEW e \in Entries,
           NEW limit \in Nat \ {0}, Len(log) <= limit,
           Len(newer) = IF Len(log) = limit THEN limit ELSE Len(log) + 1,
           newer[1] = e,
           \A i \in 1 .. limit - 1 : i <= Len(log) => newer[i + 1] = log[i]
    PROVE  LET longer == <<e>> \o log
           IN  newer = IF Len(longer) > limit THEN SubSeq(longer, 1, limit) ELSE longer
<1> DEFINE longer == <<e>> \o log
<1>1. <<e>> \in Seq(Entries) /\ Len(<<e>>) = 1 /\ <<e>>[1] = e
  OBVIOUS
<1>2. /\ longer \in Seq(Entries)
      /\ Len(longer) = 1 + Len(log)
      /\ \A i \in 1 .. 1 + Len(log) : longer[i] = IF i <= 1 THEN <<e>>[i] ELSE log[i - 1]
  BY <1>1, ConcatProperties
<1>3. Len(log) \in Nat
  BY LenProperties
<1>4. ASSUME NEW i \in 1 .. Len(newer) PROVE newer[i] = longer[i]
  <2>1. CASE i = 1
    BY <1>1, <1>2, <1>3, <2>1
  <2>2. CASE i # 1
    <3>1. i - 1 \in 1 .. limit - 1 /\ i - 1 <= Len(log) /\ i \in 1 .. 1 + Len(log)
      BY <1>3, <2>2
    <3>2. newer[(i - 1) + 1] = log[i - 1]
      BY <3>1
    <3>3. (i - 1) + 1 = i /\ ~ (i <= 1)
      BY <2>2, <3>1
    <3> QED  BY <1>2, <3>1, <3>2, <3>3
  <2> QED  BY <2>1, <2>2
<1> HIDE DEF longer
<1>5. CASE Len(longer) > limit
  <2>1. \A i \in 1 .. limit : longer[i] \in Entries
    BY <1>2, <1>5, LenProperties, ElementOfSeq
  <2>2. /\ SubSeq(longer, 1, limit) \in Seq(Entries)
        /\ Len(SubSeq(longer, 1, limit)) = limit
        /\ \A i \in 1 .. limit : SubSeq(longer, 1, limit)[i] = longer[i]
    BY <2>1, SubSeqProperties
  <2>3. Len(newer) = limit
    BY <1>2, <1>3, <1>5
  <2>4. newer = SubSeq(longer, 1, limit)
    BY <1>4, <2>2, <2>3, SeqEqual
  <2> QED  BY <1>5, <2>4 DEF longer
<1>6. CASE ~ (Len(longer) > limit)
  <2>1. Len(newer) = Len(longer)
    BY <1>2, <1>3, <1>6
  <2>2. newer = longer
    BY <1>2, <1>4, <2>1, SeqEqual
  <2> QED  BY <1>6, <2>2 DEF longer
<1> QED  BY <1>5, <1>6

(* Every step of the store is a step of the log, or none. *)
LEMMA DispatchLogged ==
    ASSUME IInv, TInv, Filled, TypeOK', Filled',
           NEW r \in Runs, NEW id \in IDs, Dispatch(r, id)
    PROVE  Log!Start(r)
<1> DEFINE rec == [id |-> id, run |-> r, status |-> "running"]
           e == [run |-> r, status |-> "running"]
<1>0. TypeOK
  BY DEF IInv
<1>1. rec \in Record /\ rec.run = r /\ rec.status = "running" /\ e \in Entries
  BY DEF Record, Statuses, Entries
<1>2. Add(rec) /\ stage[r] = "new"
  BY DEF Dispatch
<1> HIDE DEF rec
<1>3. /\ Count' = IF Count = Capacity THEN Capacity ELSE Count + 1
      /\ Entry(SlotBack(1))' = e
      /\ \A i \in 1 .. Capacity - 1 : Entry(SlotBack(i + 1))' = Entry(SlotBack(i))
  BY <1>0, <1>1, <1>2, Turned
<1>4. /\ Listing \in Seq(Entries) /\ Len(Listing) = Count
      /\ \A i \in 1 .. Count : Listing[i] = Entry(SlotBack(i))
  BY <1>0, ListingType DEF IsListing
<1>5. /\ Listing' \in Seq(Entries) /\ Len(Listing') = Count'
      /\ \A i \in 1 .. Count' : Listing'[i] = Entry(SlotBack(i))'
  <2>1. (TypeOK /\ Filled => IsListing)'
    BY ListingType, PTL
  <2> QED  BY <2>1 DEF IsListing
<1>6. Count \in 0 .. Capacity /\ Capacity \in Nat \ {0}
  BY <1>0, CountValue, CapacityAssumption
<1>7. Listing' = LET longer == <<e>> \o Listing
                 IN  IF Len(longer) > Capacity THEN SubSeq(longer, 1, Capacity) ELSE longer
  <2>1. Listing'[1] = e
    BY <1>3, <1>5, <1>6
  <2>2. ASSUME NEW i \in 1 .. Capacity - 1, i <= Len(Listing)
        PROVE  Listing'[i + 1] = Listing[i]
    <3>1. i \in 1 .. Count /\ i + 1 \in 1 .. Count'
      BY <1>3, <1>4, <1>6, <2>2
    <3> QED  BY <1>3, <1>4, <1>5, <3>1
  <2>3. Len(Listing') = IF Len(Listing) = Capacity THEN Capacity ELSE Len(Listing) + 1
    BY <1>3, <1>4, <1>5
  <2>4. Len(Listing) <= Capacity
    BY <1>4, <1>6
  <2> QED  BY <1>1, <1>4, <1>5, <1>6, <2>1, <2>2, <2>3, <2>4, Prepended
<1>8. ASSUME NEW i \in DOMAIN Listing PROVE Listing[i].run # r
  <2>1. i \in 1 .. Count
    BY <1>4, LenProperties
  <2>2. SlotBack(i) \in Slots /\ records[SlotBack(i)] \in Record
    BY <1>0, <2>1, Listed
  <2>3. stage[records[SlotBack(i)].run] # "new"
    BY <2>2, RecordTypes DEF IInv, RecordsOwned
  <2> QED  BY <1>2, <1>4, <2>1, <2>3 DEF Entry
<1> QED  BY <1>7, <1>8 DEF Log!Start, Log!Remembered

(* Completing a record is the end of its execution in the log, or nothing  *)
(* when the record was evicted.                                            *)
LEMMA EndLogged ==
    ASSUME IInv, TInv, Filled, TypeOK', Filled',
           NEW r \in Runs, NEW status \in Finished, End(r, status)
    PROVE  Log!Finish(r, status) \/ UNCHANGED Listing
<1>0. TypeOK
  BY DEF IInv
<1>1. Listing = [i \in 1 .. Count |-> Entry(SlotBack(i))]
  BY <1>0, ListingValue
<1>2. UNCHANGED <<next, wrapped>> /\ stage[r] = "running"
  BY DEF End, Complete
<1>3. Listing' = [i \in 1 .. Count |-> [run |-> records'[SlotBack(i)].run,
                                        status |-> records'[SlotBack(i)].status]]
  <2>1. (TypeOK /\ Filled => Listing = [i \in 1 .. Count |-> Entry(SlotBack(i))])'
    BY ListingValue, PTL
  <2>2. Count' = Count /\ \A i : SlotBack(i)' = SlotBack(i)
    BY <1>2 DEF Count, SlotBack
  <2> QED  BY <2>1, <2>2 DEF Entry
<1>4. ASSUME NEW i \in 1 .. Count
      PROVE  /\ SlotBack(i) \in Slots /\ records[SlotBack(i)] \in Record
             /\ records[SlotBack(i)] # Blank
             /\ records'[SlotBack(i)].run = records[SlotBack(i)].run
             /\ records'[SlotBack(i)].status =
                   IF records[SlotBack(i)].run = r THEN status
                   ELSE records[SlotBack(i)].status
             /\ records[SlotBack(i)].run = r => records[SlotBack(i)].status = "running"
  <2>1. SlotBack(i) \in Slots /\ records[SlotBack(i)] \in Record
        /\ records[SlotBack(i)] # Blank
    BY <1>0, Listed, RecordTypes
  <2>2. records[SlotBack(i)].run = r => records[SlotBack(i)].status = "running"
    BY <1>2, <2>1 DEF IInv, RecordsTruthful
  <2> QED  BY <2>1, <2>2, EndRecords
<1>5. Listing' = [i \in DOMAIN Listing |->
                    IF Listing[i].run = r
                    THEN [Listing[i] EXCEPT !.status = status] ELSE Listing[i]]
  <2>1. ASSUME NEW e \in Entries
        PROVE  [e EXCEPT !.status = status] = [run |-> e.run, status |-> status]
    BY <2>1 DEF Entries
  <2>2. ASSUME NEW i \in 1 .. Count
        PROVE  [run |-> records'[SlotBack(i)].run, status |-> records'[SlotBack(i)].status]
                 = IF Listing[i].run = r
                   THEN [Listing[i] EXCEPT !.status = status] ELSE Listing[i]
    <3>1. Listing[i] = Entry(SlotBack(i)) /\ Listing[i] \in Entries
      BY <1>1, <1>4, RecordTypes DEF Entry, Entries
    <3>2. [Listing[i] EXCEPT !.status = status] = [run |-> Listing[i].run, status |-> status]
      BY <2>1, <3>1
    <3> QED  BY <1>4, <3>1, <3>2 DEF Entry
  <2> QED  BY <1>1, <1>3, <2>2
<1>6. CASE \E i \in 1 .. Count : records[SlotBack(i)].run = r
  <2>1. \E i \in DOMAIN Listing : Listing[i].run = r /\ Listing[i].status = "running"
    BY <1>1, <1>4, <1>6 DEF Entry
  <2> QED  BY <1>5, <2>1 DEF Log!Finish
<1>7. CASE \A i \in 1 .. Count : records[SlotBack(i)].run # r
  BY <1>1, <1>3, <1>4, <1>7 DEF Entry
<1> QED  BY <1>6, <1>7

(* Listing all executions reads a log of the latest of them, each running  *)
(* until its own end, wherever the ring stands and whatever it has evicted *)
(* (requests that carry a request ID of their own apart).                  *)
THEOREM ListsTheLog == ASSUME ~ Inherited PROVE Spec => LogSpec
<1>1. Init => Log!Init
  <2> SUFFICES ASSUME Init PROVE Log!Init
    OBVIOUS
  <2>1. TypeOK /\ Filled /\ Count = 0
    BY InitTypes, FilledInit DEF TInv, Init, StoreInit, Count
  <2>2. Listing \in Seq(Entries) /\ Len(Listing) = 0
    BY <2>1, ListingType DEF IsListing
  <2>3. Listing = <<>>
    BY <2>2, EmptySeq, SeqEqual
  <2> QED  BY <2>3 DEF Log!Init
<1>2. IInv /\ TInv /\ Filled /\ (IInv /\ TInv /\ Filled)' /\ [Next]_vars => [Log!Next]_Listing
  <2> SUFFICES ASSUME IInv, TInv, Filled, IInv', Filled', [Next]_vars
               PROVE  [Log!Next]_Listing
    OBVIOUS
  <2>0. TypeOK'
    BY DEF IInv
  <2>1. ASSUME NEW r \in Runs, NEW id \in IDs, Dispatch(r, id) PROVE [Log!Next]_Listing
    BY <2>0, <2>1, DispatchLogged DEF Log!Next
  <2>2. ASSUME NEW r \in Runs, NEW status \in Finished, End(r, status)
        PROVE  [Log!Next]_Listing
    BY <2>0, <2>2, EndLogged DEF Log!Next, Log!Outcomes, Finished
  <2>3. CASE UNCHANGED vars
    BY <2>3 DEF vars, Listing, List, SlotBack
  <2> QED  BY <2>1, <2>2, <2>3 DEF Next
<1> QED
  BY <1>1, <1>2, IInvInit, IInvNext, FilledInit, FilledNext, PTL
  DEF Spec, LogSpec, Log!Spec

-----------------------------------------------------------------------------
LEMMA CacheInitType == CacheInit => CacheTypeOK
BY DEF CacheInit, DedupInit, CacheTypeOK, DedupTypeOK

(* Types are kept by every step. *)
LEMMA CacheNextType == CacheTypeOK /\ [CacheNext]_cacheVars => CacheTypeOK'
<1> SUFFICES ASSUME CacheTypeOK, [CacheNext]_cacheVars
             PROVE  CacheTypeOK'
  OBVIOUS
<1>1. ASSUME NEW id \in RequestIDs, NEW window \in Windows, IsDuplicate(id, window)
      PROVE  CacheTypeOK'
  BY <1>1, WindowsAssumption DEF IsDuplicate, Note, Seen, CacheTypeOK, DedupTypeOK
<1>2. CASE CleanupTick
  BY <1>2 DEF CleanupTick, Cleanup, CacheTypeOK, DedupTypeOK
<1>3. CASE StopLoop
  BY <1>3 DEF StopLoop, CacheTypeOK, DedupTypeOK
<1>4. CASE Tick
  BY <1>4 DEF Tick, CacheTypeOK, DedupTypeOK
<1>5. CASE UNCHANGED cacheVars
  BY <1>5 DEF cacheVars, CacheTypeOK, DedupTypeOK
<1> QED  BY <1>1, <1>2, <1>3, <1>4, <1>5 DEF CacheNext

(* The clock, the cache and the answers are well typed. *)
THEOREM CacheTypeCorrect == CacheSpec => []CacheTypeOK
BY CacheInitType, CacheNextType, PTL DEF CacheSpec

-----------------------------------------------------------------------------
(* The mapped state: how long each ID is still turned away. *)
Left == [id \in RequestIDs |-> TimeLeft(id)]

(* The time left is a number, positive as long as the ID is turned away. *)
LEMMA LeftValues ==
    ASSUME CacheTypeOK, NEW id \in RequestIDs
    PROVE  /\ Left[id] \in Nat
           /\ Left[id] > 0 <=> Seen(id)
BY DEF Left, TimeLeft, Seen, CacheTypeOK, DedupTypeOK

(* A call of IsDuplicate is an answer of OncePerWindow. *)
LEMMA IsDuplicateStep ==
    ASSUME CacheTypeOK, NEW id \in RequestIDs, NEW window \in Windows, IsDuplicate(id, window)
    PROVE  Promise!LetThrough(id, window) \/ Promise!TurnAway(id)
<1> USE DEF Left
<1>1. CASE Seen(id)
  <2>1. entries' = entries /\ now' = now
    BY <1>1 DEF IsDuplicate
  <2>2. Left' = Left
    BY <2>1 DEF TimeLeft, Seen
  <2>3. Promise!TurnAway(id)
    BY <1>1, <2>2, LeftValues DEF Promise!TurnAway, IsDuplicate, NoVerdict
  <2> QED  BY <2>3
<1>2. CASE ~ Seen(id)
  <2>1. entries' = [entries EXCEPT ![id] = now + window] /\ now' = now
    BY <1>2 DEF IsDuplicate, Note
  <2>2. Left[id] = 0
    BY <1>2 DEF TimeLeft
  <2>3. Left' = [Left EXCEPT ![id] = window]
    <3>1. ASSUME NEW i \in RequestIDs, i # id
          PROVE  TimeLeft(i)' = TimeLeft(i)
      BY <2>1, <3>1 DEF TimeLeft, Seen, CacheTypeOK, DedupTypeOK
    <3>2. TimeLeft(id)' = window
      BY <2>1, WindowsAssumption DEF TimeLeft, Seen, CacheTypeOK, DedupTypeOK, Absent
    <3> QED  BY <3>1, <3>2
  <2>4. verdict' = [id |-> id, duplicate |-> FALSE]
    <3>1. Seen(id) = FALSE
      BY <1>2 DEF Seen
    <3> QED  BY <3>1 DEF IsDuplicate
  <2>5. Promise!LetThrough(id, window)
    BY <2>2, <2>3, <2>4 DEF Promise!LetThrough
  <2> QED  BY <2>5
<1> QED  BY <1>1, <1>2

(* Cleanup deletes only entries that no longer turn anything away. *)
LEMMA CleanupStep ==
    ASSUME CacheTypeOK, CleanupTick
    PROVE  Left' = Left /\ verdict' = verdict
BY DEF CleanupTick, Cleanup, Stale, Left, TimeLeft, Seen, CacheTypeOK, DedupTypeOK, Absent

(* A unit of time passes for the promise as well. *)
LEMMA TickStep ==
    ASSUME CacheTypeOK, Tick
    PROVE  Promise!Pass
<1>1. Left' = [id \in RequestIDs |-> IF Left[id] = 0 THEN 0 ELSE Left[id] - 1]
  BY DEF Tick, Left, TimeLeft, Seen, CacheTypeOK, DedupTypeOK, Absent
<1> QED  BY <1>1 DEF Promise!Pass, Tick, Left

(* The cache with its cleanup loop implements OncePerWindow: no ID is let  *)
(* through twice within a window, none is turned away outside of one.      *)
THEOREM KeepsPromise == CacheSpec => PromiseSpec
<1>1. CacheInit => Promise!Init
  BY DEF CacheInit, DedupInit, Promise!Init, TimeLeft, Seen, Absent,
         NoVerdict, Promise!NoVerdict
<1>2. CacheTypeOK /\ [CacheNext]_cacheVars => [Promise!Next]_<<Left, verdict>>
  <2> SUFFICES ASSUME CacheTypeOK, [CacheNext]_cacheVars
               PROVE  [Promise!Next]_<<Left, verdict>>
    OBVIOUS
  <2>1. ASSUME NEW id \in RequestIDs, NEW window \in Windows, IsDuplicate(id, window)
        PROVE  Promise!Next
    BY <2>1, IsDuplicateStep DEF Promise!Next
  <2>2. CASE CleanupTick
    BY <2>2, CleanupStep
  <2>3. CASE StopLoop
    BY <2>3 DEF StopLoop, Left, TimeLeft, Seen
  <2>4. CASE Tick
    BY <2>4, TickStep DEF Promise!Next
  <2>5. CASE UNCHANGED cacheVars
    BY <2>5 DEF cacheVars, Left, TimeLeft, Seen
  <2> QED  BY <2>1, <2>2, <2>3, <2>4, <2>5 DEF CacheNext
<1> QED
  BY <1>1, <1>2, CacheTypeCorrect, PTL DEF CacheSpec, PromiseSpec, Promise!Spec, Left

=============================================================================
