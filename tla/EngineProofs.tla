---------------------------- MODULE EngineProofs ----------------------------
(***************************************************************************)
(* What holds of the engine for every number of requests, every set of     *)
(* config lists a reload may install, every semaphore size and every       *)
(* interleaving.                                                           *)
(***************************************************************************)
EXTENDS Engine, FiniteSetTheorems, TLAPS

(* A handler past the scan has a task, one past its arrival a request. *)
Chosen == Holding \cup {"acquire", "release", "leave"}

Settled ==
    \A h \in Handlers :
        /\ pc[h] # "idle" => req[h] \in Requests
        /\ pc[h] \in Chosen => task[h] \in Tasks

IndexWritten ==
    \A id \in IDs : index[id] # Store!NoSlot => records[index[id]] # Store!Blank

TInv == TypeOK /\ Settled /\ IndexWritten

(* The key under which a task is marked is one of Keys. *)
LEMMA TaskKeys == ASSUME NEW t \in Tasks PROVE t.key \in Keys
BY DEF Keys

(* A rule of a config makes a task. *)
LEMMA TaskOfType ==
    ASSUME NEW cfg \in AllConfigs, NEW i \in DOMAIN cfg.rules
    PROVE  TaskOf(cfg, cfg.rules[i]) \in Tasks
BY DEF Tasks, RulesOf

(* A list of configs is a sequence of them. *)
LEMMA ConfigsType ==
    ASSUME NEW list \in ConfigLists
    PROVE  list \in Seq(AllConfigs)
BY ConfigsAssumption

(* The store is not touched by most steps. *)
LEMMA StoreSame ==
    ASSUME Store!StoreTypeOK, IndexWritten, UNCHANGED storeVars
    PROVE  Store!StoreTypeOK' /\ IndexWritten'
BY DEF storeVars, Store!StoreTypeOK, IndexWritten

LEMMA DedupSame ==
    ASSUME Dedup!DedupTypeOK, UNCHANGED entries
    PROVE  Dedup!DedupTypeOK'
BY DEF Dedup!DedupTypeOK

(* What Add does to the record store keeps its type, eviction included. *)
LEMMA StoreAdd ==
    ASSUME Store!StoreTypeOK, IndexWritten,
           NEW id \in IDs, NEW h \in Handlers,
           Store!Add([id |-> id, run |-> h, status |-> "running"])
    PROVE  Store!StoreTypeOK' /\ IndexWritten'
<1> DEFINE rec == [id |-> id, run |-> h, status |-> "running"]
<1>1. rec \in Store!Record /\ rec # Store!Blank /\ rec.id = id
  BY StoreAssumption DEF Store!Record, Store!Statuses, Store!Blank
<1>2. Store!Add(rec)
  OBVIOUS
<1> HIDE DEF rec
<1>3. (next + 1) % Capacity \in Store!Slots
  BY StoreAssumption DEF Store!StoreTypeOK, Store!Slots
<1>4. Store!StoreTypeOK'
  BY <1>1, <1>2, <1>3 DEF Store!StoreTypeOK, Store!Add, Store!Evicted
<1>5. IndexWritten'
  BY <1>1, <1>2 DEF Store!StoreTypeOK, Store!Add, Store!Evicted, IndexWritten
<1> QED  BY <1>4, <1>5

(* Complete changes the status of a record that is there, or nothing. *)
LEMMA StoreComplete ==
    ASSUME Store!StoreTypeOK, IndexWritten,
           NEW id \in IDs, NEW status \in Store!Statuses,
           Store!Complete(id, status)
    PROVE  Store!StoreTypeOK' /\ IndexWritten'
<1>1. CASE index[id] = Store!NoSlot
  BY <1>1 DEF Store!StoreTypeOK, Store!Complete, IndexWritten
<1>2. CASE index[id] # Store!NoSlot
  <2> DEFINE s == index[id]
  <2>1. s \in Store!Slots /\ records[s] \in Store!Record
    BY <1>2 DEF Store!StoreTypeOK, IndexWritten
  <2>2. [records[s] EXCEPT !.status = status] \in Store!Record
    BY <2>1 DEF Store!Record
  <2>3. [records[s] EXCEPT !.status = status] # Store!Blank
    BY <2>2, StoreAssumption DEF Store!Record, Store!Blank
  <2>4. records' = [records EXCEPT ![s] = [records[s] EXCEPT !.status = status]]
    BY <1>2 DEF Store!Complete
  <2> QED
    BY <2>1, <2>2, <2>3, <2>4
       DEF Store!StoreTypeOK, Store!Complete, IndexWritten
<1> QED  BY <1>1, <1>2

LEMMA InitType == Init => TInv
<1> SUFFICES ASSUME Init PROVE TInv
  OBVIOUS
<1>1. 0 \in Store!Slots
  BY StoreAssumption DEF Store!Slots
<1>2. Store!StoreTypeOK /\ IndexWritten
  BY <1>1 DEF Init, Store!StoreInit, Store!StoreTypeOK, IndexWritten
<1>3. EngineTypeOK /\ Dedup!DedupTypeOK
  BY DEF Init, EngineTypeOK, Dedup!DedupInit, Dedup!DedupTypeOK
<1>4. HandlerTypeOK /\ Settled
  BY DEF Init, HandlerTypeOK, Settled, Places, Answers, Chosen, Holding
<1> QED  BY <1>2, <1>3, <1>4 DEF TInv, TypeOK

(* A handler moves on without changing its request or its task. *)
LEMMA MoveType ==
    ASSUME HandlerTypeOK, Settled, NEW h \in Handlers, NEW place \in Places,
           pc[h] # "idle",
           place \in Chosen => pc[h] \in Chosen,
           pc' = [pc EXCEPT ![h] = place],
           UNCHANGED <<req, todo, task>>,
           outcome' = outcome \/ \E how \in Outcomes : outcome' = [outcome EXCEPT ![h] = how],
           resp' = resp \/ \E answer \in Answers : resp' = [resp EXCEPT ![h] = answer]
    PROVE  HandlerTypeOK' /\ Settled'
<1>1. pc' \in [Handlers -> Places]
  BY DEF HandlerTypeOK
<1>2. outcome' \in [Handlers -> Outcomes \cup {"none"}]
  BY DEF HandlerTypeOK
<1>3. resp' \in [Handlers -> Answers]
  BY DEF HandlerTypeOK
<1>4. HandlerTypeOK'
  BY <1>1, <1>2, <1>3 DEF HandlerTypeOK
<1>5. Settled'
  BY DEF HandlerTypeOK, Settled
<1> QED  BY <1>4, <1>5

(* The steps of a handler that touch nothing but its own variables. *)
LEMMA OwnSteps ==
    ASSUME TInv, NEW h \in Handlers,
           \/ NoMatch(h) \/ Reject401(h) \/ Skip(h) \/ Duplicate(h) \/ Refuse(h)
           \/ NoSlotFree(h) \/ \E how \in Outcomes : Finish(h, how)
    PROVE  TInv'
<1>1. UNCHANGED shared
  BY DEF NoMatch, Reject401, Skip, Duplicate, Refuse, NoSlotFree, Finish
<1>2. EngineTypeOK' /\ Dedup!DedupTypeOK' /\ Store!StoreTypeOK' /\ IndexWritten'
  BY <1>1, StoreSame, DedupSame
     DEF shared, TInv, TypeOK, EngineTypeOK, policyVars, asyncVars
<1>3. CASE NoMatch(h) \/ Reject401(h) \/ Duplicate(h) \/ Refuse(h) \/ NoSlotFree(h)
  <2>1. UNCHANGED given
    BY <1>3 DEF NoMatch, Reject401, Duplicate, Refuse, NoSlotFree
  <2>2. CASE NoSlotFree(h)
    <3>1. pc[h] = "dispatch" /\ pc' = [pc EXCEPT ![h] = "give up"] /\ resp' = resp
      BY <2>2 DEF NoSlotFree, At, Goto
    <3>2. HandlerTypeOK' /\ Settled'
      BY <2>1, <3>1, MoveType DEF given, TInv, TypeOK, Places, Chosen, Holding
    <3> QED  BY <1>2, <3>2 DEF TInv, TypeOK
  <2>3. CASE NoMatch(h) \/ Reject401(h) \/ Duplicate(h) \/ Refuse(h)
    <3>1. pc[h] \in {"scan", "acquire"} /\ pc' = [pc EXCEPT ![h] = "done"]
      BY <2>3 DEF NoMatch, Reject401, Duplicate, Refuse, Respond, At, Goto
    <3>2. \E answer \in Answers : resp' = [resp EXCEPT ![h] = answer]
      BY <2>3 DEF NoMatch, Reject401, Duplicate, Refuse, Respond, Answers
    <3>3. HandlerTypeOK' /\ Settled'
      BY <2>1, <3>1, <3>2, MoveType DEF given, TInv, TypeOK, Places, Chosen, Holding
    <3> QED  BY <1>2, <3>3 DEF TInv, TypeOK
  <2> QED  BY <1>3, <2>2, <2>3
<1>4. CASE Skip(h)
  <2>1. todo' \in [Handlers -> Seq(AllConfigs)]
    BY <1>4 DEF Skip, TInv, TypeOK, HandlerTypeOK
  <2> QED
    BY <1>2, <1>4, <2>1 DEF Skip, TInv, TypeOK, HandlerTypeOK, Settled
<1>5. CASE \E how \in Outcomes : Finish(h, how)
  <2>1. pc[h] = "run" /\ UNCHANGED <<req, todo, task>>
    BY <1>5 DEF Finish, At
  <2>2. PICK place \in {"complete", "unmark", "done"} : pc' = [pc EXCEPT ![h] = place]
    BY <1>5 DEF Finish, Respond, Goto
  <2>3. resp' = resp \/ resp' = [resp EXCEPT ![h] = "aborted"]
    BY <1>5 DEF Finish, Respond
  <2>4. \E how \in Outcomes : outcome' = [outcome EXCEPT ![h] = how]
    BY <1>5 DEF Finish
  <2>5. HandlerTypeOK' /\ Settled'
    BY <2>1, <2>2, <2>3, <2>4, MoveType DEF TInv, TypeOK, Places, Answers, Chosen, Holding
  <2> QED  BY <1>2, <2>5 DEF TInv, TypeOK
<1> QED  BY <1>2, <1>3, <1>4, <1>5 DEF TInv, TypeOK

LEMMA ArriveType ==
    ASSUME TInv, NEW h \in Handlers, NEW r \in Requests, Arrive(h, r)
    PROVE  TInv'
<1>1. EngineTypeOK' /\ Dedup!DedupTypeOK' /\ Store!StoreTypeOK' /\ IndexWritten'
  BY StoreSame, DedupSame
     DEF Arrive, shared, TInv, TypeOK, EngineTypeOK, policyVars, asyncVars
<1>2. configs \in Seq(AllConfigs)
  BY ConfigsType DEF TInv, TypeOK, EngineTypeOK
<1>3. todo' \in [Handlers -> Seq(AllConfigs)]
  <2>1. CASE r.target = AnyConfig
    BY <1>2, <2>1 DEF Arrive, TInv, TypeOK, HandlerTypeOK
  <2>2. CASE r.target # AnyConfig
    <3>1. PICK i \in Targeted(r.target) : todo' = [todo EXCEPT ![h] = <<configs[i]>>]
      BY <2>2 DEF Arrive
    <3>2. i \in DOMAIN configs
      BY DEF Targeted, First
    <3>3. <<configs[i]>> \in Seq(AllConfigs)
      BY <1>2, <3>2
    <3> QED  BY <3>1, <3>3 DEF TInv, TypeOK, HandlerTypeOK
  <2> QED  BY <2>1, <2>2
<1>4. HandlerTypeOK' /\ Settled'
  BY <1>3 DEF Arrive, Goto, At, TInv, TypeOK, HandlerTypeOK, Settled,
              Places, Chosen, Holding
<1> QED  BY <1>1, <1>4 DEF TInv, TypeOK

LEMMA MatchType ==
    ASSUME TInv, NEW h \in Handlers, Match(h)
    PROVE  TInv'
<1>1. EngineTypeOK' /\ Store!StoreTypeOK' /\ IndexWritten'
  BY StoreSame DEF Match, TInv, TypeOK, EngineTypeOK, policyVars, asyncVars
<1>2. Current(h) \in AllConfigs /\ req[h].id \in IDs
  BY RequestsAssumption
     DEF Match, Current, At, TInv, TypeOK, HandlerTypeOK, Settled
<1>3. Dedup!DedupTypeOK'
  <2>1. CASE Deduplicates(h)
    <3>1. now + Current(h).window \in Nat
      BY <1>2, ConfigsAssumption DEF TInv, TypeOK, EngineTypeOK
    <3> QED
      BY <1>2, <2>1, <3>1 DEF Match, Dedup!Note, Dedup!DedupTypeOK, TInv, TypeOK
  <2>2. CASE ~ Deduplicates(h)
    BY <2>2, DedupSame DEF Match, TInv, TypeOK
  <2> QED  BY <2>1, <2>2
<1>4. HandlerTypeOK' /\ Settled'
  <2>1. CASE Matching(h) = {}
    <3>1. todo' \in [Handlers -> Seq(AllConfigs)]
      <4>1. todo[h] \in Seq(AllConfigs) /\ todo[h] # <<>>
        BY DEF Match, TInv, TypeOK, HandlerTypeOK
      <4>2. Tail(todo[h]) \in Seq(AllConfigs)
        BY <4>1
      <4>3. todo' = [todo EXCEPT ![h] = Tail(todo[h])]
        BY <2>1 DEF Match
      <4> QED  BY <4>2, <4>3 DEF TInv, TypeOK, HandlerTypeOK
    <3> QED
      BY <2>1, <3>1 DEF Match, TInv, TypeOK, HandlerTypeOK, Settled
  <2>2. CASE Matching(h) # {}
    <3>1. PICK i \in First(Matching(h)) :
              task' = [task EXCEPT ![h] = TaskOf(Current(h), Current(h).rules[i])]
      BY <2>2 DEF Match
    <3>2. TaskOf(Current(h), Current(h).rules[i]) \in Tasks
      BY <1>2, TaskOfType DEF First, Matching
    <3> HIDE DEF TaskOf
    <3>3. pc' = [pc EXCEPT ![h] = "acquire"] /\ todo' = [todo EXCEPT ![h] = <<>>]
      BY <2>2 DEF Match, Goto
    <3>4. UNCHANGED <<req, outcome, resp>> /\ pc[h] = "scan"
      BY DEF Match, At
    <3>5. todo' \in [Handlers -> Seq(AllConfigs)] /\ pc' \in [Handlers -> Places]
      <4>1. <<>> \in Seq(AllConfigs) /\ "acquire" \in Places
        BY DEF Places
      <4> QED  BY <3>3, <4>1 DEF TInv, TypeOK, HandlerTypeOK
    <3>6. HandlerTypeOK'
      BY <3>1, <3>2, <3>4, <3>5 DEF TInv, TypeOK, HandlerTypeOK
    <3>7. Settled'
      BY <3>1, <3>2, <3>3, <3>4 DEF TInv, TypeOK, HandlerTypeOK, Settled
    <3> QED  BY <3>6, <3>7
  <2> QED  BY <2>1, <2>2
<1> QED  BY <1>1, <1>3, <1>4 DEF TInv, TypeOK

LEMMA AcquireType ==
    ASSUME TInv, NEW h \in Handlers, Acquire(h)
    PROVE  TInv'
<1>1. Dedup!DedupTypeOK' /\ Store!StoreTypeOK' /\ IndexWritten'
  BY StoreSame, DedupSame DEF Acquire, TInv, TypeOK
<1>2. EngineTypeOK'
  BY DEF Acquire, TInv, TypeOK, EngineTypeOK, asyncVars
<1>3. HandlerTypeOK' /\ Settled'
  BY DEF Acquire, Goto, At, given, TInv, TypeOK, HandlerTypeOK, Settled,
         Places, Chosen, Holding
<1> QED  BY <1>1, <1>2, <1>3 DEF TInv, TypeOK

(* markDone and the counters of the semaphore and the WaitGroup. *)
LEMMA CounterSteps ==
    ASSUME TInv, NEW h \in Handlers,
           \/ GiveUp(h) \/ Unmark(h) \/ TakeSlot(h)
           \/ Spawn(h) \/ ReleaseSlot(h) \/ LeaveWG(h)
    PROVE  TInv'
<1>1. Dedup!DedupTypeOK' /\ Store!StoreTypeOK' /\ IndexWritten'
  BY StoreSame, DedupSame
     DEF GiveUp, Unmark, TakeSlot, Spawn, ReleaseSlot, LeaveWG, TInv, TypeOK
<1>2. EngineTypeOK'
  <2>1. running' = running \/ \E k : running' = [running EXCEPT ![k] = FALSE]
    BY DEF GiveUp, Unmark, MarkDone, TakeSlot, Spawn, ReleaseSlot, LeaveWG, policyVars
  <2>2. running' \in [Keys -> BOOLEAN]
    BY <2>1 DEF TInv, TypeOK, EngineTypeOK
  <2>3. asyncSem' \in Int /\ asyncWG' \in Int
    <3>1. /\ asyncSem' \in {asyncSem, asyncSem + 1, asyncSem - 1}
          /\ asyncWG' \in {asyncWG, asyncWG + 1, asyncWG - 1}
      BY DEF GiveUp, Unmark, TakeSlot, Spawn, ReleaseSlot, LeaveWG, asyncVars
    <3> QED  BY <3>1 DEF TInv, TypeOK, EngineTypeOK
  <2>4. UNCHANGED <<now, configs, lastRun, began>>
    BY DEF GiveUp, Unmark, TakeSlot, Spawn, ReleaseSlot, LeaveWG, policyVars
  <2> QED  BY <2>2, <2>3, <2>4 DEF TInv, TypeOK, EngineTypeOK
<1>3. HandlerTypeOK' /\ Settled'
  <2>1. UNCHANGED given
    BY DEF GiveUp, Unmark, TakeSlot, Spawn, ReleaseSlot, LeaveWG
  <2>2. /\ pc[h] \in Chosen
        /\ \E place \in {"done", "release", "record", "run", "leave"} :
              pc' = [pc EXCEPT ![h] = place]
    BY DEF GiveUp, Unmark, TakeSlot, Spawn, ReleaseSlot, LeaveWG,
           Respond, Goto, At, Chosen, Holding
  <2>3. resp' = resp \/ \E answer \in Answers : resp' = [resp EXCEPT ![h] = answer]
    BY DEF GiveUp, Unmark, TakeSlot, Spawn, ReleaseSlot, LeaveWG, Respond, Answers
  <2> QED
    BY <2>1, <2>2, <2>3, MoveType DEF given, TInv, TypeOK, Places, Chosen, Holding
<1> QED  BY <1>1, <1>2, <1>3 DEF TInv, TypeOK

LEMMA RecordSteps ==
    ASSUME TInv, NEW h \in Handlers, AddRecord(h) \/ CompleteRecord(h)
    PROVE  TInv'
<1>1. Dedup!DedupTypeOK' /\ EngineTypeOK'
  BY DedupSame DEF AddRecord, CompleteRecord, TInv, TypeOK, EngineTypeOK,
                   policyVars, asyncVars
<1>2. req[h].id \in IDs
  BY RequestsAssumption DEF AddRecord, CompleteRecord, At, TInv, Settled
<1>3. Store!StoreTypeOK' /\ IndexWritten'
  <2>1. CASE AddRecord(h)
    BY <1>2, <2>1, StoreAdd DEF AddRecord, TInv, TypeOK
  <2>2. CASE CompleteRecord(h)
    <3>1. PICK status \in Store!Statuses : Store!Complete(req[h].id, status)
      BY <2>2 DEF CompleteRecord, Store!Statuses, Store!Finished
    <3> QED  BY <1>2, <3>1, StoreComplete DEF TInv, TypeOK
  <2> QED  BY <2>1, <2>2
<1>4. HandlerTypeOK' /\ Settled'
  BY DEF AddRecord, CompleteRecord, Goto, At, given, TInv, TypeOK, HandlerTypeOK,
         Settled, Places, Chosen, Holding
<1> QED  BY <1>1, <1>3, <1>4 DEF TInv, TypeOK

(* Reload, cleanup and the clock leave the handlers alone. *)
LEMMA OtherSteps ==
    ASSUME TInv,
           \/ \E list \in ConfigLists : UpdateConfigs(list)
           \/ DedupCleanup \/ Tick \/ UNCHANGED vars
    PROVE  TInv'
<1>1. UNCHANGED <<handlerVars, storeVars>>
  BY DEF UpdateConfigs, DedupCleanup, Tick, vars, shared
<1>2. Store!StoreTypeOK' /\ IndexWritten'
  BY <1>1, StoreSame DEF TInv, TypeOK
<1>3. HandlerTypeOK' /\ Settled'
  BY <1>1 DEF handlerVars, given, TInv, TypeOK, HandlerTypeOK, Settled
<1>4. EngineTypeOK'
  BY DEF UpdateConfigs, DedupCleanup, Tick, vars, shared, policyVars, asyncVars,
         TInv, TypeOK, EngineTypeOK
<1>5. Dedup!DedupTypeOK'
  BY DEF UpdateConfigs, DedupCleanup, Tick, vars, shared, TInv, TypeOK,
         Dedup!DedupTypeOK, Dedup!Cleanup
<1> QED  BY <1>2, <1>3, <1>4, <1>5 DEF TInv, TypeOK

(* TInv is kept by every step of the engine. *)
LEMMA NextType == TInv /\ [Next]_vars => TInv'
<1> SUFFICES ASSUME TInv, [Next]_vars
             PROVE  TInv'
  OBVIOUS
<1>1. ASSUME NEW h \in Handlers, Step(h)
      PROVE  TInv'
  BY <1>1, OwnSteps, MatchType, AcquireType, CounterSteps, RecordSteps DEF Step
<1>2. ASSUME NEW h \in Handlers, NEW r \in Requests, Arrive(h, r)
      PROVE  TInv'
  BY <1>2, ArriveType
<1> QED  BY <1>1, <1>2, OtherSteps DEF Next

(* The engine's maps, counters, records and handlers are well typed. *)
THEOREM TypeCorrect == Spec => []TypeOK
<1>1. TInv => TypeOK
  BY DEF TInv
<1> QED  BY InitType, NextType, <1>1, PTL DEF Spec

-----------------------------------------------------------------------------
(***************************************************************************)
(* The block policy.  A handler holds its key from tryAcquire to markDone. *)
(* The inductive fact behind mutual exclusion is that a held key is marked *)
(* running; it fails for a key that also knows other policies, because     *)
(* markDone clears the mark whoever else holds the key.                    *)
(***************************************************************************)
HeldIsRunning ==
    \A k \in BlockKeys : \A h \in Handlers : Holds(h, k) => running[k]

AbortedIsDone == \A h \in Handlers : resp[h] = "aborted" => pc[h] = "done"

BInv == BlockExclusive /\ HeldIsRunning
RInv == RunningHasHolder /\ AbortedIsDone

(* The marks and the holders, as far as one handler's step concerns them.  *)
Others(h) ==
    \A g \in Handlers \ {h} : pc'[g] = pc[g] /\ task'[g] = task[g] /\ resp'[g] = resp[g]

(* Steps that leave every mark and every holder as it is. *)
LEMMA KeepingSteps ==
    ASSUME TInv, NEW h \in Handlers,
           \/ \E r \in Requests : Arrive(h, r)
           \/ NoMatch(h) \/ Reject401(h) \/ Skip(h) \/ Duplicate(h) \/ Match(h)
           \/ Refuse(h) \/ TakeSlot(h) \/ NoSlotFree(h) \/ AddRecord(h) \/ Spawn(h)
           \/ CompleteRecord(h) \/ ReleaseSlot(h) \/ LeaveWG(h)
    PROVE  /\ running' = running
           /\ Others(h)
           /\ pc[h] \in Holding <=> pc'[h] \in Holding
           /\ pc[h] \in Holding => task'[h] = task[h]
           /\ pc[h] # "done" /\ resp'[h] \in {resp[h]} \cup (Answers \ {"aborted"})
<1> USE DEF TInv, TypeOK, HandlerTypeOK, Others, Holding, Answers, At, Goto
<1>1. CASE \E r \in Requests : Arrive(h, r)
  BY <1>1 DEF Arrive, shared, policyVars
<1>2. CASE NoMatch(h) \/ Reject401(h) \/ Duplicate(h) \/ Refuse(h)
  BY <1>2 DEF NoMatch, Reject401, Duplicate, Refuse, Respond, shared, given, policyVars
<1>3. CASE Skip(h) \/ Match(h)
  BY <1>3 DEF Skip, Match, shared, policyVars
<1>4. CASE TakeSlot(h) \/ NoSlotFree(h) \/ AddRecord(h) \/ Spawn(h)
  BY <1>4 DEF TakeSlot, NoSlotFree, AddRecord, Spawn, shared, given, policyVars
<1>5. CASE CompleteRecord(h) \/ ReleaseSlot(h) \/ LeaveWG(h)
  BY <1>5 DEF CompleteRecord, ReleaseSlot, LeaveWG, shared, given, policyVars
<1> QED  BY <1>1, <1>2, <1>3, <1>4, <1>5

(* A step of one handler that neither marks nor unmarks, and leaves it as  *)
(* much a holder as it was, keeps both invariants of the marks.            *)
LEMMA KeepingInv ==
    ASSUME NEW h \in Handlers, running' = running, Others(h),
           pc[h] \in Holding <=> pc'[h] \in Holding,
           pc[h] \in Holding => task'[h] = task[h],
           pc[h] # "done", resp'[h] \in {resp[h]} \cup (Answers \ {"aborted"})
    PROVE  (BInv => BInv') /\ (RInv => RInv')
<1>1. ASSUME NEW g \in Handlers, NEW k PROVE Holds(g, k)' <=> Holds(g, k)
  BY DEF Holds, Others
<1>2. BInv => BInv'
  BY <1>1 DEF BInv, BlockExclusive, HeldIsRunning
<1>3. ASSUME RInv PROVE RInv'
  <2>1. AbortedIsDone'
    BY <1>3 DEF RInv, AbortedIsDone, Others
  <2>2. ASSUME NEW k, Leaked(k) PROVE Leaked(k)'
    BY <1>3, <2>2 DEF Leaked, RInv, AbortedIsDone, Others
  <2>3. RunningHasHolder'
    BY <1>1, <1>3, <2>2 DEF RInv, RunningHasHolder
  <2> QED  BY <2>1, <2>3 DEF RInv
<1> QED  BY <1>2, <1>3

(* tryAcquire: under block the key was not marked, hence not held. *)
LEMMA AcquireInv ==
    ASSUME TInv, NEW h \in Handlers, Acquire(h)
    PROVE  (BInv => BInv') /\ (RInv => RInv')
<1> DEFINE key == task[h].key
<1>1. /\ pc[h] = "acquire" /\ task[h] \in Tasks /\ key \in Keys
      /\ pc'[h] \in {"dispatch", "run"} /\ task' = task /\ resp' = resp
      /\ \A g \in Handlers \ {h} : pc'[g] = pc[g]
      /\ running' = [running EXCEPT ![key] = TRUE]
  BY TaskKeys DEF Acquire, At, Goto, given, TInv, TypeOK, HandlerTypeOK, Settled, Chosen
<1>2. running'[key] /\ \A k \in Keys : k # key => running'[k] = running[k]
  BY <1>1 DEF TInv, TypeOK, EngineTypeOK
<1>3. /\ Holds(h, key)'
      /\ \A k \in Keys : Holds(h, k)' => k = key
      /\ \A g \in Handlers \ {h}, k \in Keys : Holds(g, k)' <=> Holds(g, k)
  BY <1>1 DEF Holds, Holding
<1>4. ASSUME BInv PROVE BInv'
  <2>1. key \in BlockKeys => \A g \in Handlers : ~ Holds(g, key)
    <3> SUFFICES ASSUME key \in BlockKeys, NEW g \in Handlers, Holds(g, key)
                 PROVE  FALSE
      OBVIOUS
    <3>1. task[h].exec.policy = "block"
      BY <1>1 DEF BlockKeys
    <3>2. ~ running[key]
      BY <3>1 DEF Acquire, Busy
    <3> QED  BY <1>4, <3>2 DEF BInv, HeldIsRunning
  <2>2. BlockKeys \subseteq Keys
    BY DEF BlockKeys
  <2>3. HeldIsRunning'
    BY <1>2, <1>3, <1>4, <2>2 DEF BInv, HeldIsRunning
  <2>4. BlockExclusive'
    BY <1>3, <1>4, <2>1, <2>2 DEF BInv, BlockExclusive
  <2> QED  BY <2>3, <2>4 DEF BInv
<1>5. ASSUME RInv PROVE RInv'
  <2>1. AbortedIsDone'
    BY <1>1, <1>5 DEF RInv, AbortedIsDone
  <2>2. ASSUME NEW k \in Keys, Leaked(k) PROVE Leaked(k)'
    BY <1>1, <2>2 DEF Leaked
  <2>3. ASSUME NEW k \in Keys, NEW g \in Handlers, Holds(g, k) PROVE Holds(g, k)'
    BY <1>1, <1>3, <2>3 DEF Holds, Holding
  <2>4. ASSUME NEW k \in Keys, running'[k]
        PROVE  (\E g \in Handlers : Holds(g, k)') \/ Leaked(k)'
    <3>1. CASE k = key
      BY <1>1, <3>1 DEF Holds, Holding
    <3>2. CASE k # key
      <4>1. running[k]
        BY <1>2, <2>4, <3>2
      <4>2. CASE Leaked(k)
        BY <2>2, <4>2
      <4>3. CASE \E g \in Handlers : Holds(g, k)
        BY <2>3, <4>3
      <4> QED  BY <1>5, <4>1, <4>2, <4>3 DEF RInv, RunningHasHolder
    <3> QED  BY <3>1, <3>2
  <2>5. RunningHasHolder'
    BY <2>4 DEF RunningHasHolder
  <2> QED  BY <2>1, <2>5 DEF RInv
<1> QED  BY <1>4, <1>5

(* markDone: the handler gives its key back and takes the mark away. *)
LEMMA MarkDoneInv ==
    ASSUME TInv, NEW h \in Handlers, GiveUp(h) \/ Unmark(h)
    PROVE  (BInv => BInv') /\ (RInv => RInv')
<1> DEFINE key == task[h].key
<1>1. /\ pc[h] \in {"give up", "unmark"} /\ task[h] \in Tasks /\ key \in Keys
      /\ pc'[h] \in {"done", "release"} /\ task' = task
      /\ resp'[h] \in {resp[h], "limit reached", "ok"}
      /\ \A g \in Handlers \ {h} : pc'[g] = pc[g] /\ resp'[g] = resp[g]
      /\ running' = [running EXCEPT ![key] = FALSE]
  BY TaskKeys DEF GiveUp, Unmark, MarkDone, At, Respond, Goto, given,
                  TInv, TypeOK, HandlerTypeOK, Settled, Chosen, Holding
<1>2. ~ running'[key] /\ \A k \in Keys : k # key => running'[k] = running[k]
  BY <1>1 DEF TInv, TypeOK, EngineTypeOK
<1>3. /\ Holds(h, key)
      /\ \A k \in Keys : Holds(h, k) => k = key
      /\ \A k \in Keys : ~ Holds(h, k)'
      /\ \A g \in Handlers \ {h}, k \in Keys : Holds(g, k)' <=> Holds(g, k)
  BY <1>1 DEF Holds, Holding
<1>4. ASSUME BInv PROVE BInv'
  <2>1. BlockKeys \subseteq Keys
    BY DEF BlockKeys
  <2>2. HeldIsRunning'
    BY <1>2, <1>3, <1>4, <2>1 DEF BInv, BlockExclusive, HeldIsRunning
  <2>3. BlockExclusive'
    BY <1>3, <1>4, <2>1 DEF BInv, BlockExclusive
  <2> QED  BY <2>2, <2>3 DEF BInv
<1>5. ASSUME RInv PROVE RInv'
  <2>1. AbortedIsDone'
    BY <1>1, <1>5 DEF RInv, AbortedIsDone
  <2>2. ASSUME NEW k \in Keys, Leaked(k) PROVE Leaked(k)'
    BY <1>1, <1>5, <2>2 DEF Leaked, RInv, AbortedIsDone
  <2>3. RunningHasHolder'
    BY <1>2, <1>3, <1>5, <2>2 DEF RInv, RunningHasHolder
  <2> QED  BY <2>1, <2>3 DEF RInv
<1> QED  BY <1>4, <1>5

(* The end of the actions: the key stays held, or leaks with a panic. *)
LEMMA FinishInv ==
    ASSUME TInv, NEW h \in Handlers, NEW how \in Outcomes, Finish(h, how)
    PROVE  (BInv => BInv') /\ (RInv => RInv')
<1>1. /\ pc[h] = "run" /\ task' = task /\ running' = running
      /\ \A g \in Handlers \ {h} : pc'[g] = pc[g] /\ resp'[g] = resp[g]
      /\ \/ pc'[h] \in {"complete", "unmark"} /\ resp'[h] = resp[h]
         \/ pc'[h] = "done" /\ resp'[h] = "aborted"
  BY DEF Finish, At, Respond, Goto, shared, policyVars, TInv, TypeOK, HandlerTypeOK
<1>2. ASSUME NEW g \in Handlers, NEW k
      PROVE  /\ Holds(g, k)' => Holds(g, k)
             /\ Holds(g, k) => Holds(g, k)' \/ Leaked(k)'
  BY <1>1 DEF Holds, Holding, Leaked
<1>3. BInv => BInv'
  BY <1>1, <1>2 DEF BInv, BlockExclusive, HeldIsRunning
<1>4. ASSUME RInv PROVE RInv'
  <2>1. AbortedIsDone'
    BY <1>1, <1>4 DEF RInv, AbortedIsDone
  <2>2. ASSUME NEW k, Leaked(k) PROVE Leaked(k)'
    BY <1>1, <1>4, <2>2 DEF Leaked, RInv, AbortedIsDone
  <2>3. RunningHasHolder'
    BY <1>1, <1>2, <1>4, <2>2 DEF RInv, RunningHasHolder
  <2> QED  BY <2>1, <2>3 DEF RInv
<1> QED  BY <1>3, <1>4

(* A reload, a cleanup and the clock move no handler. *)
LEMMA StandingInv ==
    ASSUME \/ \E list \in ConfigLists : UpdateConfigs(list)
           \/ DedupCleanup \/ Tick \/ UNCHANGED vars
    PROVE  (BInv => BInv') /\ (RInv => RInv')
<1>1. UNCHANGED <<pc, task, resp, running>>
  BY DEF UpdateConfigs, DedupCleanup, Tick, vars, shared, policyVars, handlerVars, given
<1> QED
  BY <1>1 DEF BInv, RInv, BlockExclusive, HeldIsRunning, RunningHasHolder,
              AbortedIsDone, Holds, Leaked

(* The marks and their holders agree after every step. *)
LEMMA NextHolders == TInv /\ [Next]_vars => (BInv => BInv') /\ (RInv => RInv')
<1> SUFFICES ASSUME TInv, [Next]_vars
             PROVE  (BInv => BInv') /\ (RInv => RInv')
  OBVIOUS
<1>1. ASSUME NEW h \in Handlers, Step(h)
      PROVE  (BInv => BInv') /\ (RInv => RInv')
  BY <1>1, KeepingSteps, KeepingInv, AcquireInv, MarkDoneInv, FinishInv DEF Step
<1>2. ASSUME NEW h \in Handlers, NEW r \in Requests, Arrive(h, r)
      PROVE  (BInv => BInv') /\ (RInv => RInv')
  BY <1>2, KeepingSteps, KeepingInv
<1> QED  BY <1>1, <1>2, StandingInv DEF Next

LEMMA InitHolders == Init => BInv /\ RInv
BY DEF Init, BInv, RInv, BlockExclusive, HeldIsRunning, RunningHasHolder,
       AbortedIsDone, Holds, Holding, Leaked

(* Mutual exclusion: no two executions of a key that every config list     *)
(* blocks ever overlap, synchronous or in the background, whatever is      *)
(* reloaded meanwhile.                                                     *)
THEOREM MutualExclusion == Spec => []BlockExclusive
<1>1. BInv => BlockExclusive
  BY DEF BInv
<1> QED  BY InitType, NextType, InitHolders, NextHolders, <1>1, PTL DEF Spec

(* Whatever the policies, a mark means that some execution has not ended,  *)
(* or panicked on the synchronous path: a 409 is never given for nothing.  *)
THEOREM MarkedHasHolder == Spec => []RunningHasHolder
<1>1. RInv => RunningHasHolder
  BY DEF RInv
<1> QED  BY InitType, NextType, InitHolders, NextHolders, <1>1, PTL DEF Spec

-----------------------------------------------------------------------------
(***************************************************************************)
(* Slots and counts.  What asyncSem and asyncWG count are the background   *)
(* tasks between two of their steps; the inductive part is that only tasks *)
(* of an asynchronous config ever get to those steps.                      *)
(***************************************************************************)
AsyncOnly ==
    \A h \in Handlers :
        pc[h] \in {"dispatch", "record", "spawn", "complete", "release", "leave"}
        => task[h].async

AInv == AsyncAccounted /\ AsyncOnly

SlotSet == {h \in Handlers : HasSlot(h)}
BackgroundSet == {h \in Handlers : InBackground(h)}

(* The handlers with a slot, and with a background task, can be counted. *)
LEMMA FiniteHandlerSets ==
    /\ IsFiniteSet(SlotSet) /\ IsFiniteSet(BackgroundSet)
    /\ Cardinality(SlotSet) \in Nat /\ Cardinality(BackgroundSet) \in Nat
<1>1. IsFiniteSet(SlotSet) /\ IsFiniteSet(BackgroundSet)
  BY HandlersAssumption, FS_Subset DEF SlotSet, BackgroundSet
<1> QED  BY <1>1, FS_CardinalityType

(* What one handler's step does to the places the counters count. *)
LEMMA QuietSteps ==
    ASSUME TInv, AsyncOnly, NEW h \in Handlers,
           \/ \E r \in Requests : Arrive(h, r)
           \/ NoMatch(h) \/ Reject401(h) \/ Skip(h) \/ Duplicate(h) \/ Match(h)
           \/ Refuse(h) \/ Acquire(h) \/ NoSlotFree(h) \/ GiveUp(h) \/ AddRecord(h)
           \/ \E how \in Outcomes : Finish(h, how)
           \/ CompleteRecord(h) \/ Unmark(h)
    PROVE  UNCHANGED asyncVars /\ SlotSet' = SlotSet /\ BackgroundSet' = BackgroundSet
           /\ AsyncOnly'
<1> SUFFICES
      /\ UNCHANGED asyncVars
      /\ \A g \in Handlers : HasSlot(g)' <=> HasSlot(g)
      /\ \A g \in Handlers : InBackground(g)' <=> InBackground(g)
      /\ AsyncOnly'
  BY DEF SlotSet, BackgroundSet
<1> USE DEF TInv, TypeOK, HandlerTypeOK, HasSlot, InBackground, AsyncOnly, At, Goto
<1>1. CASE \E r \in Requests : Arrive(h, r)
  BY <1>1 DEF Arrive, shared, asyncVars
<1>2. CASE NoMatch(h) \/ Reject401(h) \/ Duplicate(h) \/ Refuse(h)
  BY <1>2 DEF NoMatch, Reject401, Duplicate, Refuse, Respond, shared, given, asyncVars
<1>3. CASE Skip(h) \/ Match(h)
  BY <1>3 DEF Skip, Match, shared, asyncVars
<1>4. CASE Acquire(h) \/ NoSlotFree(h) \/ GiveUp(h)
  BY <1>4 DEF Acquire, NoSlotFree, GiveUp, Respond, shared, given, asyncVars
<1>5. CASE AddRecord(h) \/ CompleteRecord(h) \/ Unmark(h)
  BY <1>5 DEF AddRecord, CompleteRecord, Unmark, Respond, shared, given, asyncVars
<1>6. CASE \E how \in Outcomes : Finish(h, how)
  BY <1>6 DEF Finish, Respond, shared, asyncVars
<1> QED  BY <1>1, <1>2, <1>3, <1>4, <1>5, <1>6

(* The four steps that take or give back a slot or a count move one        *)
(* handler into or out of the set that is counted.                         *)
LEMMA CountingSteps ==
    ASSUME TInv, AInv, NEW h \in Handlers,
           TakeSlot(h) \/ Spawn(h) \/ ReleaseSlot(h) \/ LeaveWG(h)
    PROVE  AInv'
<1> DEFINE S == SlotSet
           B == BackgroundSet
<1>1. /\ pc[h] \in {"dispatch", "spawn", "release", "leave"} /\ task[h].async
      /\ task' = task /\ \A g \in Handlers \ {h} : pc'[g] = pc[g]
      /\ pc'[h] \in {"record", "run", "leave", "done"}
  BY DEF TakeSlot, Spawn, ReleaseSlot, LeaveWG, At, Goto, given,
         AInv, AsyncOnly, TInv, TypeOK, HandlerTypeOK
<1>2. AsyncOnly'
  BY <1>1 DEF AInv, AsyncOnly
<1>3. /\ asyncSem = Cardinality(S) /\ asyncSem <= MaxAsync /\ asyncWG = Cardinality(B)
      /\ IsFiniteSet(S) /\ IsFiniteSet(B)
      /\ Cardinality(S) \in Nat /\ Cardinality(B) \in Nat
  BY FiniteHandlerSets DEF AInv, AsyncAccounted, SlotSet, BackgroundSet
<1> DEFINE Counted == /\ asyncSem' = Cardinality(SlotSet')
                      /\ asyncSem' <= MaxAsync
                      /\ asyncWG' = Cardinality(BackgroundSet')
<1>4. CASE TakeSlot(h)
  <2>1. pc[h] = "dispatch" /\ pc'[h] = "record" /\ asyncWG' = asyncWG
        /\ asyncSem' = asyncSem + 1 /\ asyncSem < MaxAsync
    BY <1>4 DEF TakeSlot, At, Goto, TInv, TypeOK, HandlerTypeOK
  <2>2. h \notin S /\ SlotSet' = S \cup {h} /\ BackgroundSet' = B
    BY <1>1, <2>1 DEF SlotSet, BackgroundSet, HasSlot, InBackground
  <2>3. Cardinality(S \cup {h}) = Cardinality(S) + 1
    BY <1>3, <2>2, FS_AddElement
  <2>4. asyncSem + 1 <= MaxAsync
    BY <1>3, <2>1, MaxAsyncAssumption
  <2> QED  BY <1>2, <1>3, <2>1, <2>2, <2>3, <2>4
              DEF AInv, AsyncAccounted, SlotSet, BackgroundSet
<1>5. CASE Spawn(h)
  <2>1. pc[h] = "spawn" /\ pc'[h] = "run" /\ asyncWG' = asyncWG + 1
        /\ asyncSem' = asyncSem
    BY <1>5 DEF Spawn, At, Goto, TInv, TypeOK, HandlerTypeOK
  <2>2. h \notin B /\ SlotSet' = S /\ BackgroundSet' = B \cup {h}
    BY <1>1, <2>1 DEF SlotSet, BackgroundSet, HasSlot, InBackground
  <2>3. Cardinality(B \cup {h}) = Cardinality(B) + 1
    BY <1>3, <2>2, FS_AddElement
  <2> QED  BY <1>2, <1>3, <2>1, <2>2, <2>3
              DEF AInv, AsyncAccounted, SlotSet, BackgroundSet
<1>6. CASE ReleaseSlot(h)
  <2>1. pc[h] = "release" /\ pc'[h] = "leave" /\ asyncWG' = asyncWG
        /\ asyncSem' = asyncSem - 1
    BY <1>6 DEF ReleaseSlot, At, Goto, TInv, TypeOK, HandlerTypeOK
  <2>2. h \in S /\ SlotSet' = S \ {h} /\ BackgroundSet' = B
    BY <1>1, <2>1 DEF SlotSet, BackgroundSet, HasSlot, InBackground
  <2>3. Cardinality(S \ {h}) = Cardinality(S) - 1
    BY <1>3, <2>2, FS_RemoveElement
  <2>4. asyncSem - 1 <= MaxAsync
    BY <1>3, MaxAsyncAssumption
  <2> QED  BY <1>2, <1>3, <2>1, <2>2, <2>3, <2>4
              DEF AInv, AsyncAccounted, SlotSet, BackgroundSet
<1>7. CASE LeaveWG(h)
  <2>1. pc[h] = "leave" /\ pc'[h] = "done" /\ asyncWG' = asyncWG - 1
        /\ asyncSem' = asyncSem
    BY <1>7 DEF LeaveWG, At, Goto, TInv, TypeOK, HandlerTypeOK
  <2>2. h \in B /\ SlotSet' = S /\ BackgroundSet' = B \ {h}
    BY <1>1, <2>1 DEF SlotSet, BackgroundSet, HasSlot, InBackground
  <2>3. Cardinality(B \ {h}) = Cardinality(B) - 1
    BY <1>3, <2>2, FS_RemoveElement
  <2> QED  BY <1>2, <1>3, <2>1, <2>2, <2>3
              DEF AInv, AsyncAccounted, SlotSet, BackgroundSet
<1> QED  BY <1>4, <1>5, <1>6, <1>7

(* The counters agree with the handlers after every step. *)
LEMMA NextCounters == TInv /\ AInv /\ [Next]_vars => AInv'
<1> SUFFICES ASSUME TInv, AInv, [Next]_vars
             PROVE  AInv'
  OBVIOUS
<1>1. ASSUME UNCHANGED asyncVars, SlotSet' = SlotSet, BackgroundSet' = BackgroundSet,
             AsyncOnly'
      PROVE  AInv'
  BY <1>1 DEF AInv, AsyncAccounted, SlotSet, BackgroundSet, asyncVars
<1>2. ASSUME NEW h \in Handlers, Step(h)
      PROVE  AInv'
  <2>1. CASE TakeSlot(h) \/ Spawn(h) \/ ReleaseSlot(h) \/ LeaveWG(h)
    BY <2>1, CountingSteps
  <2> QED  BY <1>1, <1>2, <2>1, QuietSteps DEF AInv, Step
<1>3. ASSUME NEW h \in Handlers, NEW r \in Requests, Arrive(h, r)
      PROVE  AInv'
  BY <1>1, <1>3, QuietSteps DEF AInv
<1>4. CASE \/ \E list \in ConfigLists : UpdateConfigs(list)
           \/ DedupCleanup \/ Tick \/ UNCHANGED vars
  <2>1. UNCHANGED <<pc, task, asyncSem, asyncWG>>
    BY <1>4 DEF UpdateConfigs, DedupCleanup, Tick, vars, shared, asyncVars,
                handlerVars, given
  <2> QED
    BY <1>1, <2>1 DEF AInv, AsyncOnly, SlotSet, BackgroundSet, HasSlot, InBackground,
                      asyncVars
<1> QED  BY <1>2, <1>3, <1>4 DEF Next

LEMMA InitCounters == Init => AInv
<1> SUFFICES ASSUME Init PROVE AInv
  OBVIOUS
<1>1. SlotSet = {} /\ BackgroundSet = {}
  BY DEF Init, SlotSet, BackgroundSet, HasSlot, InBackground
<1>2. asyncSem = 0 /\ asyncWG = 0 /\ 0 <= MaxAsync
  BY MaxAsyncAssumption DEF Init
<1>3. Cardinality(SlotSet) = 0 /\ Cardinality(BackgroundSet) = 0
  BY <1>1, FS_EmptySet
<1>4. AsyncAccounted
  BY <1>2, <1>3 DEF AsyncAccounted, SlotSet, BackgroundSet
<1>5. AsyncOnly
  BY DEF Init, AsyncOnly
<1> QED  BY <1>4, <1>5 DEF AInv

(* However the actions end, the semaphore and the WaitGroup count exactly  *)
(* the background tasks: a panic leaks no slot, and shutdown waits for all.*)
THEOREM SlotsAccounted == Spec => []AsyncAccounted
<1>1. AInv => AsyncAccounted
  BY DEF AInv
<1> QED  BY InitType, NextType, InitCounters, NextCounters, <1>1, PTL DEF Spec

-----------------------------------------------------------------------------
(***************************************************************************)
(* The promises of the engine to its callers that are about time and       *)
(* order: cooldowns, deduplication, the choice of the rule.                *)
(***************************************************************************)

(* Until tryAcquire lets it start. *)
Waiting == {"idle", "scan", "acquire"}

(***************************************************************************)
(* The steps but Match and Acquire, as far as the promises are concerned:  *)
(* the clock, the starts and the entries stay, and so do the request and   *)
(* the task of a handler that has them.                                    *)
(***************************************************************************)
PlainStep(h) ==
    \/ NoMatch(h) \/ Reject401(h) \/ Skip(h) \/ Duplicate(h)
    \/ Refuse(h) \/ TakeSlot(h) \/ NoSlotFree(h) \/ GiveUp(h) \/ AddRecord(h) \/ Spawn(h)
    \/ \E how \in Outcomes : Finish(h, how)
    \/ CompleteRecord(h) \/ Unmark(h) \/ ReleaseSlot(h) \/ LeaveWG(h)

(* The steps after the acquisition leave clocks, starts, the dedup cache   *)
(* and the tasks alone, and no handler goes back to where it was looking.  *)
LEMMA PlainSteps ==
    ASSUME TInv, NEW h \in Handlers, PlainStep(h)
    PROVE  /\ UNCHANGED <<now, lastRun, began, entries, req, task>>
           /\ pc' \in [Handlers -> Places]
           /\ \A g \in Handlers \ {h} : pc'[g] = pc[g]
           /\ pc[h] \notin {"idle", "scan"} => pc'[h] \notin Waiting
           /\ pc[h] # "idle" => pc'[h] # "idle"
<1> USE DEF TInv, TypeOK, HandlerTypeOK, Waiting, Places, At, Goto, Respond, given
<1>1. CASE NoMatch(h) \/ Reject401(h) \/ Skip(h) \/ Duplicate(h)
  BY <1>1 DEF NoMatch, Reject401, Skip, Duplicate, shared, policyVars
<1>2. CASE Refuse(h) \/ NoSlotFree(h) \/ GiveUp(h)
  BY <1>2 DEF Refuse, NoSlotFree, GiveUp, shared, policyVars
<1>3. CASE TakeSlot(h) \/ AddRecord(h) \/ Spawn(h)
  BY <1>3 DEF TakeSlot, AddRecord, Spawn, policyVars
<1>4. CASE \E how \in Outcomes : Finish(h, how)
  <2>1. /\ UNCHANGED <<now, lastRun, began, entries, req, task>>
        /\ pc[h] = "run"
        /\ \E place \in {"complete", "done", "unmark"} : pc' = [pc EXCEPT ![h] = place]
    BY <1>4 DEF Finish, shared, policyVars
  <2>2. pc \in [Handlers -> Places]
    OBVIOUS
  <2> QED  BY ONLY <2>1, <2>2 DEF Waiting, Places
<1>5. CASE CompleteRecord(h) \/ Unmark(h) \/ ReleaseSlot(h) \/ LeaveWG(h)
  BY <1>5 DEF CompleteRecord, Unmark, ReleaseSlot, LeaveWG, policyVars
<1> QED  BY <1>1, <1>2, <1>3, <1>4, <1>5 DEF PlainStep

-----------------------------------------------------------------------------
(***************************************************************************)
(* Cooldown.  A handler that was let start did so no later than the last   *)
(* start noted for its key, which is no later than now.                    *)
(***************************************************************************)
BeganPast ==
    \A h \in Handlers : began[h] # Never =>
        pc[h] \notin Waiting /\ task[h] \in Tasks
BeganNoted ==
    \A h \in Handlers : began[h] # Never => began[h] <= lastRun[task[h].key]
NotedByNow == \A k \in Keys : lastRun[k] <= now

CoolInv == BeganPast /\ BeganNoted /\ NotedByNow /\ CooldownSpaced

(* A step that starts nothing and notes no start keeps CoolInv. *)
LEMMA CoolSame ==
    ASSUME CoolInv, lastRun' = lastRun, began' = began, now <= now',
           now \in Nat, now' \in Nat, lastRun \in [Keys -> Nat \cup {Never}],
           began \in [Handlers -> Nat \cup {Never}],
           \A h \in Handlers : pc[h] \notin Waiting => pc'[h] \notin Waiting /\ task'[h] = task[h]
    PROVE  CoolInv'
<1>1. \A h \in Handlers : began[h] # Never => pc'[h] \notin Waiting /\ task'[h] = task[h]
  BY DEF CoolInv, BeganPast
<1>2. BeganPast' /\ BeganNoted'
  BY <1>1 DEF CoolInv, BeganPast, BeganNoted
<1>3. NotedByNow'
  <2> SUFFICES ASSUME NEW k \in Keys PROVE lastRun[k] <= now'
    BY DEF NotedByNow
  <2>1. lastRun[k] <= now /\ lastRun[k] \in Int
    BY DEF CoolInv, NotedByNow, Never
  <2> QED  BY <2>1
<1>4. CooldownSpaced'
  <2> SUFFICES ASSUME NEW g \in Handlers, NEW h \in Handlers, g # h,
                      task'[g].key = task'[h].key,
                      {task'[g].exec.policy, task'[h].exec.policy} = {"cooldown"},
                      Never < began[g] /\ began[g] <= began[h]
               PROVE  began[h] - began[g] >= task'[h].exec.cooldown
    BY DEF CooldownSpaced
  <2>1. began[g] # Never /\ began[h] # Never
    BY DEF Never
  <2> QED  BY <1>1, <2>1 DEF CoolInv, CooldownSpaced
<1> QED  BY <1>2, <1>3, <1>4 DEF CoolInv

(* tryAcquire lets a task start only when it is not cooling, and notes it. *)
LEMMA AcquireCool ==
    ASSUME TInv, CoolInv, NEW h \in Handlers, Acquire(h)
    PROVE  CoolInv'
<1> DEFINE key == task[h].key
<1>1. /\ task[h] \in Tasks /\ key \in Keys
      /\ pc[h] = "acquire" /\ pc'[h] \in {"dispatch", "run"}
      /\ \A g \in Handlers \ {h} : pc'[g] = pc[g]
      /\ task' = task /\ now' = now /\ now \in Nat
  BY TaskKeys DEF Acquire, At, Goto, given, TInv, TypeOK, EngineTypeOK, HandlerTypeOK, Settled, Chosen
<1>2. /\ lastRun'[key] = now
      /\ \A k \in Keys : k # key => lastRun'[k] = lastRun[k]
      /\ began'[h] = now /\ began[h] = Never
      /\ \A g \in Handlers \ {h} : began'[g] = began[g]
  BY <1>1 DEF Acquire, TInv, TypeOK, EngineTypeOK, CoolInv, BeganPast, Waiting
<1>3. \A g \in Handlers : began[g] \in Nat \/ began[g] = Never
  BY DEF TInv, TypeOK, EngineTypeOK
<1>4. ASSUME NEW g \in Handlers, began[g] # Never
      PROVE  /\ g # h /\ task[g] \in Tasks /\ task[g].key \in Keys /\ began[g] \in Nat
             /\ began[g] <= lastRun[task[g].key] /\ lastRun[task[g].key] <= now
             /\ lastRun[task[g].key] \in Nat
  <2>1. g # h /\ task[g] \in Tasks /\ task[g].key \in Keys /\ began[g] \in Nat
    BY <1>2, <1>3, <1>4, TaskKeys DEF CoolInv, BeganPast
  <2>2. began[g] <= lastRun[task[g].key] /\ lastRun[task[g].key] <= now
    BY <1>4, <2>1 DEF CoolInv, BeganNoted, NotedByNow
  <2>3. lastRun[task[g].key] \in Nat \cup {-1}
    BY <2>1 DEF TInv, TypeOK, EngineTypeOK, Never
  <2> QED  BY <2>1, <2>2, <2>3
<1>5. BeganPast'
  BY <1>1, <1>2, <1>4 DEF CoolInv, BeganPast, Waiting
<1>6. BeganNoted'
  <2> SUFFICES ASSUME NEW g \in Handlers, began'[g] # Never
               PROVE  began'[g] <= lastRun'[task[g].key]
    BY <1>1 DEF BeganNoted
  <2>1. CASE g = h
    BY <1>1, <1>2, <2>1
  <2>2. CASE g # h /\ task[g].key = key
    BY <1>1, <1>2, <1>4, <2>2
  <2>3. CASE g # h /\ task[g].key # key
    BY <1>2, <1>4, <2>3
  <2> QED  BY <2>1, <2>2, <2>3
<1>7. NotedByNow'
  BY <1>1, <1>2 DEF CoolInv, NotedByNow
<1>8. CooldownSpaced'
  <2> SUFFICES ASSUME NEW g \in Handlers, NEW f \in Handlers, g # f,
                      task[g].key = task[f].key,
                      task[g].exec.policy = "cooldown", task[f].exec.policy = "cooldown",
                      Never < began'[g], began'[g] <= began'[f]
               PROVE  began'[f] - began'[g] >= task[f].exec.cooldown
    BY <1>1 DEF CooldownSpaced
  <2>1. CASE g # h /\ f # h
    BY <1>2, <2>1 DEF CoolInv, CooldownSpaced
  <2>2. ASSUME NEW e \in Handlers, began[e] # Never, task[e].key = key,
               task[h].exec.policy = "cooldown"
        PROVE  now - began[e] >= task[h].exec.cooldown /\ task[h].exec.cooldown > 0
    <3>1. began[e] \in Nat /\ lastRun[key] \in Nat /\ began[e] <= lastRun[key]
      BY <1>4, <2>2
    <3>2. ~ (now - lastRun[key] < task[h].exec.cooldown)
      BY <2>2, <3>1 DEF Acquire, Cooling, Never
    <3>3. task[h].exec.cooldown \in Nat \ {0}
      BY <1>1, <2>2, CooldownAssumption
    <3> QED  BY <1>1, <3>1, <3>2, <3>3
  <2>3. CASE f = h
    <3>1. began[g] # Never /\ began'[g] = began[g] /\ g # h
      BY <1>2, <2>3 DEF Never
    <3> QED  BY <1>1, <1>2, <2>2, <2>3, <3>1
  <2>4. CASE g = h
    <3>1. began[f] # Never /\ began'[f] = began[f] /\ now <= began[f]
      BY <1>1, <1>2, <2>4 DEF Never
    <3>2. now - began[f] > 0 /\ began[f] \in Nat
      BY <1>1, <1>4, <2>2, <2>4, <3>1, CooldownAssumption
    <3> QED  BY <1>1, <3>1, <3>2
  <2> QED  BY <2>1, <2>3, <2>4
<1> QED  BY <1>5, <1>6, <1>7, <1>8 DEF CoolInv

LEMMA InitCool == Init => CoolInv
BY DEF Init, CoolInv, BeganPast, BeganNoted, NotedByNow, CooldownSpaced, Never

(* CoolInv is kept by every step. *)
LEMMA NextCool == TInv /\ CoolInv /\ [Next]_vars => CoolInv'
<1> SUFFICES ASSUME TInv, CoolInv, [Next]_vars PROVE CoolInv'
  OBVIOUS
<1>1. /\ now \in Nat /\ lastRun \in [Keys -> Nat \cup {Never}]
      /\ began \in [Handlers -> Nat \cup {Never}]
  BY DEF TInv, TypeOK, EngineTypeOK
<1>2. ASSUME NEW h \in Handlers, PlainStep(h) PROVE CoolInv'
  BY <1>1, <1>2, PlainSteps, CoolSame DEF Waiting
<1>3. ASSUME NEW h \in Handlers,
             Match(h) \/ \E r \in Requests : Arrive(h, r)
      PROVE  CoolInv'
  <2>1. /\ UNCHANGED <<now, lastRun, began>>
        /\ pc[h] \in Waiting
        /\ \A g \in Handlers \ {h} : pc'[g] = pc[g] /\ task'[g] = task[g]
    BY <1>3 DEF Match, Arrive, shared, policyVars, At, Goto, Waiting, TInv, TypeOK, HandlerTypeOK
  <2> QED  BY <1>1, <2>1, CoolSame
<1>4. CASE \/ \E list \in ConfigLists : UpdateConfigs(list)
           \/ DedupCleanup \/ Tick \/ UNCHANGED vars
  <2>1. UNCHANGED <<lastRun, began, pc, task>> /\ now' \in {now, now + 1}
    BY <1>4 DEF UpdateConfigs, DedupCleanup, Tick, vars, shared, policyVars, handlerVars, given
  <2> QED  BY <1>1, <2>1, CoolSame
<1> QED  BY <1>2, <1>3, <1>4, AcquireCool DEF Next, Step, PlainStep

(* Executions of a task under cooldown start a cooldown apart, for every   *)
(* number of requests and whatever config lists reloads install.           *)
THEOREM Cooldowns == Spec => []CooldownSpaced
<1>1. CoolInv => CooldownSpaced
  BY DEF CoolInv
<1> QED  BY InitType, NextType, InitCool, NextCool, <1>1, PTL DEF Spec

-----------------------------------------------------------------------------
(***************************************************************************)
(* Deduplication, when all the time there is lies in one window: every     *)
(* entry outlives it, and a handler with a deduplicated task has one.      *)
(***************************************************************************)
InWindow ==
    /\ now <= MaxTime
    /\ \A id \in IDs : entries[id] = Dedup!Absent \/ entries[id] > MaxTime
    /\ \A h \in Handlers : task[h].dedup =>
          pc[h] \notin {"idle", "scan"} /\ entries[req[h].id] > MaxTime

DedupInv == OneWindow => InWindow /\ DedupOnce

(* A step that leaves the cache and the tasks alone keeps DedupInv. *)
LEMMA DedupUnchanged ==
    ASSUME DedupInv, UNCHANGED <<entries, req, task>>,
           OneWindow => now' <= MaxTime,
           \A h \in Handlers : pc[h] \notin {"idle", "scan"} => pc'[h] \notin {"idle", "scan"}
    PROVE  DedupInv'
BY DEF DedupInv, OneWindow, InWindow, DedupOnce

(* A request that arrives has no task yet. *)
LEMMA ArriveDedup ==
    ASSUME TInv, DedupInv, NEW h \in Handlers, NEW r \in Requests, Arrive(h, r)
    PROVE  DedupInv'
<1>1. /\ pc[h] = "idle"
      /\ UNCHANGED <<now, entries, task>>
      /\ \A g \in Handlers \ {h} : pc'[g] = pc[g] /\ req'[g] = req[g]
  BY DEF Arrive, shared, At, Goto, TInv, TypeOK, HandlerTypeOK
<1> SUFFICES ASSUME OneWindow PROVE InWindow' /\ DedupOnce'
  BY DEF DedupInv, OneWindow
<1>2. ~ task[h].dedup
  BY <1>1 DEF DedupInv, InWindow
<1>3. InWindow'
  BY <1>1, <1>2 DEF DedupInv, InWindow
<1>4. DedupOnce'
  BY <1>1, <1>2 DEF DedupInv, DedupOnce, OneWindow
<1> QED  BY <1>3, <1>4

(* Matching gives a task to a request whose ID had no entry, and makes     *)
(* one.                                                                    *)
LEMMA MatchDedup ==
    ASSUME TInv, DedupInv, NEW h \in Handlers, Match(h)
    PROVE  DedupInv'
<1> SUFFICES ASSUME OneWindow PROVE InWindow' /\ DedupOnce'
  BY DEF DedupInv, OneWindow
<1> DEFINE id == req[h].id  window == Current(h).window
<1>1. /\ pc[h] = "scan" /\ req[h] \in Requests /\ id \in IDs
      /\ Current(h) \in AllConfigs /\ window \in Nat
      /\ UNCHANGED <<now, req>> /\ now \in Nat
      /\ \A g \in Handlers \ {h} : pc'[g] = pc[g] /\ task'[g] = task[g]
  <2>1. pc[h] = "scan" /\ req[h] \in Requests /\ todo[h] \in Seq(AllConfigs) /\ todo[h] # <<>>
    BY DEF Match, At, TInv, TypeOK, HandlerTypeOK, Settled
  <2>2. Current(h) \in AllConfigs
    BY <2>1 DEF Current
  <2> QED  BY <2>1, <2>2, ConfigsAssumption, RequestsAssumption
           DEF Match, Goto, TInv, TypeOK, EngineTypeOK, HandlerTypeOK
<1>2. ~ task[h].dedup
  BY <1>1 DEF DedupInv, InWindow
<1>3. task'[h].dedup => window > 0 /\ pc'[h] = "acquire"
  <2>1. CASE Matching(h) = {}
    BY <1>2, <2>1 DEF Match
  <2>2. CASE Matching(h) # {}
    <3>1. PICK i \in First(Matching(h)) :
             task' = [task EXCEPT ![h] = TaskOf(Current(h), Current(h).rules[i])]
      BY <2>2 DEF Match
    <3>2. task'[h] = TaskOf(Current(h), Current(h).rules[i])
      BY <3>1 DEF TInv, TypeOK, HandlerTypeOK
    <3>3. task'[h].dedup = (window > 0)
      BY <3>2 DEF TaskOf
    <3>4. pc'[h] = "acquire"
      BY <2>2 DEF Match, Goto, TInv, TypeOK, HandlerTypeOK
    <3> QED  BY <3>3, <3>4
  <2> QED  BY <2>1, <2>2
<1>4. CASE window = 0
  <2>1. entries' = entries /\ ~ task'[h].dedup
    BY <1>3, <1>4 DEF Match, Deduplicates
  <2>2. InWindow'
    BY <1>1, <2>1 DEF DedupInv, InWindow
  <2>3. DedupOnce'
    BY <1>1, <2>1 DEF DedupInv, DedupOnce, OneWindow
  <2> QED  BY <2>2, <2>3
<1>5. CASE window > 0
  <2>1. window > MaxTime /\ MaxTime \in Nat
    BY <1>1, <1>5, MaxTimeAssumption DEF OneWindow
  <2>2. entries[id] = Dedup!Absent
    BY <1>1, <1>5, MaxTimeAssumption DEF Match, Deduplicates, Dedup!Seen, DedupInv, InWindow,
          TInv, TypeOK, Dedup!DedupTypeOK, Dedup!Absent
  <2>3. entries' = [entries EXCEPT ![id] = now + window]
    BY <1>5 DEF Match, Deduplicates, Dedup!Note
  <2>4. \A g \in Handlers : task[g].dedup => req[g].id # id
    BY <1>1, <2>2, <2>1 DEF DedupInv, InWindow, Dedup!Absent
  <2>5. /\ entries'[id] = now + window /\ now + window > MaxTime
        /\ \A i \in IDs \ {id} : entries'[i] = entries[i]
    BY <1>1, <2>1, <2>3 DEF TInv, TypeOK, Dedup!DedupTypeOK
  <2>6. \A g \in Handlers \ {h} : task[g].dedup => req[g].id \in IDs
    BY RequestsAssumption DEF DedupInv, InWindow, TInv, Settled
  <2>7. InWindow'
    BY <1>1, <1>3, <2>4, <2>5, <2>6 DEF DedupInv, InWindow
  <2>8. DedupOnce'
    BY <1>1, <2>4 DEF DedupInv, DedupOnce, OneWindow
  <2> QED  BY <2>7, <2>8
<1> QED  BY <1>1, <1>4, <1>5

(* No entry is stale before the window is over. *)
LEMMA CleanupDedup ==
    ASSUME TInv, DedupInv, DedupCleanup
    PROVE  DedupInv'
<1>1. UNCHANGED <<now, pc, req, task>>
  BY DEF DedupCleanup, handlerVars, given
<1>2. OneWindow => \A id \in IDs : entries'[id] = entries[id]
  BY MaxTimeAssumption
  DEF DedupCleanup, Dedup!Cleanup, Dedup!Stale, DedupInv, InWindow, TInv, TypeOK,
      EngineTypeOK, Dedup!DedupTypeOK, Dedup!Absent
<1>3. \A h \in Handlers : task[h].dedup /\ OneWindow => req[h].id \in IDs
  BY RequestsAssumption DEF DedupInv, InWindow, TInv, Settled
<1> SUFFICES ASSUME OneWindow PROVE InWindow' /\ DedupOnce'
  BY DEF DedupInv, OneWindow
<1>4. InWindow'
  BY <1>1, <1>2, <1>3 DEF DedupInv, InWindow
<1>5. DedupOnce'
  BY <1>1 DEF DedupInv, DedupOnce, OneWindow
<1> QED  BY <1>4, <1>5

LEMMA InitDedup == Init => DedupInv
BY MaxTimeAssumption
DEF Init, Dedup!DedupInit, DedupInv, InWindow, DedupOnce, NoTask

(* DedupInv is kept by every step. *)
LEMMA NextDedup == TInv /\ DedupInv /\ [Next]_vars => DedupInv'
<1> SUFFICES ASSUME TInv, DedupInv, [Next]_vars PROVE DedupInv'
  OBVIOUS
<1>1. OneWindow => now <= MaxTime
  BY DEF DedupInv, InWindow
<1>2. ASSUME NEW h \in Handlers, PlainStep(h) PROVE DedupInv'
  BY <1>1, <1>2, PlainSteps, DedupUnchanged DEF Waiting
<1>3. ASSUME NEW h \in Handlers, Acquire(h) PROVE DedupInv'
  <2>1. /\ UNCHANGED <<now, entries, req, task>>
        /\ pc'[h] \in {"dispatch", "run"}
        /\ \A g \in Handlers \ {h} : pc'[g] = pc[g]
    BY <1>3 DEF Acquire, Goto, given, TInv, TypeOK, HandlerTypeOK
  <2> QED  BY <1>1, <2>1, DedupUnchanged
<1>4. CASE (\E list \in ConfigLists : UpdateConfigs(list)) \/ Tick \/ UNCHANGED vars
  <2>1. /\ UNCHANGED <<entries, req, task, pc>>
        /\ now' = now \/ (now < MaxTime /\ now' = now + 1)
    BY <1>4 DEF UpdateConfigs, Tick, vars, shared, handlerVars, given
  <2>2. OneWindow => now' <= MaxTime
    BY <1>1, <2>1, MaxTimeAssumption DEF TInv, TypeOK, EngineTypeOK
  <2> QED  BY <2>1, <2>2, DedupUnchanged
<1> QED  BY <1>2, <1>3, <1>4, ArriveDedup, MatchDedup, CleanupDedup DEF Next, Step, PlainStep

(* Of the requests with one ID, one starts a deduplicated task in a        *)
(* window, for every set of IDs, requests and config lists.                *)
THEOREM Deduplicated == Spec => []DedupOnce
<1>1. DedupInv => DedupOnce
  BY DEF DedupInv, DedupOnce
<1> QED  BY InitType, NextType, InitDedup, NextDedup, <1>1, PTL DEF Spec

-----------------------------------------------------------------------------
(***************************************************************************)
(* First match wins.  A request that is looking for its rule has passed    *)
(* over the first k configs of one config list, none of which had one, and *)
(* has the rest of its candidates before it.                               *)
(***************************************************************************)
PassedOver(h, list, k) ==
    /\ \A j \in DOMAIN todo[h] :
          k + j \in Candidates(list, req[h]) /\ todo[h][j] = list[k + j]
    /\ \A i \in Candidates(list, req[h]) :
          IF i <= k THEN \A p \in Hits(list, req[h]) : p[1] # i
                    ELSE i - k \in DOMAIN todo[h]

Scanned(h) == \E list \in ConfigLists : \E k \in Nat : PassedOver(h, list, k)
Taken(h) ==
    \E list \in ConfigLists : \E p \in Hits(list, req[h]) :
        /\ IsFirst(p, list, req[h])
        /\ task[h] = TaskOf(list[p[1]], list[p[1]].rules[p[2]])
Missed(h) == \E list \in ConfigLists : Hits(list, req[h]) = {}

MatchOK(h) ==
    /\ pc[h] = "scan" => Scanned(h)
    /\ pc[h] \in {"idle", "scan"} => task[h] = NoTask /\ resp[h] # "no match"
    /\ task[h] # NoTask => Taken(h)
    /\ resp[h] = "no match" => Missed(h)

MatchInv == \A h \in Handlers : MatchOK(h)

(* A pair of a config and a rule is a hit when the config lets the request *)
(* through and the rule matches.                                           *)
LEMMA HitsAre ==
    ASSUME NEW list \in ConfigLists, NEW r, NEW i, NEW j
    PROVE  <<i, j>> \in Hits(list, r) <=>
               /\ i \in Candidates(list, r)
               /\ LetsThrough(list[i], r) /\ j \in Matches(list[i], r)
<1>1. i \in Candidates(list, r) => list[i] \in ConfigsOf(list)
  BY DEF Candidates, ConfigsOf
<1>2. j \in Matches(list[i], r) => j \in DOMAIN list[i].rules
  BY DEF Matches
<1> QED  BY <1>1, <1>2 DEF Hits

(* A hit is a pair of places: of a config in the list, of a rule in it. *)
LEMMA HitsPairs ==
    ASSUME NEW list, NEW r, NEW p \in Hits(list, r)
    PROVE  p = <<p[1], p[2]>>
BY DEF Hits

(* What does not touch a request leaves what was found for it. *)
LEMMA MatchSame ==
    ASSUME NEW h \in Handlers, MatchOK(h),
           req'[h] = req[h], task'[h] = task[h],
           pc[h] = "scan" => todo'[h] = todo[h],
           pc'[h] = pc[h] \/ pc'[h] \notin {"idle", "scan"},
           resp'[h] = resp[h] \/ resp'[h] # "no match"
    PROVE  MatchOK(h)'
BY DEF MatchOK, Scanned, PassedOver, Taken, Missed

(* A step of one handler leaves the others where they are. *)
LEMMA OthersSame ==
    ASSUME TInv, NEW h \in Handlers, NEW g \in Handlers \ {h},
           Step(h) \/ \E r \in Requests : Arrive(h, r)
    PROVE  /\ req'[g] = req[g] /\ todo'[g] = todo[g] /\ task'[g] = task[g]
           /\ pc'[g] = pc[g] /\ resp'[g] = resp[g]
<1> USE DEF TInv, TypeOK, HandlerTypeOK, At, Goto, Respond, given
<1>1. CASE \E r \in Requests : Arrive(h, r)
  BY <1>1 DEF Arrive, shared
<1>2. CASE NoMatch(h) \/ Reject401(h) \/ Skip(h) \/ Duplicate(h)
  BY <1>2 DEF NoMatch, Reject401, Skip, Duplicate, shared
<1>3. CASE Match(h) \/ Refuse(h) \/ Acquire(h)
  BY <1>3 DEF Match, Refuse, Acquire, shared
<1>4. CASE TakeSlot(h) \/ NoSlotFree(h) \/ GiveUp(h) \/ AddRecord(h) \/ Spawn(h)
  BY <1>4 DEF TakeSlot, NoSlotFree, GiveUp, AddRecord, Spawn, shared
<1>5. CASE \E how \in Outcomes : Finish(h, how)
  BY <1>5 DEF Finish, shared
<1>6. CASE CompleteRecord(h) \/ Unmark(h) \/ ReleaseSlot(h) \/ LeaveWG(h)
  BY <1>6 DEF CompleteRecord, Unmark, ReleaseSlot, LeaveWG
<1> QED  BY <1>1, <1>2, <1>3, <1>4, <1>5, <1>6 DEF Step

(* A request begins with the whole list and nothing passed over. *)
LEMMA ArriveMatch ==
    ASSUME TInv, NEW h \in Handlers, MatchOK(h), NEW r \in Requests, Arrive(h, r)
    PROVE  MatchOK(h)'
<1>1. /\ pc[h] = "idle" /\ pc'[h] = "scan" /\ req'[h] = r
      /\ task'[h] = task[h] /\ resp'[h] = resp[h]
      /\ configs' = configs /\ configs \in ConfigLists /\ configs \in Seq(AllConfigs)
  BY ConfigsAssumption DEF Arrive, shared, At, Goto, TInv, TypeOK, EngineTypeOK, HandlerTypeOK
<1>2. task[h] = NoTask /\ resp[h] # "no match"
  BY <1>1 DEF MatchOK
<1>3. CASE r.target = AnyConfig
  <2>1. todo'[h] = configs
    BY <1>3 DEF Arrive, TInv, TypeOK, HandlerTypeOK
  <2>2. /\ Candidates(configs, r) = 1..Len(configs)
        /\ \A i \in 1..Len(configs) : i - 0 = i /\ 0 + i = i /\ ~ (i <= 0)
    BY <1>1, <1>3 DEF Candidates
  <2>3. PassedOver(h, configs, 0)'
    BY <1>1, <2>1, <2>2 DEF PassedOver
  <2> QED  BY <1>1, <1>2, <2>3 DEF MatchOK, Scanned
<1>4. CASE r.target # AnyConfig
  <2>1. PICK i \in Targeted(r.target) : todo'[h] = <<configs[i]>>
    BY <1>4 DEF Arrive, TInv, TypeOK, HandlerTypeOK
  <2>2. /\ i \in 1..Len(configs) /\ configs[i].file = r.target
        /\ \A j \in 1..Len(configs) : configs[j].file = r.target => i <= j
    BY <1>1, <2>1 DEF Targeted, First
  <2>3. Candidates(configs, r) = {i}
    BY <1>1, <1>4, <2>2 DEF Candidates
  <2>4. PICK k \in Nat : i = k + 1
    <3>1. i \in Nat /\ i >= 1
      BY <1>1, <2>2
    <3>2. i - 1 \in Nat /\ i = (i - 1) + 1
      BY <3>1
    <3> QED  BY <3>2
  <2>5. /\ DOMAIN todo'[h] = {1} /\ todo'[h][1] = configs[i]
        /\ k + 1 = i /\ ~ (i <= k) /\ i - k = 1
    BY <2>1, <2>4
  <2>6. PassedOver(h, configs, k)'
    BY <1>1, <2>3, <2>5 DEF PassedOver
  <2> QED  BY <1>1, <1>2, <2>4, <2>6 DEF MatchOK, Scanned
<1> QED  BY <1>3, <1>4

(* The config under consideration is a candidate, and the next one. *)
LEMMA CurrentIs ==
    ASSUME TInv, NEW h \in Handlers, todo[h] # <<>>,
           NEW list \in ConfigLists, NEW k \in Nat, PassedOver(h, list, k)
    PROVE  /\ k + 1 \in Candidates(list, req[h]) /\ Current(h) = list[k + 1]
           /\ \A p \in Hits(list, req[h]) : p[1] \in Nat /\ p[1] > k
<1>1. 1 \in DOMAIN todo[h] /\ Head(todo[h]) = todo[h][1]
  BY DEF TInv, TypeOK, HandlerTypeOK
<1>2. list \in Seq(AllConfigs)
  BY ConfigsAssumption
<1>3. \A p \in Hits(list, req[h]) : p[1] \in Candidates(list, req[h]) /\ p[1] \in Nat
  BY <1>2 DEF Hits, Candidates
<1> QED  BY <1>1, <1>3 DEF PassedOver, Current

(* Going past a config is right: it has no match for the request. *)
LEMMA PassMatch ==
    ASSUME TInv, NEW h \in Handlers, MatchOK(h),
           pc[h] = "scan", pc'[h] = "scan", todo[h] # <<>>, todo'[h] = Tail(todo[h]),
           req'[h] = req[h], task'[h] = task[h], resp'[h] = resp[h],
           ~ (Authorized(h) /\ Filtered(h)) \/ Matching(h) = {}
    PROVE  MatchOK(h)'
<1>1. PICK list \in ConfigLists : \E k \in Nat : PassedOver(h, list, k)
  BY DEF MatchOK, Scanned
<1>2. PICK k \in Nat : PassedOver(h, list, k)
  BY <1>1
<1> DEFINE r == req[h]
<1>3. k + 1 \in Candidates(list, r) /\ Current(h) = list[k + 1]
  BY <1>2, CurrentIs
<1>4. \A p \in Hits(list, r) : p[1] # k + 1
  BY <1>3 DEF Hits, Authorized, Filtered, Matching, LetsThrough, Matches
<1>5. /\ Len(todo[h]) \in Nat /\ DOMAIN todo[h] = 1..Len(todo[h])
      /\ DOMAIN Tail(todo[h]) = 1..(Len(todo[h]) - 1)
      /\ \A j \in 1..(Len(todo[h]) - 1) : Tail(todo[h])[j] = todo[h][j + 1]
  BY DEF TInv, TypeOK, HandlerTypeOK
<1>6. \A i \in Candidates(list, r) : i \in Nat
  BY ConfigsAssumption DEF Candidates
<1>7. PassedOver(h, list, k + 1)'
  <2>1. ASSUME NEW j \in DOMAIN Tail(todo[h])
        PROVE  k + 1 + j \in Candidates(list, r) /\ Tail(todo[h])[j] = list[k + 1 + j]
    <3>1. j + 1 \in DOMAIN todo[h] /\ j \in Nat /\ Tail(todo[h])[j] = todo[h][j + 1]
      BY <1>5, <2>1
    <3>2. k + (j + 1) \in Candidates(list, r) /\ todo[h][j + 1] = list[k + (j + 1)]
      BY <1>2, <3>1 DEF PassedOver
    <3>3. k + (j + 1) = k + 1 + j
      BY <3>1
    <3> QED  BY <3>1, <3>2, <3>3
  <2>2. ASSUME NEW i \in Candidates(list, r), i <= k + 1
        PROVE  \A p \in Hits(list, r) : p[1] # i
    BY <1>2, <1>4, <1>6, <2>2 DEF PassedOver
  <2>3. ASSUME NEW i \in Candidates(list, r), ~ (i <= k + 1)
        PROVE  i - (k + 1) \in DOMAIN Tail(todo[h])
    <3>1. i \in Nat /\ i > k + 1
      BY <1>6, <2>3
    <3>2. i - k \in DOMAIN todo[h]
      BY <1>2, <3>1 DEF PassedOver
    <3> QED  BY <1>5, <3>1, <3>2
  <2> QED  BY <2>1, <2>2, <2>3 DEF PassedOver
<1>8. k + 1 \in Nat
  OBVIOUS
<1> QED  BY <1>7, <1>8 DEF MatchOK, Scanned, Taken, Missed

(* The first rule that matches in the config at hand is the first match. *)
LEMMA FoundMatch ==
    ASSUME TInv, NEW h \in Handlers, MatchOK(h), Match(h), Matching(h) # {}
    PROVE  MatchOK(h)'
<1>1. /\ pc[h] = "scan" /\ pc'[h] = "acquire" /\ todo[h] # <<>>
      /\ req' = req /\ resp' = resp
  BY DEF Match, At, Goto, TInv, TypeOK, HandlerTypeOK
<1>2. PICK j \in First(Matching(h)) :
         task' = [task EXCEPT ![h] = TaskOf(Current(h), Current(h).rules[j])]
  BY DEF Match
<1>3. PICK list \in ConfigLists : \E k \in Nat : PassedOver(h, list, k)
  BY <1>1 DEF MatchOK, Scanned
<1>4. PICK k \in Nat : PassedOver(h, list, k)
  BY <1>3
<1> DEFINE r == req[h]
<1>5. /\ k + 1 \in Candidates(list, r) /\ Current(h) = list[k + 1]
      /\ \A p \in Hits(list, r) : p[1] \in Nat /\ p[1] > k
  BY <1>1, <1>4, CurrentIs
<1>6. Matches(list[k + 1], r) = Matching(h)
  BY <1>5 DEF Matching, Matches
<1>7. <<k + 1, j>> \in Hits(list, r)
  BY <1>2, <1>5, <1>6, HitsAre DEF Match, Authorized, Filtered, LetsThrough, First
<1>8. ASSUME NEW q \in Hits(list, r)
      PROVE  k + 1 < q[1] \/ (k + 1 = q[1] /\ j <= q[2])
  <2>1. q[1] \in Nat /\ q[1] > k
    BY <1>5
  <2>2. q[1] = k + 1 => q[2] \in Matching(h)
    BY <1>6 DEF Hits
  <2> QED  BY <1>2, <2>1, <2>2 DEF First
<1>9. IsFirst(<<k + 1, j>>, list, r)
  BY <1>7, <1>8 DEF IsFirst
<1>10. task'[h] = TaskOf(list[k + 1], list[k + 1].rules[j])
  BY <1>2, <1>5 DEF TInv, TypeOK, HandlerTypeOK
<1>11. Taken(h)'
  BY <1>1, <1>7, <1>9, <1>10 DEF Taken
<1>12. resp[h] # "no match"
  BY <1>1 DEF MatchOK
<1> QED  BY <1>1, <1>11, <1>12 DEF MatchOK

(* 'No matching rules' is said at the end of a list without a match. *)
LEMMA MissedMatch ==
    ASSUME TInv, NEW h \in Handlers, MatchOK(h), NoMatch(h)
    PROVE  MatchOK(h)'
<1>1. /\ pc[h] = "scan" /\ pc'[h] = "done" /\ todo[h] = <<>>
      /\ req' = req /\ task' = task
  BY DEF NoMatch, At, Goto, Respond, given, TInv, TypeOK, HandlerTypeOK
<1>2. PICK list \in ConfigLists : \E k \in Nat : PassedOver(h, list, k)
  BY <1>1 DEF MatchOK, Scanned
<1>3. Hits(list, req[h]) = {}
  BY <1>1, <1>2 DEF PassedOver, Hits
<1> QED  BY <1>1, <1>3 DEF MatchOK, Missed, Taken

LEMMA InitMatch == Init => MatchInv
BY DEF Init, MatchInv, MatchOK, NoTask

(* MatchInv is kept by every step. *)
LEMMA NextMatch == TInv /\ MatchInv /\ [Next]_vars => MatchInv'
<1> SUFFICES ASSUME TInv, MatchInv, [Next]_vars, NEW g \in Handlers PROVE MatchOK(g)'
  BY DEF MatchInv
<1>1. MatchOK(g)
  BY DEF MatchInv
<1>2. CASE \/ \E list \in ConfigLists : UpdateConfigs(list)
           \/ DedupCleanup \/ Tick \/ UNCHANGED vars
  <2>1. UNCHANGED <<pc, req, todo, task, resp>>
    BY <1>2 DEF UpdateConfigs, DedupCleanup, Tick, vars, handlerVars, given
  <2> QED  BY <1>1, <2>1, MatchSame
<1>3. ASSUME NEW h \in Handlers, g # h, Step(h) \/ \E r \in Requests : Arrive(h, r)
      PROVE  MatchOK(g)'
  BY <1>1, <1>3, OthersSame, MatchSame
<1>4. ASSUME \E r \in Requests : Arrive(g, r) PROVE MatchOK(g)'
  BY <1>1, <1>4, ArriveMatch
<1>5. ASSUME Skip(g) \/ (Match(g) /\ Matching(g) = {}) PROVE MatchOK(g)'
  <2>1. /\ pc[g] = "scan" /\ todo[g] # <<>> /\ todo'[g] = Tail(todo[g])
        /\ UNCHANGED <<pc, req, task, resp>>
    BY <1>5 DEF Skip, Match, At, TInv, TypeOK, HandlerTypeOK
  <2>2. ~ (Authorized(g) /\ Filtered(g)) \/ Matching(g) = {}
    BY <1>5 DEF Skip
  <2> QED  BY <1>1, <2>1, <2>2, PassMatch
<1>6. ASSUME Match(g), Matching(g) # {} PROVE MatchOK(g)'
  BY <1>1, <1>6, FoundMatch
<1>7. ASSUME NoMatch(g) PROVE MatchOK(g)'
  BY <1>1, <1>7, MissedMatch
<1>8. ASSUME Step(g), ~ NoMatch(g), ~ Skip(g), ~ Match(g) PROVE MatchOK(g)'
  <2>1. /\ req'[g] = req[g] /\ task'[g] = task[g] /\ todo'[g] = todo[g]
        /\ pc'[g] \notin {"idle", "scan"}
        /\ resp'[g] = resp[g] \/ resp'[g] # "no match"
    <3> USE DEF TInv, TypeOK, HandlerTypeOK, At, Goto, Respond, given
    <3>1. CASE Reject401(g) \/ Duplicate(g) \/ Refuse(g) \/ Acquire(g)
      BY <3>1 DEF Reject401, Duplicate, Refuse, Acquire, shared
    <3>2. CASE TakeSlot(g) \/ NoSlotFree(g) \/ GiveUp(g) \/ AddRecord(g) \/ Spawn(g)
      BY <3>2 DEF TakeSlot, NoSlotFree, GiveUp, AddRecord, Spawn, shared
    <3>3. CASE \E how \in Outcomes : Finish(g, how)
      BY <3>3 DEF Finish, shared
    <3>4. CASE CompleteRecord(g) \/ Unmark(g) \/ ReleaseSlot(g) \/ LeaveWG(g)
      BY <3>4 DEF CompleteRecord, Unmark, ReleaseSlot, LeaveWG
    <3> QED  BY <1>8, <3>1, <3>2, <3>3, <3>4 DEF Step
  <2> QED  BY <1>1, <2>1, MatchSame
<1> QED  BY <1>2, <1>3, <1>4, <1>5, <1>6, <1>7, <1>8 DEF Next

(* The task of a request is the first match in one config list, for every  *)
(* set of configs, rules and requests and whatever reloads install.        *)
THEOREM FirstMatch == Spec => []FirstMatchWins
<1>1. MatchInv => FirstMatchWins
  BY DEF MatchInv, MatchOK, Taken, Missed, FirstMatchWins
<1> QED  BY InitType, NextType, InitMatch, NextMatch, <1>1, PTL DEF Spec

-----------------------------------------------------------------------------
(***************************************************************************)
(* Executions under block.  The mark of a key is worth one of them.  A     *)
(* start under block finds no mark and makes one; whoever takes a mark     *)
(* back either was itself running under block or joins those that ended    *)
(* beside it, so that what is lost on one side is won on the other.        *)
(***************************************************************************)
Paid(k) ==
    Cardinality(UnderBlock(k)) <=
        (IF running[k] THEN 1 ELSE 0) + Cardinality(EndedBeside(k))
HoldersBegan == \A h \in Handlers : pc[h] \in Holding => began[h] # Never
PaidInv == HoldersBegan /\ \A k \in Keys : Paid(k)

(* The executions on either side can be counted. *)
LEMMA FiniteSides ==
    ASSUME NEW k
    PROVE  /\ IsFiniteSet(UnderBlock(k)) /\ IsFiniteSet(EndedBeside(k))
           /\ Cardinality(UnderBlock(k)) \in Nat /\ Cardinality(EndedBeside(k)) \in Nat
<1>1. IsFiniteSet(UnderBlock(k)) /\ IsFiniteSet(EndedBeside(k))
  BY HandlersAssumption, FS_Subset DEF UnderBlock, EndedBeside
<1> QED  BY <1>1, FS_CardinalityType

LEMMA FiniteSidesNext ==
    ASSUME NEW k
    PROVE  /\ IsFiniteSet(UnderBlock(k)') /\ IsFiniteSet(EndedBeside(k)')
           /\ Cardinality(UnderBlock(k)') \in Nat /\ Cardinality(EndedBeside(k)') \in Nat
<1>1. IsFiniteSet(UnderBlock(k)') /\ IsFiniteSet(EndedBeside(k)')
  BY HandlersAssumption, FS_Subset DEF UnderBlock, EndedBeside
<1> QED  BY <1>1, FS_CardinalityType

(* Who has ended beside others stays so. *)
LEMMA EndedStays ==
    ASSUME TInv, NEW h \in Handlers, Step(h) \/ \E r \in Requests : Arrive(h, r), NEW k
    PROVE  EndedBeside(k) \subseteq EndedBeside(k)'
<1> SUFFICES ASSUME NEW g \in EndedBeside(k)
             PROVE  g \in EndedBeside(k)'
  OBVIOUS
<1>1. /\ g \in Handlers /\ task[g].key = k /\ task[g].exec.policy # "block"
      /\ began[g] # Never /\ pc[g] \in {"release", "leave", "done"} /\ resp[g] # "aborted"
  BY DEF EndedBeside, TookMarkBack
<1>2. /\ pc'[g] \in {"release", "leave", "done"} /\ resp'[g] = resp[g]
      /\ task'[g] = task[g] /\ began'[g] = began[g]
  <2> USE DEF TInv, TypeOK, HandlerTypeOK, EngineTypeOK, At, Goto, Respond
  <2>1. CASE \E r \in Requests : Arrive(h, r)
    BY <1>1, <2>1 DEF Arrive, shared, policyVars
  <2>2. CASE NoMatch(h) \/ Reject401(h) \/ Skip(h) \/ Duplicate(h) \/ Match(h) \/ Refuse(h)
    BY <1>1, <2>2 DEF NoMatch, Reject401, Skip, Duplicate, Match, Refuse, shared, policyVars, given
  <2>3. CASE Acquire(h) \/ TakeSlot(h) \/ NoSlotFree(h) \/ GiveUp(h)
    BY <1>1, <2>3 DEF Acquire, TakeSlot, NoSlotFree, GiveUp, shared, policyVars, given
  <2>4. CASE AddRecord(h) \/ Spawn(h) \/ \E how \in Outcomes : Finish(h, how)
    BY <1>1, <2>4 DEF AddRecord, Spawn, Finish, shared, policyVars, given
  <2>5. CASE CompleteRecord(h) \/ Unmark(h) \/ ReleaseSlot(h) \/ LeaveWG(h)
    BY <1>1, <2>5 DEF CompleteRecord, Unmark, ReleaseSlot, LeaveWG, policyVars, given
  <2> QED  BY <2>1, <2>2, <2>3, <2>4, <2>5 DEF Step
<1> QED  BY <1>1, <1>2 DEF EndedBeside, TookMarkBack

(* Nothing is owed when the mark stays, nobody comes to run under block    *)
(* and nobody is forgotten of those that have ended.                       *)
LEMMA StaysPaid ==
    ASSUME NEW k \in Keys, Paid(k), running'[k] = running[k],
           UnderBlock(k)' \subseteq UnderBlock(k), EndedBeside(k) \subseteq EndedBeside(k)'
    PROVE  Paid(k)'
<1>1. Cardinality(UnderBlock(k)') <= Cardinality(UnderBlock(k))
  BY FiniteSides, FS_Subset
<1>2. Cardinality(EndedBeside(k)) <= Cardinality(EndedBeside(k)')
  BY FiniteSidesNext, FS_Subset
<1> QED  BY <1>1, <1>2, FiniteSides, FiniteSidesNext DEF Paid

(* tryAcquire: under block there was no mark to begin with. *)
LEMMA AcquirePaid ==
    ASSUME TInv, PaidInv, NEW h \in Handlers, Acquire(h)
    PROVE  PaidInv'
<1> PICK key : key = task[h].key
  OBVIOUS
<1>1. /\ pc[h] = "acquire" /\ pc'[h] \in {"dispatch", "run"} /\ task' = task /\ resp' = resp
      /\ key \in Keys /\ now \in Nat /\ began'[h] = now
      /\ \A g \in Handlers \ {h} : pc'[g] = pc[g] /\ began'[g] = began[g]
      /\ running'[key] /\ \A k \in Keys : k # key => running'[k] = running[k]
  BY TaskKeys DEF Acquire, At, Goto, given, TInv, TypeOK, EngineTypeOK, HandlerTypeOK,
                  Settled, Chosen
<1>2. HoldersBegan'
  BY <1>1 DEF PaidInv, HoldersBegan, Never
<1>3. ASSUME NEW k \in Keys PROVE EndedBeside(k) \subseteq EndedBeside(k)'
  BY EndedStays DEF Step
<1>4. ASSUME NEW k \in Keys, k # key PROVE Paid(k)'
  <2>1. UnderBlock(k)' = UnderBlock(k)
    BY <1>1, <1>4 DEF UnderBlock, Holds, Holding
  <2> QED  BY <1>1, <1>3, <1>4, <2>1, StaysPaid DEF PaidInv
<1>5. CASE task[h].exec.policy # "block"
  <2>1. UnderBlock(key)' = UnderBlock(key)
    BY <1>1, <1>5 DEF UnderBlock, Holds, Holding
  <2>2. Cardinality(EndedBeside(key)) <= Cardinality(EndedBeside(key)')
    BY <1>1, <1>3, FiniteSidesNext, FS_Subset
  <2>3. Paid(key)'
    BY <1>1, <2>1, <2>2, FiniteSides, FiniteSidesNext DEF PaidInv, Paid
  <2> QED  BY <1>2, <1>4, <2>3 DEF PaidInv
<1>6. CASE task[h].exec.policy = "block"
  <2>1. ~ running[key]
    BY <1>6 DEF Acquire, Busy
  <2>2. h \notin UnderBlock(key) /\ UnderBlock(key)' = UnderBlock(key) \cup {h}
    BY <1>1, <1>6 DEF UnderBlock, Holds, Holding
  <2>3. Cardinality(UnderBlock(key)') = Cardinality(UnderBlock(key)) + 1
    BY <2>2, FiniteSides, FS_AddElement
  <2>4. Cardinality(EndedBeside(key)) <= Cardinality(EndedBeside(key)')
    BY <1>1, <1>3, FiniteSidesNext, FS_Subset
  <2>5. Paid(key)'
    BY <1>1, <2>1, <2>3, <2>4, FiniteSides, FiniteSidesNext DEF PaidInv, Paid
  <2> QED  BY <1>2, <1>4, <2>5 DEF PaidInv
<1> QED  BY <1>5, <1>6

(* markDone: the mark goes, and with it an execution under block, or one   *)
(* joins those that have ended beside it.                                  *)
LEMMA MarkDonePaid ==
    ASSUME TInv, AbortedIsDone, PaidInv, NEW h \in Handlers, GiveUp(h) \/ Unmark(h)
    PROVE  PaidInv'
<1> PICK key : key = task[h].key
  OBVIOUS
<1>1. /\ pc[h] \in {"give up", "unmark"} /\ pc'[h] \in {"done", "release"}
      /\ task' = task /\ began' = began /\ resp'[h] # "aborted" /\ key \in Keys
      /\ \A g \in Handlers \ {h} : pc'[g] = pc[g]
      /\ ~ running'[key] /\ \A k \in Keys : k # key => running'[k] = running[k]
  BY TaskKeys DEF GiveUp, Unmark, MarkDone, At, Respond, Goto, given, TInv, TypeOK,
                  EngineTypeOK, HandlerTypeOK, Settled, Chosen, Holding, AbortedIsDone
<1>2. HoldersBegan'
  BY <1>1 DEF PaidInv, HoldersBegan, Holding
<1>3. ASSUME NEW k \in Keys PROVE EndedBeside(k) \subseteq EndedBeside(k)'
  BY EndedStays DEF Step
<1>4. ASSUME NEW k \in Keys, k # key PROVE Paid(k)'
  <2>1. UnderBlock(k)' = UnderBlock(k)
    BY <1>1, <1>4 DEF UnderBlock, Holds, Holding
  <2> QED  BY <1>1, <1>3, <1>4, <2>1, StaysPaid DEF PaidInv
<1>5. Cardinality(UnderBlock(key)) <= 1 + Cardinality(EndedBeside(key))
  <2>1. Paid(key)
    BY <1>1 DEF PaidInv
  <2>2. CASE running[key]
    BY <2>1, <2>2 DEF Paid
  <2>3. CASE ~ running[key]
    BY <2>1, <2>3, FiniteSides DEF Paid
  <2> QED  BY <2>2, <2>3
<1>6. CASE task[h].exec.policy = "block"
  <2>1. h \in UnderBlock(key) /\ UnderBlock(key)' = UnderBlock(key) \ {h}
    BY <1>1, <1>6 DEF UnderBlock, Holds, Holding
  <2>2. Cardinality(UnderBlock(key)') = Cardinality(UnderBlock(key)) - 1
    BY <2>1, FiniteSides, FS_RemoveElement
  <2>3. Cardinality(EndedBeside(key)) <= Cardinality(EndedBeside(key)')
    BY <1>1, <1>3, FiniteSidesNext, FS_Subset
  <2>4. Paid(key)'
    <3>1. Cardinality(UnderBlock(key)') <= Cardinality(EndedBeside(key)')
      BY <1>5, <2>2, <2>3, FiniteSides, FiniteSidesNext
    <3>2. ~ running'[key]
      BY <1>1
    <3> QED  BY <3>1, <3>2, FiniteSidesNext DEF Paid
  <2> QED  BY <1>2, <1>4, <2>4 DEF PaidInv
<1>7. CASE task[h].exec.policy # "block"
  <2>1. UnderBlock(key)' = UnderBlock(key)
    BY <1>1, <1>7 DEF UnderBlock, Holds, Holding
  <2>2. h \notin EndedBeside(key)
    BY <1>1 DEF EndedBeside, TookMarkBack
  <2>3. h \in EndedBeside(key)'
    BY <1>1, <1>7 DEF EndedBeside, TookMarkBack, PaidInv, HoldersBegan, Holding
  <2>4. EndedBeside(key) \cup {h} \subseteq EndedBeside(key)'
    BY <1>1, <1>3, <2>3
  <2>5. Cardinality(EndedBeside(key)) + 1 <= Cardinality(EndedBeside(key)')
    <3>1. Cardinality(EndedBeside(key) \cup {h}) = Cardinality(EndedBeside(key)) + 1
      BY <2>2, FiniteSides, FS_AddElement
    <3>2. Cardinality(EndedBeside(key) \cup {h}) <= Cardinality(EndedBeside(key)')
      BY <2>4, FiniteSidesNext, FS_Subset
    <3> QED  BY <3>1, <3>2
  <2>6. Paid(key)'
    <3>1. Cardinality(UnderBlock(key)') <= Cardinality(EndedBeside(key)')
      BY <1>5, <2>1, <2>5, FiniteSides, FiniteSidesNext
    <3>2. ~ running'[key]
      BY <1>1
    <3> QED  BY <3>1, <3>2, FiniteSidesNext DEF Paid
  <2> QED  BY <1>2, <1>4, <2>6 DEF PaidInv
<1> QED  BY <1>6, <1>7

(* The other steps of a handler leave the marks alone, and who holds a key *)
(* after them has held it before.                                          *)
LEMMA OtherPaid ==
    ASSUME TInv, PaidInv, NEW h \in Handlers,
           Step(h) \/ \E r \in Requests : Arrive(h, r),
           ~ Acquire(h), ~ GiveUp(h), ~ Unmark(h)
    PROVE  PaidInv'
<1>1. running' = running /\ began' = began
  <2>1. CASE PlainStep(h) /\ ~ GiveUp(h) /\ ~ Unmark(h)
    BY <2>1 DEF PlainStep, NoMatch, Reject401, Skip, Duplicate, Refuse, TakeSlot, NoSlotFree,
       AddRecord, Spawn, Finish, CompleteRecord, ReleaseSlot, LeaveWG, shared, policyVars
  <2>2. CASE Match(h) \/ \E r \in Requests : Arrive(h, r)
    BY <2>2 DEF Match, Arrive, shared, policyVars
  <2> QED  BY <2>1, <2>2 DEF Step, PlainStep
<1>2. ASSUME NEW g \in Handlers, pc'[g] \in Holding
      PROVE  pc[g] \in Holding /\ task'[g] = task[g]
  <2>1. CASE \E how \in Outcomes : Finish(h, how)
    <3>1. PICK how \in Outcomes : Finish(h, how)
      BY <2>1
    <3>2. pc[h] = "run" /\ task' = task /\ \A f \in Handlers \ {h} : pc'[f] = pc[f]
      BY <3>1 DEF Finish, At, Respond, Goto, TInv, TypeOK, HandlerTypeOK
    <3> QED  BY <1>2, <3>2 DEF Holding
  <2>2. CASE ~ \E how \in Outcomes : Finish(h, how)
    BY <1>2, <2>2, KeepingSteps DEF Step, Others
  <2> QED  BY <2>1, <2>2
<1>3. HoldersBegan'
  BY <1>1, <1>2 DEF PaidInv, HoldersBegan
<1>4. ASSUME NEW k \in Keys PROVE Paid(k)'
  <2>1. UnderBlock(k)' \subseteq UnderBlock(k)
    BY <1>2 DEF UnderBlock, Holds
  <2> QED  BY <1>1, <2>1, EndedStays, StaysPaid DEF PaidInv
<1> QED  BY <1>3, <1>4 DEF PaidInv

(* The account is kept by every step. *)
LEMMA NextPaid == TInv /\ RInv /\ PaidInv /\ [Next]_vars => PaidInv'
<1> SUFFICES ASSUME TInv, RInv, PaidInv, [Next]_vars
             PROVE  PaidInv'
  OBVIOUS
<1>1. ASSUME NEW h \in Handlers, Step(h) \/ \E r \in Requests : Arrive(h, r)
      PROVE  PaidInv'
  BY <1>1, AcquirePaid, MarkDonePaid, OtherPaid DEF RInv
<1>2. CASE \/ \E list \in ConfigLists : UpdateConfigs(list)
           \/ DedupCleanup \/ Tick \/ UNCHANGED vars
  <2>1. UNCHANGED <<pc, task, resp, running, began>>
    BY <1>2 DEF UpdateConfigs, DedupCleanup, Tick, vars, shared, policyVars, handlerVars, given
  <2> QED
    BY <2>1 DEF PaidInv, HoldersBegan, Paid, UnderBlock, EndedBeside, Holds, TookMarkBack
<1> QED  BY <1>1, <1>2 DEF Next

LEMMA InitPaid == Init => PaidInv
<1> SUFFICES ASSUME Init PROVE PaidInv
  OBVIOUS
<1>1. HoldersBegan
  BY DEF Init, HoldersBegan, Holding
<1>2. ASSUME NEW k \in Keys PROVE Paid(k)
  <2>1. UnderBlock(k) = {} /\ EndedBeside(k) = {} /\ ~ running[k]
    BY DEF Init, UnderBlock, EndedBeside, Holds, Holding, TookMarkBack
  <2> QED  BY <2>1, FS_EmptySet DEF Paid
<1> QED  BY <1>1, <1>2 DEF PaidInv

(* Whatever policies the reloads give a key: executions under block        *)
(* overlap only as often as executions under another policy have ended.    *)
THEOREM OverlapsArePaidFor == Spec => []OverlapsPaidFor
<1>1. PaidInv => OverlapsPaidFor
  <2> SUFFICES ASSUME PaidInv, NEW k \in Keys
               PROVE  Cardinality(UnderBlock(k)) <= 1 + Cardinality(EndedBeside(k))
    BY DEF OverlapsPaidFor
  <2> QED  BY FiniteSides DEF PaidInv, Paid
<1> QED
  BY InitType, NextType, InitHolders, NextHolders, InitPaid, NextPaid, <1>1, PTL DEF Spec

-----------------------------------------------------------------------------
(***************************************************************************)
(* The execution records, when requests have IDs of their own.  A record   *)
(* is that of a background task, under whose ID the index finds it and     *)
(* nothing else, so that the task completes its own or, after an eviction, *)
(* none.                                                                   *)
(***************************************************************************)
Recorded(h) ==
    /\ task[h].async
    /\ pc[h] \in {"spawn", "run", "complete", "unmark", "release", "leave", "done"}

StatusOf(h) ==
    IF pc[h] \in {"spawn", "run", "complete"} THEN "running"
    ELSE IF outcome[h] = "succeeded" THEN "succeeded" ELSE "failed"

OwnIDs == \A g, h \in Handlers : req[g].id = req[h].id /\ req[g].id \in IDs => g = h

(* The record of a slot is that of its handler, and tells how it stands. *)
RecordOf(s) ==
    records[s] # Store!Blank =>
        /\ Recorded(records[s].run)
        /\ req[records[s].run].id = records[s].id
        /\ index[records[s].id] = s
        /\ records[s].status = StatusOf(records[s].run)

IndexSound ==
    \A id \in IDs : index[id] # Store!NoSlot => records[index[id]].id = id

RecordInv == OwnIDs /\ IndexSound /\ \A s \in Store!Slots : RecordOf(s)

(* A slot that is not blank holds the record of a handler. *)
LEMMA RecordTypes ==
    ASSUME TInv, NEW s \in Store!Slots, records[s] # Store!Blank
    PROVE  /\ records[s] \in Store!Record
           /\ records[s].run \in Handlers /\ records[s].id \in IDs
BY DEF TInv, TypeOK, Store!StoreTypeOK, Store!Record

(* Steps that touch no record, and move a recorded handler only to where   *)
(* its record says the same.                                               *)
LEMMA RecordsStay ==
    ASSUME TInv, RecordInv, UNCHANGED storeVars, OwnIDs',
           \A h \in Handlers : Recorded(h) =>
               Recorded(h)' /\ req'[h].id = req[h].id /\ StatusOf(h)' = StatusOf(h)
    PROVE  RecordInv'
<1>1. IndexSound'
  BY DEF RecordInv, IndexSound, storeVars
<1>2. ASSUME NEW s \in Store!Slots PROVE RecordOf(s)'
  BY RecordTypes DEF RecordInv, RecordOf, storeVars
<1> QED  BY <1>1, <1>2 DEF RecordInv

(* Steps that neither add nor complete a record move no handler past the   *)
(* point at which its record is made or completed.                         *)
LEMMA MoveRecords ==
    ASSUME TInv, AsyncOnly, RecordInv, NEW h \in Handlers,
           Step(h), ~ AddRecord(h), ~ CompleteRecord(h)
    PROVE  RecordInv'
<1> USE DEF TInv, TypeOK, HandlerTypeOK, AsyncOnly, At, Goto, Respond, given, storeVars
<1>1. /\ UNCHANGED storeVars /\ req' = req
      /\ \A g \in Handlers \ {h} : pc'[g] = pc[g] /\ task'[g] = task[g] /\ outcome'[g] = outcome[g]
      /\ Recorded(h) => Recorded(h)' /\ StatusOf(h)' = StatusOf(h)
  <2> USE DEF Recorded, StatusOf
  <2>1. CASE NoMatch(h) \/ Reject401(h) \/ Skip(h) \/ Duplicate(h) \/ Refuse(h)
    BY <2>1 DEF NoMatch, Reject401, Skip, Duplicate, Refuse, shared
  <2>2. CASE Match(h)
    BY <2>2 DEF Match, shared
  <2>3. CASE Acquire(h) \/ TakeSlot(h) \/ NoSlotFree(h) \/ GiveUp(h) \/ Spawn(h)
    BY <2>3 DEF Acquire, TakeSlot, NoSlotFree, GiveUp, Spawn, shared
  <2>4. CASE \E how \in Outcomes : Finish(h, how)
    BY <2>4 DEF Finish, shared
  <2>5. CASE Unmark(h) \/ ReleaseSlot(h) \/ LeaveWG(h)
    BY <2>5 DEF Unmark, ReleaseSlot, LeaveWG
  <2> QED  BY <2>1, <2>2, <2>3, <2>4, <2>5 DEF Step
<1>2. OwnIDs'
  BY <1>1 DEF RecordInv, OwnIDs
<1> QED  BY <1>1, <1>2, RecordsStay DEF Recorded, StatusOf

(* With IDs of their own, an arriving request has no record yet. *)
LEMMA ArriveRecords ==
    ASSUME TInv, RecordInv, ~ Inherited, NEW h \in Handlers, NEW r \in Requests, Arrive(h, r)
    PROVE  RecordInv'
<1>1. /\ UNCHANGED <<records, next, wrapped, index, task, outcome>>
      /\ pc[h] = "idle" /\ req'[h] = r
      /\ \A g \in Handlers \ {h} : pc'[g] = pc[g] /\ req'[g] = req[g] /\ req[g].id # r.id
  BY DEF Arrive, MayCarry, shared, storeVars, At, Goto, TInv, TypeOK, HandlerTypeOK
<1>2. OwnIDs'
  BY <1>1 DEF RecordInv, OwnIDs
<1> QED  BY <1>1, <1>2, RecordsStay DEF Recorded, StatusOf, storeVars

(* The new record makes room for itself and goes under an ID nobody has.   *)
LEMMA AddRecords ==
    ASSUME TInv, AsyncOnly, RecordInv, NEW h \in Handlers, AddRecord(h)
    PROVE  RecordInv'
<1> DEFINE id == req[h].id
           rec == [id |-> id, run |-> h, status |-> "running"]
<1>0. /\ pc[h] = "record" /\ pc' = [pc EXCEPT ![h] = "spawn"] /\ task[h].async
      /\ UNCHANGED <<req, task, outcome>>
      /\ Store!Add(rec)
  BY DEF AddRecord, AsyncOnly, At, Goto, given
<1>1. id \in IDs
  BY <1>0, RequestsAssumption DEF TInv, Settled
<1>2. /\ rec.id = id /\ rec.run = h /\ rec.status = "running"
      /\ rec # Store!Blank
  BY <1>1, StoreAssumption DEF Store!Blank
<1> HIDE DEF rec, id
<1>3. /\ records' = [records EXCEPT ![next] = rec]
      /\ index' = [Store!Evicted EXCEPT ![id] = next]
      /\ next \in Store!Slots
  BY <1>0, <1>2 DEF Store!Add, TInv, TypeOK, Store!StoreTypeOK
<1>4. /\ records'[next] = rec /\ index'[id] = next
      /\ \A s \in Store!Slots \ {next} : records'[s] = records[s]
      /\ \A i \in IDs \ {id} :
            index'[i] = IF i = records[next].id THEN Store!NoSlot ELSE index[i]
  BY <1>1, <1>3 DEF TInv, TypeOK, Store!StoreTypeOK, Store!Evicted
<1>5. /\ Recorded(h)' /\ StatusOf(h)' = "running"
      /\ \A g \in Handlers : Recorded(g) => g # h /\ Recorded(g)' /\ StatusOf(g)' = StatusOf(g)
  BY <1>0 DEF Recorded, StatusOf, TInv, TypeOK, HandlerTypeOK
<1>6. ASSUME NEW s \in Store!Slots PROVE RecordOf(s)'
  <2>1. CASE s = next
    BY <1>0, <1>2, <1>4, <1>5, <2>1 DEF RecordOf, id
  <2>2. CASE s # next /\ records[s] # Store!Blank
    <3>1. /\ records[s].run \in Handlers /\ records[s].id \in IDs
          /\ Recorded(records[s].run) /\ req[records[s].run].id = records[s].id
          /\ index[records[s].id] = s
          /\ records[s].status = StatusOf(records[s].run)
      BY <2>2, RecordTypes DEF RecordInv, RecordOf
    <3>2. records[s].id # id
      BY <1>1, <1>5, <3>1 DEF RecordInv, OwnIDs, id
    <3>3. records[s].id # records[next].id
      <4>1. CASE records[next] = Store!Blank
        BY <3>1, <4>1, StoreAssumption DEF Store!Blank
      <4>2. CASE records[next] # Store!Blank
        BY <1>3, <2>2, <3>1, <4>2 DEF RecordInv, RecordOf
      <4> QED  BY <4>1, <4>2
    <3>4. index'[records[s].id] = s
      BY <1>4, <3>1, <3>2, <3>3
    <3> QED  BY <1>0, <1>4, <1>5, <2>2, <3>1, <3>4 DEF RecordOf
  <2>3. CASE s # next /\ records[s] = Store!Blank
    BY <1>4, <2>3 DEF RecordOf
  <2> QED  BY <2>1, <2>2, <2>3
<1>7. IndexSound'
  <2> SUFFICES ASSUME NEW i \in IDs, index'[i] # Store!NoSlot
               PROVE  records'[index'[i]].id = i
    BY DEF IndexSound
  <2>1. CASE i = id
    BY <1>2, <1>4, <2>1
  <2>2. CASE i # id
    <3>1. i # records[next].id /\ index'[i] = index[i]
      BY <1>4, <2>2
    <3>2. index[i] \in Store!Slots /\ records[index[i]].id = i
      BY <3>1 DEF RecordInv, IndexSound, TInv, TypeOK, Store!StoreTypeOK
    <3> QED  BY <1>4, <3>1, <3>2
  <2> QED  BY <2>1, <2>2
<1>8. OwnIDs'
  BY <1>0 DEF RecordInv, OwnIDs
<1> QED  BY <1>6, <1>7, <1>8 DEF RecordInv

(* The task completes its own record, or one that is gone. *)
LEMMA CompleteRecords ==
    ASSUME TInv, AsyncOnly, RecordInv, NEW h \in Handlers, CompleteRecord(h)
    PROVE  RecordInv'
<1> DEFINE id == req[h].id
           status == IF outcome[h] = "succeeded" THEN "succeeded" ELSE "failed"
<1>0. /\ pc[h] = "complete" /\ pc' = [pc EXCEPT ![h] = "unmark"] /\ task[h].async
      /\ UNCHANGED <<req, task, outcome>>
      /\ Store!Complete(id, status)
  BY DEF CompleteRecord, AsyncOnly, At, Goto, given
<1>1. id \in IDs /\ status \in Store!Statuses
  BY <1>0, RequestsAssumption DEF TInv, Settled, Store!Statuses, Store!Finished
<1>2. /\ Recorded(h)' /\ StatusOf(h)' = status
      /\ \A g \in Handlers : Recorded(g) => Recorded(g)'
      /\ \A g \in Handlers \ {h} : StatusOf(g)' = StatusOf(g)
  BY <1>0 DEF Recorded, StatusOf, TInv, TypeOK, HandlerTypeOK
<1> HIDE DEF id, status
<1>3. index' = index
  BY <1>0 DEF Store!Complete
<1>4. ASSUME NEW s \in Store!Slots, records[s] # Store!Blank
      PROVE  records[s].run = h <=> index[id] = s
  <2>1. /\ records[s].run \in Handlers /\ records[s].id \in IDs
        /\ req[records[s].run].id = records[s].id /\ index[records[s].id] = s
    BY <1>4, RecordTypes DEF RecordInv, RecordOf
  <2>2. records[s].run = h => index[id] = s
    BY <2>1 DEF id
  <2>3. ASSUME index[id] = s PROVE records[s].run = h
    <3>1. s # Store!NoSlot
      BY StoreAssumption DEF Store!Slots, Store!NoSlot
    <3>2. records[s].id = id
      BY <1>1, <2>3, <3>1 DEF RecordInv, IndexSound
    <3> QED  BY <1>1, <2>1, <3>2 DEF RecordInv, OwnIDs, id
  <2> QED  BY <2>2, <2>3
<1>5. ASSUME NEW s \in Store!Slots, s # index[id]
      PROVE  records'[s] = records[s]
  BY <1>0, <1>5 DEF Store!Complete, TInv, TypeOK, Store!StoreTypeOK
<1>6. ASSUME NEW s \in Store!Slots, s = index[id]
      PROVE  /\ records[s] # Store!Blank /\ records'[s] # Store!Blank
             /\ records'[s].id = records[s].id /\ records'[s].run = records[s].run
             /\ records'[s].status = status
  <2>1. s # Store!NoSlot
    BY StoreAssumption DEF Store!Slots, Store!NoSlot
  <2>2. records[s] # Store!Blank
    BY <1>1, <1>6, <2>1 DEF TInv, IndexWritten
  <2>3. records[s] \in Store!Record
    BY <2>2, RecordTypes
  <2>4. records'[s] = [records[s] EXCEPT !.status = status]
    BY <1>0, <1>6, <2>1 DEF Store!Complete, TInv, TypeOK, Store!StoreTypeOK
  <2>5. /\ records'[s].id = records[s].id /\ records'[s].run = records[s].run
        /\ records'[s].status = status
    BY <2>3, <2>4 DEF Store!Record
  <2>6. records'[s] # Store!Blank
    BY <2>3, <2>5, StoreAssumption DEF Store!Record, Store!Blank
  <2> QED  BY <2>2, <2>5, <2>6
<1>7. ASSUME NEW s \in Store!Slots PROVE RecordOf(s)'
  <2>1. CASE s = index[id]
    <3>1. records[s].run = h /\ Recorded(h) /\ req[h].id = records[s].id
          /\ index[records[s].id] = s
      BY <1>4, <1>6, <2>1 DEF RecordInv, RecordOf
    <3> QED  BY <1>0, <1>2, <1>3, <1>6, <2>1, <3>1 DEF RecordOf
  <2>2. CASE s # index[id] /\ records[s] # Store!Blank
    <3>1. records'[s] = records[s] /\ records[s].run \in Handlers \ {h}
      BY <1>4, <1>5, <2>2, RecordTypes
    <3>2. RecordOf(s)
      BY DEF RecordInv
    <3> QED  BY <1>0, <1>2, <1>3, <2>2, <3>1, <3>2 DEF RecordOf
  <2>3. CASE s # index[id] /\ records[s] = Store!Blank
    BY <1>5, <2>3 DEF RecordOf
  <2> QED  BY <2>1, <2>2, <2>3
<1>8. IndexSound'
  <2> SUFFICES ASSUME NEW i \in IDs, index[i] # Store!NoSlot
               PROVE  records'[index[i]].id = i
    BY <1>3 DEF IndexSound
  <2>1. index[i] \in Store!Slots /\ records[index[i]].id = i
    BY DEF RecordInv, IndexSound, TInv, TypeOK, Store!StoreTypeOK
  <2>2. CASE index[i] = index[id]
    BY <1>6, <2>1, <2>2
  <2>3. CASE index[i] # index[id]
    BY <1>5, <2>1, <2>3
  <2> QED  BY <2>2, <2>3
<1>9. OwnIDs'
  BY <1>0 DEF RecordInv, OwnIDs
<1> QED  BY <1>7, <1>8, <1>9 DEF RecordInv

(* RecordInv is kept by every step. *)
LEMMA NextRecords == ~ Inherited /\ TInv /\ AInv /\ RecordInv /\ [Next]_vars => RecordInv'
<1> SUFFICES ASSUME ~ Inherited, TInv, AsyncOnly, RecordInv, [Next]_vars PROVE RecordInv'
  BY DEF AInv
<1>1. ASSUME NEW h \in Handlers, Step(h) PROVE RecordInv'
  BY <1>1, MoveRecords, AddRecords, CompleteRecords
<1>2. ASSUME NEW h \in Handlers, NEW r \in Requests, Arrive(h, r) PROVE RecordInv'
  BY <1>2, ArriveRecords
<1>3. CASE (\E list \in ConfigLists : UpdateConfigs(list)) \/ DedupCleanup \/ Tick \/ UNCHANGED vars
  <2>1. UNCHANGED <<records, next, wrapped, index, pc, req, task, outcome>>
    BY <1>3 DEF UpdateConfigs, DedupCleanup, Tick, vars, shared, storeVars, handlerVars, given
  <2>2. OwnIDs'
    BY <2>1 DEF RecordInv, OwnIDs
  <2> QED  BY <2>1, <2>2, RecordsStay DEF Recorded, StatusOf, storeVars
<1> QED  BY <1>1, <1>2, <1>3 DEF Next

LEMMA InitRecords == Init => RecordInv
<1> SUFFICES ASSUME Init PROVE RecordInv
  OBVIOUS
<1>1. OwnIDs
  <2>1. \A h \in Handlers : req[h].id = NoID
    BY DEF Init, NoRequest
  <2> QED  BY <2>1, StoreAssumption DEF OwnIDs
<1>2. IndexSound /\ \A s \in Store!Slots : RecordOf(s)
  BY DEF Init, Store!StoreInit, IndexSound, RecordOf
<1> QED  BY <1>1, <1>2 DEF RecordInv

(* In the engine, too, a record that is listed is "running" until the      *)
(* actions of its own request have ended and then tells how they did, for  *)
(* every capacity, number of requests and order of their ends.             *)
THEOREM RecordsAreTruthful == Spec => []RecordsTruthful
<1>1. CASE Inherited
  <2>1. RecordsTruthful
    BY <1>1 DEF RecordsTruthful
  <2> QED  BY <2>1, PTL
<1>2. CASE ~ Inherited
  <2>1. TInv /\ AInv /\ RecordInv /\ [Next]_vars => RecordInv'
    BY <1>2, NextRecords
  <2>2. RecordInv => RecordsTruthful
    BY DEF RecordInv, RecordOf, StatusOf, RecordsTruthful
  <2> QED
    BY InitType, NextType, InitCounters, NextCounters, InitRecords, <2>1, <2>2, PTL DEF Spec
<1> QED  BY <1>1, <1>2

=============================================================================
