------------------------------- MODULE Engine -------------------------------
(***************************************************************************)
(* The webhook processing engine (internal/engine/engine.go): the way of a *)
(* request through the configs, the deduplication check, the execution     *)
(* policy, and then the synchronous run or the background task with its    *)
(* semaphore slot, its WaitGroup count and its execution record.           *)
(*                                                                         *)
(* A handler is one request: first the goroutine net/http runs it on and,  *)
(* when it is dispatched asynchronously, the background goroutine that     *)
(* dispatchAsync starts.  A step is one critical section of the code (of   *)
(* Engine.mu, dedupCache.mu or Store.mu, one operation on asyncSem or      *)
(* asyncWG, or the run of the actions), so handlers interleave wherever    *)
(* goroutines do.                                                          *)
(***************************************************************************)
EXTENDS Integers, Sequences, FiniteSets

CONSTANTS
    Handlers,       \* requests
    ConfigLists,    \* the rule configs a (re)load may install: sequences
    Requests,       \* the requests that may arrive
    IDs,            \* request IDs, inherited or generated by ParseRequest
    MaxAsync,       \* server.max_async_tasks
    Outcomes,       \* how a run of actions may end
    Capacity,       \* execution records kept
    Inherited,      \* requests may carry the ID of another request
    MaxTime,        \* bound on the clock, for model checking
    NoID

(***************************************************************************)
(* A config is [file, name, async, window, exec, rules]: window 0 means    *)
(* deduplication is not enabled; rules is a sequence of [name, exec].      *)
(* exec is NoExec or [policy, cooldown].  Names are sequences of symbols,  *)
(* so that the task key built from them can be taken apart in more than    *)
(* one way, as the code's can.                                             *)
(*                                                                         *)
(* A request is [id, target, auth, filters, rules]: the config file it is  *)
(* addressed to, or AnyConfig; the files whose auth check and whose file   *)
(* filters it passes; the <<file, rule>> pairs whose filters it matches.   *)
(***************************************************************************)
NoExec == [policy |-> "unset", cooldown |-> 0]
DefaultExec == [policy |-> "block", cooldown |-> 0]
AnyConfig == "all"

ASSUME StoreAssumption == Capacity \in Nat \ {0} /\ NoID \notin IDs
ASSUME MaxAsyncAssumption == MaxAsync \in Nat \ {0}
ASSUME MaxTimeAssumption == MaxTime \in Nat
ASSUME InheritedAssumption == Inherited \in BOOLEAN
ASSUME HandlersAssumption == IsFiniteSet(Handlers)
ASSUME OutcomesAssumption == Outcomes \subseteq {"succeeded", "failed", "panic"}

(* resolvePolicy: rule-level, then file-level, then block. *)
ResolvePolicy(fileLevel, ruleLevel) ==
    CASE ruleLevel # NoExec -> ruleLevel
      [] ruleLevel = NoExec /\ fileLevel # NoExec -> fileLevel
      [] OTHER -> DefaultExec

(* taskKey := cfg.Name + "/" + rule.Name *)
TaskKey(cfg, rule) == cfg.name \o <<"/">> \o rule.name

(* What one rule of one config makes of a request. *)
TaskOf(cfg, rule) ==
    [key   |-> TaskKey(cfg, rule),
     exec  |-> ResolvePolicy(cfg.exec, rule.exec),
     async |-> cfg.async,
     dedup |-> cfg.window > 0]

NoTask == [key |-> <<>>, exec |-> NoExec, async |-> FALSE, dedup |-> FALSE]
NoRequest == [id |-> NoID, target |-> AnyConfig,
              auth |-> {}, filters |-> {}, rules |-> {}]

RulesOf(cfg) == {cfg.rules[i] : i \in DOMAIN cfg.rules}
ConfigsOf(list) == {list[i] : i \in DOMAIN list}
AllConfigs == UNION {ConfigsOf(list) : list \in ConfigLists}
ASSUME ConfigsAssumption ==
    /\ ConfigLists \subseteq Seq(AllConfigs)
    /\ \A cfg \in AllConfigs : cfg.window \in Nat
ASSUME RequestsAssumption == \A r \in Requests : r.id \in IDs

Tasks == UNION {{TaskOf(cfg, rule) : rule \in RulesOf(cfg)} : cfg \in AllConfigs}
Keys == {task.key : task \in Tasks}

(* ExecutionConfig.Validate: cooldown_seconds is positive. *)
ASSUME CooldownAssumption ==
    \A t \in Tasks : t.exec.policy = "cooldown" => t.exec.cooldown \in Nat \ {0}

VARIABLES
    now,        \* time.Now()
    configs,    \* Engine.configs
    running,    \* Engine.running: task key -> BOOLEAN
    lastRun,    \* Engine.lastRun: task key -> start time, Never if missing
    entries,    \* Engine.dedup's entries
    asyncSem,   \* len(Engine.asyncSem)
    asyncWG,    \* the counter of Engine.asyncWG
    records, next, wrapped, index,  \* Engine.execStore
    pc,         \* handler -> where it is
    req,        \* handler -> its request
    todo,       \* handler -> the configs it has still to try
    task,       \* handler -> the rule it matched
    outcome,    \* handler -> how its actions ended
    began,      \* history: handler -> when its policy let it start
    resp        \* handler -> the response it has given

Store == INSTANCE ExecStore WITH Runs <- Handlers, NoRun <- NoID
Dedup == INSTANCE DedupCache WITH RequestIDs <- IDs

policyVars == <<running, lastRun, began>>
storeVars == <<records, next, wrapped, index>>
asyncVars == <<asyncSem, asyncWG>>
shared == <<now, configs, policyVars, entries, asyncVars, storeVars>>
given == <<req, todo, task, outcome>>
handlerVars == <<pc, resp, given>>
vars == <<shared, handlerVars>>

Never == -1

Init ==
    /\ now = 0
    /\ configs \in ConfigLists
    /\ running = [k \in Keys |-> FALSE]
    /\ lastRun = [k \in Keys |-> Never]
    /\ began = [h \in Handlers |-> Never]
    /\ Dedup!DedupInit
    /\ asyncSem = 0
    /\ asyncWG = 0
    /\ Store!StoreInit
    /\ pc = [h \in Handlers |-> "idle"]
    /\ req = [h \in Handlers |-> NoRequest]
    /\ todo = [h \in Handlers |-> <<>>]
    /\ task = [h \in Handlers |-> NoTask]
    /\ outcome = [h \in Handlers |-> "none"]
    /\ resp = [h \in Handlers |-> "none"]

-----------------------------------------------------------------------------
(* Moves of one handler. *)
At(h, place) == pc[h] = place
Goto(h, place) == pc' = [pc EXCEPT ![h] = place]

(* The handler answers and has nothing more to do. *)
Respond(h, answer) ==
    /\ resp' = [resp EXCEPT ![h] = answer]
    /\ Goto(h, "done")

(* Mutant of First. *)
Last(S) == {i \in S : \A j \in S : j <= i}

First(S) == {i \in S : \A j \in S : i <= j}

(* Process copies the config list under the lock; ProcessTargeted is given *)
(* the first config with the file name asked for (the server answers 404   *)
(* when there is none, and the engine never sees the request).  The server *)
(* looks that config up in the Manager's list; Manager and Engine have one *)
(* list here, which may be replaced between any two steps, so a handler    *)
(* may be given any list that is loaded (Reload.tla has the two apart).    *)
Targeted(file) == First({i \in DOMAIN configs : configs[i].file = file})

(* ParseRequest inherits the ID a request carries or generates a new one. *)
MayCarry(id) == Inherited \/ \A g \in Handlers : req[g].id # id

Arrive(h, r) ==
    /\ At(h, "idle")
    /\ MayCarry(r.id)
    /\ req' = [req EXCEPT ![h] = r]
    /\ IF r.target = AnyConfig
       THEN todo' = [todo EXCEPT ![h] = configs]
       ELSE \E i \in Targeted(r.target) : todo' = [todo EXCEPT ![h] = <<configs[i]>>]
    /\ Goto(h, "scan")
    /\ UNCHANGED <<shared, task, outcome, resp>>

(* The config under consideration, and what the request makes of it. *)
Current(h) == Head(todo[h])
Authorized(h) == Current(h).file \in req[h].auth
Filtered(h) == Current(h).file \in req[h].filters
Matching(h) ==
    {i \in DOMAIN Current(h).rules :
        <<Current(h).file, Current(h).rules[i].name>> \in req[h].rules}

(* No config is left: 200, "No matching rules". *)
NoMatch(h) ==
    /\ At(h, "scan")
    /\ todo[h] = <<>>
    /\ Respond(h, "no match")
    /\ UNCHANGED <<shared, given>>

(* ProcessTargeted: a failed auth check is a 401. *)
Reject401(h) ==
    /\ At(h, "scan")
    /\ todo[h] # <<>>
    /\ ~ Authorized(h)
    /\ req[h].target # AnyConfig
    /\ Respond(h, "unauthorized")
    /\ UNCHANGED <<shared, given>>

(* Process: a config whose auth check or whose file filters fail is passed *)
(* over; processConfig returns nil before the deduplication check.         *)
Skip(h) ==
    /\ At(h, "scan")
    /\ todo[h] # <<>>
    /\ \/ ~ Authorized(h) /\ req[h].target = AnyConfig
       \/ Authorized(h) /\ ~ Filtered(h)
    /\ todo' = [todo EXCEPT ![h] = Tail(@)]
    /\ UNCHANGED <<shared, pc, req, task, outcome, resp>>

Deduplicates(h) == Current(h).window > 0

(* processConfig: IsDuplicate answers true. *)
Duplicate(h) ==
    /\ At(h, "scan")
    /\ todo[h] # <<>>
    /\ Authorized(h) /\ Filtered(h)
    /\ Deduplicates(h) /\ Dedup!Seen(req[h].id)
    /\ Respond(h, "deduplicated")
    /\ UNCHANGED <<shared, given>>

(* processConfig: the ID is recorded if the config deduplicates; then the  *)
(* first rule whose filters match is taken, or the next config.            *)
Match(h) ==
    /\ At(h, "scan")
    /\ todo[h] # <<>>
    /\ Authorized(h) /\ Filtered(h)
    /\ IF Deduplicates(h)
       THEN ~ Dedup!Seen(req[h].id) /\ Dedup!Note(req[h].id, Current(h).window)
       ELSE UNCHANGED entries
    /\ IF Matching(h) = {}
       THEN /\ todo' = [todo EXCEPT ![h] = Tail(@)]
            /\ UNCHANGED <<pc, task>>
       ELSE /\ \E i \in First(Matching(h)) :
                  task' = [task EXCEPT ![h] = TaskOf(Current(h), Current(h).rules[i])]
            /\ todo' = [todo EXCEPT ![h] = <<>>]
            /\ Goto(h, "acquire")
    /\ UNCHANGED <<now, configs, policyVars, asyncVars, storeVars, req, outcome, resp>>

(* tryAcquire: why the policy of a task refuses to start it now.  Mutant   *)
(* of Cooling: a cooldown is for tasks that run.                           *)
Busy(t) == t.exec.policy = "block" /\ running[t.key]
CoolingWhileBusy(t) ==
    /\ t.exec.policy = "cooldown"
    /\ running[t.key] /\ now - lastRun[t.key] < t.exec.cooldown

Cooling(t) ==
    /\ t.exec.policy = "cooldown"
    /\ lastRun[t.key] # Never
    /\ now - lastRun[t.key] < t.exec.cooldown

(* Mutant of Refuse: a request waits for the cooldown to pass. *)
RefuseBusy(h) ==
    /\ At(h, "acquire")
    /\ Busy(task[h])
    /\ Respond(h, "busy")
    /\ UNCHANGED <<shared, given>>

Refuse(h) ==
    /\ At(h, "acquire")
    /\ \/ Busy(task[h]) /\ Respond(h, "busy")
       \/ Cooling(task[h]) /\ Respond(h, "cooling down")
    /\ UNCHANGED <<shared, given>>

(* Mutant of Acquire: the mark is set for synchronous runs only. *)
AcquireSync(h) ==
    /\ At(h, "acquire")
    /\ ~ Busy(task[h]) /\ ~ Cooling(task[h])
    /\ running' = IF task[h].async THEN running
                  ELSE [running EXCEPT ![task[h].key] = TRUE]
    /\ lastRun' = [lastRun EXCEPT ![task[h].key] = now]
    /\ began' = [began EXCEPT ![h] = now]
    /\ Goto(h, IF task[h].async THEN "dispatch" ELSE "run")
    /\ UNCHANGED <<now, configs, entries, asyncVars, storeVars, given, resp>>

(* tryAcquire: check and set under one lock. *)
Acquire(h) ==
    /\ At(h, "acquire")
    /\ ~ Busy(task[h]) /\ ~ Cooling(task[h])
    /\ running' = [running EXCEPT ![task[h].key] = TRUE]
    /\ lastRun' = [lastRun EXCEPT ![task[h].key] = now]
    /\ began' = [began EXCEPT ![h] = now]
    /\ Goto(h, IF task[h].async THEN "dispatch" ELSE "run")
    /\ UNCHANGED <<now, configs, entries, asyncVars, storeVars, given, resp>>

-----------------------------------------------------------------------------
(* dispatchAsync: a slot of the semaphore, or backpressure. *)
TakeSlot(h) ==
    /\ At(h, "dispatch")
    /\ asyncSem < MaxAsync
    /\ asyncSem' = asyncSem + 1
    /\ Goto(h, "record")
    /\ UNCHANGED <<now, configs, policyVars, entries, asyncWG, storeVars, given, resp>>

NoSlotFree(h) ==
    /\ At(h, "dispatch")
    /\ asyncSem = MaxAsync
    /\ Goto(h, "give up")
    /\ UNCHANGED <<shared, given, resp>>

MarkDone(k) == running' = [running EXCEPT ![k] = FALSE]

(* Mutant of GiveUp: the mark is not taken back. *)
GiveUpMarked(h) ==
    /\ At(h, "give up")
    /\ Respond(h, "limit reached")
    /\ UNCHANGED <<shared, given>>

GiveUp(h) ==
    /\ At(h, "give up")
    /\ MarkDone(task[h].key)
    /\ Respond(h, "limit reached")
    /\ UNCHANGED <<now, configs, lastRun, began, entries, asyncVars, storeVars, given>>

AddRecord(h) ==
    /\ At(h, "record")
    /\ Store!Add([id |-> req[h].id, run |-> h, status |-> "running"])
    /\ Goto(h, "spawn")
    /\ UNCHANGED <<now, configs, policyVars, entries, asyncVars, given, resp>>

(* asyncWG.Add, the go statement, and the 202. *)
Spawn(h) ==
    /\ At(h, "spawn")
    /\ asyncWG' = asyncWG + 1
    /\ Goto(h, "run")
    /\ resp' = [resp EXCEPT ![h] = "accepted"]
    /\ UNCHANGED <<now, configs, policyVars, entries, asyncSem, storeVars, given>>

(* executeActions ends.  A panic is recovered by the deferred function of  *)
(* the background goroutine; on the synchronous path nothing but net/http  *)
(* recovers it, and markDone is not deferred there.                        *)
Finish(h, how) ==
    /\ At(h, "run")
    /\ outcome' = [outcome EXCEPT ![h] = how]
    /\ IF task[h].async
       THEN Goto(h, "complete") /\ UNCHANGED resp
       ELSE IF how = "panic"
            THEN Respond(h, "aborted")
            ELSE Goto(h, "unmark") /\ UNCHANGED resp
    /\ UNCHANGED <<shared, req, todo, task>>

(* Mutant of CompleteRecord: the recover of a panic leaves the record alone. *)
CompleteRecordNoPanic(h) ==
    /\ At(h, "complete")
    /\ IF outcome[h] = "panic"
       THEN UNCHANGED storeVars
       ELSE Store!Complete(req[h].id, outcome[h])
    /\ Goto(h, "unmark")
    /\ UNCHANGED <<now, configs, policyVars, entries, asyncVars, given, resp>>

CompleteRecord(h) ==
    /\ At(h, "complete")
    /\ Store!Complete(req[h].id,
            IF outcome[h] = "succeeded" THEN "succeeded" ELSE "failed")
    /\ Goto(h, "unmark")
    /\ UNCHANGED <<now, configs, policyVars, entries, asyncVars, given, resp>>

(* Mutant of Unmark: waits for a mark that another run may have taken away. *)
UnmarkMarked(h) ==
    /\ At(h, "unmark")
    /\ running[task[h].key]
    /\ MarkDone(task[h].key)
    /\ IF task[h].async
       THEN Goto(h, "release") /\ UNCHANGED resp
       ELSE Respond(h, "ok")
    /\ UNCHANGED <<now, configs, lastRun, began, entries, asyncVars, storeVars, given>>

(* markDone, whatever else runs under the key.  The synchronous path       *)
(* answers 200 "ok", whether or not actions failed.                        *)
Unmark(h) ==
    /\ At(h, "unmark")
    /\ MarkDone(task[h].key)
    /\ IF task[h].async
       THEN Goto(h, "release") /\ UNCHANGED resp
       ELSE Respond(h, "ok")
    /\ UNCHANGED <<now, configs, lastRun, began, entries, asyncVars, storeVars, given>>

(* Mutant of ReleaseSlot: the slot is given back unless the actions panicked. *)
ReleaseSlotNoPanic(h) ==
    /\ At(h, "release")
    /\ asyncSem' = IF outcome[h] = "panic" THEN asyncSem ELSE asyncSem - 1
    /\ Goto(h, "leave")
    /\ UNCHANGED <<now, configs, policyVars, entries, asyncWG, storeVars, given, resp>>

(* Mutant of ReleaseSlot: markDone is deferred too, and so called twice. *)
ReleaseSlotMarking(h) ==
    /\ At(h, "release")
    /\ asyncSem' = asyncSem - 1
    /\ MarkDone(task[h].key)
    /\ Goto(h, "leave")
    /\ UNCHANGED <<now, configs, lastRun, began, entries, asyncWG, storeVars, given, resp>>

ReleaseSlot(h) ==
    /\ At(h, "release")
    /\ asyncSem' = asyncSem - 1
    /\ Goto(h, "leave")
    /\ UNCHANGED <<now, configs, policyVars, entries, asyncWG, storeVars, given, resp>>

LeaveWG(h) ==
    /\ At(h, "leave")
    /\ asyncWG' = asyncWG - 1
    /\ Goto(h, "done")
    /\ UNCHANGED <<now, configs, policyVars, entries, asyncSem, storeVars, given, resp>>

-----------------------------------------------------------------------------
(* Reload: UpdateConfigs replaces the list; handlers keep their copies. *)
UpdateConfigs(list) ==
    /\ configs' = list
    /\ UNCHANGED <<now, policyVars, entries, asyncVars, storeVars, handlerVars>>

DedupCleanup ==
    /\ Dedup!Cleanup
    /\ UNCHANGED <<now, configs, policyVars, asyncVars, storeVars, handlerVars>>

Tick ==
    /\ now < MaxTime
    /\ now' = now + 1
    /\ UNCHANGED <<configs, policyVars, entries, asyncVars, storeVars, handlerVars>>

(* What a handler does by itself once its request has arrived. *)
Step(h) ==
    \/ NoMatch(h) \/ Reject401(h) \/ Skip(h) \/ Duplicate(h) \/ Match(h)
    \/ Refuse(h) \/ Acquire(h)
    \/ TakeSlot(h) \/ NoSlotFree(h) \/ GiveUp(h) \/ AddRecord(h) \/ Spawn(h)
    \/ \E how \in Outcomes : Finish(h, how)
    \/ CompleteRecord(h) \/ Unmark(h) \/ ReleaseSlot(h) \/ LeaveWG(h)

Next ==
    \/ \E h \in Handlers :
          \/ \E r \in Requests : Arrive(h, r)
          \/ Step(h)
    \/ \E list \in ConfigLists : UpdateConfigs(list)
    \/ DedupCleanup
    \/ Tick

Spec == Init /\ [][Next]_vars

(* Goroutines are scheduled and the actions end: each has a timeout, or is *)
(* a command that terminates.                                              *)
Fairness == \A h \in Handlers : WF_vars(Step(h))
FairSpec == Spec /\ Fairness

-----------------------------------------------------------------------------
Places == {"idle", "scan", "acquire", "dispatch", "give up", "record", "spawn",
           "run", "complete", "unmark", "release", "leave", "done"}
Answers == {"none", "no match", "unauthorized", "deduplicated", "busy",
            "cooling down", "limit reached", "accepted", "aborted", "ok"}

HandlerTypeOK ==
    /\ pc \in [Handlers -> Places]
    /\ req \in [Handlers -> Requests \cup {NoRequest}]
    /\ todo \in [Handlers -> Seq(AllConfigs)]
    /\ task \in [Handlers -> Tasks \cup {NoTask}]
    /\ outcome \in [Handlers -> Outcomes \cup {"none"}]
    /\ resp \in [Handlers -> Answers]

EngineTypeOK ==
    /\ now \in Nat
    /\ configs \in ConfigLists
    /\ running \in [Keys -> BOOLEAN]
    /\ lastRun \in [Keys -> Nat \cup {Never}]
    /\ began \in [Handlers -> Nat \cup {Never}]
    /\ asyncSem \in Int
    /\ asyncWG \in Int

TypeOK ==
    /\ EngineTypeOK
    /\ Dedup!DedupTypeOK
    /\ Store!StoreTypeOK
    /\ HandlerTypeOK

(* Between tryAcquire and markDone a handler holds the key of its task. *)
Holding == {"dispatch", "give up", "record", "spawn", "run", "complete", "unmark"}
Holds(h, k) == pc[h] \in Holding /\ task[h].key = k

(* A synchronous run that panicked never marked its task done. *)
Leaked(k) == \E h \in Handlers : resp[h] = "aborted" /\ task[h].key = k

(* The keys every config list gives the block policy. *)
BlockKeys == {k \in Keys : \A t \in Tasks : t.key = k => t.exec.policy = "block"}

(* "block: Reject if previous execution is still running"                  *)
(* (docs/configuration.md): no two executions of such a key overlap,       *)
(* however requests, background tasks and reloads interleave.              *)
BlockExclusive ==
    \A k \in BlockKeys : \A g, h \in Handlers :
        Holds(g, k) /\ Holds(h, k) => g = h

(* A reload may give a key another policy, and whoever ends takes the mark *)
(* back, also that of an execution that still runs under block beside it.  *)
(* That is the only way two executions come to run under block at once,    *)
(* and each end lets in one more: under block there are never more than    *)
(* one plus the executions of the key, started under another policy, that  *)
(* have ended; a panic on the synchronous path lets nobody in.             *)
UnderBlock(k) == {h \in Handlers : Holds(h, k) /\ task[h].exec.policy = "block"}
TookMarkBack(h) ==
    began[h] # Never /\ pc[h] \in {"release", "leave", "done"} /\ resp[h] # "aborted"
EndedBeside(k) ==
    {h \in Handlers : TookMarkBack(h) /\ task[h].key = k /\ task[h].exec.policy # "block"}

OverlapsPaidFor ==
    \A k \in Keys : Cardinality(UnderBlock(k)) <= 1 + Cardinality(EndedBeside(k))

(* "cooldown: Reject if within cooldown window" (docs/configuration.md):   *)
(* of two executions of a task, under that policy when they started, the   *)
(* later one starts a cooldown after the other or more, however requests   *)
(* and reloads interleave; also when the other had ended or was turned     *)
(* away for want of a slot.                                                *)
CooldownSpaced ==
    \A g, h \in Handlers :
        /\ g # h
        /\ task[g].key = task[h].key
        /\ {task[g].exec.policy, task[h].exec.policy} = {"cooldown"}
        /\ Never < began[g] /\ began[g] <= began[h]
        => began[h] - began[g] >= task[h].exec.cooldown

(* A task is marked running only while some execution of it is in          *)
(* progress, so that a 409 is never given for a task that has ended; only  *)
(* a panic on the synchronous path leaves the mark behind.                 *)
RunningHasHolder ==
    \A k \in Keys : running[k] =>
        \/ \E h \in Handlers : Holds(h, k)
        \/ Leaked(k)

(* Slots of asyncSem and counts of asyncWG are neither lost nor leaked:    *)
(* each is held by exactly the handlers between taking and giving it back, *)
(* however their actions end; so no more than MaxAsync tasks run in the    *)
(* background and WaitForAsync waits for all of them.                      *)
InBackground(h) ==
    task[h].async /\ pc[h] \in {"run", "complete", "unmark", "release", "leave"}
HasSlot(h) ==
    task[h].async /\ pc[h] \in {"record", "spawn", "run", "complete", "unmark", "release"}

AsyncAccounted ==
    /\ asyncSem = Cardinality({h \in Handlers : HasSlot(h)})
    /\ asyncSem <= MaxAsync
    /\ asyncWG = Cardinality({h \in Handlers : InBackground(h)})

(* Among requests with one ID at most one starts a deduplicated task       *)
(* within a window (all the time of the model lies in one).                *)
OneWindow == \A cfg \in AllConfigs : cfg.window = 0 \/ cfg.window > MaxTime
DedupOnce ==
    OneWindow =>
        \A g, h \in Handlers :
            /\ task[g].dedup /\ task[h].dedup
            /\ req[g].id = req[h].id
            => g = h

(* processConfig answers "Deduplicated, request already processed": then a *)
(* request with that ID has been processed, that is, has started a task.   *)
Started(h) == pc[h] \in Holding \cup {"release", "leave"}
              \/ resp[h] \in {"accepted", "aborted", "ok"}
DedupTruthful ==
    \A h \in Handlers : resp[h] = "deduplicated" =>
        \E g \in Handlers : req[g].id = req[h].id /\ Started(g)

(* What GET /api/executions lists: a record is "running" exactly until the *)
(* background goroutine of its own request has finished its actions, and   *)
(* then shows how they ended; a panic is a failure.                        *)
RecordsTruthful ==
    ~ Inherited =>
        \A s \in Store!Slots : records[s] # Store!Blank =>
            LET h == records[s].run
            IN  records[s].status =
                    IF pc[h] \in {"spawn", "run", "complete"} THEN "running"
                    ELSE IF outcome[h] = "succeeded" THEN "succeeded" ELSE "failed"

(* "First match wins": the task a request runs is the first matching rule  *)
(* of the first config that lets it through, of all the configs or of the  *)
(* one it is addressed to, in one single config list, although reloads     *)
(* replace the list while the request is on its way; and "No matching      *)
(* rules" means there is none.                                             *)
Candidates(list, r) ==
    {i \in DOMAIN list :
        \/ r.target = AnyConfig
        \/ r.target = list[i].file /\ \A j \in 1..(i - 1) : list[j].file # r.target}
LetsThrough(cfg, r) == cfg.file \in r.auth \cap r.filters
Matches(cfg, r) == {j \in DOMAIN cfg.rules : <<cfg.file, cfg.rules[j].name>> \in r.rules}
Hits(list, r) ==
    {p \in Candidates(list, r) \X UNION {DOMAIN cfg.rules : cfg \in ConfigsOf(list)} :
        LetsThrough(list[p[1]], r) /\ p[2] \in Matches(list[p[1]], r)}
IsFirst(p, list, r) ==
    /\ p \in Hits(list, r)
    /\ \A q \in Hits(list, r) : p[1] < q[1] \/ (p[1] = q[1] /\ p[2] <= q[2])

FirstMatchWins ==
    \A h \in Handlers :
        /\ task[h] # NoTask =>
              \E list \in ConfigLists : \E p \in Hits(list, req[h]) :
                  /\ IsFirst(p, list, req[h])
                  /\ task[h] = TaskOf(list[p[1]], list[p[1]].rules[p[2]])
        /\ resp[h] = "no match" =>
              \E list \in ConfigLists : Hits(list, req[h]) = {}

-----------------------------------------------------------------------------
(* Every request that arrives is answered. *)
Answered == \A h \in Handlers : At(h, "scan") ~> resp[h] # "none"

(* A task accepted with 202 is brought to its end: its record completed,   *)
(* its key, its slot and its count given back.                             *)
AcceptedEnds == \A h \in Handlers : resp[h] = "accepted" ~> At(h, "done")

=============================================================================
