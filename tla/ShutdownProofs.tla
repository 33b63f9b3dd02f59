--------------------------- MODULE ShutdownProofs ---------------------------
(***************************************************************************)
(* Nothing is cut off by a stop before its time, for every number of       *)
(* requests and whoever takes up the stop.                                 *)
(***************************************************************************)
EXTENDS Shutdown, FiniteSetTheorems, TLAPS

(* Where a stopper has waited for the requests, and for the tasks. *)
PastWait == {"close logs", "stop engine", "look", "close", "returned"}
PastDrain == {"wait"} \cup PastWait
AtStart == {"idle", "stop relay", "shut down"}

(* With a drain behind it, the server has no requests left, or the drain   *)
(* was cut short; with a wait behind it, it has no tasks left but the late *)
(* ones, or the grace period is over.                                      *)
RequestsLeft == \A h \in Handlers : http[h] = "open" => drainOver
TasksLeft == \A h \in Handlers : task[h] = "running" => graceOver \/ h \in late

StopInv ==
    /\ \A s \in Stoppers : stage[s] \notin AtStart => ~ listening
    /\ \A s \in Stoppers : stage[s] \in PastDrain => RequestsLeft
    /\ \A s \in Stoppers : stage[s] \in PastWait => TasksLeft
    /\ stopCh => ~ listening /\ RequestsLeft /\ TasksLeft
    /\ process \in {"exited", "panicked"} => stopCh

-----------------------------------------------------------------------------
(* The counter of the WaitGroup is the number of tasks. *)
LEMMA OneMore ==
    ASSUME TypeOK, NEW h \in Handlers, task[h] # "running",
           task' = [task EXCEPT ![h] = "running"], asyncWG' = asyncWG + 1
    PROVE  asyncWG' = Cardinality(Running')
<1>1. IsFiniteSet(Running)
  BY HandlersAssumption, FS_Subset DEF Running
<1>2. Running' = Running \cup {h} /\ h \notin Running
  BY DEF Running, TypeOK
<1> QED  BY <1>1, <1>2, FS_AddElement DEF TypeOK

(* The end of a task takes one from the counter, which then is the number  *)
(* of tasks left.                                                          *)
LEMMA OneLess ==
    ASSUME TypeOK, NEW h \in Handlers, task[h] = "running",
           task' = [task EXCEPT ![h] = "ended"], asyncWG' = asyncWG - 1
    PROVE  asyncWG' = Cardinality(Running')
<1>1. IsFiniteSet(Running)
  BY HandlersAssumption, FS_Subset DEF Running
<1>2. Running' = Running \ {h} /\ h \in Running
  BY DEF Running, TypeOK
<1> QED  BY <1>1, <1>2, FS_RemoveElement DEF TypeOK

(* At zero no task runs. *)
LEMMA NoneRuns ==
    ASSUME TypeOK, asyncWG = 0
    PROVE  \A h \in Handlers : task[h] # "running"
<1>1. IsFiniteSet(Running)
  BY HandlersAssumption, FS_Subset DEF Running
<1>2. Cardinality(Running) = 0
  BY DEF TypeOK
<1>3. Running = {}
  BY <1>1, <1>2, FS_EmptySet
<1> QED  BY <1>3 DEF Running

(* A request whose connection is open has started no task yet. *)
OneTaskEach == \A h \in Handlers : http[h] # "closed" => task[h] = "none"
TInv == TypeOK /\ OneTaskEach

LEMMA InitType == Init => TInv
<1> SUFFICES ASSUME Init PROVE TInv
  OBVIOUS
<1>1. Running = {}
  BY DEF Init, Running
<1> QED  BY <1>1, FS_EmptySet DEF Init, TInv, TypeOK, OneTaskEach, Stages

(* Types are kept by every step. *)
LEMMA NextType == TInv /\ [Next]_vars => TInv'
<1> SUFFICES ASSUME TInv, [Next]_vars PROVE TInv'
  OBVIOUS
<1> USE DEF TInv, TypeOK, OneTaskEach, Stages
<1>1. ASSUME NEW h \in Handlers, Request(h) \/ Match(h) \/ Respond(h) PROVE TInv'
  BY <1>1 DEF Request, Match, Respond, Running, work, parts, verdicts
<1>2. ASSUME NEW h \in Handlers, Accept(h) PROVE TInv'
  BY <1>2, OneMore DEF Accept, parts
<1>3. ASSUME NEW h \in Handlers, EndTask(h) PROVE TInv'
  BY <1>3, OneLess DEF EndTask, parts, verdicts
<1>4. ASSUME NEW s \in Stoppers, TakeUp(s) \/ StopStep(s) PROVE TInv'
  BY <1>4 DEF TakeUp, StopStep, StopRelay, CloseListeners, Drained, DrainTimeout, Waited,
      WaitTimeout, CloseRuleLoggers, StopEngine, Look, Close, Proceed, Running, work, parts, verdicts
<1>5. CASE MainReturns \/ ServeFails \/ UNCHANGED vars
  BY <1>5 DEF MainReturns, ServeFails, Running, vars, work, parts, verdicts
<1> QED  BY <1>1, <1>2, <1>3, <1>4, <1>5 DEF Next

(* The counter of the WaitGroup is that of the tasks, for every number. *)
THEOREM TypeCorrect == Spec => []TypeOK
<1>1. TInv => TypeOK
  BY DEF TInv
<1> QED  BY InitType, NextType, <1>1, PTL DEF Spec

-----------------------------------------------------------------------------
LEMMA InitStop == Init => StopInv
BY DEF Init, StopInv, AtStart, PastDrain, PastWait

(* What holds is kept: once the listeners are closed, only a request that  *)
(* is open already can start a task, and its task is late.                 *)
Kept ==
    /\ ~ listening => ~ listening'
    /\ ~ listening /\ RequestsLeft => RequestsLeft'
    /\ ~ listening /\ RequestsLeft /\ TasksLeft => TasksLeft'

(* What requests and tasks do keeps StopInv: nothing is accepted after the *)
(* listeners have been closed.                                             *)
LEMMA HandlersStop ==
    ASSUME TInv, StopInv, NEW h \in Handlers,
           Request(h) \/ Match(h) \/ Accept(h) \/ Respond(h) \/ EndTask(h)
    PROVE  StopInv'
<1> USE DEF parts, verdicts, work
<1>1. /\ UNCHANGED <<stage, stopCh, process, listening, drainOver, graceOver>>
      /\ process = "alive"
  BY DEF Request, Match, Accept, Respond, EndTask, Alive
<1>2. Kept
  BY DEF Kept, RequestsLeft, TasksLeft, Request, Match, Accept, Respond, EndTask, TInv, TypeOK
<1>3. \A s \in Stoppers : stage[s] \in PastDrain => stage[s] \notin AtStart
  BY DEF AtStart, PastDrain, PastWait
<1>4. \A s \in Stoppers : stage[s] \in PastWait => stage[s] \in PastDrain
  BY DEF PastDrain
<1> QED  BY <1>1, <1>2, <1>3, <1>4 DEF StopInv, Kept

(* A stopper on its way from one stage to another. *)
LEMMA StopperGoes ==
    ASSUME TInv, StopInv, NEW s \in Stoppers, NEW to,
           stage' = [stage EXCEPT ![s] = to], Kept,
           to \notin AtStart => ~ listening',
           to \in PastDrain => RequestsLeft',
           to \in PastWait => TasksLeft',
           stopCh' => stopCh \/ stage[s] \in PastWait,
           process' \in {"exited", "panicked"} => stopCh'
    PROVE  StopInv'
<1>1. /\ stage'[s] = to
      /\ \A t \in Stoppers \ {s} : stage'[t] = stage[t]
  BY DEF TInv, TypeOK
<1>2. \A t \in Stoppers : /\ stage[t] \in PastDrain => stage[t] \notin AtStart
                          /\ stage[t] \in PastWait => stage[t] \in PastDrain
  BY DEF AtStart, PastDrain, PastWait
<1>3. ASSUME NEW t \in Stoppers, t # s
      PROVE  /\ stage'[t] \notin AtStart => ~ listening'
             /\ stage'[t] \in PastDrain => RequestsLeft'
             /\ stage'[t] \in PastWait => TasksLeft'
  BY <1>1, <1>2, <1>3 DEF StopInv, Kept
<1>4. stopCh' => ~ listening' /\ RequestsLeft' /\ TasksLeft'
  BY <1>2 DEF StopInv, Kept
<1> QED  BY <1>1, <1>3, <1>4 DEF StopInv

(* A stopper that goes on to the wait leaves no request behind, or the     *)
(* drain timed out; one that goes on from it no task, but for the same.    *)
LEMMA StoppersStop ==
    ASSUME TInv, StopInv, NEW s \in Stoppers, TakeUp(s) \/ StopStep(s)
    PROVE  StopInv'
<1> USE DEF parts, verdicts, work
<1>1. /\ UNCHANGED <<http, task, late>>
      /\ drainOver' = drainOver \/ drainOver' = TRUE
      /\ graceOver' = graceOver \/ graceOver' = TRUE
      /\ listening' = listening \/ listening' = FALSE
  <2>1. CASE TakeUp(s) \/ StopRelay(s) \/ CloseListeners(s)
    BY <2>1 DEF TakeUp, StopRelay, CloseListeners
  <2>2. CASE Drained(s) \/ DrainTimeout(s) \/ Waited(s) \/ WaitTimeout(s)
    BY <2>2 DEF Drained, DrainTimeout, Waited, WaitTimeout
  <2>3. CASE CloseRuleLoggers(s) \/ StopEngine(s) \/ Look(s) \/ Close(s)
    BY <2>3 DEF CloseRuleLoggers, StopEngine, Look, Close
  <2> QED  BY <2>1, <2>2, <2>3 DEF StopStep
<1>2. Kept /\ (RequestsLeft => RequestsLeft') /\ (TasksLeft => TasksLeft')
  BY <1>1 DEF Kept, RequestsLeft, TasksLeft
<1>3. /\ stage[s] \notin AtStart => ~ listening'
      /\ stage[s] \in PastDrain => RequestsLeft'
      /\ stage[s] \in PastWait => TasksLeft'
  BY <1>1, <1>2 DEF StopInv
<1> USE DEF AtStart, PastDrain, PastWait
<1>4. CASE TakeUp(s) \/ StopRelay(s)
  <2>1. PICK to \in {"stop relay", "shut down"} : stage' = [stage EXCEPT ![s] = to]
    BY <1>4 DEF TakeUp, StopRelay, Proceed
  <2>2. UNCHANGED <<stopCh, process>>
    BY <1>4 DEF TakeUp, StopRelay
  <2> QED  BY <1>2, <2>1, <2>2, StopperGoes DEF StopInv
<1>5. CASE CloseListeners(s)
  <2>1. stage' = [stage EXCEPT ![s] = "drain"] /\ UNCHANGED <<stopCh, process>> /\ ~ listening'
    BY <1>5 DEF CloseListeners, Proceed
  <2> QED  BY <1>2, <2>1, StopperGoes DEF StopInv
<1>6. CASE Drained(s) \/ DrainTimeout(s)
  <2>1. /\ stage[s] = "drain" /\ stage' = [stage EXCEPT ![s] = "wait"]
        /\ UNCHANGED <<stopCh, process>>
    BY <1>6 DEF Drained, DrainTimeout, Proceed
  <2>2. RequestsLeft'
    BY <1>1, <1>6 DEF Drained, DrainTimeout, Open, RequestsLeft, work
  <2> QED  BY <1>2, <1>3, <2>1, <2>2, StopperGoes DEF StopInv
<1>7. CASE Waited(s) \/ WaitTimeout(s)
  <2>1. /\ stage[s] = "wait" /\ stage' = [stage EXCEPT ![s] = "close logs"]
        /\ UNCHANGED <<stopCh, process>>
    BY <1>7 DEF Waited, WaitTimeout, Proceed
  <2>2. TasksLeft'
    BY <1>1, <1>7, NoneRuns DEF Waited, WaitTimeout, TasksLeft, work, TInv
  <2> QED  BY <1>2, <1>3, <2>1, <2>2, StopperGoes DEF StopInv
<1>8. CASE CloseRuleLoggers(s) \/ StopEngine(s) \/ Look(s)
  <2>1. \E to \in PastWait : stage' = [stage EXCEPT ![s] = to]
    BY <1>8 DEF CloseRuleLoggers, StopEngine, Look, Proceed
  <2>2. stage[s] \in PastWait /\ UNCHANGED <<stopCh, process>>
    BY <1>8 DEF CloseRuleLoggers, StopEngine, Look, Proceed
  <2> QED  BY <1>2, <1>3, <2>1, <2>2, StopperGoes DEF StopInv
<1>9. CASE Close(s)
  <2>1. /\ stage[s] = "close" /\ stage' = [stage EXCEPT ![s] = "returned"]
        /\ stopCh'
    BY <1>9 DEF Close, Proceed
  <2> QED  BY <1>2, <1>3, <2>1, StopperGoes
<1> QED  BY <1>4, <1>5, <1>6, <1>7, <1>8, <1>9 DEF StopStep

(* StopInv is kept by every step. *)
LEMMA NextStop == TInv /\ StopInv /\ [Next]_vars => StopInv'
<1> SUFFICES ASSUME TInv, StopInv, [Next]_vars PROVE StopInv'
  OBVIOUS
<1>1. CASE MainReturns \/ ServeFails \/ UNCHANGED vars
  <2>1. /\ UNCHANGED <<http, task, late, drainOver, graceOver, listening, stage, stopCh>>
        /\ process' \in {"exited", "panicked"} => process' = process \/ stopCh
    BY <1>1 DEF MainReturns, ServeFails, vars, work, parts, verdicts
  <2>2. (RequestsLeft => RequestsLeft') /\ (TasksLeft => TasksLeft')
    BY <2>1 DEF RequestsLeft, TasksLeft
  <2> QED  BY <2>1, <2>2 DEF StopInv
<1> QED  BY <1>1, HandlersStop, StoppersStop DEF Next

(* A request is cut off only after the drain timed out, and a task only    *)
(* after its grace period, but for the late ones.                          *)
THEOREM Grace == Spec => []GraceGiven
<1>1. StopInv => GraceGiven
  BY DEF StopInv, RequestsLeft, TasksLeft, GraceGiven
<1> QED  BY InitType, NextType, InitStop, NextStop, <1>1, PTL DEF Spec

(* Rule loggers are closed only by a stopper that has waited. *)
THEOREM LogsLast == Spec => LogsCloseLast
<1>1. ASSUME TInv, StopInv, [Next]_vars
      PROVE  [ruleLogs /\ ~ ruleLogs' =>
                 graceOver \/ \A h \in Handlers : task[h] = "running" => h \in late]_vars
  <2> SUFFICES ASSUME ruleLogs, ~ ruleLogs' PROVE TasksLeft
    BY DEF TasksLeft
  <2>1. \E s \in Stoppers : CloseRuleLoggers(s)
    BY <1>1 DEF Next, vars, Request, Match, Accept, Respond, EndTask, TakeUp, StopStep,
        StopRelay, CloseListeners, Drained, DrainTimeout, Waited, WaitTimeout, StopEngine,
        Look, Close, MainReturns, ServeFails, parts
  <2> QED  BY <1>1, <2>1 DEF CloseRuleLoggers, Proceed, StopInv, PastWait
<1> QED  BY InitType, NextType, InitStop, NextStop, <1>1, PTL DEF Spec, LogsCloseLast

=============================================================================
