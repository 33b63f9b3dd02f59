------------------------------ MODULE Shutdown ------------------------------
(***************************************************************************)
(* The end of a server process (cmd/hookrun/main.go,                       *)
(* internal/server/server.go): a signal or a stop file is taken up by a    *)
(* goroutine that stops the relay client, drains the HTTP server, waits    *)
(* for the background tasks, closes the rule loggers, stops the engine and *)
(* closes stopCh; then the main goroutine returns, and whatever still runs *)
(* is cut off.                                                             *)
(***************************************************************************)
EXTENDS Integers, FiniteSets

CONSTANTS
    Handlers,       \* requests
    Stoppers        \* who may take up a stop: "signal", "watcher"

ASSUME HandlersAssumption == IsFiniteSet(Handlers)
ASSUME StoppersAssumption == Stoppers \subseteq {"signal", "watcher"}

VARIABLES
    http,       \* handler -> "new", "open" or "closed": its connection
    task,       \* handler -> "none", "running" or "ended": its background task
    asyncWG,    \* the counter of Engine.asyncWG
    listening,  \* the HTTP server accepts requests
    relay,      \* the relay client runs
    ruleLogs,   \* some rule logger is cached
    engine,     \* the engine's loops run
    stage,      \* stopper -> where it is
    stopCh,     \* stopCh is closed
    drainOver,  \* a drain was cut short by its timeout
    graceOver,  \* a WaitForAsync ended by its timeout
    late,       \* history: tasks started after a drain was cut short
    process     \* "alive", "exited", "failed" or "panicked"

work == <<http, task, asyncWG>>
parts == <<listening, relay, ruleLogs, engine>>
verdicts == <<drainOver, graceOver, late>>
vars == <<work, parts, stage, stopCh, verdicts, process>>

Alive == process = "alive"

Init ==
    /\ http = [h \in Handlers |-> "new"]
    /\ task = [h \in Handlers |-> "none"]
    /\ asyncWG = 0
    /\ listening = TRUE
    /\ relay = TRUE
    /\ ruleLogs = FALSE
    /\ engine = TRUE
    /\ stage = [s \in Stoppers |-> "idle"]
    /\ stopCh = FALSE
    /\ drainOver = FALSE
    /\ graceOver = FALSE
    /\ late = {}
    /\ process = "alive"

-----------------------------------------------------------------------------
(* Requests and tasks.  A handler looks its rule logger up first. *)
Request(h) ==
    /\ Alive /\ listening
    /\ http[h] = "new"
    /\ http' = [http EXCEPT ![h] = "open"]
    /\ UNCHANGED <<task, asyncWG, parts, stage, stopCh, verdicts, process>>

Match(h) ==
    /\ Alive
    /\ http[h] = "open"
    /\ ruleLogs' = TRUE
    /\ UNCHANGED <<work, listening, relay, engine, stage, stopCh, verdicts, process>>

(* dispatchAsync, and the 202. *)
Accept(h) ==
    /\ Alive
    /\ http[h] = "open"
    /\ http' = [http EXCEPT ![h] = "closed"]
    /\ task' = [task EXCEPT ![h] = "running"]
    /\ asyncWG' = asyncWG + 1
    /\ late' = IF drainOver THEN late \cup {h} ELSE late
    /\ UNCHANGED <<parts, stage, stopCh, drainOver, graceOver, process>>

Respond(h) ==
    /\ Alive
    /\ http[h] = "open"
    /\ http' = [http EXCEPT ![h] = "closed"]
    /\ UNCHANGED <<task, asyncWG, parts, stage, stopCh, verdicts, process>>

EndTask(h) ==
    /\ Alive
    /\ task[h] = "running"
    /\ task' = [task EXCEPT ![h] = "ended"]
    /\ asyncWG' = asyncWG - 1
    /\ UNCHANGED <<http, parts, stage, stopCh, verdicts, process>>

-----------------------------------------------------------------------------
(* The goroutine that takes up a stop. *)
Proceed(s, from, to) ==
    /\ Alive
    /\ stage[s] = from
    /\ stage' = [stage EXCEPT ![s] = to]

TakeUp(s) ==
    /\ Proceed(s, "idle", "stop relay")
    /\ UNCHANGED <<work, parts, stopCh, verdicts, process>>

(* RelayClient.Stop does its work once. *)
StopRelay(s) ==
    /\ Proceed(s, "stop relay", "shut down")
    /\ relay' = FALSE
    /\ UNCHANGED <<work, listening, ruleLogs, engine, stopCh, verdicts, process>>

(* GracefulShutdown: httpServer.Shutdown closes the listeners first. *)
CloseListeners(s) ==
    /\ Proceed(s, "shut down", "drain")
    /\ listening' = FALSE
    /\ UNCHANGED <<work, relay, ruleLogs, engine, stopCh, verdicts, process>>

Open == {h \in Handlers : http[h] = "open"}

(* Mutant of Drained: the open requests are not waited for. *)
DrainedAtOnce(s) ==
    /\ Proceed(s, "drain", "wait")
    /\ UNCHANGED <<work, parts, stopCh, verdicts, process>>

Drained(s) ==
    /\ Proceed(s, "drain", "wait")
    /\ Open = {}
    /\ UNCHANGED <<work, parts, stopCh, verdicts, process>>

DrainTimeout(s) ==
    /\ Proceed(s, "drain", "wait")
    /\ Open # {}
    /\ drainOver' = TRUE
    /\ UNCHANGED <<work, parts, stopCh, graceOver, late, process>>

(* Mutant of Waited: tasks are not waited for. *)
WaitedAtOnce(s) ==
    /\ Proceed(s, "wait", "close logs")
    /\ UNCHANGED <<work, parts, stopCh, verdicts, process>>

(* WaitForAsync: the counter is zero, or the timer fires. *)
Waited(s) ==
    /\ Proceed(s, "wait", "close logs")
    /\ asyncWG = 0
    /\ UNCHANGED <<work, parts, stopCh, verdicts, process>>

(* Mutant of WaitTimeout: no timer. *)
WaitNoTimer(s) ==
    /\ Proceed(s, "wait", "close logs")
    /\ asyncWG < 0
    /\ UNCHANGED <<work, parts, stopCh, verdicts, process>>

WaitTimeout(s) ==
    /\ Proceed(s, "wait", "close logs")
    /\ asyncWG > 0
    /\ graceOver' = TRUE
    /\ UNCHANGED <<work, parts, stopCh, drainOver, late, process>>

CloseRuleLoggers(s) ==
    /\ Proceed(s, "close logs", "stop engine")
    /\ ruleLogs' = FALSE
    /\ UNCHANGED <<work, listening, relay, engine, stopCh, verdicts, process>>

(* Engine.Stop does its work once.  The watcher then closes stopCh; the    *)
(* signal goroutine looks first whether it is closed.                      *)
StopEngine(s) ==
    /\ Proceed(s, "stop engine", IF s = "signal" THEN "look" ELSE "close")
    /\ engine' = FALSE
    /\ UNCHANGED <<work, listening, relay, ruleLogs, stopCh, verdicts, process>>

Look(s) ==
    /\ Proceed(s, "look", IF stopCh THEN "returned" ELSE "close")
    /\ UNCHANGED <<work, parts, stopCh, verdicts, process>>

(* Closing a closed channel panics. *)
Close(s) ==
    /\ Proceed(s, "close", "returned")
    /\ stopCh' = TRUE
    /\ process' = IF stopCh THEN "panicked" ELSE process
    /\ UNCHANGED <<work, parts, verdicts>>

(* The main goroutine: stopCh, or an error of ListenAndServe. *)
MainReturns ==
    /\ Alive /\ stopCh
    /\ process' = "exited"
    /\ UNCHANGED <<work, parts, stage, stopCh, verdicts>>

ServeFails ==
    /\ Alive /\ listening
    /\ relay' = FALSE
    /\ process' = "failed"
    /\ UNCHANGED <<work, listening, ruleLogs, engine, stage, stopCh, verdicts>>

StopStep(s) ==
    \/ StopRelay(s) \/ CloseListeners(s)
    \/ Drained(s) \/ DrainTimeout(s) \/ Waited(s) \/ WaitTimeout(s)
    \/ CloseRuleLoggers(s) \/ StopEngine(s) \/ Look(s) \/ Close(s)

Next ==
    \/ \E h \in Handlers :
          Request(h) \/ Match(h) \/ Accept(h) \/ Respond(h) \/ EndTask(h)
    \/ \E s \in Stoppers : TakeUp(s) \/ StopStep(s)
    \/ MainReturns \/ ServeFails

Spec == Init /\ [][Next]_vars

(* The stopping goroutines and the main one run and their timers fire;     *)
(* nothing is asked of requests and tasks.                                 *)
FairSpec ==
    /\ Spec
    /\ \A s \in Stoppers : WF_vars(StopStep(s))
    /\ WF_vars(MainReturns)

-----------------------------------------------------------------------------
Running == {h \in Handlers : task[h] = "running"}
Stages == {"idle", "stop relay", "shut down", "drain", "wait", "close logs",
           "stop engine", "look", "close", "returned"}

TypeOK ==
    /\ http \in [Handlers -> {"new", "open", "closed"}]
    /\ task \in [Handlers -> {"none", "running", "ended"}]
    /\ asyncWG = Cardinality(Running)
    /\ {listening, relay, ruleLogs, engine, stopCh, drainOver, graceOver} \subseteq BOOLEAN
    /\ stage \in [Stoppers -> Stages]
    /\ late \subseteq Handlers
    /\ process \in {"alive", "exited", "failed", "panicked"}

(* "On shutdown, in-flight async tasks get a 30-second grace period before *)
(* forced exit" (docs/configuration.md): when a stopped process exits, a   *)
(* request is cut off only after the drain has timed out, and a task only  *)
(* after the grace period, unless a request that outlasted the drain has   *)
(* started it.                                                             *)
GraceGiven ==
    process \in {"exited", "panicked"} =>
        \A h \in Handlers :
            /\ http[h] = "open" => drainOver
            /\ task[h] = "running" => graceOver \/ h \in late

(* "close loggers so background goroutines can keep writing until the very *)
(* end" (server.go): the rule loggers are closed when no task runs any     *)
(* more, or when the grace period is over; again, but for tasks started by *)
(* requests that outlasted the drain.                                      *)
LogsCloseLast ==
    [][ruleLogs /\ ~ ruleLogs' =>
          graceOver \/ \A h \in Handlers : task[h] = "running" => h \in late]_vars

(* A stop that is taken up ends the process, whatever requests and tasks do. *)
StopEnds == \A s \in Stoppers : stage[s] # "idle" ~> ~ Alive

=============================================================================
