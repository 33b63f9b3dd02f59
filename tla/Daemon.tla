-------------------------------- MODULE Daemon ------------------------------
(***************************************************************************)
(* The commands start, stop, restart, status and reload                    *)
(* (cmd/hookrun/main.go), the PID file and the stop signal file they share *)
(* (internal/daemon), and the server processes.  A command reads the PID   *)
(* file, looks whether that process runs, and acts on what it saw.         *)
(*                                                                         *)
(* A stopping server closes its port first and may go on draining for a    *)
(* minute; when it returns it removes the PID file, whatever is in it.     *)
(* A server whose PID file cannot be written goes on without one, and what *)
(* has no configuration that loads does not come up.                       *)
(* Installation puts the commands and processes together.                  *)
(***************************************************************************)
EXTENDS Integers, Platform

CONSTANTS
    PIDs,       \* processes, each used once: the bound on starts
    Commands,   \* commands that may run at the same time
    NoPID,      \* no PID file
    Serial,     \* a command is given only when nothing is under way
    Patient,    \* stopping takes less than the 15 seconds restart waits
    MaxMishaps  \* bound on kills, failed PID writes and broken configs

ASSUME NoPIDAssumption == NoPID \notin PIDs
ASSUME FlagsAssumption == {Serial, Patient} \subseteq BOOLEAN
ASSUME MishapsAssumption == MaxMishaps \in Nat

VARIABLES
    proc,       \* process -> where it is
    pidfile,    \* hookrun.pid
    stopSignal, \* stop.signal exists
    pending,    \* processes with an undelivered interrupt
    cmd,        \* command -> [kind, at, pid]: pid is what it has read
    targeted,   \* history: processes a command meant to stop
    loads,      \* the configuration files load
    unwritten,  \* history: servers whose WritePID has failed
    crashes,    \* processes killed so far
    slips       \* failed PID writes and broken configurations so far

mishaps == <<loads, unwritten, crashes, slips>>
vars == <<windows, proc, pidfile, stopSignal, pending, cmd, targeted, mishaps>>

Kinds == {"start", "stop", "restart", "status", "reload"}
NoCommand == [kind |-> "none", at |-> "idle", pid |-> NoPID]

(* Which process is the next makes no difference. *)
ProcessLeft == \E p \in PIDs : proc[p] = "unborn"
NewProcess == CHOOSE p \in PIDs : proc[p] = "unborn"

Running(p) == p # NoPID /\ proc[p] \notin {"unborn", "gone"}

Init ==
    /\ windows \in BOOLEAN
    /\ proc = [p \in PIDs |-> "unborn"]
    /\ pidfile = NoPID
    /\ stopSignal = FALSE
    /\ pending = {}
    /\ cmd = [c \in Commands |-> NoCommand]
    /\ targeted = {}
    /\ loads = TRUE
    /\ unwritten = {}
    /\ crashes = 0 /\ slips = 0

-----------------------------------------------------------------------------
(* A server process, from the start to its exit. *)
Step(p, from, to) ==
    /\ proc[p] = from
    /\ proc' = [proc EXCEPT ![p] = to]

(* startCmd of the background process: it looks for itself. *)
CheckAgain(p) ==
    /\ Step(p, "child", IF Running(pidfile) THEN "gone" ELSE "init")
    /\ UNCHANGED <<windows, pidfile, stopSignal, pending, cmd, targeted, mishaps>>

(* runServer: configMgr.Load, then WritePID, then ListenAndServe, then the *)
(* signal handlers.  The error of a load returns before the RemovePID is   *)
(* deferred.                                                               *)
LoadFails(p) ==
    /\ ~ loads
    /\ Step(p, "init", "gone")
    /\ UNCHANGED <<windows, pidfile, stopSignal, pending, cmd, targeted, mishaps>>

Announce(p) ==
    /\ loads
    /\ Step(p, "init", "announced")
    /\ pidfile' = p
    /\ UNCHANGED <<windows, stopSignal, pending, cmd, targeted, mishaps>>

MishapLeft == crashes + slips < MaxMishaps

(* The error of WritePID is only logged; what the file held is there yet,  *)
(* or it was truncated, and ReadPID finds no number in it.                 *)
AnnounceFails(p) ==
    /\ loads
    /\ MishapLeft
    /\ Step(p, "init", "announced")
    /\ pidfile' \in {pidfile, NoPID}
    /\ unwritten' = unwritten \cup {p}
    /\ slips' = slips + 1
    /\ UNCHANGED <<windows, stopSignal, pending, cmd, targeted, loads, crashes>>

PortTaken == \E p \in PIDs : proc[p] = "up"
Bind(p) ==
    /\ Step(p, "announced", IF PortTaken THEN "leaving" ELSE "up")
    /\ UNCHANGED <<windows, pidfile, stopSignal, pending, cmd, targeted, mishaps>>

(* An interrupt: handled by a server that is up, the end of one that has   *)
(* no handler yet, and nothing to one that is stopping already.            *)
Interrupted(p) ==
    /\ p \in pending
    /\ pending' = pending \ {p}
    /\ proc' = [proc EXCEPT ![p] = CASE @ = "up" -> "draining"
                                     [] @ = "announced" -> "gone"
                                     [] OTHER -> @]
    /\ UNCHANGED <<windows, pidfile, stopSignal, cmd, targeted, mishaps>>

(* Mutant of TakeStopSignal: the file is not removed. *)
TakeStopSignalKeep(p) ==
    /\ stopSignal
    /\ Step(p, "up", "draining")
    /\ UNCHANGED <<windows, pidfile, stopSignal, pending, cmd, targeted, mishaps>>

(* watchSignalFiles: CheckSignalFile removes the file. *)
TakeStopSignal(p) ==
    /\ stopSignal
    /\ Step(p, "up", "draining")
    /\ stopSignal' = FALSE
    /\ UNCHANGED <<windows, pidfile, pending, cmd, targeted, mishaps>>

Drained(p) ==
    /\ Step(p, "draining", "leaving")
    /\ UNCHANGED <<windows, pidfile, stopSignal, pending, cmd, targeted, mishaps>>

(* Mutant of Leave: the main goroutine goes on to wait for another event. *)
LeaveParked(p) ==
    /\ Step(p, "leaving", "parked")
    /\ UNCHANGED <<windows, pidfile, stopSignal, pending, cmd, targeted, mishaps>>

(* runServer returns: its deferred RemovePID. *)
Leave(p) ==
    /\ Step(p, "leaving", "gone")
    /\ pidfile' = NoPID
    /\ UNCHANGED <<windows, stopSignal, pending, cmd, targeted, mishaps>>

(* Killed: nothing deferred runs. *)
Crash(p) ==
    /\ Running(p)
    /\ MishapLeft
    /\ crashes' = crashes + 1
    /\ proc' = [proc EXCEPT ![p] = "gone"]
    /\ pending' = pending \ {p}
    /\ UNCHANGED <<windows, pidfile, stopSignal, cmd, targeted, loads, unwritten, slips>>

(* The operator edits the configuration: it loads no more, or again. *)
EditConfig ==
    /\ loads' = ~ loads
    /\ IF loads THEN MishapLeft /\ slips' = slips + 1 ELSE UNCHANGED slips
    /\ UNCHANGED <<windows, proc, pidfile, stopSignal, pending, cmd, targeted,
                   unwritten, crashes>>

-----------------------------------------------------------------------------
(* Nothing is under way. *)
Settled ==
    /\ \A c \in Commands : cmd[c] = NoCommand
    /\ \A p \in PIDs : proc[p] \in {"unborn", "up", "gone"}
    /\ pending = {}
    /\ stopSignal => ~ PortTaken

Now(c, at) == cmd[c].at = at
To(c, at) == cmd' = [cmd EXCEPT ![c].at = at]
End(c) == cmd' = [cmd EXCEPT ![c] = NoCommand]

Invoke(c, kind) ==
    /\ Now(c, "idle")
    /\ Serial => Settled
    /\ ProcessLeft
    /\ cmd' = [cmd EXCEPT ![c] = [kind |-> kind, at |-> "read", pid |-> NoPID]]
    /\ UNCHANGED <<windows, proc, pidfile, stopSignal, pending, targeted, mishaps>>

ReadPID(c) ==
    /\ Now(c, "read")
    /\ cmd' = [cmd EXCEPT ![c] = [kind |-> @.kind, at |-> "judge", pid |-> pidfile]]
    /\ UNCHANGED <<windows, proc, pidfile, stopSignal, pending, targeted, mishaps>>

(* A stop of process p: an interrupt, or the signal file. *)
SendStop(p) ==
    /\ targeted' = targeted \cup {p}
    /\ IF windows
       THEN stopSignal' = TRUE /\ UNCHANGED pending
       ELSE pending' = pending \cup {p} /\ UNCHANGED stopSignal

Judge(c) == Now(c, "judge")
Seen(c) == cmd[c].pid

StartRefused(c) ==
    /\ Judge(c) /\ cmd[c].kind = "start" /\ Running(Seen(c))
    /\ End(c)
    /\ UNCHANGED <<windows, proc, pidfile, stopSignal, pending, targeted, mishaps>>

StartGoesOn(c) ==
    /\ Judge(c) /\ cmd[c].kind = "start" /\ ~ Running(Seen(c))
    /\ To(c, "launch")
    /\ UNCHANGED <<windows, proc, pidfile, stopSignal, pending, targeted, mishaps>>

(* stop, status and reload of what does not run: a stale PID file goes.    *)
CleanUp(c) ==
    /\ Judge(c) /\ cmd[c].kind \in {"stop", "status", "reload"} /\ ~ Running(Seen(c))
    /\ End(c)
    /\ pidfile' = IF Seen(c) = NoPID THEN pidfile ELSE NoPID
    /\ UNCHANGED <<windows, proc, stopSignal, pending, targeted, mishaps>>

Stop(c) ==
    /\ Judge(c) /\ cmd[c].kind = "stop" /\ Running(Seen(c))
    /\ SendStop(Seen(c))
    /\ End(c)
    /\ UNCHANGED <<windows, proc, pidfile, mishaps>>

ReportRunning(c) ==
    /\ Judge(c) /\ cmd[c].kind = "status" /\ Running(Seen(c))
    /\ End(c)
    /\ UNCHANGED <<windows, proc, pidfile, stopSignal, pending, targeted, mishaps>>

(* A server that answers reloads its configs (module Reload).  One that    *)
(* does not is sent SIGHUP, the end of a process without a handler.        *)
ReloadRunning(c) ==
    /\ Judge(c) /\ cmd[c].kind = "reload" /\ Running(Seen(c))
    /\ End(c)
    /\ proc' = IF ~ windows /\ proc[Seen(c)] = "announced"
               THEN [proc EXCEPT ![Seen(c)] = "gone"] ELSE proc
    /\ UNCHANGED <<windows, pidfile, stopSignal, pending, targeted, mishaps>>

RestartStops(c) ==
    /\ Judge(c) /\ cmd[c].kind = "restart" /\ Running(Seen(c))
    /\ SendStop(Seen(c))
    /\ To(c, "wait")
    /\ UNCHANGED <<windows, proc, pidfile, mishaps>>

(* Mutant of RestartGoesOn: as with stop, what does not run is an error. *)
RestartRefused(c) ==
    /\ Judge(c) /\ cmd[c].kind = "restart" /\ ~ Running(Seen(c))
    /\ End(c)
    /\ pidfile' = IF Seen(c) = NoPID THEN pidfile ELSE NoPID
    /\ UNCHANGED <<windows, proc, stopSignal, pending, targeted, mishaps>>

RestartGoesOn(c) ==
    /\ Judge(c) /\ cmd[c].kind = "restart" /\ ~ Running(Seen(c))
    /\ To(c, "remove")
    /\ UNCHANGED <<windows, proc, pidfile, stopSignal, pending, targeted, mishaps>>

(* Mutant of RestartWaits: the process is not waited for. *)
RestartWaitsNot(c) ==
    /\ Now(c, "wait")
    /\ To(c, "remove")
    /\ UNCHANGED <<windows, proc, pidfile, stopSignal, pending, targeted, mishaps>>

(* Until the process is gone, or 15 seconds are over. *)
RestartWaits(c) ==
    /\ Now(c, "wait")
    /\ Running(Seen(c)) => ~ Patient
    /\ To(c, "remove")
    /\ UNCHANGED <<windows, proc, pidfile, stopSignal, pending, targeted, mishaps>>

RestartRemoves(c) ==
    /\ Now(c, "remove")
    /\ To(c, "launch")
    /\ pidfile' = NoPID
    /\ UNCHANGED <<windows, proc, stopSignal, pending, targeted, mishaps>>

(* startDaemon loads the configuration first.  In the foreground the       *)
(* command runs the server itself, and has looked for another already, or, *)
(* as a restart, does not look.                                            *)
ConfigRefused(c) ==
    /\ Now(c, "launch")
    /\ ~ loads
    /\ End(c)
    /\ UNCHANGED <<windows, proc, pidfile, stopSignal, pending, targeted, mishaps>>

Launch(c) ==
    /\ Now(c, "launch")
    /\ ProcessLeft
    /\ \E form \in {"child", "init"} :
          /\ form = "child" => loads
          /\ proc' = [proc EXCEPT ![NewProcess] = form]
    /\ End(c)
    /\ UNCHANGED <<windows, pidfile, stopSignal, pending, targeted, mishaps>>

ProcStep(p) ==
    \/ CheckAgain(p) \/ LoadFails(p) \/ Announce(p) \/ AnnounceFails(p) \/ Bind(p)
    \/ Interrupted(p) \/ TakeStopSignal(p) \/ Drained(p) \/ Leave(p)

CmdStep(c) ==
    \/ ReadPID(c)
    \/ StartRefused(c) \/ StartGoesOn(c)
    \/ CleanUp(c) \/ Stop(c) \/ ReportRunning(c) \/ ReloadRunning(c)
    \/ RestartStops(c) \/ RestartGoesOn(c) \/ RestartWaits(c) \/ RestartRemoves(c)
    \/ ConfigRefused(c)

-----------------------------------------------------------------------------
ProcessStates == {"unborn", "child", "init", "announced", "up", "draining", "leaving", "gone"}
CommandStates == [kind : Kinds \cup {"none"},
                  at : {"idle", "read", "judge", "wait", "remove", "launch"},
                  pid : PIDs \cup {NoPID}]

TypeOK ==
    /\ windows \in BOOLEAN
    /\ proc \in [PIDs -> ProcessStates]
    /\ pidfile \in PIDs \cup {NoPID}
    /\ stopSignal \in BOOLEAN
    /\ pending \subseteq PIDs /\ targeted \subseteq PIDs
    /\ cmd \in [Commands -> CommandStates]
    /\ loads \in BOOLEAN /\ unwritten \subseteq PIDs
    /\ crashes \in Nat /\ slips \in Nat /\ crashes + slips <= MaxMishaps

(* "Status: running" and "Status: stopped (no PID file)" (docs/usage.md):  *)
(* when nothing is under way the PID file names the server that is up,     *)
(* however servers were started, refused, stopped or killed; the one       *)
(* exception is a server whose own PID file could not be written, which    *)
(* status takes for stopped, and stop and restart cannot reach.            *)
StatusTruthful ==
    Settled => \A p \in PIDs : proc[p] = "up" => pidfile = p \/ p \in unwritten

(* A server that stops has been told to by a command that meant it: no     *)
(* stop reaches a server that was started later, unless a server was       *)
(* killed before it took up the file meant for it.                         *)
StopsTheRightOne ==
    [][\A p \in PIDs :
          proc[p] = "up" /\ proc'[p] = "draining" => p \in targeted \/ crashes > 0]_vars

=============================================================================
