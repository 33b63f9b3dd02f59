---------------------------- MODULE Installation ----------------------------
(***************************************************************************)
(* An installed HookRun: the commands and server processes of Daemon, and  *)
(* updates of the binary they are started from (SelfUpdate).  A process    *)
(* runs the file it was started from, which on Windows cannot be removed   *)
(* as long; and what has no whole executable cannot be started.            *)
(***************************************************************************)
EXTENDS Daemon, SelfUpdate

ASSUME BinariesAssumption == None \notin {Installed} \cup Updaters /\ Installed \notin Updaters
ASSUME ImagesAssumption == PIDs \cap Commands = {}
ASSUME FailuresAssumption == MaxFailures \in Nat

VARIABLE image      \* process or command -> the binary it runs

allVars == <<vars, updateVars, image>>

InitInstallation ==
    /\ Init
    /\ InitUpdate
    /\ image = [x \in PIDs \cup Commands |-> None]

-----------------------------------------------------------------------------
Used ==
    {image[p] : p \in {q \in PIDs : Running(q)}} \cup
    {image[c] : c \in {d \in Commands : cmd[d] # NoCommand}}

(* The commands start and start -f begin with CleanupOldBinary. *)
Process(p) ==
    /\ ProcStep(p)
    /\ IF proc[p] = "child" THEN CleanupOldBinary(Used) ELSE UNCHANGED updateVars
    /\ UNCHANGED image

Proceed(c) ==
    /\ CmdStep(c)
    /\ IF cmd[c].kind = "start" /\ Now(c, "read")
       THEN CleanupOldBinary(Used) ELSE UNCHANGED updateVars
    /\ UNCHANGED image

Give(c, kind) ==
    /\ ExeWhole
    /\ Invoke(c, kind)
    /\ image' = [image EXCEPT ![c] = exe]
    /\ UNCHANGED updateVars

(* In the foreground the command becomes the server, in the background the *)
(* executable is started.                                                  *)
Started(c, p) ==
    IF proc'[p] = "child" THEN ExeWhole /\ image' = [image EXCEPT ![p] = exe]
    ELSE image' = [image EXCEPT ![p] = image[c]]

LaunchServer(c) ==
    /\ Launch(c)
    /\ \E p \in PIDs : proc'[p] # proc[p] /\ Started(c, p)
    /\ UNCHANGED updateVars

(* exec finds no executable. *)
LaunchFails(c) ==
    /\ Now(c, "launch")
    /\ ~ ExeWhole
    /\ End(c)
    /\ UNCHANGED <<windows, proc, pidfile, stopSignal, pending, targeted, mishaps,
                   updateVars, image>>

Kill(p) == Crash(p) /\ UNCHANGED <<updateVars, image>>

Edit == EditConfig /\ UNCHANGED <<updateVars, image>>

UpdateStep(u) == Update(u, Used) /\ UNCHANGED <<vars, image>>

NextInstallation ==
    \/ \E p \in PIDs : Process(p) \/ Kill(p)
    \/ \E c \in Commands :
          \/ Proceed(c) \/ LaunchServer(c) \/ LaunchFails(c)
          \/ \E kind \in Kinds : Give(c, kind)
    \/ Edit
    \/ \E u \in Updaters : UpdateStep(u)

(* Processes run, and draining ends by its timeouts. *)
Spec ==
    /\ InitInstallation /\ [][NextInstallation]_allVars
    /\ \A p \in PIDs : WF_allVars(Process(p))
    /\ \A c \in Commands : WF_allVars(Proceed(c) \/ LaunchServer(c) \/ LaunchFails(c))

-----------------------------------------------------------------------------
TypesOK ==
    /\ TypeOK
    /\ UpdateTypeOK
    /\ image \in [PIDs \cup Commands -> Binaries \cup {None}]

(* "Equivalent to stop + start" (docs/usage.md): after a restart, and also *)
(* after a start, a server is up, updates beside it or not; unless a       *)
(* process is killed, or by then the configuration does not load or there  *)
(* is no whole executable.  Then a restart, which looks for neither before *)
(* it stops the old server, can leave none.                                *)
Serves ==
    \A c \in Commands :
        cmd[c].kind \in {"start", "restart"} ~>
            (Settled /\ PortTaken) \/ crashes > 0 \/ ~ loads \/ ~ ExeWhole

=============================================================================
