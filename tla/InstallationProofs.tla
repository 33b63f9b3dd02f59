------------------------- MODULE InstallationProofs -------------------------
(***************************************************************************)
(* Theorems about Installation: the binary, whatever updates run, fail or  *)
(* crash, and the PID file, when commands are given one at a time.         *)
(***************************************************************************)
EXTENDS Installation, TLAPS

USE DEF mishaps

-----------------------------------------------------------------------------
(* The two halves of a step: what it does to the processes and commands,   *)
(* and what it does to the files and updates.                              *)
GivesUp(c) ==
    /\ Now(c, "launch")
    /\ End(c)
    /\ UNCHANGED <<windows, proc, pidfile, stopSignal, pending, targeted, mishaps>>

DaemonNext ==
    \/ \E p \in PIDs : ProcStep(p) \/ Crash(p)
    \/ \E c \in Commands :
          CmdStep(c) \/ Launch(c) \/ GivesUp(c) \/ \E kind \in Kinds : Invoke(c, kind)
    \/ EditConfig
    \/ UNCHANGED vars

FilesNext ==
    \/ Used # {} /\ CleanupOldBinary(Used)
    \/ \E u \in Updaters : Update(u, Used)
    \/ UNCHANGED updateVars

(* Every step of an installation has both halves, and keeps the platform.  *)
LEMMA Halves ==
    ASSUME [NextInstallation]_allVars
    PROVE  DaemonNext /\ FilesNext /\ windows' = windows
  <1>1. CASE UNCHANGED allVars
    BY <1>1 DEF allVars, vars, DaemonNext, FilesNext
  <1>2. ASSUME NEW p \in PIDs, Process(p)
        PROVE  DaemonNext /\ FilesNext /\ windows' = windows
    <2>3. proc[p] = "child" => Used # {}
      BY NoPIDAssumption DEF Used, Running
    <2>1. DaemonNext /\ FilesNext
      BY <1>2, <2>3 DEF Process, DaemonNext, FilesNext
    <2>2. windows' = windows
      BY <1>2 DEF Process, ProcStep, CheckAgain, LoadFails, Announce, AnnounceFails, Bind,
                  Interrupted, TakeStopSignal, Drained, Leave
    <2> QED
      BY <2>1, <2>2
  <1>3. ASSUME NEW p \in PIDs, Kill(p)
        PROVE  DaemonNext /\ FilesNext /\ windows' = windows
    BY <1>3 DEF Kill, Crash, DaemonNext, FilesNext
  <1>4. ASSUME NEW c \in Commands, Proceed(c)
        PROVE  DaemonNext /\ FilesNext /\ windows' = windows
    <2>3. Now(c, "read") => Used # {}
      BY DEF Used, Now, NoCommand
    <2>1. DaemonNext /\ FilesNext
      BY <1>4, <2>3 DEF Proceed, DaemonNext, FilesNext
    <2>2. windows' = windows
      BY <1>4 DEF Proceed, CmdStep, ReadPID, StartRefused, StartGoesOn, CleanUp, Stop,
                  ReportRunning, ReloadRunning, RestartStops, RestartGoesOn, RestartWaits,
                  RestartRemoves, ConfigRefused
    <2> QED
      BY <2>1, <2>2
  <1>5. ASSUME NEW c \in Commands,
               LaunchServer(c) \/ LaunchFails(c) \/ \E kind \in Kinds : Give(c, kind)
        PROVE  DaemonNext /\ FilesNext /\ windows' = windows
    <2>1. CASE LaunchServer(c)
      BY <2>1 DEF LaunchServer, Launch, DaemonNext, FilesNext
    <2>2. CASE LaunchFails(c)
      BY <2>2 DEF LaunchFails, GivesUp, DaemonNext, FilesNext
    <2>3. CASE \E kind \in Kinds : Give(c, kind)
      BY <2>3 DEF Give, Invoke, DaemonNext, FilesNext
    <2> QED
      BY <1>5, <2>1, <2>2, <2>3
  <1>6. ASSUME NEW u \in Updaters, UpdateStep(u)
        PROVE  DaemonNext /\ FilesNext /\ windows' = windows
    BY <1>6 DEF UpdateStep, vars, DaemonNext, FilesNext
  <1>7. CASE Edit
    BY <1>7 DEF Edit, EditConfig, DaemonNext, FilesNext
  <1> QED
    BY <1>1, <1>2, <1>3, <1>4, <1>5, <1>6, <1>7 DEF NextInstallation

-----------------------------------------------------------------------------
(* What the operators that move a command or an update mean.               *)

(* A command that goes on keeps its kind and what it has read. *)
LEMMA ToMeans ==
    ASSUME TypeOK, NEW c \in Commands, NEW at, To(c, at)
    PROVE  /\ cmd' = [cmd EXCEPT ![c] = [kind |-> cmd[c].kind, at |-> at, pid |-> cmd[c].pid]]
           /\ cmd'[c].at = at /\ cmd'[c].pid = cmd[c].pid /\ cmd'[c].kind = cmd[c].kind
           /\ \A d \in Commands \ {c} : cmd'[d] = cmd[d]
           /\ cmd[c].pid \in PIDs \cup {NoPID} /\ cmd[c].kind \in Kinds \cup {"none"}
  <1>1. cmd[c] \in CommandStates /\ cmd \in [Commands -> CommandStates]
    BY DEF TypeOK
  <1>2. [cmd[c] EXCEPT !.at = at] = [kind |-> cmd[c].kind, at |-> at, pid |-> cmd[c].pid]
    BY <1>1 DEF CommandStates
  <1>3. cmd' = [cmd EXCEPT ![c] = [kind |-> cmd[c].kind, at |-> at, pid |-> cmd[c].pid]]
    BY <1>2 DEF To
  <1> QED
    BY <1>1, <1>3 DEF CommandStates

(* What reading the PID file, the end of a command, the next stage of an   *)
(* update and its failure do to the one concerned, and to the others.      *)
LEMMA ReadMeans ==
    ASSUME TypeOK, NEW c \in Commands, ReadPID(c)
    PROVE  /\ cmd' = [cmd EXCEPT ![c] = [kind |-> cmd[c].kind, at |-> "judge", pid |-> pidfile]]
           /\ cmd'[c].at = "judge" /\ cmd'[c].pid = pidfile
           /\ \A d \in Commands \ {c} : cmd'[d] = cmd[d]
           /\ cmd[c].kind \in Kinds \cup {"none"}
  <1>1. cmd[c] \in CommandStates /\ cmd \in [Commands -> CommandStates]
    BY DEF TypeOK
  <1>2. cmd' = [cmd EXCEPT ![c] = [kind |-> cmd[c].kind, at |-> "judge", pid |-> pidfile]]
    BY DEF ReadPID
  <1> QED
    BY <1>1, <1>2 DEF CommandStates

LEMMA EndMeans ==
    ASSUME TypeOK, NEW c \in Commands, End(c)
    PROVE  /\ cmd'[c] = NoCommand
           /\ \A d \in Commands \ {c} : cmd'[d] = cmd[d]
           /\ cmd' \in [Commands -> CommandStates]
  <1>1. NoCommand \in CommandStates
    BY DEF NoCommand, CommandStates
  <1> QED
    BY <1>1 DEF End, TypeOK

(* So with an update that goes on, fills the staged file, or ends. *)
Becomes(u, at, runs, fills) ==
    update'[u].at = at /\ update'[u].runs = runs /\ update'[u].fills = fills

LEMMA GoMeans ==
    ASSUME UpdateTypeOK, NEW u \in Updaters, NEW stage \in Stages, Go(u, stage)
    PROVE  /\ Becomes(u, stage, update[u].runs, None)
           /\ \A v \in Updaters \ {u} : update'[v] = update[v]
           /\ update' \in [Updaters -> UpdateStates]
  <1>1. update[u] \in UpdateStates /\ update \in [Updaters -> UpdateStates]
    BY DEF UpdateTypeOK
  <1>2. update' = [update EXCEPT ![u] = [at |-> stage, runs |-> update[u].runs, fills |-> None]]
    BY DEF Go
  <1>3. /\ update'[u] = [at |-> stage, runs |-> update[u].runs, fills |-> None]
        /\ \A v \in Updaters \ {u} : update'[v] = update[v]
        /\ update' \in [Updaters -> UpdateStates]
    BY <1>1, <1>2 DEF UpdateStates
  <1> QED
    BY <1>3 DEF Becomes

LEMMA FailMeans ==
    ASSUME UpdateTypeOK, NEW u \in Updaters, Fail(u) \/ EndUpdate(u)
    PROVE  /\ update'[u].at \in {"failed", "ended"}
           /\ EndUpdate(u) => update'[u].at = "ended"
           /\ \A v \in Updaters \ {u} : update'[v] = update[v]
           /\ update' \in [Updaters -> UpdateStates]
  <1>1. update \in [Updaters -> UpdateStates]
    BY DEF UpdateTypeOK
  <1>2. /\ [at |-> "failed", runs |-> None, fills |-> None] \in UpdateStates
        /\ [at |-> "ended", runs |-> None, fills |-> None] \in UpdateStates
    BY DEF UpdateStates, Stages
  <1> QED
    BY <1>1, <1>2 DEF Fail, EndUpdate

(* A launch makes one process of those not yet used. *)
LEMMA LaunchMeans ==
    ASSUME NEW c \in Commands, Launch(c)
    PROVE  /\ \E p \in PIDs : /\ proc[p] = "unborn"
                            /\ \E form \in {"child", "init"} : proc' = [proc EXCEPT ![p] = form]
           /\ cmd[c].at = "launch" /\ End(c)
           /\ UNCHANGED <<windows, pidfile, stopSignal, pending, targeted, mishaps>>
  <1>1. NewProcess \in PIDs /\ proc[NewProcess] = "unborn"
    BY DEF Launch, ProcessLeft, NewProcess
  <1> QED
    BY <1>1 DEF Launch, Now

-----------------------------------------------------------------------------
(* Types. *)

(* Commands and servers keep their types. *)
LEMMA DaemonTypes ==
    ASSUME TypeOK, DaemonNext
    PROVE  TypeOK'
  <1> USE DEF ProcessStates
  <1>1. ASSUME NEW p \in PIDs, ProcStep(p)
        PROVE  TypeOK'
    <2>1. CASE CheckAgain(p) \/ LoadFails(p) \/ Announce(p) \/ Bind(p)
      BY <2>1 DEF CheckAgain, LoadFails, Announce, Bind, Step, TypeOK
    <2>2. CASE Interrupted(p)
      BY <2>2 DEF Interrupted, TypeOK
    <2>3. CASE TakeStopSignal(p) \/ Drained(p) \/ Leave(p)
      BY <2>3 DEF TakeStopSignal, Drained, Leave, Step, TypeOK
    <2>4. CASE AnnounceFails(p)
      BY <2>4, MishapsAssumption DEF AnnounceFails, MishapLeft, Step, TypeOK
    <2> QED
      BY <1>1, <2>1, <2>2, <2>3, <2>4 DEF ProcStep
  <1>2. ASSUME NEW p \in PIDs, Crash(p)
        PROVE  TypeOK'
    BY <1>2, MishapsAssumption DEF Crash, MishapLeft, TypeOK
  <1>3. ASSUME NEW c \in Commands, CmdStep(c)
        PROVE  TypeOK'
    <2>1. CASE ReadPID(c)
      <3>1. cmd' \in [Commands -> CommandStates]
        BY <2>1, ReadMeans DEF TypeOK, CommandStates
      <3> QED
        BY <2>1, <3>1 DEF ReadPID, TypeOK
    <2>2. ASSUME To(c, "wait") \/ To(c, "remove") \/ To(c, "launch")
          PROVE  cmd' \in [Commands -> CommandStates]
      BY <2>2, ToMeans DEF TypeOK, CommandStates
    <2>3. ASSUME End(c)
          PROVE  cmd' \in [Commands -> CommandStates]
      BY <2>3, EndMeans
    <2>4. CASE StartRefused(c) \/ StartGoesOn(c) \/ ReportRunning(c) \/ RestartGoesOn(c)
                \/ RestartWaits(c)
      BY <2>2, <2>3, <2>4 DEF StartRefused, StartGoesOn, ReportRunning, RestartGoesOn,
                             RestartWaits, TypeOK
    <2>5. CASE CleanUp(c) \/ RestartRemoves(c) \/ ConfigRefused(c)
      BY <2>2, <2>3, <2>5 DEF CleanUp, RestartRemoves, ConfigRefused, TypeOK
    <2>6. CASE ReloadRunning(c)
      BY <2>3, <2>6 DEF ReloadRunning, TypeOK
    <2>7. ASSUME Running(Seen(c)), SendStop(Seen(c))
          PROVE  /\ targeted' \subseteq PIDs /\ pending' \subseteq PIDs
                 /\ stopSignal' \in BOOLEAN
      <3>1. Seen(c) \in PIDs
        BY <2>7 DEF TypeOK, CommandStates, Seen, Running
      <3> QED
        BY <2>7, <3>1 DEF SendStop, TypeOK
    <2>8. CASE Stop(c) \/ RestartStops(c)
      BY <2>2, <2>3, <2>7, <2>8 DEF Stop, RestartStops, TypeOK
    <2> QED
      BY <1>3, <2>1, <2>4, <2>5, <2>6, <2>8 DEF CmdStep
  <1>4. ASSUME NEW c \in Commands, Launch(c) \/ GivesUp(c)
        PROVE  TypeOK'
    <2>1. CASE Launch(c)
      BY <2>1, LaunchMeans, EndMeans DEF TypeOK
    <2>2. CASE GivesUp(c)
      BY <2>2, EndMeans DEF GivesUp, TypeOK
    <2> QED
      BY <1>4, <2>1, <2>2
  <1>5. ASSUME NEW c \in Commands, NEW kind \in Kinds, Invoke(c, kind)
        PROVE  TypeOK'
    <2>1. [kind |-> kind, at |-> "read", pid |-> NoPID] \in CommandStates
      BY DEF CommandStates
    <2> QED
      BY <1>5, <2>1 DEF Invoke, TypeOK
  <1>6. CASE UNCHANGED vars
    BY <1>6 DEF vars, TypeOK
  <1>7. CASE EditConfig
    BY <1>7, MishapsAssumption DEF EditConfig, MishapLeft, TypeOK
  <1> QED
    BY <1>1, <1>2, <1>3, <1>4, <1>5, <1>6, <1>7 DEF DaemonNext

(* A copy fills a file. *)
Copying == \A u \in Updaters : At(u, "copy") => update[u].fills \in Binaries

(* So do the files and the updates. *)
LEMMA FilesTypes ==
    ASSUME UpdateTypeOK, Copying, FilesNext
    PROVE  UpdateTypeOK'
  <1> USE DEF Binaries
  <1>1. CASE CleanupOldBinary(Used)
    BY <1>1 DEF CleanupOldBinary, UpdateTypeOK, history
  <1>2. ASSUME NEW u \in Updaters, Update(u, Used)
        PROVE  UpdateTypeOK'
    <2>g. ASSUME NEW stage \in Stages, Go(u, stage)
          PROVE  update' \in [Updaters -> UpdateStates]
      BY <2>g, GoMeans
    <2>f. ASSUME Fail(u) \/ EndUpdate(u)
          PROVE  update' \in [Updaters -> UpdateStates]
      BY <2>f, FailMeans
    <2>c. ASSUME Fault \/ UNCHANGED failures
          PROVE  failures' \in 0 .. MaxFailures
      <3>1. failures \in 0 .. MaxFailures
        BY DEF UpdateTypeOK
      <3> QED
        BY <2>c, <3>1, FailuresAssumption DEF Fault
    <2>s. /\ {"stage", "copy", "replace", "remove old", "move away", "move in", "roll back"}
               \subseteq Stages
          /\ Staged \in Stages
      BY DEF Stages, Staged
    <2>1. CASE Begin(u)
      <3>1. [at |-> "stage", runs |-> exe, fills |-> None] \in UpdateStates
        BY <2>s DEF UpdateStates, UpdateTypeOK
      <3> QED
        BY <2>1, <3>1 DEF Begin, UpdateTypeOK, files
    <2>2. CASE DownloadFails(u) \/ CopyFails(u) \/ CrashUpdate(u)
      BY <2>2, <2>c, <2>f DEF DownloadFails, CopyFails, CrashUpdate, UpdateTypeOK, files, history
    <2>3. CASE StageRename(u) \/ Copied(u)
      <3>1. Go(u, Staged)
        BY <2>3 DEF StageRename, Copied
      <3>2. update' \in [Updaters -> UpdateStates]
        BY <3>1, <2>g, <2>s
      <3>3. CASE StageRename(u)
        BY <3>2, <3>3 DEF StageRename, UpdateTypeOK, history
      <3>4. CASE Copied(u)
        <4>1. update[u].fills \in Binaries
          BY <3>4 DEF Copied, Copying
        <4> QED
          BY <3>2, <3>4, <4>1 DEF Copied, UpdateTypeOK, history
      <3> QED
        BY <2>3, <3>3, <3>4
    <2>4. CASE StageOpen(u)
      <3>1. staged' \in Binaries \cup {None} /\ update[u].runs \in Binaries \cup {None}
        BY <2>4 DEF StageOpen, UpdateTypeOK, UpdateStates
      <3>2. [at |-> "copy", runs |-> update[u].runs, fills |-> staged'] \in UpdateStates
        BY <2>s, <3>1 DEF UpdateStates
      <3>3. update' = [update EXCEPT ![u] = [at |-> "copy", runs |-> update[u].runs, fills |-> staged']]
        BY <2>4 DEF StageOpen
      <3> QED
        BY <2>4, <3>1, <3>2, <3>3 DEF StageOpen, UpdateTypeOK, history
    <2>5. CASE Replace(u) \/ ReplaceFails(u)
      BY <2>5, <2>c, <2>f DEF Replace, ReplaceFails, UpdateTypeOK, history
    <2>6. CASE RemoveOld(u, Used) \/ MoveAway(u, Used)
      BY <2>6, <2>g, <2>s DEF RemoveOld, MoveAway, UpdateTypeOK, history
    <2>7. CASE MoveIn(u, Used)
      BY <2>7, <2>f DEF MoveIn, UpdateTypeOK, history
    <2>a. CASE MoveAwayFails(u, Used)
      <3>1. failures' \in 0 .. MaxFailures
        BY <2>a, <2>c DEF MoveAwayFails
      <3>2. staged' \in Binaries \cup {None}
        BY <2>a DEF MoveAwayFails, UpdateTypeOK
      <3> QED
        BY <2>a, <2>f, <3>1, <3>2 DEF MoveAwayFails, UpdateTypeOK, history
    <2>8. CASE MoveInFails(u, Used)
      <3>1. failures' \in 0 .. MaxFailures
        BY <2>8, <2>c DEF MoveInFails
      <3>2. update' \in [Updaters -> UpdateStates]
        BY <2>8, <2>g, <2>s DEF MoveInFails
      <3> QED
        BY <2>8, <3>1, <3>2 DEF MoveInFails, UpdateTypeOK, history, files
    <2>9. CASE RollBack(u, Used)
      <3>1. failures' \in 0 .. MaxFailures
        BY <2>9, <2>c DEF RollBack
      <3>3. stuck' \in BOOLEAN
        BY <2>9 DEF RollBack, UpdateTypeOK
      <3>2. {exe', old', staged'} \subseteq Binaries \cup {None}
        BY <2>9 DEF RollBack, UpdateTypeOK
      <3> QED
        BY <2>9, <2>f, <3>1, <3>2, <3>3 DEF RollBack, UpdateTypeOK
    <2> QED
      BY <1>2, <2>1, <2>2, <2>3, <2>4, <2>5, <2>6, <2>7, <2>8, <2>9, <2>a DEF Update
  <1>3. CASE UNCHANGED updateVars
    BY <1>3 DEF updateVars, files, history, UpdateTypeOK
  <1> QED
    BY <1>1, <1>2, <1>3 DEF FilesNext

-----------------------------------------------------------------------------
(* The invariant of the files.  It has nothing to say once two updates     *)
(* have run at the same time.                                              *)

(* Which steps an update takes is a matter of the platform. *)
Platforms ==
    \A u \in Updaters :
        /\ At(u, "replace") => ~ windows
        /\ update[u].at \in {"remove old", "move away", "move in", "roll back"} => windows

(* On Windows, what runs is the executable or .old. *)
Images == windows => Used \subseteq {exe, old} \ {None}

SoleUpdate == \A u, v \in Updaters : UnderWay(u) /\ UnderWay(v) => u = v

(* An update that has staged nothing is in no file. *)
Fresh(u) == update[u].at \in {"idle", "stage"} => u \notin {exe, old, staged}

Unmoved(u) ==
    update[u].at \in {"stage", "copy", "replace", "remove old", "move away"} =>
        exe = update[u].runs /\ exe \in whole

Moved(u) == update[u].at \in {"move in", "roll back"} => exe = None /\ old = update[u].runs

Fills(u) == At(u, "copy") => update[u].fills = staged

StagedWhole(u) ==
    update[u].at \in {"replace", "remove old", "move away", "move in"} =>
        staged \in whole \cup {None}

(* The staged file, which a copy truncates, is neither of the others. *)
Apart == staged # None => staged \notin {exe, old}

InPlace == ExeWhole \/ (windows /\ exe = None /\ old \in whole)

FilesInv ==
    ~ overlap =>
        /\ SoleUpdate /\ Apart /\ InPlace
        /\ \A u \in Updaters :
              Fresh(u) /\ Unmoved(u) /\ Moved(u) /\ Fills(u) /\ StagedWhole(u)

(* Only a start or an invocation adds to what runs. *)
LEMMA UsedShrinks ==
    ASSUME TypeOK, image' = image,
           \/ \E p \in PIDs : ProcStep(p) \/ Crash(p)
           \/ \E c \in Commands : CmdStep(c) \/ GivesUp(c)
           \/ EditConfig \/ UNCHANGED vars
    PROVE  Used' \subseteq Used
  <1>1. SUFFICES /\ \A q \in PIDs : Running(q)' => Running(q)
                 /\ \A d \in Commands : cmd'[d] # NoCommand => cmd[d] # NoCommand
    BY DEF Used
  <1>2. ASSUME NEW p \in PIDs, ProcStep(p) \/ Crash(p)
        PROVE  /\ \A q \in PIDs : Running(q)' => Running(q)
               /\ cmd' = cmd
    <2>1. CASE Crash(p)
      BY <2>1 DEF Crash, Running, TypeOK
    <2>2. CASE Interrupted(p)
      BY <2>2 DEF Interrupted, Running, TypeOK
    <2>3. CASE CheckAgain(p) \/ LoadFails(p) \/ Announce(p) \/ AnnounceFails(p) \/ Bind(p)
      BY <2>3 DEF CheckAgain, LoadFails, Announce, AnnounceFails, Bind, Step, Running, TypeOK
    <2>4. CASE TakeStopSignal(p) \/ Drained(p) \/ Leave(p)
      BY <2>4 DEF TakeStopSignal, Drained, Leave, Step, Running, TypeOK
    <2> QED
      BY <1>2, <2>1, <2>2, <2>3, <2>4 DEF ProcStep
  <1>3. ASSUME NEW c \in Commands, CmdStep(c) \/ GivesUp(c)
        PROVE  /\ \A q \in PIDs : Running(q)' => Running(q)
               /\ \A d \in Commands : cmd'[d] # NoCommand => cmd[d] # NoCommand
    <2>1. \A q \in PIDs : Running(q)' => Running(q)
      <3>1. CASE ReloadRunning(c)
        BY <3>1 DEF ReloadRunning, Running, TypeOK
      <3>2. CASE ~ ReloadRunning(c)
        <4>1. proc' = proc
          BY <1>3, <3>2 DEF CmdStep, ReadPID, StartRefused, StartGoesOn, CleanUp, Stop,
                  ReportRunning, RestartStops, RestartGoesOn, RestartWaits, RestartRemoves,
                  ConfigRefused, GivesUp
        <4> QED
          BY <4>1 DEF Running
      <3> QED
        BY <3>1, <3>2
    <2>2. cmd[c] # NoCommand
      <3>1. cmd[c].at # "idle"
        BY <1>3 DEF CmdStep, ReadPID, StartRefused, StartGoesOn, CleanUp, Stop, ReportRunning,
                  ReloadRunning, RestartStops, RestartGoesOn, RestartWaits, RestartRemoves,
                  ConfigRefused, GivesUp, Judge, Now
      <3> QED
        BY <3>1 DEF NoCommand
    <2>3. \A d \in Commands \ {c} : cmd'[d] = cmd[d]
      <3>1. ReadPID(c) \/ End(c) \/ To(c, "launch") \/ To(c, "wait") \/ To(c, "remove")
        BY <1>3 DEF CmdStep, StartRefused, StartGoesOn, CleanUp, Stop, ReportRunning,
                  ReloadRunning, RestartStops, RestartGoesOn, RestartWaits, RestartRemoves,
                  ConfigRefused, GivesUp
      <3> QED
        BY <3>1, ReadMeans, EndMeans, ToMeans
    <2> QED
      BY <2>1, <2>2, <2>3
  <1>4. CASE EditConfig \/ UNCHANGED vars
    BY <1>4 DEF EditConfig, vars, Running
  <1> QED
    BY <1>1, <1>2, <1>3, <1>4

(* What is started runs what it was started from. *)
LEMMA UsedGrows ==
    ASSUME TypeOK, NEW c \in Commands,
           LaunchServer(c) \/ \E kind \in Kinds : Give(c, kind),
           image \in [PIDs \cup Commands -> Binaries \cup {None}]
    PROVE  /\ Used' \subseteq Used \/ (exe \in whole /\ Used' \subseteq Used \cup {exe})
           /\ image' = image \/ \E x \in PIDs \cup Commands :
                 \/ exe \in whole /\ image' = [image EXCEPT ![x] = exe]
                 \/ image' = [image EXCEPT ![x] = image[c]]
  <1>1. CASE \E kind \in Kinds : Give(c, kind)
    <2>1. /\ exe \in whole /\ image' = [image EXCEPT ![c] = exe]
          /\ proc' = proc
          /\ \A d \in Commands \ {c} : cmd'[d] = cmd[d]
      BY <1>1 DEF Give, Invoke, ExeWhole, TypeOK
    <2>2. \A q \in PIDs : image'[q] = image[q] /\ (Running(q)' <=> Running(q))
      BY <2>1, ImagesAssumption DEF Running
    <2>3. \A d \in Commands \ {c} : image'[d] = image[d] /\ cmd'[d] = cmd[d]
      BY <2>1
    <2>4. image'[c] = exe
      BY <2>1
    <2> QED
      BY <2>1, <2>2, <2>3, <2>4 DEF Used
  <1>2. CASE LaunchServer(c)
    <2>1. PICK p \in PIDs : proc'[p] # proc[p] /\ Started(c, p)
      BY <1>2 DEF LaunchServer
    <2>2. /\ cmd[c] # NoCommand /\ cmd'[c] = NoCommand
          /\ \A d \in Commands \ {c} : cmd'[d] = cmd[d]
      <3>1. cmd[c].at = "launch" /\ End(c)
        BY <1>2, LaunchMeans DEF LaunchServer
      <3> QED
        BY <3>1, EndMeans DEF NoCommand
    <2>3. \A q \in PIDs \ {p} : Running(q)' <=> Running(q)
      <3>1. PICK q \in PIDs : \E form \in {"child", "init"} : proc' = [proc EXCEPT ![q] = form]
        BY <1>2, LaunchMeans DEF LaunchServer
      <3>2. p = q
        BY <2>1, <3>1 DEF TypeOK
      <3> QED
        BY <3>1, <3>2 DEF Running, TypeOK
    <2>4. CASE exe \in whole /\ image' = [image EXCEPT ![p] = exe]
      <3>1. /\ \A q \in PIDs \ {p} : image'[q] = image[q]
            /\ \A d \in Commands : image'[d] = image[d]
            /\ image'[p] = exe
        BY <2>4, ImagesAssumption
      <3>2. Used' \subseteq Used \cup {exe}
        BY <2>2, <2>3, <3>1 DEF Used
      <3> QED
        BY <2>4, <3>2
    <2>5. CASE image' = [image EXCEPT ![p] = image[c]]
      <3>1. /\ \A q \in PIDs \ {p} : image'[q] = image[q]
            /\ \A d \in Commands : image'[d] = image[d]
            /\ image'[p] = image[c]
        BY <2>5, ImagesAssumption
      <3>2. image[c] \in Used
        BY <2>2 DEF Used
      <3>3. Used' \subseteq Used
        BY <2>2, <2>3, <3>1, <3>2 DEF Used
      <3> QED
        BY <2>5, <3>3
    <2> QED
      BY <2>1, <2>4, <2>5 DEF Started, ExeWhole
  <1> QED
    BY <1>1, <1>2

(* And all of them in the composition. *)
LEMMA TypesStep ==
    ASSUME TypesOK, Copying, [NextInstallation]_allVars
    PROVE  TypesOK'
  <1>1. TypeOK' /\ UpdateTypeOK'
    BY Halves, DaemonTypes, FilesTypes DEF TypesOK
  <1> DEFINE Types == image \in [PIDs \cup Commands -> Binaries \cup {None}]
  <1>2. Types
    BY DEF TypesOK
  <1>3. CASE image' = image
    BY <1>1, <1>2, <1>3 DEF TypesOK
  <1>4. ASSUME NEW c \in Commands, LaunchServer(c) \/ \E kind \in Kinds : Give(c, kind)
        PROVE  TypesOK'
    <2>1. \/ image' = image
          \/ \E x \in PIDs \cup Commands :
                \/ exe \in whole /\ image' = [image EXCEPT ![x] = exe]
                \/ image' = [image EXCEPT ![x] = image[c]]
      BY <1>2, <1>4, UsedGrows DEF TypesOK
    <2>2. whole \subseteq Binaries
      BY DEF TypesOK, UpdateTypeOK
    <2> QED
      BY <1>1, <1>2, <2>1, <2>2 DEF TypesOK
  <1>5. image' = image \/ \E c \in Commands : LaunchServer(c) \/ \E kind \in Kinds : Give(c, kind)
    BY DEF NextInstallation, Process, Proceed, Kill, LaunchFails, Edit, UpdateStep, allVars
  <1> QED
    BY <1>3, <1>4, <1>5

(* Where each operation on the files leaves the update that makes it. *)
LEMMA Moves ==
    ASSUME UpdateTypeOK, NEW u \in Updaters, NEW used, Update(u, used)
    PROVE  /\ \A v \in Updaters \ {u} : update'[v] = update[v]
           /\ Begin(u) => Becomes(u, "stage", exe, None)
           /\ StageOpen(u) =>
                Becomes(u, "copy", update[u].runs, staged')
           /\ StageRename(u) \/ Copied(u) =>
                Becomes(u, Staged, update[u].runs, None)
           /\ RemoveOld(u, used) =>
                Becomes(u, "move away", update[u].runs, None)
           /\ MoveAway(u, used) =>
                Becomes(u, "move in", update[u].runs, None)
           /\ MoveInFails(u, used) =>
                Becomes(u, "roll back", update[u].runs, None)
           /\ DownloadFails(u) \/ CopyFails(u) \/ Replace(u) \/ ReplaceFails(u)
                \/ MoveAwayFails(u, used) \/ MoveIn(u, used) \/ RollBack(u, used) \/ CrashUpdate(u)
              => update'[u].at \in {"failed", "ended"}
           /\ CrashUpdate(u) \/ MoveIn(u, used) => update'[u].at = "ended"
  <1> USE DEF Becomes
  <1>1. update \in [Updaters -> UpdateStates]
    BY DEF UpdateTypeOK
  <1>2. /\ Staged \in Stages
        /\ {"move away", "move in", "roll back"} \subseteq Stages
    BY DEF Staged, Stages
  <1>3. ASSUME NEW stage \in Stages, Go(u, stage)
        PROVE  /\ Becomes(u, stage, update[u].runs, None)
               /\ \A v \in Updaters \ {u} : update'[v] = update[v]
    BY <1>3, GoMeans
  <1>4. ASSUME Fail(u) \/ EndUpdate(u)
        PROVE  /\ update'[u].at \in {"failed", "ended"}
               /\ EndUpdate(u) => update'[u].at = "ended"
               /\ \A v \in Updaters \ {u} : update'[v] = update[v]
    BY <1>4, FailMeans
  <1>5. Begin(u) => /\ Becomes(u, "stage", exe, None)
                    /\ \A v \in Updaters \ {u} : update'[v] = update[v]
    BY <1>1 DEF Begin
  <1>6. StageOpen(u) => /\ Becomes(u, "copy", update[u].runs, staged')
                        /\ \A v \in Updaters \ {u} : update'[v] = update[v]
    BY <1>1 DEF StageOpen
  <1>7. StageRename(u) \/ Copied(u) =>
           /\ Becomes(u, Staged, update[u].runs, None)
           /\ \A v \in Updaters \ {u} : update'[v] = update[v]
    BY <1>2, <1>3 DEF StageRename, Copied
  <1>8. RemoveOld(u, used) =>
           /\ Becomes(u, "move away", update[u].runs, None)
           /\ \A v \in Updaters \ {u} : update'[v] = update[v]
    BY <1>2, <1>3 DEF RemoveOld
  <1>9. MoveAway(u, used) =>
           /\ Becomes(u, "move in", update[u].runs, None)
           /\ \A v \in Updaters \ {u} : update'[v] = update[v]
    BY <1>2, <1>3 DEF MoveAway
  <1>10. MoveInFails(u, used) =>
           /\ Becomes(u, "roll back", update[u].runs, None)
           /\ \A v \in Updaters \ {u} : update'[v] = update[v]
    BY <1>2, <1>3 DEF MoveInFails
  <1>11. DownloadFails(u) \/ CopyFails(u) \/ Replace(u) \/ ReplaceFails(u)
            \/ MoveAwayFails(u, used) \/ MoveIn(u, used) \/ RollBack(u, used) \/ CrashUpdate(u)
         => /\ update'[u].at \in {"failed", "ended"}
            /\ \A v \in Updaters \ {u} : update'[v] = update[v]
    BY <1>4 DEF DownloadFails, CopyFails, Replace, ReplaceFails, MoveAwayFails, MoveIn, RollBack,
                CrashUpdate
  <1>12. CrashUpdate(u) \/ MoveIn(u, used) => update'[u].at = "ended"
    BY <1>4 DEF CrashUpdate, MoveIn
  <1> QED
    BY <1>5, <1>6, <1>7, <1>8, <1>9, <1>10, <1>11, <1>12 DEF Update

(* The steps of an update are those of its platform, and a copy has a file *)
(* to fill.                                                                *)
LEMMA StagesStep ==
    ASSUME TypesOK, Copying, Platforms, [NextInstallation]_allVars
    PROVE  Copying' /\ Platforms'
  <1> USE DEF At, Becomes
  <1>1. UpdateTypeOK /\ windows' = windows /\ FilesNext
    BY Halves DEF TypesOK
  <1>2. CASE update' = update
    BY <1>1, <1>2 DEF Copying, Platforms
  <1>3. ASSUME NEW u \in Updaters, Update(u, Used)
        PROVE  Copying' /\ Platforms'
    <2>1. /\ update'[u].at = "copy" => update'[u].fills \in Binaries
          /\ update'[u].at = "replace" => ~ windows
          /\ update'[u].at \in {"remove old", "move away", "move in", "roll back"} => windows
      <3>1. CASE StageOpen(u)
        <4>1. staged' \in Binaries
          BY <1>1, <3>1 DEF StageOpen, UpdateTypeOK, Binaries
        <4>2. Becomes(u, "copy", update[u].runs, staged')
          BY <1>1, <1>3, <3>1, Moves
        <4> QED
          BY <4>1, <4>2
      <3>2. CASE StageRename(u) \/ Copied(u)
        <4>1. Becomes(u, Staged, update[u].runs, None)
          BY <1>1, <1>3, <3>2, Moves
        <4>2. update'[u].at = Staged
          BY <4>1
        <4> QED
          BY <4>2 DEF Staged
      <3>3. CASE RemoveOld(u, Used) \/ MoveAway(u, Used) \/ MoveInFails(u, Used)
        <4>1. windows
          BY <3>3 DEF RemoveOld, MoveAway, MoveInFails, Platforms
        <4>2. update'[u].at \in {"move away", "move in", "roll back"}
          BY <1>1, <1>3, <3>3, Moves
        <4> QED
          BY <4>1, <4>2
      <3>4. CASE Begin(u)
        <4>1. Becomes(u, "stage", exe, None)
          BY <1>1, <1>3, <3>4, Moves
        <4>2. update'[u].at = "stage"
          BY <4>1
        <4> QED
          BY <4>2
      <3>5. CASE update'[u].at \in {"failed", "ended"}
        BY <3>5
      <3>6. \/ DownloadFails(u) \/ CopyFails(u) \/ Replace(u) \/ ReplaceFails(u)
               \/ MoveAwayFails(u, Used) \/ MoveIn(u, Used) \/ RollBack(u, Used) \/ CrashUpdate(u)
            => update'[u].at \in {"failed", "ended"}
        BY <1>1, <1>3, Moves
      <3> QED
        BY <1>3, <3>1, <3>2, <3>3, <3>4, <3>5, <3>6 DEF Update
    <2>2. \A v \in Updaters \ {u} : update'[v] = update[v]
      BY <1>1, <1>3, Moves
    <2> QED
      BY <1>1, <2>1, <2>2 DEF Copying, Platforms
  <1> QED
    BY <1>1, <1>2, <1>3 DEF FilesNext, CleanupOldBinary, updateVars

(* No file that runs is removed, and none that does not is started. *)
LEMMA ImagesStep ==
    ASSUME TypesOK, Platforms, Images, [NextInstallation]_allVars
    PROVE  Images'
  <1>1. SUFFICES ASSUME windows
                 PROVE  Used' \subseteq {exe', old'} \ {None}
    BY Halves DEF Images
  <1>2. Used \subseteq {exe, old} \ {None}
    BY <1>1 DEF Images
  <1>3. TypeOK /\ UpdateTypeOK
    BY DEF TypesOK
  <1>4. ASSUME image' = image,
               \/ \E p \in PIDs : ProcStep(p) \/ Crash(p)
               \/ \E c \in Commands : CmdStep(c) \/ GivesUp(c)
               \/ EditConfig \/ UNCHANGED vars,
               CleanupOldBinary(Used) \/ UNCHANGED updateVars
        PROVE  Used' \subseteq {exe', old'} \ {None}
    <2>1. Used' \subseteq Used
      BY <1>3, <1>4, UsedShrinks
    <2>2. exe' = exe /\ (old' = old \/ old \notin Used)
      BY <1>4 DEF CleanupOldBinary, InUse, updateVars, files
    <2> QED
      BY <1>2, <2>1, <2>2
  <1>5. ASSUME NEW c \in Commands, LaunchServer(c) \/ \E kind \in Kinds : Give(c, kind)
        PROVE  Used' \subseteq {exe', old'} \ {None}
    <2>1. Used' \subseteq Used \/ (exe \in whole /\ Used' \subseteq Used \cup {exe})
      BY <1>3, <1>5, UsedGrows DEF TypesOK
    <2>2. exe' = exe /\ old' = old
      BY <1>5 DEF LaunchServer, Give, updateVars, files
    <2>3. exe \in whole => exe # None
      BY <1>3, BinariesAssumption DEF UpdateTypeOK, Binaries
    <2> QED
      BY <1>2, <2>1, <2>2, <2>3
  <1>6. ASSUME NEW u \in Updaters, UpdateStep(u)
        PROVE  Used' \subseteq {exe', old'} \ {None}
    <2>1. Used' \subseteq Used
      BY <1>3, <1>6, UsedShrinks DEF UpdateStep
    <2>2. Update(u, Used)
      BY <1>6 DEF UpdateStep
    <2>3. CASE exe' = exe /\ old' = old
      BY <1>2, <2>1, <2>3
    <2>4. CASE Replace(u)
      BY <1>1, <2>4 DEF Replace, Platforms, At
    <2>5. CASE RemoveOld(u, Used)
      BY <1>2, <2>1, <2>5 DEF RemoveOld, InUse
    <2>6. CASE MoveAway(u, Used)
      BY <1>2, <2>1, <2>6 DEF MoveAway, InUse
    <2>7. CASE MoveIn(u, Used)
      BY <1>2, <2>1, <2>7 DEF MoveIn, CanMoveIn, InUse
    <2>8. CASE RollBack(u, Used)
      BY <1>2, <2>1, <2>8 DEF RollBack, InUse
    <2>9. CASE \/ Begin(u) \/ DownloadFails(u) \/ StageRename(u) \/ StageOpen(u) \/ Copied(u)
               \/ CopyFails(u) \/ ReplaceFails(u) \/ MoveAwayFails(u, Used)
               \/ MoveInFails(u, Used) \/ CrashUpdate(u)
      BY <2>3, <2>9 DEF Begin, DownloadFails, StageRename, StageOpen, Copied, CopyFails,
                        ReplaceFails, MoveAwayFails, MoveInFails, CrashUpdate, files
    <2> QED
      BY <2>2, <2>4, <2>5, <2>6, <2>7, <2>8, <2>9 DEF Update
  <1>7. CASE UNCHANGED allVars
    BY <1>4, <1>7 DEF allVars
  <1>10. CASE Edit
    BY <1>4, <1>10 DEF Edit
  <1>8. ASSUME NEW p \in PIDs, Process(p) \/ Kill(p)
        PROVE  Used' \subseteq {exe', old'} \ {None}
    BY <1>4, <1>8 DEF Process, Kill
  <1>9. ASSUME NEW c \in Commands, Proceed(c) \/ LaunchFails(c)
        PROVE  Used' \subseteq {exe', old'} \ {None}
    <2>1. CASE Proceed(c)
      BY <1>4, <2>1 DEF Proceed
    <2>2. CASE LaunchFails(c)
      BY <1>4, <2>2 DEF LaunchFails, GivesUp
    <2> QED
      BY <1>9, <2>1, <2>2
  <1> QED
    BY <1>5, <1>6, <1>7, <1>8, <1>9, <1>10 DEF NextInstallation

(* No file operation, whether it is done, fails or is the last of an       *)
(* update, leaves a place without a whole executable.                      *)
LEMMA FilesStep ==
    ASSUME TypesOK, Platforms, Images, FilesInv, [NextInstallation]_allVars
    PROVE  FilesInv'
  <1>1. UpdateTypeOK /\ windows' = windows /\ FilesNext
    BY Halves DEF TypesOK
  <1>2. None \notin whole /\ whole \subseteq Binaries /\ None \notin Updaters
    BY <1>1, BinariesAssumption DEF UpdateTypeOK, Binaries
  <1>3. CASE CleanupOldBinary(Used) /\ Used # {}
    <2>1. SUFFICES ASSUME ~ overlap, windows
                   PROVE  FilesInv'
      <3>1. CASE ~ windows
        BY <1>1, <1>3, <3>1 DEF CleanupOldBinary, FilesInv, SoleUpdate, Apart, InPlace, ExeWhole,
              Fresh, Unmoved, Moved, Fills, StagedWhole, UnderWay, At, history
      <3>2. CASE overlap
        BY <1>3, <3>2 DEF CleanupOldBinary, FilesInv, history
      <3> QED
        BY <2>1, <3>1, <3>2
    <2>2. /\ exe' = exe /\ whole' = whole /\ update' = update
          /\ old' = (IF InUse(old, Used) THEN old ELSE None)
          /\ staged' = (IF Filled(staged) THEN staged ELSE None)
      BY <1>3, <2>1 DEF CleanupOldBinary
    <2>3. SoleUpdate' /\ Apart'
      BY <2>1, <2>2 DEF FilesInv, SoleUpdate, Apart, UnderWay
    <2>4. InPlace'
      <3>1. CASE exe \in whole
        BY <2>2, <3>1 DEF InPlace, ExeWhole
      <3>2. CASE exe = None
        <4>1. old \in Used
          BY <1>3, <2>1, <3>2 DEF Images
        <4> QED
          BY <1>1, <2>1, <2>2, <3>2, <4>1 DEF InUse, FilesInv, InPlace, ExeWhole
      <3> QED
        BY <2>1, <3>1, <3>2 DEF FilesInv, InPlace, ExeWhole
    <2>5. ASSUME NEW u \in Updaters
          PROVE  (Fresh(u) /\ Unmoved(u) /\ Moved(u) /\ Fills(u) /\ StagedWhole(u))'
      <3>1. Fresh(u) /\ Unmoved(u) /\ Moved(u) /\ Fills(u) /\ StagedWhole(u)
        BY <2>1 DEF FilesInv
      <3>2. (Fresh(u) /\ Unmoved(u) /\ StagedWhole(u))'
        BY <1>2, <2>2, <3>1 DEF Fresh, Unmoved, StagedWhole
      <3>3. Moved(u)'
        <4>1. CASE update[u].at \in {"move in", "roll back"}
          <5>1. InUse(old, Used)
            BY <3>1, <4>1 DEF Moved, InUse, UnderWay
          <5> QED
            BY <2>2, <3>1, <4>1, <5>1 DEF Moved
        <4> QED
          BY <2>2, <4>1 DEF Moved
      <3>4. Fills(u)'
        BY <2>2, <3>1 DEF Fills, Filled, At
      <3> QED
        BY <3>2, <3>3, <3>4
    <2> QED
      BY <2>3, <2>4, <2>5 DEF FilesInv
  <1>4. ASSUME NEW u \in Updaters, Update(u, Used)
        PROVE  FilesInv'
    <2>1. SUFFICES ASSUME ~ overlap'
                   PROVE  FilesInv'
      BY DEF FilesInv
    <2>2. ~ overlap /\ (Begin(u) => ~ \E v \in Updaters : UnderWay(v))
      <3>1. CASE Begin(u)
        BY <2>1, <3>1 DEF Begin
      <3>2. CASE ~ Begin(u)
        <4>1. overlap' = overlap
          BY <1>4, <3>2 DEF Update, DownloadFails, StageRename, StageOpen, Copied, CopyFails,
            Replace, ReplaceFails, RemoveOld, MoveAway, MoveAwayFails, MoveIn, MoveInFails,
            RollBack, CrashUpdate, history
        <4> QED
          BY <2>1, <3>2, <4>1
      <3> QED
        BY <3>1, <3>2
    <2>3. /\ SoleUpdate /\ Apart /\ InPlace
          /\ \A v \in Updaters : Fresh(v) /\ Unmoved(v) /\ Moved(v) /\ Fills(v) /\ StagedWhole(v)
      BY <2>2 DEF FilesInv
    <2>4. \A v \in Updaters \ {u} : update'[v] = update[v]
      BY <1>1, <1>4, Moves
    <2>5. \A v \in Updaters \ {u} : update[v].at \in {"idle", "failed", "ended"}
      <3>1. CASE Begin(u)
        BY <2>2, <3>1 DEF UnderWay
      <3>2. CASE ~ Begin(u)
        <4>1. UnderWay(u)
          BY <1>4, <3>2 DEF Update, DownloadFails, StageRename, StageOpen, Copied, CopyFails,
            Replace, ReplaceFails, RemoveOld, MoveAway, MoveAwayFails, MoveIn, MoveInFails,
            RollBack, CrashUpdate, At, UnderWay
        <4> QED
          BY <2>3, <4>1 DEF SoleUpdate, UnderWay
      <3> QED
        BY <3>1, <3>2
    <2>6. SUFFICES /\ Apart' /\ InPlace'
                   /\ (Fresh(u) /\ Unmoved(u) /\ Moved(u) /\ Fills(u) /\ StagedWhole(u))'
                   /\ \A v \in Updaters \ {u} : v \notin {exe, old, staged} =>
                         v \notin {exe', old', staged'}
      <3>1. SoleUpdate'
        BY <2>4, <2>5 DEF SoleUpdate, UnderWay
      <3>2. ASSUME NEW v \in Updaters \ {u}
            PROVE  (Fresh(v) /\ Unmoved(v) /\ Moved(v) /\ Fills(v) /\ StagedWhole(v))'
        <4>1. update'[v] = update[v] /\ update[v].at \in {"idle", "failed", "ended"}
          BY <2>4, <2>5
        <4>2. Fresh(v)'
          BY <2>3, <2>6, <4>1 DEF Fresh
        <4> QED
          BY <4>1, <4>2 DEF Unmoved, Moved, Fills, StagedWhole, At
      <3> QED
        BY <2>6, <3>1, <3>2 DEF FilesInv
    <2>7. /\ Fresh(u) /\ Unmoved(u) /\ Moved(u) /\ Fills(u) /\ StagedWhole(u)
          /\ Apart /\ InPlace
      BY <2>3
    <2> USE DEF Apart, InPlace, ExeWhole, Fresh, Unmoved, Moved, Fills, StagedWhole, At
    <2>8. ASSUME update'[u].at \in {"failed", "ended"}
          PROVE  (Fresh(u) /\ Unmoved(u) /\ Moved(u) /\ Fills(u) /\ StagedWhole(u))'
      BY <2>8
    <2>9. CASE Begin(u)
      <3>1. Becomes(u, "stage", exe, None) /\ UNCHANGED files
        BY <1>1, <1>4, <2>9, Moves DEF Begin
      <3>2. exe \in whole /\ update[u].at = "idle"
        BY <2>9 DEF Begin
      <3> QED
        BY <1>1, <2>7, <3>1, <3>2 DEF Becomes, files
    <2>10. CASE DownloadFails(u) \/ CopyFails(u) \/ CrashUpdate(u)
      <3>1. update'[u].at \in {"failed", "ended"} /\ UNCHANGED files
        BY <1>1, <1>4, <2>10, Moves DEF DownloadFails, CopyFails, CrashUpdate
      <3> QED
        BY <1>1, <2>7, <2>8, <3>1 DEF files
    <2>11. CASE StageRename(u)
      <3>1. /\ Becomes(u, Staged, update[u].runs, None)
            /\ update[u].at = "stage"
            /\ staged' = u /\ whole' = whole \cup {u} /\ exe' = exe /\ old' = old
        BY <1>1, <1>4, <2>11, Moves DEF StageRename
      <3>2. update'[u].at \in {"replace", "remove old"} /\ update'[u].runs = update[u].runs
        BY <3>1 DEF Becomes, Staged
      <3> QED
        BY <1>1, <1>2, <2>7, <3>1, <3>2
    <2>12. CASE StageOpen(u)
      <3>1. /\ Becomes(u, "copy", update[u].runs, staged')
            /\ update[u].at = "stage"
            /\ staged' = (IF staged = None THEN u ELSE staged)
            /\ whole' = whole \ {staged'} /\ exe' = exe /\ old' = old
        BY <1>1, <1>4, <2>12, Moves DEF StageOpen
      <3>2. staged' \notin {exe, old}
        BY <2>7, <3>1
      <3> QED
        BY <1>1, <1>2, <2>7, <3>1, <3>2 DEF Becomes
    <2>13. CASE Copied(u)
      <3>1. /\ Becomes(u, Staged, update[u].runs, None)
            /\ update[u].at = "copy" /\ update[u].fills = staged
            /\ exe' = exe /\ old' = old /\ staged' = staged
        BY <1>1, <1>4, <2>7, <2>13, Moves DEF Copied
      <3>2. whole' = whole \cup {staged}
        BY <2>5, <2>13, <3>1 DEF Copied
      <3>3. update'[u].at \in {"replace", "remove old"} /\ update'[u].runs = update[u].runs
        BY <3>1 DEF Becomes, Staged
      <3> QED
        BY <1>1, <1>2, <2>7, <3>1, <3>2, <3>3
    <2>14. CASE Replace(u) \/ ReplaceFails(u)
      <3>1. /\ update'[u].at \in {"failed", "ended"}
            /\ update[u].at = "replace"
            /\ exe' = exe \/ (staged # None /\ exe' = staged)
            /\ old' = old /\ staged' = None /\ whole' = whole
        BY <1>1, <1>4, <2>14, Moves DEF Replace, ReplaceFails
      <3> QED
        BY <1>1, <1>2, <2>7, <2>8, <3>1
    <2>15. CASE RemoveOld(u, Used)
      <3>1. /\ Becomes(u, "move away", update[u].runs, None)
            /\ update[u].at = "remove old"
            /\ old' \in {old, None} /\ exe' = exe /\ staged' = staged /\ whole' = whole
        BY <1>1, <1>4, <2>15, Moves DEF RemoveOld
      <3> QED
        BY <1>1, <1>2, <2>7, <3>1 DEF Becomes
    <2>16. CASE MoveAway(u, Used)
      <3>1. /\ Becomes(u, "move in", update[u].runs, None)
            /\ update[u].at = "move away" /\ windows
            /\ old' = exe /\ exe' = None /\ staged' = staged /\ whole' = whole
        BY <1>1, <1>4, <2>16, Moves DEF MoveAway, Platforms
      <3> QED
        BY <1>1, <1>2, <2>7, <3>1 DEF Becomes
    <2>17. CASE MoveAwayFails(u, Used)
      <3>1. /\ update'[u].at \in {"failed", "ended"}
            /\ staged' \in {staged, None}
            /\ old' = old /\ exe' = exe /\ whole' = whole
        BY <1>1, <1>4, <2>17, Moves DEF MoveAwayFails
      <3> QED
        BY <1>1, <1>2, <2>7, <2>8, <3>1
    <2>18. CASE MoveIn(u, Used)
      <3>1. /\ update'[u].at \in {"failed", "ended"}
            /\ update[u].at = "move in"
            /\ staged # None /\ exe' = staged /\ staged' = None
            /\ old' = old /\ whole' = whole
        BY <1>1, <1>4, <2>18, Moves DEF MoveIn, CanMoveIn
      <3> QED
        BY <1>1, <1>2, <2>7, <2>8, <3>1
    <2>19. CASE MoveInFails(u, Used)
      <3>1. /\ Becomes(u, "roll back", update[u].runs, None)
            /\ update[u].at = "move in" /\ UNCHANGED files
        BY <1>1, <1>4, <2>19, Moves DEF MoveInFails
      <3> QED
        BY <1>1, <1>2, <2>7, <3>1 DEF Becomes, files
    <2>20. CASE RollBack(u, Used)
      <3>1. /\ update'[u].at \in {"failed", "ended"}
            /\ update[u].at = "roll back"
            /\ staged' \in {staged, None} /\ whole' = whole
            /\ \/ old # None /\ exe' = old /\ old' = None
               \/ exe' = exe /\ old' = old
        BY <1>1, <1>4, <2>20, Moves DEF RollBack
      <3> QED
        BY <1>1, <1>2, <2>7, <2>8, <3>1
    <2> QED
      BY <1>4, <2>9, <2>10, <2>11, <2>12, <2>13, <2>14, <2>15, <2>16, <2>17, <2>18, <2>19, <2>20
      DEF Update
  <1>5. CASE UNCHANGED updateVars
    BY <1>1, <1>5 DEF updateVars, files, history, FilesInv, SoleUpdate, Apart, InPlace, ExeWhole,
          Fresh, Unmoved, Moved, Fills, StagedWhole, UnderWay, At
  <1> QED
    BY <1>1, <1>3, <1>4, <1>5 DEF FilesNext

FilesSound == TypesOK /\ Copying /\ Platforms /\ Images /\ FilesInv

LEMMA FilesStart ==
    ASSUME InitInstallation
    PROVE  FilesSound
  <1>1. /\ InitUpdate /\ Init
        /\ \A u \in Updaters : update[u] = NoUpdate
        /\ Used = {}
    BY DEF InitInstallation, InitUpdate, Init, Used, Running
  <1>2. TypesOK
    <2>1. NoUpdate \in UpdateStates /\ NoCommand \in CommandStates
      BY DEF NoUpdate, UpdateStates, Stages, NoCommand, CommandStates
    <2>4. 0 \in 0 .. MaxFailures /\ 0 <= MaxMishaps
      BY FailuresAssumption, MishapsAssumption
    <2>2. UpdateTypeOK
      <3>1. update \in [Updaters -> UpdateStates]
        BY <1>1, <2>1 DEF InitUpdate
      <3> QED
        BY <1>1, <2>4, <3>1 DEF InitUpdate, UpdateTypeOK, Binaries
    <2>3. TypeOK
      <3>1. cmd \in [Commands -> CommandStates] /\ proc \in [PIDs -> ProcessStates]
        BY <1>1, <2>1 DEF Init, ProcessStates
      <3>2. loads \in BOOLEAN /\ crashes = 0 /\ slips = 0 /\ windows \in BOOLEAN
        BY <1>1 DEF Init
      <3>3. crashes \in Nat /\ slips \in Nat /\ crashes + slips <= MaxMishaps
        BY <3>2, MishapsAssumption
      <3>4. /\ pidfile \in PIDs \cup {NoPID} /\ stopSignal \in BOOLEAN
            /\ pending \subseteq PIDs /\ targeted \subseteq PIDs /\ unwritten \subseteq PIDs
        BY <1>1 DEF Init
      <3> QED
        BY <3>1, <3>2, <3>3, <3>4 DEF TypeOK
    <2> QED
      BY <2>2, <2>3 DEF TypesOK, InitInstallation
  <1>3. Copying /\ Platforms
    <2>1. \A u \in Updaters : update[u].at = "idle"
      BY <1>1 DEF NoUpdate
    <2> QED
      BY <2>1 DEF Copying, Platforms, At
  <1>4. Images
    BY <1>1 DEF Images
  <1>5. FilesInv
    BY <1>1, BinariesAssumption DEF InitUpdate, FilesInv, SoleUpdate, Apart, InPlace, ExeWhole,
          Fresh, Unmoved, Moved, Fills, StagedWhole, UnderWay, At, NoUpdate
  <1> QED
    BY <1>2, <1>3, <1>4, <1>5 DEF FilesSound

(* What is said of the files is kept by every step of either half. *)
LEMMA FilesSoundStep ==
    ASSUME FilesSound, [NextInstallation]_allVars
    PROVE  FilesSound'
  BY TypesStep, StagesStep, ImagesStep, FilesStep DEF FilesSound

(* Hence it holds in every state that is reached. *)
LEMMA FilesAlwaysSound == Spec => []FilesSound
  <1>1. InitInstallation => FilesSound
    BY FilesStart
  <1>2. FilesSound /\ [NextInstallation]_allVars => FilesSound'
    BY FilesSoundStep
  <1> QED
    BY <1>1, <1>2, PTL DEF Spec

(* Commands, processes, files and updates keep their types. *)
THEOREM TypesCorrect == Spec => []TypesOK
  <1>1. FilesSound => TypesOK
    BY DEF FilesSound
  <1> QED
    BY <1>1, FilesAlwaysSound, PTL

(* Wherever an update ends, fails or crashes there is a whole executable,  *)
(* or on Windows a whole .old while there is none, for any number of       *)
(* updates one after the other, with any servers and commands beside them: *)
(* those run no other file than these two.                                 *)
THEOREM ExecutableStays == Spec => []BinaryThere
  <1>1. FilesSound => BinaryThere
    BY DEF FilesSound, FilesInv, InPlace, BinaryThere, ExeWhole
  <1> QED
    BY <1>1, FilesAlwaysSound, PTL

(* An update fails where the executable it runs is in its place, and the   *)
(* one failure that moves files back is the rollback.                      *)
LEMMA FailureStep ==
    ASSUME FilesSound, [NextInstallation]_allVars, NEW u \in Updaters,
           ~ At(u, "failed"), At(u, "failed")'
    PROVE  exe' = update[u].runs \/ stuck' \/ overlap'
  <1>1. UpdateTypeOK /\ FilesNext
    BY Halves DEF FilesSound, TypesOK
  <1>2. PICK v \in Updaters : Update(v, Used)
    BY <1>1 DEF FilesNext, CleanupOldBinary, updateVars, At
  <1>3. u = v
    <2>1. \A w \in Updaters \ {v} : update'[w] = update[w]
      BY <1>1, <1>2, Moves
    <2> QED
      BY <2>1 DEF At
  <1>4. ~ overlap =>
           /\ update[u].at \in {"stage", "copy", "replace", "move away"} => exe = update[u].runs
           /\ update[u].at = "roll back" => exe = None /\ old = update[u].runs
    BY DEF FilesSound, FilesInv, Unmoved, Moved
  <1>5. SUFFICES ASSUME ~ overlap
                 PROVE  exe' = update[u].runs \/ stuck'
    <2>1. overlap => overlap'
      BY <1>2 DEF Update, Begin, DownloadFails, StageRename, StageOpen, Copied, CopyFails,
            Replace, ReplaceFails, RemoveOld, MoveAway, MoveAwayFails, MoveIn, MoveInFails,
            RollBack, CrashUpdate, history
    <2> QED
      BY <1>5, <2>1
  <1>6. Update(u, Used)
    BY <1>2, <1>3
  <1>7. CASE DownloadFails(u) \/ CopyFails(u) \/ ReplaceFails(u) \/ MoveAwayFails(u, Used)
    BY <1>4, <1>5, <1>7 DEF DownloadFails, CopyFails, ReplaceFails, MoveAwayFails, At, files
  <1>8. CASE Replace(u)
    <2>1. CASE staged = None
      BY <1>4, <1>5, <1>8, <2>1 DEF Replace, At
    <2>2. CASE staged # None
      <3>1. update'[u].at = "ended"
        BY <1>1, <1>8, <2>2, FailMeans DEF Replace
      <3> QED
        BY <3>1 DEF At
    <2> QED
      BY <2>1, <2>2
  <1>9. CASE RollBack(u, Used)
    BY <1>4, <1>5, <1>9 DEF RollBack, At
  <1>10. CASE MoveIn(u, Used) \/ CrashUpdate(u)
    <2>1. update'[u].at = "ended"
      BY <1>1, <1>6, <1>10, Moves
    <2> QED
      BY <2>1 DEF At
  <1>11. CASE Begin(u) \/ StageOpen(u) \/ RemoveOld(u, Used) \/ MoveAway(u, Used)
                \/ MoveInFails(u, Used)
    <2>1. update'[u].at \in {"stage", "copy", "move away", "move in", "roll back"}
      BY <1>1, <1>6, <1>11, Moves DEF Becomes
    <2> QED
      BY <2>1 DEF At
  <1>12. CASE StageRename(u) \/ Copied(u)
    <2>1. Becomes(u, Staged, update[u].runs, None)
      BY <1>1, <1>6, <1>12, Moves
    <2> QED
      BY <2>1 DEF At, Becomes, Staged
  <1> QED
    BY <1>6, <1>7, <1>8, <1>9, <1>10, <1>11, <1>12 DEF Update

(* "update failed" leaves the executable the update has found. *)
THEOREM FailureKeepsExecutable == Spec => FailureKeeps
  <1>1. FilesSound /\ [NextInstallation]_allVars =>
           [\A u \in Updaters :
              ~ At(u, "failed") /\ At(u, "failed")' =>
                  exe' = update[u].runs \/ stuck' \/ overlap']_updateVars
    BY FailureStep
  <1> QED
    BY <1>1, FilesAlwaysSound, PTL DEF Spec, FailureKeeps

-----------------------------------------------------------------------------
(* The invariant of the PID file, when commands are given one at a time    *)
(* (Serial) and servers stop within the time restart gives them (Patient). *)
(* A server without a PID file goes unseen: others are started beside it,  *)
(* and end because it has the port.                                        *)

Unfiled(p) == p \in unwritten /\ proc[p] = "up"
Starting(p) == proc[p] \in {"child", "init", "announced", "leaving"}

Alone ==
    \A p, q \in PIDs : Running(p) /\ Running(q) =>
        p = q \/ (Unfiled(p) /\ Starting(q)) \/ (Unfiled(q) /\ Starting(p))

(* A server that has written the PID file is the one in it, and no other   *)
(* is named there or was meant by a command.                               *)
Past(p) == proc[p] \notin {"unborn", "child", "init"}

Announced ==
    /\ \A p \in PIDs :
          proc[p] \in {"announced", "up", "draining", "leaving"} =>
              pidfile = p \/ p \in unwritten
    /\ \A p \in targeted \cup ({pidfile} \ {NoPID}) : Past(p) /\ p \notin unwritten
    /\ \A p \in unwritten : Past(p)

OneCommand == \A c, d \in Commands : cmd[c].at # "idle" /\ cmd[d].at # "idle" => c = d

Quiet ==
    /\ \A p \in PIDs : proc[p] \in {"unborn", "up", "gone"}
    /\ pending = {}
    /\ stopSignal => ~ PortTaken

(* What a command has seen is so until it acts on it. *)
Seeing(c) ==
    /\ cmd[c].at = "idle" => cmd[c] = NoCommand
    /\ cmd[c].at \in {"read", "judge"} => Quiet
    /\ cmd[c].at = "judge" => cmd[c].pid = pidfile
    /\ cmd[c].at = "wait" =>
          \A p \in PIDs : Running(p) =>
              p = cmd[c].pid /\ proc[p] \in {"up", "draining", "leaving"}
    /\ cmd[c].at \in {"remove", "launch"} =>
          \A p \in PIDs : Running(p) => Unfiled(p) /\ ~ stopSignal

(* A signal is on its way to a server a command meant, and the file can be *)
(* taken by no other than the one server that runs.                        *)
Signals ==
    /\ pending \subseteq targeted
    /\ IF windows THEN pending = {} ELSE ~ stopSignal
    /\ stopSignal /\ crashes = 0 => \E p \in targeted : p \in PIDs /\ proc[p] = "up"
    /\ stopSignal => \A p, q \in PIDs : proc[p] = "up" /\ Running(q) => p = q

ServerInv ==
    /\ Alone /\ Announced /\ OneCommand /\ Signals
    /\ \A c \in Commands : Seeing(c)

(* A command that is judging sees the server there is, unless it has no    *)
(* PID file; the server it sees is the only one.                           *)
LEMMA SeesTheServer ==
    ASSUME TypeOK, ServerInv, NEW c \in Commands, Judge(c)
    PROVE  /\ Quiet /\ Seen(c) = pidfile
           /\ \A p \in PIDs : Running(p) => proc[p] = "up"
           /\ \A p \in PIDs : Running(p) /\ p # pidfile => Unfiled(p)
           /\ Running(pidfile) =>
                 /\ pidfile \in PIDs /\ proc[pidfile] = "up"
                 /\ \A p \in PIDs : Running(p) => p = pidfile
  <1>1. Quiet /\ Seen(c) = pidfile
    BY DEF ServerInv, Seeing, Judge, Now, Seen
  <1>2. \A p \in PIDs : Running(p) => proc[p] = "up" /\ (p # pidfile => Unfiled(p))
    BY <1>1 DEF Quiet, Running, ServerInv, Announced, Unfiled
  <1>3. Running(pidfile) => pidfile \in PIDs
    BY DEF Running, TypeOK
  <1>4. \A p, q \in PIDs : Running(p) /\ Running(q) => p = q
    BY <1>2 DEF ServerInv, Alone, Starting
  <1> QED
    BY <1>1, <1>2, <1>3, <1>4

(* A server that is not up has none beside it but one without a PID file.  *)
LEMMA BesideIt ==
    ASSUME ServerInv, NEW p \in PIDs, Running(p), proc[p] # "up"
    PROVE  \A q \in PIDs \ {p} : Running(q) => Unfiled(q) /\ Starting(p)
  BY DEF ServerInv, Alone, Unfiled

(* While one is starting no command is given, and no stop is on its way.   *)
LEMMA WhileStarting ==
    ASSUME ServerInv, NEW p \in PIDs, Running(p),
           proc[p] \in {"child", "init", "announced"}
    PROVE  /\ \A c \in Commands : cmd[c].at \notin {"read", "judge", "wait", "remove", "launch"}
           /\ ~ (stopSignal /\ crashes = 0)
  <1>1. \A c \in Commands : Seeing(c)
    BY DEF ServerInv
  <1>2. \A c \in Commands : cmd[c].at \notin {"read", "judge", "wait", "remove", "launch"}
    BY <1>1 DEF Seeing, Quiet, Unfiled
  <1>3. ~ (stopSignal /\ crashes = 0)
    BY DEF ServerInv, Signals
  <1> QED
    BY <1>2, <1>3

(* The steps of a server that starts. *)
LEMMA StartingSteps ==
    ASSUME TypeOK, ServerInv, NEW p \in PIDs,
           CheckAgain(p) \/ LoadFails(p) \/ Announce(p) \/ AnnounceFails(p) \/ Bind(p)
    PROVE  ServerInv'
  <1> USE NoPIDAssumption DEF Running
  <1>1. /\ cmd' = cmd /\ targeted' = targeted /\ windows' = windows
        /\ pending' = pending /\ stopSignal' = stopSignal /\ crashes' = crashes
        /\ \A q \in PIDs \ {p} : proc'[q] = proc[q]
        /\ p # NoPID /\ proc[p] \in {"child", "init", "announced"}
    BY DEF CheckAgain, LoadFails, Announce, AnnounceFails, Bind, Step, TypeOK
  <1>2. /\ Alone /\ Announced /\ OneCommand /\ Signals
        /\ \A c \in Commands : Seeing(c)
    BY DEF ServerInv
  <1>3. \A q \in PIDs \ {p} : Running(q) => Unfiled(q)
    BY <1>1, BesideIt
  <1>4. /\ \A c \in Commands : cmd[c].at \notin {"read", "judge", "wait", "remove", "launch"}
        /\ ~ (stopSignal /\ crashes = 0)
    BY <1>1, WhileStarting
  <1>5. OneCommand' /\ \A c \in Commands : Seeing(c)'
    BY <1>1, <1>2, <1>4 DEF OneCommand, Seeing
  <1>6. /\ unwritten \subseteq unwritten' /\ unwritten' \subseteq unwritten \cup {p}
        /\ p \in unwritten' /\ p \notin unwritten => proc'[p] = "announced"
        /\ p \in unwritten' /\ p \notin unwritten => pidfile' \in {pidfile, NoPID}
        /\ p \in unwritten' /\ p \notin unwritten => proc[p] = "init"
    BY DEF CheckAgain, LoadFails, Announce, AnnounceFails, Bind, Step, TypeOK
  <1>7. /\ proc'[p] \in {"init", "announced", "leaving", "up", "gone"}
        /\ proc'[p] = "up" => ~ PortTaken
        /\ Past(p) => Past(p)'
    BY <1>1 DEF CheckAgain, LoadFails, Announce, AnnounceFails, Bind, Step, TypeOK, Past
  <1>8. \A q \in PIDs \ {p} : Unfiled(q) => Unfiled(q)'
    BY <1>1, <1>6 DEF Unfiled
  <1>9. ASSUME proc'[p] = "up" PROVE \A q \in PIDs \ {p} : ~ Running(q)
    BY <1>3, <1>7, <1>9 DEF PortTaken, Unfiled
  <1>10. Alone'
    <2>1. CASE proc'[p] = "up"
      BY <1>1, <1>9, <2>1 DEF Alone
    <2>2. CASE proc'[p] # "up"
      <3>1. proc'[p] = "gone" \/ Starting(p)'
        BY <1>7, <2>2 DEF Starting
      <3>2. \A q \in PIDs \ {p} : Running(q)' => Unfiled(q) /\ Unfiled(q)'
        BY <1>1, <1>3, <1>8
      <3>3. \A q, r \in PIDs \ {p} : Running(q)' /\ Running(r)' => q = r
        BY <1>1, <1>2, <3>2 DEF Alone, Unfiled, Starting
      <3> QED
        BY <3>1, <3>2, <3>3 DEF Alone
    <2> QED
      BY <2>1, <2>2
  <1>11. Announced'
    <2>1. \/ pidfile' = pidfile
          \/ pidfile' = p /\ proc[p] = "init" /\ proc'[p] = "announced" /\ unwritten' = unwritten
          \/ pidfile' = NoPID /\ p \in unwritten' /\ proc[p] = "init"
      BY <1>1 DEF CheckAgain, LoadFails, Announce, AnnounceFails, Bind, Step, TypeOK
    <2>2. proc'[p] \in {"announced", "up", "draining", "leaving"} => pidfile' = p \/ p \in unwritten'
      <3>1. CASE proc[p] = "announced"
        <4>1. pidfile = p \/ p \in unwritten
          BY <1>2, <3>1 DEF Announced
        <4> QED
          BY <1>6, <2>1, <3>1, <4>1
      <3>2. CASE proc[p] # "announced"
        BY <3>2 DEF CheckAgain, LoadFails, Announce, AnnounceFails, Bind, Step, TypeOK
      <3> QED
        BY <3>1, <3>2
    <2>3. ASSUME NEW q \in PIDs \ {p}, proc'[q] \in {"announced", "up", "draining", "leaving"}
          PROVE  pidfile' = q \/ q \in unwritten'
      <3>1. q \in unwritten
        BY <1>1, <1>3, <2>3 DEF Unfiled
      <3> QED
        BY <1>6, <3>1
    <2>4. \A q \in targeted \cup ({pidfile} \ {NoPID}) :
             q \in PIDs /\ Past(q) /\ q \notin unwritten /\ (proc[p] = "init" => q # p)
      BY <1>2 DEF Announced, Past, TypeOK
    <2>5. ASSUME NEW q \in targeted \cup ({pidfile'} \ {NoPID})
          PROVE  Past(q)' /\ q \notin unwritten'
      <3>1. CASE q \in targeted \cup ({pidfile} \ {NoPID})
        BY <1>1, <1>6, <1>7, <2>4, <3>1 DEF Past
      <3>2. CASE q \notin targeted \cup ({pidfile} \ {NoPID})
        <4>1. q = p /\ proc[p] = "init" /\ proc'[p] = "announced" /\ unwritten' = unwritten
          BY <2>1, <2>5, <3>2
        <4>2. p \notin unwritten
          BY <1>2, <4>1 DEF Announced, Past
        <4> QED
          BY <4>1, <4>2 DEF Past
      <3> QED
        BY <3>1, <3>2
    <2>6. \A q \in unwritten' : Past(q)'
      <3>1. \A q \in unwritten : q \in PIDs /\ Past(q)
        BY <1>2 DEF Announced, TypeOK
      <3> QED
        BY <1>1, <1>6, <1>7, <3>1 DEF Past
    <2> QED
      BY <1>1, <2>2, <2>3, <2>5, <2>6 DEF Announced
  <1>12. Signals'
    <2>1. stopSignal => \A q, r \in PIDs : proc'[q] = "up" /\ Running(r)' => q = r
      <3>1. ASSUME stopSignal, NEW q \in PIDs \ {p}, proc[q] = "up"
            PROVE  FALSE
        BY <1>1, <1>2, <3>1 DEF Signals
      <3> QED
        BY <1>1, <1>9, <3>1
    <2> QED
      BY <1>1, <1>2, <1>4, <2>1 DEF Signals
  <1> QED
    BY <1>5, <1>10, <1>11, <1>12 DEF ServerInv

(* And those of one that stops or is killed. *)
LEMMA ServerSteps ==
    ASSUME TypeOK, ServerInv, NEW p \in PIDs, ProcStep(p) \/ Crash(p)
    PROVE  ServerInv'
  <1> USE NoPIDAssumption DEF Running
  <1>1. /\ cmd' = cmd /\ targeted' = targeted /\ windows' = windows
        /\ \A q \in PIDs \ {p} : proc'[q] = proc[q]
        /\ p # NoPID /\ proc \in [PIDs -> ProcessStates] /\ crashes \in Nat
    <2>1. p # NoPID /\ proc \in [PIDs -> ProcessStates] /\ crashes \in Nat
      BY DEF TypeOK
    <2> QED
      BY <2>1 DEF ProcStep, CheckAgain, LoadFails, Announce, AnnounceFails, Bind, Interrupted,
                  TakeStopSignal, Drained, Leave, Step, Crash
  <1>2. OneCommand'
    BY <1>1 DEF ServerInv, OneCommand
  <1>3. /\ Alone /\ Announced /\ Signals
        /\ \A c \in Commands : Seeing(c)
    BY DEF ServerInv
  <1>4. ASSUME \A c \in Commands : Seeing(c)', Alone', Announced', Signals'
        PROVE  ServerInv'
    BY <1>2, <1>4 DEF ServerInv
  <1>5. \A q \in PIDs : q \in unwritten => Past(q)
    BY <1>3 DEF Announced
  <1>6. CASE CheckAgain(p) \/ LoadFails(p) \/ Announce(p) \/ AnnounceFails(p) \/ Bind(p)
    BY <1>6, StartingSteps
  <1>7. CASE Interrupted(p)
    <2>1. /\ p \in pending /\ pending' = pending \ {p} /\ unwritten' = unwritten
          /\ pidfile' = pidfile /\ stopSignal' = stopSignal /\ crashes' = crashes
          /\ proc'[p] = (CASE proc[p] = "up" -> "draining"
                           [] proc[p] = "announced" -> "gone"
                           [] OTHER -> proc[p])
      BY <1>1, <1>7 DEF Interrupted
    <2>2. /\ \A q \in PIDs : Running(q)' => Running(q)
          /\ \A q \in PIDs : proc'[q] \in {"announced", "up", "draining", "leaving"} =>
                 proc[q] \in {"announced", "up", "draining", "leaving"}
          /\ proc[p] \in {"up", "draining", "leaving"} => proc'[p] \in {"draining", "leaving"}
          /\ \A q \in PIDs : Past(q) => Past(q)'
          /\ Starting(p) => Starting(p)' \/ ~ Running(p)'
      BY <1>1, <2>1 DEF Past, Starting
    <2>3. p \notin unwritten
      BY <1>3, <2>1 DEF Signals, Announced
    <2>4. Announced'
      <3>1. \A q \in targeted \cup ({pidfile} \ {NoPID}) \cup unwritten : q \in PIDs
        BY DEF TypeOK
      <3> QED
        BY <1>1, <1>3, <2>1, <2>2, <3>1 DEF Announced
    <2>5. Alone'
      <3>1. \A q \in PIDs : Unfiled(q) => Unfiled(q)'
        BY <1>1, <2>1, <2>3 DEF Unfiled
      <3>2. \A q \in PIDs : Starting(q) => Starting(q)' \/ ~ Running(q)'
        BY <1>1, <2>2 DEF Starting
      <3> QED
        BY <1>3, <2>2, <3>1, <3>2 DEF Alone
    <2>6. ~ stopSignal
      BY <1>3, <2>1 DEF Signals
    <2>7. Signals'
      BY <1>1, <1>3, <2>1, <2>6 DEF Signals
    <2>8. ASSUME NEW c \in Commands
          PROVE  Seeing(c)'
      <3>1. Seeing(c) /\ cmd'[c] = cmd[c]
        BY <1>1, <1>3
      <3>2. cmd[c].at \notin {"read", "judge"}
        BY <2>1, <3>1 DEF Seeing, Quiet
      <3>3. cmd[c].at = "wait" =>
              \A q \in PIDs : Running(q)' =>
                  q = cmd[c].pid /\ proc'[q] \in {"up", "draining", "leaving"}
        BY <1>1, <2>2, <3>1 DEF Seeing
      <3>4. cmd[c].at \in {"remove", "launch"} =>
              \A q \in PIDs : Running(q)' => Unfiled(q)' /\ ~ stopSignal'
        BY <1>1, <2>1, <2>2, <2>3, <3>1 DEF Seeing, Unfiled
      <3> QED
        BY <3>1, <3>2, <3>3, <3>4 DEF Seeing
    <2> QED
      BY <1>4, <2>4, <2>5, <2>7, <2>8
  <1>8. CASE TakeStopSignal(p) \/ Drained(p) \/ Leave(p)
    <2>1. /\ proc[p] \in {"up", "draining", "leaving"}
          /\ proc'[p] \in {"draining", "leaving", "gone"}
          /\ proc[p] = "up" => stopSignal /\ ~ stopSignal' /\ proc'[p] = "draining"
          /\ proc'[p] = "gone" \/ pidfile' = pidfile
          /\ pidfile' \in {pidfile, NoPID}
          /\ pending' = pending /\ crashes' = crashes /\ unwritten' = unwritten
          /\ ~ stopSignal' \/ (stopSignal' = stopSignal /\ proc[p] # "up")
          /\ proc[p] = "draining" => proc'[p] = "leaving"
          /\ proc[p] = "leaving" => proc'[p] = "gone"
      BY <1>1, <1>8 DEF TakeStopSignal, Drained, Leave, Step
    <2>2. \A q \in PIDs \ {p} : Running(q) => Unfiled(q) /\ proc[p] = "leaving"
      <3>1. CASE proc[p] = "up"
        BY <1>3, <2>1, <3>1 DEF Signals
      <3>2. CASE proc[p] # "up"
        BY <2>1, <3>2, BesideIt DEF Starting
      <3> QED
        BY <3>1, <3>2
    <2>3. \A q, r \in PIDs \ {p} : Running(q) /\ Running(r) => q = r
      BY <1>3, <2>2 DEF Alone, Unfiled, Starting
    <2>4. Alone'
      <3>1. proc[p] = "leaving" => ~ Running(p)'
        BY <2>1
      <3> QED
        BY <1>1, <2>2, <2>3, <3>1 DEF Alone
    <2>5. Announced'
      <3>1. \A q \in PIDs \ {p} : proc'[q] \in {"announced", "up", "draining", "leaving"} =>
               q \in unwritten'
        BY <1>1, <2>1, <2>2 DEF Unfiled
      <3>2. proc'[p] \in {"announced", "up", "draining", "leaving"} =>
               pidfile' = p \/ p \in unwritten'
        BY <1>3, <2>1 DEF Announced
      <3>3. \A q \in targeted' \cup ({pidfile'} \ {NoPID}) : Past(q)' /\ q \notin unwritten'
        BY <1>1, <1>3, <2>1 DEF Announced, Past, TypeOK
      <3>4. \A q \in unwritten' : Past(q)'
        BY <1>1, <1>3, <2>1 DEF Announced, Past, TypeOK
      <3> QED
        BY <3>1, <3>2, <3>3, <3>4 DEF Announced
    <2>6. Signals'
      <3>1. CASE ~ stopSignal'
        <4>1. windows => pending = {}
          BY <1>3 DEF Signals
        <4> QED
          BY <1>1, <1>3, <2>1, <3>1, <4>1 DEF Signals
      <3>2. CASE stopSignal' = stopSignal /\ proc[p] # "up"
        <4>1. \A q \in PIDs : proc'[q] = "up" => q # p /\ proc[q] = "up"
          BY <1>1, <2>1
        <4>2. \A q \in PIDs : Running(q)' => Running(q)
          BY <1>1, <2>1
        <4>3. stopSignal => \A q \in PIDs : proc[q] # "up"
          BY <1>1, <1>3, <2>1, <3>2 DEF Signals
        <4> QED
          BY <1>1, <1>3, <2>1, <3>2, <4>1, <4>2, <4>3 DEF Signals
      <3> QED
        BY <2>1, <3>1, <3>2
    <2>7. ASSUME NEW c \in Commands
          PROVE  Seeing(c)'
      <3>1. Seeing(c) /\ cmd'[c] = cmd[c]
        BY <1>1, <1>3
      <3>2. cmd[c].at \notin {"read", "judge", "remove", "launch"}
        <4>1. ~ Quiet
          BY <2>1 DEF Quiet, PortTaken
        <4>2. cmd[c].at \notin {"remove", "launch"}
          BY <2>1, <3>1 DEF Seeing, Unfiled
        <4> QED
          BY <3>1, <4>1, <4>2 DEF Seeing
      <3>3. cmd[c].at = "wait" =>
              \A q \in PIDs : Running(q)' =>
                  q = cmd[c].pid /\ proc'[q] \in {"up", "draining", "leaving"}
        BY <1>1, <2>1, <3>1 DEF Seeing
      <3> QED
        BY <3>1, <3>2, <3>3 DEF Seeing
    <2> QED
      BY <1>4, <2>4, <2>5, <2>6, <2>7
  <1>9. CASE Crash(p)
    <2>1. /\ proc'[p] = "gone" /\ Running(p)
          /\ crashes' = crashes + 1
          /\ pending' = pending \ {p} /\ pidfile' = pidfile /\ stopSignal' = stopSignal
          /\ unwritten' = unwritten
      BY <1>1, <1>9 DEF Crash
    <2>2. crashes' # 0
      BY <1>1, <2>1
    <2>3. /\ \A q \in PIDs : Running(q)' => Running(q) /\ proc'[q] = proc[q]
          /\ \A q \in PIDs : proc'[q] = proc[q] \/ proc'[q] = "gone"
          /\ \A q \in PIDs : Past(q) => Past(q)'
      BY <1>1, <2>1 DEF Past
    <2>4. Alone' /\ Announced'
      <3>1. Alone'
        BY <1>3, <2>1, <2>3 DEF Alone, Unfiled, Starting
      <3>2. \A q \in targeted \cup ({pidfile} \ {NoPID}) \cup unwritten : q \in PIDs
        BY DEF TypeOK
      <3>3. Announced'
        BY <1>1, <1>3, <2>1, <2>3, <3>2 DEF Announced
      <3> QED
        BY <3>1, <3>3
    <2>5. Signals'
      BY <1>1, <1>3, <2>1, <2>2, <2>3 DEF Signals
    <2>6. Quiet => Quiet'
      BY <2>1, <2>3 DEF Quiet, PortTaken
    <2>7. \A c \in Commands : Seeing(c)'
      BY <1>1, <1>3, <2>1, <2>3, <2>6 DEF Seeing, Unfiled
    <2> QED
      BY <1>4, <2>4, <2>5, <2>7
  <1> QED
    BY <1>6, <1>7, <1>8, <1>9 DEF ProcStep

(* A command ends, or goes on to where what it relies on is so. *)
LEMMA CommandGoesOn ==
    ASSUME TypeOK, ServerInv, NEW c \in Commands,
           cmd[c].at # "idle" \/ \A d \in Commands : cmd[d].at = "idle",
           \A d \in Commands \ {c} : cmd'[d] = cmd[d],
           Seeing(c)', Alone', Announced', Signals'
    PROVE  ServerInv'
  <1>1. \A d \in Commands \ {c} : cmd[d].at = "idle" /\ cmd[d] = NoCommand
    BY DEF ServerInv, OneCommand, Seeing
  <1>2. \A d \in Commands \ {c} : Seeing(d)'
    BY <1>1 DEF Seeing
  <1>3. OneCommand'
    BY <1>1 DEF OneCommand
  <1> QED
    BY <1>2, <1>3 DEF ServerInv

(* Commands, one at a time, keep the PID file and the servers in           *)
(* agreement.                                                              *)
LEMMA CommandSteps ==
    ASSUME TypeOK, ServerInv, Patient, NEW c \in Commands, CmdStep(c) \/ GivesUp(c)
    PROVE  ServerInv'
  <1> USE NoPIDAssumption DEF Running
  <1>1. /\ Alone /\ Announced /\ Signals
        /\ Seeing(c) /\ windows' = windows /\ crashes' = crashes /\ unwritten' = unwritten
    BY DEF ServerInv, CmdStep, ReadPID, StartRefused, StartGoesOn, CleanUp, Stop, ReportRunning,
           ReloadRunning, RestartStops, RestartGoesOn, RestartWaits, RestartRemoves,
           ConfigRefused, GivesUp
  <1>2. Now(c, "read") \/ Judge(c) \/ Now(c, "wait") \/ Now(c, "remove") \/ Now(c, "launch")
    BY DEF CmdStep, ReadPID, StartRefused, StartGoesOn, CleanUp, Stop, ReportRunning, Judge,
           ReloadRunning, RestartStops, RestartGoesOn, RestartWaits, RestartRemoves,
           ConfigRefused, GivesUp
  <1>3. ReadPID(c) \/ End(c) \/ To(c, "launch") \/ To(c, "wait") \/ To(c, "remove")
    BY DEF CmdStep, StartRefused, StartGoesOn, CleanUp, Stop, ReportRunning,
           ReloadRunning, RestartStops, RestartGoesOn, RestartWaits, RestartRemoves,
           ConfigRefused, GivesUp
  <1>4. /\ cmd[c].at # "idle"
        /\ \A d \in Commands \ {c} : cmd'[d] = cmd[d]
    BY <1>2, <1>3, ReadMeans, EndMeans, ToMeans DEF Now, Judge
  <1>5. SUFFICES Seeing(c)' /\ Alone' /\ Announced' /\ Signals'
    BY <1>4, CommandGoesOn
  <1>6. ASSUME End(c)
        PROVE  Seeing(c)'
    BY <1>6, EndMeans DEF Seeing, NoCommand
  <1>7. ASSUME NEW at \in {"launch", "remove"}, To(c, at),
               \A p \in PIDs : Running(p)' => Unfiled(p)' /\ ~ stopSignal'
        PROVE  Seeing(c)'
    <2>1. cmd'[c].at \in {"launch", "remove"}
      BY <1>7, ToMeans
    <2> QED
      BY <1>7, <2>1 DEF Seeing
  <1>8. ASSUME UNCHANGED <<proc, pidfile, stopSignal, pending, targeted>>
        PROVE  Alone' /\ Announced' /\ Signals'
    BY <1>1, <1>8 DEF Alone, Announced, Signals, Unfiled, Starting, Past
  <1>9. CASE ReadPID(c)
    <2>1. UNCHANGED <<proc, pidfile, stopSignal, pending, targeted>> /\ Quiet
      BY <1>1, <1>9 DEF ReadPID, Seeing, Now
    <2>2. Quiet'
      BY <2>1 DEF Quiet, PortTaken
    <2>3. cmd'[c].at = "judge" /\ cmd'[c].pid = pidfile
      BY <1>9, ReadMeans
    <2> QED
      BY <1>8, <2>1, <2>2, <2>3 DEF Seeing
  <1>10. CASE StartRefused(c) \/ ReportRunning(c) \/ ConfigRefused(c) \/ GivesUp(c)
    BY <1>6, <1>8, <1>10 DEF StartRefused, ReportRunning, ConfigRefused, GivesUp
  <1>11. CASE StartGoesOn(c) \/ RestartGoesOn(c)
    <2>1. /\ UNCHANGED <<proc, pidfile, stopSignal, pending, targeted>>
          /\ Judge(c) /\ ~ Running(Seen(c))
          /\ To(c, "launch") \/ To(c, "remove")
      BY <1>11 DEF StartGoesOn, RestartGoesOn
    <2>2. \A p \in PIDs : Running(p) => Unfiled(p) /\ ~ stopSignal
      BY <2>1, SeesTheServer DEF Quiet, PortTaken
    <2>3. \A p \in PIDs : Running(p)' => Unfiled(p)' /\ ~ stopSignal'
      BY <1>1, <2>1, <2>2 DEF Unfiled
    <2> QED
      BY <1>7, <1>8, <2>1, <2>3
  <1>12. CASE CleanUp(c)
    <2>1. /\ UNCHANGED <<proc, stopSignal, pending, targeted>>
          /\ Judge(c) /\ ~ Running(Seen(c)) /\ End(c)
      BY <1>12 DEF CleanUp
    <2>2. \A p \in PIDs : Running(p) => p \in unwritten
      BY <2>1, SeesTheServer DEF Unfiled
    <2>3. pidfile' \in {pidfile, NoPID}
      BY <1>12 DEF CleanUp
    <2>4. Alone' /\ Signals'
      BY <1>1, <2>1 DEF Alone, Signals, Unfiled, Starting
    <2>5. Announced'
      BY <1>1, <2>1, <2>2, <2>3 DEF Announced, Past
    <2> QED
      BY <1>6, <2>1, <2>4, <2>5
  <1>13. ASSUME Judge(c), Running(Seen(c)), SendStop(Seen(c)), UNCHANGED <<proc, pidfile>>
         PROVE  Alone' /\ Announced' /\ Signals'
    <2>1. /\ Quiet /\ Seen(c) \in PIDs /\ proc[Seen(c)] = "up" /\ Seen(c) = pidfile
          /\ \A p \in PIDs : Running(p) => p = Seen(c)
      BY <1>13, SeesTheServer
    <2>2. targeted' = targeted \cup {Seen(c)}
      BY <1>13 DEF SendStop
    <2>3. Signals'
      <3>1. CASE windows
        <4>1. pending' = pending
          BY <1>13, <3>1 DEF SendStop
        <4> QED
          BY <1>1, <1>13, <2>1, <2>2, <3>1, <4>1 DEF Signals
      <3>2. CASE ~ windows
        <4>1. pending' = pending \cup {Seen(c)} /\ stopSignal' = stopSignal
          BY <1>13, <3>2 DEF SendStop
        <4> QED
          BY <1>1, <2>2, <3>2, <4>1 DEF Signals
      <3> QED
        BY <3>1, <3>2
    <2> QED
      BY <1>1, <1>13, <2>1, <2>2, <2>3 DEF Alone, Announced, Unfiled, Starting, Past
  <1>14. CASE Stop(c)
    BY <1>6, <1>13, <1>14 DEF Stop
  <1>15. CASE ReloadRunning(c)
    <2>1. proc[Seen(c)] = "up"
      BY <1>15, SeesTheServer DEF ReloadRunning
    <2>2. End(c) /\ UNCHANGED <<proc, pidfile, stopSignal, pending, targeted>>
      BY <1>15, <2>1 DEF ReloadRunning
    <2> QED
      BY <1>6, <1>8, <2>2
  <1>16. CASE RestartStops(c)
    <2>1. /\ Judge(c) /\ Running(Seen(c)) /\ SendStop(Seen(c)) /\ To(c, "wait")
          /\ UNCHANGED <<proc, pidfile>>
      BY <1>16 DEF RestartStops
    <2>2. /\ Seen(c) = pidfile
          /\ \A p \in PIDs : Running(p) => p = pidfile /\ proc[p] = "up"
      BY <2>1, SeesTheServer
    <2>3. cmd'[c].at = "wait" /\ cmd'[c].pid = Seen(c)
      BY <2>1, ToMeans DEF Seen
    <2>4. Seeing(c)'
      BY <2>1, <2>2, <2>3 DEF Seeing
    <2> QED
      BY <1>13, <2>1, <2>4
  <1>17. CASE RestartWaits(c)
    <2>1. /\ UNCHANGED <<proc, pidfile, stopSignal, pending, targeted>>
          /\ ~ Running(Seen(c)) /\ To(c, "remove") /\ Now(c, "wait")
      BY <1>17 DEF RestartWaits
    <2>2. \A p \in PIDs : ~ Running(p)
      BY <1>1, <2>1 DEF Seeing, Seen, Now
    <2>3. \A p \in PIDs : ~ Running(p)'
      BY <2>1, <2>2
    <2> QED
      BY <1>7, <1>8, <2>1, <2>3
  <1>18. CASE RestartRemoves(c)
    <2>1. /\ UNCHANGED <<proc, stopSignal, pending, targeted>>
          /\ To(c, "launch") /\ Now(c, "remove") /\ pidfile' = NoPID
      BY <1>18 DEF RestartRemoves
    <2>2. \A p \in PIDs : Running(p) => Unfiled(p) /\ ~ stopSignal
      BY <1>1, <2>1 DEF Seeing, Now
    <2>3. \A p \in PIDs : Running(p)' => Unfiled(p)' /\ ~ stopSignal'
      BY <1>1, <2>1, <2>2 DEF Unfiled
    <2>4. Alone' /\ Signals'
      BY <1>1, <2>1 DEF Alone, Signals, Unfiled, Starting
    <2>5. Announced'
      BY <1>1, <2>1, <2>2 DEF Announced, Past, Unfiled
    <2> QED
      BY <1>7, <2>1, <2>3, <2>4, <2>5
  <1> QED
    BY <1>9, <1>10, <1>11, <1>12, <1>14, <1>15, <1>16, <1>17, <1>18 DEF CmdStep

(* A server is started when there is none, a command given when nothing is *)
(* under way.                                                              *)
LEMMA LaunchSteps ==
    ASSUME TypeOK, ServerInv, Serial, NEW c \in Commands,
           Launch(c) \/ \E kind \in Kinds : Invoke(c, kind)
    PROVE  ServerInv'
  <1> USE NoPIDAssumption DEF Running
  <1>1. Alone /\ Announced /\ Signals /\ Seeing(c)
    BY DEF ServerInv
  <1>2. CASE Launch(c)
    <2>1. /\ cmd[c].at = "launch" /\ End(c)
          /\ UNCHANGED <<windows, pidfile, stopSignal, pending, targeted, mishaps>>
      BY <1>2, LaunchMeans
    <2>2. PICK p \in PIDs :
             proc[p] = "unborn" /\ \E form \in {"child", "init"} : proc' = [proc EXCEPT ![p] = form]
      BY <1>2, LaunchMeans
    <2>3. /\ \A q \in PIDs : Running(q) => Unfiled(q) /\ ~ stopSignal
          /\ \A q \in PIDs \ {p} : proc'[q] = proc[q]
          /\ proc'[p] \in {"child", "init"}
      BY <1>1, <2>1, <2>2 DEF Seeing, TypeOK
    <2>4. Alone'
      <3>1. \A q \in PIDs \ {p} : Running(q)' => Unfiled(q)'
        BY <2>1, <2>3 DEF Unfiled
      <3>2. \A q, r \in PIDs \ {p} : Running(q)' /\ Running(r)' => q = r
        BY <1>1, <2>3 DEF Alone, Unfiled, Starting
      <3> QED
        BY <2>3, <3>1, <3>2 DEF Alone, Starting
    <2>7. Announced'
      <3>1. \A q \in targeted \cup ({pidfile} \ {NoPID}) \cup unwritten : q \in PIDs /\ q # p /\ Past(q)
        BY <1>1, <2>2 DEF Announced, Past, TypeOK
      <3> QED
        BY <1>1, <2>1, <2>3, <3>1 DEF Announced, Past
    <2>5. Signals'
      <3>1. stopSignal => \A q \in PIDs : ~ Running(q)
        BY <2>3
      <3>2. stopSignal /\ crashes = 0 => FALSE
        BY <1>1, <3>1 DEF Signals
      <3> QED
        BY <1>1, <2>1, <2>3, <3>1, <3>2 DEF Signals
    <2>6. Seeing(c)' /\ \A d \in Commands \ {c} : cmd'[d] = cmd[d]
      BY <2>1, EndMeans DEF Seeing, NoCommand
    <2> QED
      BY <2>1, <2>4, <2>5, <2>6, <2>7, CommandGoesOn
  <1>3. ASSUME NEW kind \in Kinds, Invoke(c, kind)
        PROVE  ServerInv'
    <2>1. /\ Settled
          /\ cmd' = [cmd EXCEPT ![c] = [kind |-> kind, at |-> "read", pid |-> NoPID]]
          /\ UNCHANGED <<windows, proc, pidfile, stopSignal, pending, targeted, mishaps>>
      BY <1>3 DEF Invoke
    <2>2. \A d \in Commands : cmd[d].at = "idle"
      BY <2>1 DEF Settled, NoCommand
    <2>3. Quiet'
      BY <2>1 DEF Settled, Quiet, PortTaken
    <2>4. cmd'[c].at = "read" /\ \A d \in Commands \ {c} : cmd'[d] = cmd[d]
      BY <2>1 DEF TypeOK
    <2>5. Seeing(c)'
      BY <2>3, <2>4 DEF Seeing
    <2>6. Alone' /\ Announced' /\ Signals'
      BY <1>1, <2>1 DEF Alone, Announced, Signals, Unfiled, Starting, Past
    <2> QED
      BY <2>2, <2>4, <2>5, <2>6, CommandGoesOn
  <1> QED
    BY <1>2, <1>3

(* And so does everything else that happens. *)
LEMMA ServerInvStep ==
    ASSUME TypesOK, ServerInv, Serial, Patient, [NextInstallation]_allVars
    PROVE  ServerInv'
  <1>1. DaemonNext /\ TypeOK
    BY Halves DEF TypesOK
  <1>2. CASE EditConfig \/ UNCHANGED vars
    <2>1. UNCHANGED <<windows, proc, pidfile, stopSignal, pending, cmd, targeted, unwritten, crashes>>
      BY <1>2 DEF EditConfig, vars
    <2> QED
      BY <2>1 DEF ServerInv, Alone, Announced, OneCommand, Signals, Seeing, Quiet, PortTaken,
            Running, Unfiled, Starting, Past
  <1> QED
    BY <1>1, <1>2, ServerSteps, CommandSteps, LaunchSteps DEF DaemonNext

LEMMA ServerInvStart ==
    ASSUME InitInstallation
    PROVE  ServerInv
  BY DEF InitInstallation, Init, ServerInv, Alone, Announced, OneCommand, Signals, Seeing,
         Running, NoCommand, Past

(* Hence they agree in every state that is reached. *)
LEMMA ServersAlwaysSound ==
    ASSUME Serial, Patient
    PROVE  Spec => []ServerInv
  <1>1. InitInstallation => ServerInv
    BY ServerInvStart
  <1>2. TypesOK /\ ServerInv /\ [NextInstallation]_allVars => ServerInv'
    BY ServerInvStep
  <1> QED
    BY <1>1, <1>2, TypesCorrect, PTL DEF Spec

(* When commands are given one at a time and servers stop in time, the PID *)
(* file names the server that is up whenever nothing is under way, unless  *)
(* its own PID file could not be written; for any number of servers,       *)
(* whatever is killed, refused for its configuration, or has no PID file   *)
(* beside it.                                                              *)
THEOREM StatusIsTruthful ==
    ASSUME Serial, Patient
    PROVE  Spec => []StatusTruthful
  <1>1. TypesOK /\ ServerInv => StatusTruthful
    BY DEF ServerInv, Announced, StatusTruthful
  <1> QED
    BY <1>1, TypesCorrect, ServersAlwaysSound, PTL

(* Under the same assumptions a stop reaches the server that was meant.    *)
THEOREM RightServerStops ==
    ASSUME Serial, Patient
    PROVE  Spec => StopsTheRightOne
  <1>1. TypesOK /\ ServerInv /\ [NextInstallation]_allVars =>
           [\A p \in PIDs : proc[p] = "up" /\ proc'[p] = "draining" =>
               p \in targeted \/ crashes > 0]_vars
    <2>1. SUFFICES ASSUME TypesOK, ServerInv, [NextInstallation]_allVars,
                          NEW p \in PIDs, proc[p] = "up", proc'[p] = "draining"
                   PROVE  p \in targeted \/ crashes > 0
      OBVIOUS
    <2>2. DaemonNext /\ TypeOK
      BY <2>1, Halves DEF TypesOK
    <2>c. crashes \in Nat
      BY <2>2 DEF TypeOK
    <2>3. Interrupted(p) \/ TakeStopSignal(p)
      <3>1. proc' # proc
        BY <2>1
      <3>2. ~ UNCHANGED vars
        BY <3>1 DEF vars
      <3>3. ASSUME NEW q \in PIDs, ProcStep(q) \/ Crash(q)
            PROVE  q = p /\ (Interrupted(p) \/ TakeStopSignal(p))
        <4>1. q = p
          <5>1. \E to : proc' = [proc EXCEPT ![q] = to]
            BY <3>3 DEF ProcStep, CheckAgain, LoadFails, Announce, AnnounceFails, Bind,
                  Interrupted, TakeStopSignal, Drained, Leave, Step, Crash
          <5>2. proc \in [PIDs -> ProcessStates]
            BY <2>2 DEF TypeOK
          <5> QED
            BY <2>1, <5>1, <5>2
        <4>2. ~ (\/ CheckAgain(p) \/ LoadFails(p) \/ Announce(p) \/ AnnounceFails(p) \/ Bind(p)
                 \/ Drained(p) \/ Leave(p))
          BY <2>1 DEF CheckAgain, LoadFails, Announce, AnnounceFails, Bind, Drained, Leave, Step
        <4>3. ~ Crash(p)
          BY <2>1, <2>2 DEF Crash, TypeOK
        <4> QED
          BY <3>3, <4>1, <4>2, <4>3 DEF ProcStep
      <3>4. ASSUME NEW c \in Commands
            PROVE  ~ (CmdStep(c) \/ GivesUp(c))
        <4>1. ~ ReloadRunning(c)
          BY <2>1, <2>2 DEF ReloadRunning, TypeOK
        <4> QED
          BY <3>1, <4>1 DEF CmdStep, ReadPID, StartRefused, StartGoesOn, CleanUp, Stop,
                ReportRunning, RestartStops, RestartGoesOn, RestartWaits, RestartRemoves,
                ConfigRefused, GivesUp
      <3>5. ASSUME NEW c \in Commands
            PROVE  ~ (Launch(c) \/ \E kind \in Kinds : Invoke(c, kind))
        <4>1. ~ Launch(c)
          BY <2>1, <2>2, LaunchMeans DEF TypeOK
        <4> QED
          BY <3>1, <4>1 DEF Invoke
      <3>6. ~ EditConfig
        BY <3>1 DEF EditConfig
      <3> QED
        BY <2>2, <3>2, <3>3, <3>4, <3>5, <3>6 DEF DaemonNext
    <2>4. CASE Interrupted(p)
      BY <2>1, <2>4 DEF Interrupted, ServerInv, Signals
    <2>5. CASE TakeStopSignal(p)
      <3>1. stopSignal
        BY <2>5 DEF TakeStopSignal
      <3>2. crashes = 0 => p \in targeted
        BY <2>1, <3>1, NoPIDAssumption DEF ServerInv, Signals, Alone, Running
      <3> QED
        BY <2>c, <3>2
    <2> QED
      BY <2>3, <2>4, <2>5
  <1> QED
    BY <1>1, TypesCorrect, ServersAlwaysSound, PTL DEF Spec, StopsTheRightOne

=============================================================================
