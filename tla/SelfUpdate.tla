----------------------------- MODULE SelfUpdate -----------------------------
(***************************************************************************)
(* hookrun update (internal/update): how the downloaded binary takes the   *)
(* place of the one that is installed, one file operation a step.  On Unix *)
(* it is staged beside the executable and renamed over it.  On Windows an  *)
(* executable that runs can be renamed and not removed: it is moved away   *)
(* to .old, the staged .new takes its name, and a later start removes what *)
(* is left.                                                                *)
(*                                                                         *)
(* A file is the binary that was installed first or the one some update    *)
(* brought; it is whole when all of its bytes are there.                   *)
(***************************************************************************)
EXTENDS Naturals, Platform

CONSTANTS
    Updaters,   \* runs of hookrun update
    Installed,  \* the binary there was at first
    None,       \* no file
    MaxFailures \* bound on file operations that fail and updates that crash

VARIABLES
    exe,        \* the executable
    old,        \* hookrun.exe.old
    staged,     \* .hookrun.update.tmp on Unix, hookrun.exe.new on Windows
    whole,      \* the files that are complete
    update,     \* updater -> where it is, the binary it runs, the file it fills
    overlap,    \* history: two updates were under way at the same time
    stuck,      \* history: a rollback failed
    failures    \* failed operations and crashes so far

files == <<exe, old, staged, whole>>
history == <<overlap, stuck>>
updateVars == <<files, update, history, failures>>

Binaries == {Installed} \cup Updaters
Stages == {"idle", "stage", "copy", "replace", "remove old", "move away",
           "move in", "roll back", "failed", "ended"}
NoUpdate == [at |-> "idle", runs |-> None, fills |-> None]

UnderWay(u) == update[u].at \notin {"idle", "failed", "ended"}

InitUpdate ==
    /\ exe = Installed /\ old = None /\ staged = None
    /\ whole = {Installed}
    /\ update = [u \in Updaters |-> NoUpdate]
    /\ overlap = FALSE /\ stuck = FALSE
    /\ failures = 0

ExeWhole == exe \in whole

-----------------------------------------------------------------------------
At(u, stage) == update[u].at = stage
Go(u, stage) == update' = [update EXCEPT ![u] = [at |-> stage, runs |-> @.runs, fills |-> None]]
Fail(u) == update' = [update EXCEPT ![u] = [at |-> "failed", runs |-> None, fills |-> None]]
EndUpdate(u) == update' = [update EXCEPT ![u] = [at |-> "ended", runs |-> None, fills |-> None]]
Fault == failures < MaxFailures /\ failures' = failures + 1

Filled(f) == \E u \in Updaters : At(u, "copy") /\ update[u].fills = f

(* Windows removes and replaces no file that runs; used lists those that   *)
(* the other processes run.                                                *)
InUse(f, used) == f \in used \cup {update[u].runs : u \in {v \in Updaters : UnderWay(v)}}

(* start, before anything else: what an update on Windows has left.        *)
CleanupOldBinary(used) ==
    /\ IF windows
       THEN /\ old' = IF InUse(old, used) THEN old ELSE None
            /\ staged' = IF Filled(staged) THEN staged ELSE None
       ELSE UNCHANGED <<old, staged>>
    /\ UNCHANGED <<exe, whole, update, history, failures>>

Begin(u) ==
    /\ At(u, "idle")
    /\ ExeWhole
    /\ update' = [update EXCEPT ![u] = [at |-> "stage", runs |-> exe, fills |-> None]]
    /\ overlap' = (overlap \/ \E v \in Updaters : UnderWay(v))
    /\ UNCHANGED <<files, stuck, failures>>

(* The release cannot be had: nothing has been touched. *)
DownloadFails(u) ==
    /\ At(u, "stage")
    /\ Fault
    /\ Fail(u)
    /\ UNCHANGED <<files, history>>

Staged == IF windows THEN "remove old" ELSE "replace"

(* moveFile: by a rename. *)
StageRename(u) ==
    /\ At(u, "stage")
    /\ ~ (windows /\ Filled(staged))
    /\ staged' = u
    /\ whole' = whole \cup {u}
    /\ Go(u, Staged)
    /\ UNCHANGED <<exe, old, history, failures>>

(* moveFile: across devices by a copy, into the file that is there or a    *)
(* new one.                                                                *)
StageOpen(u) ==
    /\ At(u, "stage")
    /\ staged' = IF staged = None THEN u ELSE staged
    /\ whole' = whole \ {staged'}
    /\ update' = [update EXCEPT ![u] = [at |-> "copy", runs |-> @.runs, fills |-> staged']]
    /\ UNCHANGED <<exe, old, history, failures>>

Copied(u) ==
    /\ At(u, "copy")
    /\ Go(u, Staged)
    /\ whole' = IF \E v \in Updaters \ {u} : At(v, "copy") /\ update[v].fills = update[u].fills
                THEN whole ELSE whole \cup {update[u].fills}
    /\ UNCHANGED <<exe, old, staged, history, failures>>

(* Mutant of CopyFails: the error is not looked at. *)
CopyFailsUnseen(u) ==
    /\ At(u, "copy")
    /\ Fault
    /\ Go(u, Staged)
    /\ UNCHANGED <<files, history>>

(* The copy stays as far as it got. *)
CopyFails(u) ==
    /\ At(u, "copy")
    /\ Fault
    /\ Fail(u)
    /\ UNCHANGED <<files, history>>

(* Unix: chmod and rename. *)
Replace(u) ==
    /\ At(u, "replace")
    /\ IF staged # None THEN exe' = staged /\ EndUpdate(u)
       ELSE UNCHANGED exe /\ Fail(u)
    /\ staged' = None
    /\ UNCHANGED <<old, whole, history, failures>>

ReplaceFails(u) ==
    /\ At(u, "replace")
    /\ Fault
    /\ staged' = None
    /\ Fail(u)
    /\ UNCHANGED <<exe, old, whole, history>>

RemoveOld(u, used) ==
    /\ At(u, "remove old")
    /\ old' = IF InUse(old, used) THEN old ELSE None
    /\ Go(u, "move away")
    /\ UNCHANGED <<exe, staged, whole, history, failures>>

MoveAway(u, used) ==
    /\ At(u, "move away")
    /\ exe # None /\ ~ InUse(old, used)
    /\ old' = exe /\ exe' = None
    /\ Go(u, "move in")
    /\ UNCHANGED <<staged, whole, history, failures>>

(* There is no executable, .old still runs, or any other reason. *)
MoveAwayFails(u, used) ==
    /\ At(u, "move away")
    /\ \/ (exe = None \/ InUse(old, used)) /\ UNCHANGED failures
       \/ Fault
    /\ staged' = IF Filled(staged) THEN staged ELSE None
    /\ Fail(u)
    /\ UNCHANGED <<exe, old, whole, history>>

CanMoveIn(used) == staged # None /\ ~ Filled(staged) /\ ~ InUse(exe, used)

MoveIn(u, used) ==
    /\ At(u, "move in")
    /\ CanMoveIn(used)
    /\ exe' = staged /\ staged' = None
    /\ EndUpdate(u)
    /\ UNCHANGED <<old, whole, history, failures>>

MoveInFails(u, used) ==
    /\ At(u, "move in")
    /\ \/ ~ CanMoveIn(used) /\ UNCHANGED failures
       \/ Fault
    /\ Go(u, "roll back")
    /\ UNCHANGED <<files, history>>

(* Mutant of RollBack: the staged file is removed, and nothing moved back. *)
RollBackNot(u, used) ==
    /\ At(u, "roll back")
    /\ UNCHANGED <<exe, old, stuck, failures>>
    /\ staged' = IF Filled(staged) THEN staged ELSE None
    /\ Fail(u)
    /\ UNCHANGED <<whole, overlap>>

(* The error of the rollback is ignored. *)
RollBack(u, used) ==
    /\ At(u, "roll back")
    /\ \/ old # None /\ ~ InUse(exe, used) /\ exe' = old /\ old' = None
          /\ UNCHANGED <<stuck, failures>>
       \/ (old = None \/ InUse(exe, used)) /\ stuck' = TRUE
          /\ UNCHANGED <<exe, old, failures>>
       \/ Fault /\ stuck' = TRUE /\ UNCHANGED <<exe, old>>
    /\ staged' = IF Filled(staged) THEN staged ELSE None
    /\ Fail(u)
    /\ UNCHANGED <<whole, overlap>>

CrashUpdate(u) ==
    /\ UnderWay(u)
    /\ Fault
    /\ EndUpdate(u)
    /\ UNCHANGED <<files, history>>

Update(u, used) ==
    \/ Begin(u) \/ DownloadFails(u)
    \/ StageRename(u) \/ StageOpen(u) \/ Copied(u) \/ CopyFails(u)
    \/ Replace(u) \/ ReplaceFails(u)
    \/ RemoveOld(u, used) \/ MoveAway(u, used) \/ MoveAwayFails(u, used)
    \/ MoveIn(u, used) \/ MoveInFails(u, used) \/ RollBack(u, used)
    \/ CrashUpdate(u)

-----------------------------------------------------------------------------
UpdateStates == [at : Stages, runs : Binaries \cup {None}, fills : Binaries \cup {None}]

UpdateTypeOK ==
    /\ {exe, old, staged} \subseteq Binaries \cup {None}
    /\ whole \subseteq Binaries
    /\ update \in [Updaters -> UpdateStates]
    /\ {overlap, stuck} \subseteq BOOLEAN
    /\ failures \in 0 .. MaxFailures

(* "If the binary lives in a protected location ... replacing the current  *)
(* executable" (update's help): whatever fails and wherever an update ends *)
(* or crashes, a whole executable is in its place, or, on Windows, a whole *)
(* .old while there is none; unless updates have run at the same time,     *)
(* which share the staged file.                                            *)
BinaryThere ==
    overlap \/ ExeWhole \/ (windows /\ exe = None /\ old \in whole)

(* "update failed": an update that says so leaves the executable it has    *)
(* found, unless its rollback has failed too, or another ran beside it.    *)
FailureKeeps ==
    [][\A u \in Updaters :
          ~ At(u, "failed") /\ At(u, "failed")' =>
              exe' = update[u].runs \/ stuck' \/ overlap']_updateVars

=============================================================================
