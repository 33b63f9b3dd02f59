-------------------------------- MODULE Reload ------------------------------
(***************************************************************************)
(* Hot reload: the configuration on disk, the copy of config.Manager       *)
(* (internal/config/loader.go), the copy of the Engine and its cache of    *)
(* rule loggers (internal/engine/engine.go).  Three kinds of goroutine     *)
(* reload: the watcher of reload.signal and the SIGHUP loop                *)
(* (cmd/hookrun/main.go), one reload at a time each, and the handlers of   *)
(* POST /_reload (internal/server/server.go).  They do not exclude each    *)
(* other, nor the requests that look a rule logger up.                     *)
(*                                                                         *)
(* The contents of a file are the number of the edit that wrote them; each *)
(* contents of the rules names a log file of its own.                      *)
(***************************************************************************)
EXTENDS Integers

CONSTANTS
    Reloaders,  \* subset of "watcher", "sighup" and API requests
    Handlers,   \* webhook requests
    MaxEdits    \* bound on the edits of the configuration

ASSUME EditsAssumption == MaxEdits \in Nat

VARIABLES
    disk,       \* [global, rules]: the contents of the files
    broken,     \* contents that do not load
    edits,      \* edits so far
    asked,      \* reloader -> it has been asked to reload
    pc,         \* reloader -> where it is
    read,       \* reloader -> the contents Load has read, forgotten when used
    fetched,    \* reloader -> the rules it is about to give to the engine
    manager,    \* [global, rules]: what the manager holds
    loads,      \* history: what successful loads have read
    overlaps,   \* history: what has run during a reload, "reload" or "request"
    engine,     \* the rules of the engine
    status,     \* the rules whose number status.json shows
    snapshot,   \* handler -> the rules it works by, -1 before and after
    cached,     \* contents whose rule logger the engine has cached, or -1
    answered    \* handlers that are done

files == <<disk, broken, edits>>
reloading == <<asked, pc, read, fetched>>
copies == <<manager, loads, engine, status>>
Quiet == \A r \in Reloaders : pc[r] = "idle"
requests == <<snapshot, cached, answered>>
vars == <<files, reloading, copies, overlaps, requests>>

None == -1
NoneWaits == [h \in Handlers |-> None]
Contents == 0 .. MaxEdits
Config == [global : Contents, rules : Contents]
First == [global |-> 0, rules |-> 0]

(* runServer has loaded the configuration once and made the engine from it. *)
Init ==
    /\ disk = First
    /\ broken = {}
    /\ edits = 0
    /\ asked = [r \in Reloaders |-> FALSE]
    /\ pc = [r \in Reloaders |-> "idle"]
    /\ read = [r \in Reloaders |-> First]
    /\ fetched = [r \in Reloaders |-> 0]
    /\ manager = First
    /\ loads = {First}
    /\ overlaps = {}
    /\ engine = 0
    /\ status = 0
    /\ snapshot = NoneWaits
    /\ cached = None
    /\ answered = {}

-----------------------------------------------------------------------------
(* The outside: someone edits a file, or asks for a reload. *)
Edit(file) ==
    /\ edits < MaxEdits
    /\ edits' = edits + 1
    /\ disk' = [disk EXCEPT ![file] = edits + 1]
    /\ broken' \in {broken, broken \cup {edits + 1}}
    /\ UNCHANGED <<reloading, copies, requests, overlaps>>

(* WriteSignalFile(reload.signal), a SIGHUP, a request to /_reload. *)
Ask(r) ==
    /\ ~ asked[r]
    /\ asked' = [asked EXCEPT ![r] = TRUE]
    /\ UNCHANGED <<files, pc, read, fetched, copies, requests, overlaps>>

-----------------------------------------------------------------------------
(* A reload. *)
At(r, from, to) ==
    /\ pc[r] = from
    /\ pc' = [pc EXCEPT ![r] = to]

(* CheckSignalFile sees the file, and then removes it; a signal and a      *)
(* request are taken at once.                                              *)
Begin(r) ==
    /\ asked[r]
    /\ IF r = "watcher"
       THEN At(r, "idle", "remove") /\ UNCHANGED asked
       ELSE At(r, "idle", "load global") /\ asked' = [asked EXCEPT ![r] = FALSE]
    /\ overlaps' = overlaps \cup (IF Quiet THEN {} ELSE {"reload"})
                           \cup (IF snapshot = NoneWaits THEN {} ELSE {"request"})
    /\ UNCHANGED <<files, read, fetched, copies, requests>>

RemoveSignal(r) ==
    /\ At(r, "remove", "load global")
    /\ asked' = [asked EXCEPT ![r] = FALSE]
    /\ UNCHANGED <<files, read, fetched, copies, requests, overlaps>>

(* Where a reload goes on after a Load that failed: only the watcher       *)
(* writes the status nevertheless.                                         *)
Failed(r) == IF r = "watcher" THEN "write status" ELSE "idle"

(* Mutant of LoadGlobal: the manager gets the global part at once. *)
LoadGlobalPublish(r) ==
    /\ At(r, "load global", IF disk.global \in broken THEN Failed(r) ELSE "load rules")
    /\ read' = [read EXCEPT ![r].global = IF disk.global \in broken THEN 0 ELSE disk.global]
    /\ manager' = [manager EXCEPT !.global = disk.global]
    /\ UNCHANGED <<files, asked, fetched, loads, engine, status, requests, overlaps>>

(* Manager.Load: the global file, the rule files, and then both at once. *)
LoadGlobal(r) ==
    /\ At(r, "load global", IF disk.global \in broken THEN Failed(r) ELSE "load rules")
    /\ read' = [read EXCEPT ![r].global = IF disk.global \in broken THEN 0 ELSE disk.global]
    /\ UNCHANGED <<files, asked, fetched, copies, requests, overlaps>>

LoadRules(r) ==
    /\ At(r, "load rules", IF disk.rules \in broken THEN Failed(r) ELSE "publish")
    /\ read' = [read EXCEPT ![r] =
                    IF disk.rules \in broken THEN First ELSE [@ EXCEPT !.rules = disk.rules]]
    /\ UNCHANGED <<files, asked, fetched, copies, requests, overlaps>>

Publish(r) ==
    /\ At(r, "publish", "close loggers")
    /\ manager' = read[r]
    /\ loads' = loads \cup {read[r]}
    /\ read' = [read EXCEPT ![r] = First]
    /\ UNCHANGED <<files, asked, fetched, engine, status, requests, overlaps>>

(* Mutant of CloseRuleLoggers: the loggers are kept. *)
KeepRuleLoggers(r) ==
    /\ At(r, "close loggers", "fetch")
    /\ UNCHANGED <<files, asked, read, fetched, copies, overlaps, requests>>

CloseRuleLoggers(r) ==
    /\ At(r, "close loggers", "fetch")
    /\ cached' = None
    /\ UNCHANGED <<files, asked, read, fetched, copies, snapshot, answered, overlaps>>

(* Mutant of FetchRules: the rules of before the load. *)
FetchEngines(r) ==
    /\ At(r, "fetch", "update")
    /\ fetched' = [fetched EXCEPT ![r] = engine]
    /\ UNCHANGED <<files, asked, read, copies, requests, overlaps>>

(* Manager.Rules, the argument of UpdateConfigs. *)
FetchRules(r) ==
    /\ At(r, "fetch", "update")
    /\ fetched' = [fetched EXCEPT ![r] = manager.rules]
    /\ UNCHANGED <<files, asked, read, copies, requests, overlaps>>

(* A handler of /_reload answers without writing the status. *)
UpdateConfigs(r) ==
    /\ At(r, "update", IF r \in {"watcher", "sighup"} THEN "write status" ELSE "idle")
    /\ engine' = fetched[r]
    /\ fetched' = [fetched EXCEPT ![r] = 0]
    /\ UNCHANGED <<files, asked, read, manager, loads, status, requests, overlaps>>

(* Mutant of WriteStatus: a signal that came meanwhile is dropped. *)
WriteStatusDropAsked(r) ==
    /\ At(r, "write status", "idle")
    /\ status' = manager.rules
    /\ asked' = [asked EXCEPT ![r] = FALSE]
    /\ UNCHANGED <<files, read, fetched, manager, loads, engine, requests, overlaps>>

WriteStatus(r) ==
    /\ At(r, "write status", "idle")
    /\ status' = manager.rules
    /\ UNCHANGED <<files, asked, read, fetched, manager, loads, engine, requests, overlaps>>

-----------------------------------------------------------------------------
(* A request: Process copies the engine's rules, a request addressed to    *)
(* one configuration is given the manager's (FindByFileName).              *)
(* processConfig then looks the rule logger up, by the name of the         *)
(* configuration, and makes it from the rules given when there is none.    *)
Copy(h) ==
    /\ h \notin answered
    /\ snapshot[h] = None
    /\ \E rules \in {engine, manager.rules} : snapshot' = [snapshot EXCEPT ![h] = rules]
    /\ overlaps' = overlaps \cup (IF Quiet THEN {} ELSE {"request"})
    /\ UNCHANGED <<files, reloading, copies, cached, answered>>

GetRuleLogger(h) ==
    /\ snapshot[h] # None
    /\ cached' = IF cached = None THEN snapshot[h] ELSE cached
    /\ snapshot' = [snapshot EXCEPT ![h] = None]
    /\ answered' = answered \cup {h}
    /\ UNCHANGED <<files, reloading, copies, overlaps>>

ReloadStep(r) ==
    \/ Begin(r) \/ RemoveSignal(r) \/ LoadGlobal(r) \/ LoadRules(r) \/ Publish(r)
    \/ CloseRuleLoggers(r) \/ FetchRules(r) \/ UpdateConfigs(r) \/ WriteStatus(r)

Next ==
    \/ \E file \in {"global", "rules"} : Edit(file)
    \/ \E r \in Reloaders : Ask(r) \/ ReloadStep(r)
    \/ \E h \in Handlers : Copy(h) \/ GetRuleLogger(h)

Spec == Init /\ [][Next]_vars

(* The goroutine that reloads keeps running. *)
FairSpec == Spec /\ \A r \in Reloaders : WF_vars(ReloadStep(r))

-----------------------------------------------------------------------------
TypeOK ==
    /\ disk \in Config /\ manager \in Config /\ loads \subseteq Config
    /\ broken \subseteq 1 .. edits
    /\ edits \in 0 .. MaxEdits
    /\ asked \in [Reloaders -> BOOLEAN]
    /\ pc \in [Reloaders -> {"idle", "remove", "load global", "load rules", "publish",
                             "close loggers", "fetch", "update", "write status"}]
    /\ read \in [Reloaders -> Config]
    /\ fetched \in [Reloaders -> Contents]
    /\ overlaps \subseteq {"reload", "request"}
    /\ engine \in Contents /\ status \in Contents
    /\ snapshot \in [Handlers -> Contents \cup {None}]
    /\ cached \in Contents \cup {None}
    /\ answered \subseteq Handlers

(* "a failed reload keeps global and rules consistent" (loader.go): what   *)
(* the manager holds was read by one load, all of which succeeded.         *)
ManagerWhole ==
    /\ manager \in loads
    /\ \A c \in loads : c.global \notin broken /\ c.rules \notin broken

(* Whoever asks for a reload gets the rules that were on disk then, or     *)
(* newer ones, unless the files do not load: a request for a reload that   *)
(* comes in the middle of one is not lost.  Reloads that run together are  *)
(* not ordered, and promise nothing.                                       *)
OnDisk(n) == disk.rules = n
Loads == disk.global \notin broken /\ disk.rules \notin broken
AskedTakesEffect ==
    \A r \in Reloaders : \A n \in Contents :
        asked[r] /\ OnDisk(n) ~> engine >= n \/ ~ Loads \/ "reload" \in overlaps

(* "After reload, new rules take effect immediately for subsequent         *)
(* requests" (docs/usage.md): between reloads the engine works by the      *)
(* rules that the manager loaded last, if no two reloads ran together.     *)
EngineFollows == Quiet /\ "reload" \notin overlaps => engine = manager.rules

(* The same of the rule logger: it writes where the rules in effect say,   *)
(* if no request ran into a reload.                                        *)
LoggerCurrent ==
    Quiet /\ overlaps = {} /\ cached # None => cached = engine

=============================================================================
