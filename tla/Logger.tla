-------------------------------- MODULE Logger ------------------------------
(***************************************************************************)
(* The rule loggers of the configs that name one log file                  *)
(* (internal/logger/logger.go, and their cache in internal/engine).  A     *)
(* task takes its config's logger from the cache and keeps it until its    *)
(* last action has ended; a reload closes the cached loggers and forgets   *)
(* them; a logger that was closed opens the file again with its next line. *)
(*                                                                         *)
(* Each logger has a mutex and a file handle of its own, so what one       *)
(* logger does to the directory in several system calls another may        *)
(* interleave with.  A handle stays with its file through a rename and a   *)
(* removal.  In mode "daily" the day of the line names the file and New    *)
(* removes old files; in mode "single" a full file is put aside as         *)
(* prefix-1.log.                                                           *)
(***************************************************************************)
EXTENDS Integers, Sequences

CONSTANTS
    Configs,        \* configs with this log.path
    Tasks,          \* goroutines that run requests
    MaxSize,        \* lines in a file before it is rotated, 0: unlimited
    Retention,      \* log.retention_days
    DayLength,      \* ticks of a day
    Zones,          \* offsets of local time to the east of UTC, in ticks
    None,           \* no logger, no file
    MaxLoggers, MaxLines, MaxTime, MaxFaults    \* bounds for model checking

ASSUME NoneAssumption == None \notin Nat
ASSUME SizesAssumption ==
    MaxSize \in Nat /\ Retention \in Nat \ {0} /\ DayLength \in Nat \ {0}
ASSUME ZonesAssumption == Zones \subseteq Int
ASSUME BoundsAssumption == {MaxLoggers, MaxLines, MaxTime, MaxFaults} \subseteq Nat

VARIABLES
    mode,       \* "daily" or "single"
    zone,       \* the offset of the host
    now,        \* local time
    dir,        \* name -> the file of that name
    content,    \* the files ever made: the lines in each
    cached,     \* config -> its logger in Engine.ruleLoggers
    loggers,    \* the loggers ever made: file handle, day of that file
    holds,      \* task -> the logger it writes to
    step,       \* task -> where in log() it is
    stamp,      \* task -> the time of the line in its hand
    log,        \* history: the time of every line written
    shared,     \* history: a logger wrote while another had a file open
    faults      \* renames and opens that have failed

host == <<mode, zone>>
files == <<dir, content>>
vars == <<host, now, files, cached, loggers, holds, step, stamp, log, shared, faults>>

(* The file of a day has the number of the day for a name. *)
Day(t) == t \div DayLength
Base == -1
Rotated == -2
Names == {Base, Rotated} \cup 0 .. Day(MaxTime)

Init ==
    /\ mode \in {"daily", "single"}
    /\ zone \in Zones
    /\ now = 0
    /\ dir = [n \in Names |-> None]
    /\ content = <<>>
    /\ cached = [c \in Configs |-> None]
    /\ loggers = <<>>
    /\ holds = [t \in Tasks |-> None]
    /\ step = [t \in Tasks |-> "idle"]
    /\ stamp = [t \in Tasks |-> 0]
    /\ log = <<>>
    /\ shared = FALSE
    /\ faults = 0

-----------------------------------------------------------------------------
(* Mutant of TooOld: a day too many. *)
TooOldByOne(day) == day * DayLength + zone < now - (Retention - 1) * DayLength

(* Cleanup: the date in the name of a file, read as UTC, is before the     *)
(* cutoff, the local time of day retention_days ago.                       *)
TooOld(day) == day * DayLength + zone < now - Retention * DayLength

CleanedUp == [n \in Names |->
                 IF mode = "daily" /\ n \in Nat /\ TooOld(n) THEN None ELSE dir[n]]

(* getRuleLogger: the cached logger, or New, which cleans up. *)
GetRuleLogger(t, c) ==
    /\ holds[t] = None
    /\ \/ /\ cached[c] # None
          /\ holds' = [holds EXCEPT ![t] = cached[c]]
          /\ UNCHANGED <<cached, loggers, dir>>
       \/ /\ cached[c] = None
          /\ Len(loggers) < MaxLoggers
          /\ loggers' = Append(loggers, [handle |-> None, date |-> None])
          /\ cached' = [cached EXCEPT ![c] = Len(loggers')]
          /\ holds' = [holds EXCEPT ![t] = Len(loggers')]
          /\ dir' = CleanedUp
    /\ UNCHANGED <<host, now, content, step, stamp, log, shared, faults>>

EndTask(t) ==
    /\ holds[t] # None /\ step[t] = "idle"
    /\ holds' = [holds EXCEPT ![t] = None]
    /\ UNCHANGED <<host, now, files, cached, loggers, step, stamp, log, shared, faults>>

(* Mutant of Locked: the mutex is for the write only. *)
LockedToWrite(l) == \E t \in Tasks : holds[t] = l /\ step[t] = "write"

Locked(l) == \E t \in Tasks : holds[t] = l /\ step[t] # "idle"

(* CloseRuleLoggers: Close waits for the mutex of each. *)
CloseRuleLoggers ==
    LET closed == {cached[c] : c \in Configs} \ {None}
    IN  /\ closed # {}
        /\ \A l \in closed : ~ Locked(l)
        /\ loggers' = [l \in DOMAIN loggers |->
                          IF l \in closed THEN [loggers[l] EXCEPT !.handle = None]
                          ELSE loggers[l]]
        /\ cached' = [c \in Configs |-> None]
        /\ UNCHANGED <<host, now, files, holds, step, stamp, log, shared, faults>>

-----------------------------------------------------------------------------
(* log(), under the logger's mutex: a system call is a step. *)
Handle(t) == loggers[holds[t]].handle
SetHandle(t, f) == loggers' = [loggers EXCEPT ![holds[t]].handle = f]
At(t, s) == step[t] = s
GoTo(t, s) == step' = [step EXCEPT ![t] = s]
Done(t) == GoTo(t, "idle") /\ stamp' = [stamp EXCEPT ![t] = 0]

OthersOpen(t) ==
    \E l \in DOMAIN loggers : l # holds[t] /\ (loggers[l].handle # None \/ Locked(l))

Full(t) == MaxSize > 0 /\ Len(content[Handle(t)]) >= MaxSize
NewDay(t) == loggers[holds[t]].date # Day(now)

(* ensureFile decides; a file that is left behind is closed. *)
Log(t) ==
    /\ At(t, "idle") /\ holds[t] # None /\ ~ Locked(holds[t])
    /\ Len(log) < MaxLines
    /\ stamp' = [stamp EXCEPT ![t] = now]
    /\ shared' = (shared \/ OthersOpen(t))
    /\ \/ Handle(t) = None /\ GoTo(t, "open") /\ UNCHANGED loggers
       \/ /\ mode = "daily" /\ Handle(t) # None
          /\ IF NewDay(t) THEN GoTo(t, "open") /\ SetHandle(t, None)
             ELSE GoTo(t, "write") /\ UNCHANGED loggers
       \/ /\ mode = "single" /\ Handle(t) # None
          /\ IF Full(t) THEN GoTo(t, "remove") /\ SetHandle(t, None)
             ELSE GoTo(t, "write") /\ UNCHANGED loggers
    /\ UNCHANGED <<host, now, files, cached, holds, log, faults>>

RemoveRotated(t) ==
    /\ At(t, "remove")
    /\ dir' = [dir EXCEPT ![Rotated] = None]
    /\ GoTo(t, "rename")
    /\ UNCHANGED <<host, now, content, cached, loggers, holds, stamp, log, shared, faults>>

(* The error of the rename is ignored: the full file stays in use. *)
Rename(t) ==
    /\ At(t, "rename")
    /\ GoTo(t, "open")
    /\ \/ dir[Base] # None
          /\ dir' = [dir EXCEPT ![Rotated] = dir[Base], ![Base] = None]
          /\ UNCHANGED faults
       \/ dir[Base] = None /\ UNCHANGED <<dir, faults>>
       \/ faults < MaxFaults /\ faults' = faults + 1 /\ UNCHANGED dir
    /\ UNCHANGED <<host, now, content, cached, loggers, holds, stamp, log, shared>>

FileOf(t) == IF mode = "daily" THEN Day(stamp[t]) ELSE Base

(* Mutant of Opened: O_TRUNC for O_APPEND. *)
OpenedEmpty(name) ==
    IF dir[name] # None
    THEN content' = [content EXCEPT ![dir[name]] = <<>>] /\ UNCHANGED dir
    ELSE content' = Append(content, <<>>) /\ dir' = [dir EXCEPT ![name] = Len(content')]

(* O_CREATE and O_APPEND: the file is made when there is none. *)
Opened(name) ==
    IF dir[name] # None
    THEN UNCHANGED files
    ELSE content' = Append(content, <<>>) /\ dir' = [dir EXCEPT ![name] = Len(content')]

Open(t) ==
    /\ At(t, "open")
    /\ Opened(FileOf(t))
    /\ loggers' = [loggers EXCEPT ![holds[t]] =
                      [handle |-> dir'[FileOf(t)],
                       date |-> IF mode = "daily" THEN Day(stamp[t]) ELSE @.date]]
    /\ GoTo(t, "write")
    /\ UNCHANGED <<host, now, cached, holds, stamp, log, shared, faults>>

(* The file cannot be opened: the line is dropped. *)
OpenFails(t) ==
    /\ At(t, "open")
    /\ faults < MaxFaults /\ faults' = faults + 1
    /\ Done(t)
    /\ UNCHANGED <<host, now, files, cached, loggers, holds, log, shared>>

Write(t) ==
    /\ At(t, "write")
    /\ log' = Append(log, stamp[t])
    /\ content' = [content EXCEPT ![Handle(t)] = Append(@, Len(log'))]
    /\ Done(t)
    /\ UNCHANGED <<host, now, dir, cached, loggers, holds, shared, faults>>

Tick ==
    /\ mode = "daily"
    /\ now < MaxTime
    /\ now' = now + 1
    /\ UNCHANGED <<host, files, cached, loggers, holds, step, stamp, log, shared, faults>>

LogStep(t) ==
    \/ Log(t) \/ RemoveRotated(t) \/ Rename(t) \/ Open(t) \/ OpenFails(t) \/ Write(t)

Next ==
    \/ \E t \in Tasks :
          \/ \E c \in Configs : GetRuleLogger(t, c)
          \/ EndTask(t) \/ LogStep(t)
    \/ CloseRuleLoggers \/ Tick

Spec == Init /\ [][Next]_vars

-----------------------------------------------------------------------------
Loggers == DOMAIN loggers
Inodes == DOMAIN content
LoggerStates == [handle : Inodes \cup {None}, date : 0 .. Day(MaxTime) \cup {None}]

TypeOK ==
    /\ mode \in {"daily", "single"}
    /\ zone \in Zones
    /\ now \in 0 .. MaxTime
    /\ dir \in [Names -> Inodes \cup {None}]
    /\ content \in Seq(Seq(Nat))
    /\ cached \in [Configs -> Loggers \cup {None}]
    /\ loggers \in Seq(LoggerStates)
    /\ holds \in [Tasks -> Loggers \cup {None}]
    /\ step \in [Tasks -> {"idle", "remove", "rename", "open", "write"}]
    /\ stamp \in [Tasks -> 0 .. MaxTime]
    /\ log \in Seq(0 .. MaxTime)
    /\ shared \in BOOLEAN
    /\ faults \in Nat

(* A logger is in the middle of at most one line, and that line has a file *)
(* to go to when it is written, whoever closes or reopens it meanwhile.    *)
OneWriter ==
    /\ \A t, u \in Tasks :
          step[t] # "idle" /\ step[u] # "idle" /\ holds[t] = holds[u] => t = u
    /\ \A t \in Tasks : step[t] = "write" => Handle(t) # None

Lines(name) == IF dir[name] = None THEN <<>> ELSE content[dir[name]]

(* "One fixed file; optional size-based rotation" (docs/usage.md): at      *)
(* every moment, also in the middle of a rotation that fails, the rotated  *)
(* file and the file hold, in order and without a gap, the lines written   *)
(* last, at least as many as fill a file; unless two loggers had files     *)
(* open at the same time, each of which rotates by itself.                 *)
TailKept ==
    mode = "single" /\ ~ shared =>
        LET kept == Lines(Rotated) \o Lines(Base)
            from == Len(log) - Len(kept)
        IN  /\ from >= 0
            /\ \A i \in DOMAIN kept : kept[i] = from + i
            /\ from > 0 => MaxSize > 0 /\ Len(kept) >= MaxSize

(* "Days to retain daily log files" (docs/configuration.md): the lines of  *)
(* the last retention_days days, today included, are in the files of their *)
(* days, whenever loggers are made and whoever holds a file open.          *)
DaysKept ==
    mode = "daily" =>
        \A n \in DOMAIN log :
            Day(log[n]) > Day(now) - Retention =>
                \E i \in DOMAIN Lines(Day(log[n])) : Lines(Day(log[n]))[i] = n

=============================================================================
