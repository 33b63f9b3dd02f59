---------------------------- MODULE LoggerProofs ----------------------------
(***************************************************************************)
(* Theorems about Logger.  Each logger has its own handle and its own      *)
(* mutex: what is kept on disk is kept by an agreement between the handles *)
(* and the directory, which the invariants Sole and Current below state.   *)
(***************************************************************************)
EXTENDS Logger, TLAPS

-----------------------------------------------------------------------------
(* Days: the number of a day is the quotient of its ticks by DayLength.    *)

(* Products with DayLength are ordered as their factors are. *)
LEMMA Product ==
    \A m, n \in Int : m <= n => m * DayLength <= n * DayLength
  BY SizesAssumption

(* A tick lies in its day. *)
LEMMA DayOf ==
    \A t \in Nat : /\ Day(t) \in Nat
                   /\ Day(t) * DayLength <= t
                   /\ t < Day(t) * DayLength + DayLength
  BY SizesAssumption DEF Day

(* Days follow one another as their ticks do. *)
LEMMA DayGrows ==
    \A s, t \in Nat : s <= t => Day(s) <= Day(t)
  BY SizesAssumption DEF Day

(* Every tick of a run has a day, and its file a name. *)
LEMMA DayNamed ==
    \A t \in 0 .. MaxTime : Day(t) \in 0 .. Day(MaxTime) /\ Day(t) \in Names
  <1>1. MaxTime \in Nat
    BY BoundsAssumption
  <1>2. \A t \in 0 .. MaxTime : Day(t) \in 0 .. Day(MaxTime)
    BY <1>1, DayOf, DayGrows
  <1> QED
    BY <1>2 DEF Names

-----------------------------------------------------------------------------
(* TypeOK: every handle and every name stands for a file that was made.    *)

(* A file that is written to. *)
LEMMA Content ==
    ASSUME NEW f \in Seq(Seq(Nat)), NEW i \in DOMAIN f, NEW n \in Nat
    PROVE  /\ [f EXCEPT ![i] = Append(@, n)] \in Seq(Seq(Nat))
           /\ DOMAIN [f EXCEPT ![i] = Append(@, n)] = DOMAIN f
  <1>1. f[i] \in Seq(Nat)
    OBVIOUS
  <1>2. Append(f[i], n) \in Seq(Nat)
    BY <1>1
  <1> QED
    BY <1>2

(* A sequence over a set is one over every larger set. *)
LEMMA Wider ==
    ASSUME NEW S, NEW T, S \subseteq T, NEW s \in Seq(S)
    PROVE  s \in Seq(T)
  OBVIOUS

(* A logger that is given another handle or date. *)
LEMMA Updated ==
    ASSUME NEW S, NEW s \in Seq(S), NEW i \in DOMAIN s, NEW x \in S
    PROVE  /\ [s EXCEPT ![i] = x] \in Seq(S)
           /\ DOMAIN [s EXCEPT ![i] = x] = DOMAIN s
           /\ s[i] \in S
  OBVIOUS

(* A sequence that is computed from another, entry by entry. *)
LEMMA Mapped ==
    ASSUME NEW S, NEW s \in Seq(S), NEW f,
           f = [i \in DOMAIN s |-> f[i]], \A i \in DOMAIN s : f[i] \in S
    PROVE  f \in Seq(S) /\ DOMAIN f = DOMAIN s
  OBVIOUS

(* What appending one element makes of a sequence. *)
LEMMA Appended ==
    ASSUME NEW S, NEW s \in Seq(S), NEW x \in S
    PROVE  /\ Append(s, x) \in Seq(S)
           /\ Len(Append(s, x)) = Len(s) + 1
           /\ DOMAIN Append(s, x) = DOMAIN s \cup {Len(s) + 1}
           /\ Len(s) + 1 \notin DOMAIN s
           /\ \A i \in DOMAIN s : Append(s, x)[i] = s[i]
           /\ Append(s, x)[Len(s) + 1] = x
  OBVIOUS

(* What is in the middle of a line has the mutex of a logger, and no file  *)
(* between the close and the open of a rotation.                           *)
Writers ==
    /\ \A t \in Tasks : step[t] # "idle" => holds[t] # None
    /\ \A t \in Tasks : step[t] \in {"remove", "rename"} => mode = "single"
    /\ \A t \in Tasks : step[t] \in {"remove", "rename", "open"} => Handle(t) = None
    /\ OneWriter

(* Where a line goes: the name exists. *)
LEMMA FileNamed ==
    ASSUME TypeOK, NEW t \in Tasks
    PROVE  FileOf(t) \in Names
  BY DayNamed DEF TypeOK, FileOf, Names

(* Open gives the name a file, the one it had or a new one. *)
LEMMA OpenedFile ==
    ASSUME TypeOK, NEW t \in Tasks, Open(t)
    PROVE  /\ content' \in Seq(Seq(Nat))
           /\ Inodes \subseteq Inodes'
           /\ \A i \in Inodes : content'[i] = content[i]
           /\ dir' \in [Names -> Inodes' \cup {None}]
           /\ dir'[FileOf(t)] \in Inodes' /\ dir'[FileOf(t)] # None
           /\ \A n \in Names \ {FileOf(t)} : dir'[n] = dir[n]
           /\ \/ dir[FileOf(t)] # None /\ UNCHANGED files
              \/ /\ dir[FileOf(t)] = None
                 /\ dir'[FileOf(t)] \notin Inodes
                 /\ content'[dir'[FileOf(t)]] = <<>>
  <1>1. FileOf(t) \in Names
    BY FileNamed
  <1>2. CASE dir[FileOf(t)] # None
    BY <1>1, <1>2 DEF Open, Opened, TypeOK, Inodes, files
  <1>3. CASE dir[FileOf(t)] = None
    <2>1. /\ content' = Append(content, <<>>)
          /\ dir' = [dir EXCEPT ![FileOf(t)] = Len(content')]
      BY <1>3 DEF Open, Opened
    <2>2. /\ content' \in Seq(Seq(Nat))
          /\ Inodes' = Inodes \cup {Len(content) + 1}
          /\ Len(content') = Len(content) + 1
          /\ Len(content) + 1 \notin Inodes
          /\ \A i \in Inodes : content'[i] = content[i]
          /\ content'[Len(content) + 1] = <<>>
          /\ Len(content) + 1 \in Nat
      <3>1. <<>> \in Seq(Nat) /\ content \in Seq(Seq(Nat))
        BY DEF TypeOK
      <3>2. Len(content) + 1 \in Nat
        BY <3>1
      <3> QED
        BY <2>1, <3>1, <3>2, Appended DEF Inodes
    <2>3. dir'[FileOf(t)] = Len(content) + 1
      BY <1>1, <2>1, <2>2 DEF TypeOK
    <2>4. Len(content) + 1 # None
      BY <2>2, NoneAssumption
    <2>5. dir' \in [Names -> Inodes' \cup {None}] /\ \A n \in Names \ {FileOf(t)} : dir'[n] = dir[n]
      BY <1>1, <2>1, <2>2 DEF TypeOK
    <2> QED
      BY <1>3, <2>2, <2>3, <2>4, <2>5
  <1> QED
    BY <1>2, <1>3

LEMMA TypeInit == Init => TypeOK
  <1> SUFFICES ASSUME Init PROVE TypeOK
    OBVIOUS
  <1>1. 0 \in 0 .. MaxTime
    BY BoundsAssumption
  <1>2. content \in Seq(Seq(Nat)) /\ log \in Seq(0 .. MaxTime)
    BY DEF Init
  <1>3. loggers \in Seq(LoggerStates)
    BY DEF Init
  <1> QED
    BY <1>1, <1>2, <1>3 DEF Init, TypeOK, LoggerStates

(* Types are kept by every step. *)
LEMMA TypeStep == TypeOK /\ Writers /\ [Next]_vars => TypeOK'
  <1> SUFFICES ASSUME TypeOK, Writers, [Next]_vars PROVE TypeOK'
    OBVIOUS
  <1>0. ASSUME NEW t \in Tasks, holds[t] # None
        PROVE  holds[t] \in Loggers /\ loggers[holds[t]] \in LoggerStates
    <2>1. holds[t] \in Loggers /\ loggers \in Seq(LoggerStates)
      BY <1>0 DEF TypeOK
    <2> QED
      BY <2>1, Updated DEF Loggers
  <1>1. ASSUME NEW t \in Tasks, NEW c \in Configs, GetRuleLogger(t, c)
        PROVE  TypeOK'
    <2>1. CASE cached[c] # None
      BY <1>1, <2>1 DEF GetRuleLogger, TypeOK, LoggerStates, host, Loggers, Inodes
    <2>2. CASE cached[c] = None
      <3>1. [handle |-> None, date |-> None] \in LoggerStates
        BY DEF LoggerStates
      <3>2. loggers' = Append(loggers, [handle |-> None, date |-> None])
        BY <1>1, <2>2 DEF GetRuleLogger
      <3>3. /\ loggers' \in Seq(LoggerStates)
            /\ Loggers \subseteq Loggers'
            /\ Len(loggers') \in Loggers'
        BY <3>1, <3>2 DEF TypeOK, LoggerStates, Loggers
      <3>4. Inodes' = Inodes
        BY <1>1 DEF GetRuleLogger, Inodes
      <3>5. dir' \in [Names -> Inodes \cup {None}]
        BY <1>1, <2>2 DEF GetRuleLogger, CleanedUp, TypeOK, LoggerStates
      <3>6. /\ cached' \in [Configs -> Loggers' \cup {None}]
            /\ holds' \in [Tasks -> Loggers' \cup {None}]
        BY <1>1, <2>2, <3>3 DEF GetRuleLogger, TypeOK, LoggerStates
      <3> QED
        BY <1>1, <3>3, <3>4, <3>5, <3>6 DEF GetRuleLogger, TypeOK, LoggerStates, host
    <2> QED
      BY <2>1, <2>2
  <1>2. ASSUME NEW t \in Tasks, EndTask(t)
        PROVE  TypeOK'
    BY <1>2 DEF EndTask, TypeOK, LoggerStates, host, files, Loggers, Inodes
  <1>3. ASSUME NEW t \in Tasks, Log(t)
        PROVE  TypeOK'
    <2>1. holds[t] \in Loggers /\ loggers[holds[t]] \in LoggerStates
      BY <1>3, <1>0 DEF Log
    <2>2. loggers' \in Seq(LoggerStates) /\ Loggers' = Loggers
      <3>1. loggers \in Seq(LoggerStates)
        BY DEF TypeOK, LoggerStates
      <3>2. [loggers[holds[t]] EXCEPT !.handle = None] \in LoggerStates
        BY <2>1 DEF LoggerStates
      <3>3. CASE UNCHANGED loggers
        BY <3>1, <3>3 DEF Loggers
      <3>4. CASE SetHandle(t, None)
        <4>1. loggers' = [loggers EXCEPT ![holds[t]] = [loggers[holds[t]] EXCEPT !.handle = None]]
          BY <3>4, <2>1 DEF SetHandle, Loggers
        <4> QED
          BY <2>1, <3>1, <3>2, <4>1, Updated DEF Loggers
      <3> QED
        BY <1>3, <3>3, <3>4 DEF Log
    <2>3. /\ stamp' \in [Tasks -> 0 .. MaxTime]
          /\ step' \in [Tasks -> {"idle", "remove", "rename", "open", "write"}]
          /\ shared' \in BOOLEAN
      BY <1>3 DEF Log, TypeOK, LoggerStates, GoTo, OthersOpen
    <2> QED
      BY <1>3, <2>2, <2>3 DEF Log, TypeOK, LoggerStates, host, files, Inodes
  <1>4. ASSUME NEW t \in Tasks, RemoveRotated(t)
        PROVE  TypeOK'
    BY <1>4 DEF RemoveRotated, TypeOK, LoggerStates, host, GoTo, Loggers, Inodes, Names
  <1>5. ASSUME NEW t \in Tasks, Rename(t)
        PROVE  TypeOK'
    BY <1>5 DEF Rename, TypeOK, LoggerStates, host, GoTo, Loggers, Inodes, Names
  <1>6. ASSUME NEW t \in Tasks, Open(t)
        PROVE  TypeOK'
    <2>1. holds[t] # None
      BY <1>6 DEF Open, At, Writers
    <2>2. holds[t] \in Loggers /\ loggers[holds[t]] \in LoggerStates
      BY <2>1, <1>0
    <2>4. /\ content' \in Seq(Seq(Nat))
          /\ Inodes \subseteq Inodes'
          /\ dir' \in [Names -> Inodes' \cup {None}]
          /\ dir'[FileOf(t)] \in Inodes' \cup {None}
      BY <1>6, OpenedFile
    <2>5. loggers' \in Seq(LoggerStates') /\ Loggers' = Loggers
      <3> DEFINE new == [handle |-> dir'[FileOf(t)],
                         date |-> IF mode = "daily" THEN Day(stamp[t]) ELSE loggers[holds[t]].date]
      <3>1. loggers \in Seq(LoggerStates')
        <4>1. LoggerStates \subseteq LoggerStates'
          BY <2>4 DEF LoggerStates
        <4> QED
          BY <4>1, Wider DEF TypeOK
      <3>2. new \in LoggerStates'
        BY <2>2, <2>4, DayNamed DEF TypeOK, LoggerStates
      <3>3. loggers' = [loggers EXCEPT ![holds[t]] = new]
        BY <1>6, <2>2 DEF Open, Loggers
      <3> QED
        BY <2>2, <3>1, <3>2, <3>3, Updated DEF Loggers
    <2> QED
      BY <1>6, <2>4, <2>5 DEF Open, TypeOK, LoggerStates, host, GoTo
  <1>7. ASSUME NEW t \in Tasks, OpenFails(t)
        PROVE  TypeOK'
    BY <1>7, BoundsAssumption DEF OpenFails, TypeOK, LoggerStates, host, files, GoTo, Done, Loggers, Inodes
  <1>8. ASSUME NEW t \in Tasks, Write(t)
        PROVE  TypeOK'
    <2>1. Handle(t) \in Inodes
      <3>1. holds[t] # None /\ Handle(t) # None
        BY <1>8 DEF Write, At, Writers, OneWriter
      <3>2. loggers[holds[t]] \in LoggerStates
        BY <3>1, <1>0
      <3> QED
        BY <3>1, <3>2 DEF Handle, LoggerStates
    <2>2. log' \in Seq(0 .. MaxTime) /\ Len(log') \in Nat
      BY <1>8 DEF Write, TypeOK, LoggerStates
    <2>3. content' \in Seq(Seq(Nat)) /\ Inodes' = Inodes
      BY <1>8, <2>1, <2>2, Content DEF Write, TypeOK, LoggerStates, Inodes
    <2> QED
      BY <1>8, <2>2, <2>3, BoundsAssumption DEF Write, TypeOK, LoggerStates, host, GoTo, Done, Loggers
  <1>9. ASSUME CloseRuleLoggers
        PROVE  TypeOK'
    <2>1. loggers \in Seq(LoggerStates)
      BY DEF TypeOK, LoggerStates
    <2>2. \A l \in Loggers : /\ loggers[l] \in LoggerStates
                            /\ [loggers[l] EXCEPT !.handle = None] \in LoggerStates
      <3>1. \A l \in Loggers : loggers[l] \in LoggerStates
        BY <2>1, Updated DEF Loggers
      <3> QED
        BY <3>1 DEF LoggerStates
    <2>3. /\ loggers' = [l \in DOMAIN loggers |-> loggers'[l]]
          /\ \A l \in DOMAIN loggers : loggers'[l] \in LoggerStates
      BY <1>9, <2>2 DEF CloseRuleLoggers, Loggers
    <2>4. loggers' \in Seq(LoggerStates) /\ Loggers' = Loggers
      BY <2>1, <2>3, Mapped DEF Loggers
    <2> QED
      BY <1>9, <2>4 DEF CloseRuleLoggers, TypeOK, LoggerStates, host, files, Inodes
  <1>10. ASSUME Tick
        PROVE  TypeOK'
    BY <1>10, BoundsAssumption DEF Tick, TypeOK, LoggerStates, host, files, Loggers, Inodes
  <1>11. CASE UNCHANGED vars
    BY <1>11 DEF vars, TypeOK, LoggerStates, host, files, Loggers, Inodes
  <1> QED
    BY <1>1, <1>2, <1>3, <1>4, <1>5, <1>6, <1>7, <1>8, <1>9, <1>10, <1>11
    DEF Next, LogStep

(* SetHandle changes the handle of the task's own logger and no other. *)
LEMMA HandleSet ==
    ASSUME TypeOK, NEW t \in Tasks, holds[t] \in Loggers, NEW f, SetHandle(t, f)
    PROVE  /\ loggers'[holds[t]] = [handle |-> f, date |-> loggers[holds[t]].date]
           /\ Loggers' = Loggers
  <1> DEFINE l == holds[t]
             r == [handle |-> f, date |-> loggers[l].date]
  <1>1. loggers \in Seq(LoggerStates) /\ loggers[l] \in LoggerStates
    BY Updated DEF TypeOK, Loggers
  <1>2. [loggers[l] EXCEPT !.handle = f] = r
    BY <1>1 DEF LoggerStates
  <1>3. loggers' = [loggers EXCEPT ![l] = r]
    BY <1>2 DEF SetHandle
  <1> QED
    BY <1>3, <1>1 DEF Loggers

(* A step of log() is about the task's own logger. *)
LEMMA LogStepFrame ==
    ASSUME TypeOK, Writers, NEW t \in Tasks, LogStep(t)
    PROVE  /\ UNCHANGED <<mode, holds>>
           /\ holds[t] \in Loggers
           /\ Loggers' = Loggers
           /\ \A u \in Tasks \ {t} : step'[u] = step[u]
           /\ \A l \in Loggers \ {holds[t]} : loggers'[l] = loggers[l]
  <1>1. UNCHANGED <<mode, holds>> /\ holds[t] # None
    BY DEF LogStep, Log, RemoveRotated, Rename, Open, OpenFails, Write, host, At, Writers
  <1>2. \A u \in Tasks \ {t} : step'[u] = step[u]
    BY DEF LogStep, Log, RemoveRotated, Rename, Open, OpenFails, Write, TypeOK, GoTo, Done
  <1>3. Loggers' = Loggers /\ \A l \in Loggers \ {holds[t]} : loggers'[l] = loggers[l]
    BY DEF LogStep, Log, RemoveRotated, Rename, Open, OpenFails, Write, SetHandle, Loggers, TypeOK
  <1> QED
    BY <1>1, <1>2, <1>3 DEF TypeOK

(* A logger that is in the middle of a line stays the only one to be so. *)
LEMMA WritersStep == TypeOK /\ TypeOK' /\ Writers /\ [Next]_vars => Writers'
  <1> SUFFICES ASSUME TypeOK, TypeOK', Writers, [Next]_vars PROVE Writers'
    OBVIOUS
  <1> DEFINE W(t) == /\ step[t] # "idle" => holds[t] # None
                     /\ step[t] \in {"remove", "rename"} => mode = "single"
                     /\ step[t] \in {"remove", "rename", "open"} => Handle(t) = None
                     /\ step[t] = "write" => Handle(t) # None
  <1> DEFINE X(t, u) == step[t] # "idle" /\ step[u] # "idle" /\ holds[t] = holds[u] => t = u
  <1>a. \A t, u \in Tasks : W(t) /\ X(t, u)
    BY DEF Writers, OneWriter
  <1>b. (\A t, u \in Tasks : W(t)' /\ X(t, u)') => Writers'
    BY DEF Writers, OneWriter
  <1>c. \A t \in Tasks : /\ step[t] \in {"idle", "remove", "rename", "open", "write"}
                         /\ holds[t] \in Loggers \cup {None}
    BY DEF TypeOK
  <1>d. None \notin Loggers
    BY NoneAssumption DEF TypeOK, Loggers
  <1>0. ASSUME NEW t \in Tasks, W(t), UNCHANGED mode, step'[t] = step[t], holds'[t] = holds[t],
               step[t] # "idle" => loggers'[holds[t]].handle = loggers[holds[t]].handle
        PROVE  W(t)'
    BY <1>0 DEF Handle
  <1>1. ASSUME NEW t \in Tasks, NEW c \in Configs, GetRuleLogger(t, c)
        PROVE  Writers'
    <2>1. \A l \in Loggers : loggers'[l] = loggers[l]
      <3>1. CASE UNCHANGED loggers
        BY <3>1
      <3>2. CASE loggers' = Append(loggers, [handle |-> None, date |-> None])
        <4>1. [handle |-> None, date |-> None] \in LoggerStates /\ loggers \in Seq(LoggerStates)
          BY DEF LoggerStates, TypeOK
        <4> QED
          BY <3>2, <4>1, Appended DEF Loggers
      <3> QED
        BY <1>1, <3>1, <3>2 DEF GetRuleLogger
    <2>2. step[t] = "idle" /\ UNCHANGED <<mode, step>>
      BY <1>1, <1>a DEF GetRuleLogger, host
    <2>3. \A u \in Tasks \ {t} : holds'[u] = holds[u]
      BY <1>1 DEF GetRuleLogger, TypeOK
    <2>4. \A u \in Tasks : W(u)'
      <3>1. ASSUME NEW u \in Tasks, u # t PROVE W(u)'
        BY <1>0, <1>a, <1>c, <2>1, <2>2, <2>3, <3>1
      <3>2. W(t)'
        BY <2>2
      <3> QED
        BY <3>1, <3>2
    <2>5. \A u, v \in Tasks : X(u, v)'
      BY <1>a, <2>2, <2>3
    <2> QED
      BY <1>b, <2>4, <2>5
  <1>2. ASSUME NEW t \in Tasks, EndTask(t)
        PROVE  Writers'
    <2>1. step[t] = "idle" /\ UNCHANGED <<mode, step, loggers>>
      BY <1>2 DEF EndTask, host
    <2>2. \A u \in Tasks \ {t} : holds'[u] = holds[u]
      BY <1>2 DEF EndTask, TypeOK
    <2>3. \A u \in Tasks : W(u)'
      <3>1. ASSUME NEW u \in Tasks, u # t PROVE W(u)'
        BY <1>0, <1>a, <2>1, <2>2, <3>1
      <3>2. W(t)'
        BY <2>1
      <3> QED
        BY <3>1, <3>2
    <2>4. \A u, v \in Tasks : X(u, v)'
      BY <1>a, <2>1, <2>2
    <2> QED
      BY <1>b, <2>3, <2>4
  <1>3. ASSUME NEW t \in Tasks, LogStep(t)
        PROVE  Writers'
    <2>1. UNCHANGED <<mode, holds>> /\ holds[t] # None
      BY <1>3, LogStepFrame, <1>d
    <2>2. \A u \in Tasks \ {t} : step'[u] = step[u]
      BY <1>3, LogStepFrame
    <2>3. \A u \in Tasks \ {t} : step[u] # "idle" => holds[u] # holds[t]
      BY <1>3, <1>a DEF LogStep, Log, RemoveRotated, Rename, Open, OpenFails, Write, At, Locked
    <2>4. \A l \in Loggers \ {holds[t]} : loggers'[l] = loggers[l]
      BY <1>3, LogStepFrame
    <2>5. \A u \in Tasks \ {t} : W(u)'
      BY <1>0, <1>a, <1>c, <2>1, <2>2, <2>3, <2>4
    <2>6. \A u, v \in Tasks : X(u, v)'
      BY <1>a, <2>1, <2>2, <2>3
    <2>7. W(t)'
      <3>0. /\ holds[t] \in Loggers
            /\ \A x \in LoggerStates' : loggers' = [loggers EXCEPT ![holds[t]] = x]
                                           => loggers'[holds[t]] = x
            /\ \A s : GoTo(t, s) => step'[t] = s
        BY <1>c, <2>1 DEF TypeOK, Loggers, GoTo
      <3>1. CASE Log(t)
        <4>1. ASSUME SetHandle(t, None) PROVE Handle(t)' = None
          <5>1. loggers'[holds[t]] = [handle |-> None, date |-> loggers[holds[t]].date]
            BY <3>0, <4>1, HandleSet
          <5> QED
            BY <2>1, <5>1 DEF Handle
        <4>2. UNCHANGED loggers => Handle(t)' = Handle(t)
          BY <2>1 DEF Handle
        <4> QED
          BY <2>1, <3>0, <3>1, <4>1, <4>2 DEF Log
      <3>2. CASE RemoveRotated(t) \/ Rename(t)
        BY <1>a, <2>1, <3>0, <3>2 DEF RemoveRotated, Rename, At, Handle
      <3>3. CASE Open(t)
        <4>1. dir'[FileOf(t)] # None
          BY <3>3, OpenedFile
        <4>2. Handle(t)' = dir'[FileOf(t)]
          BY <2>1, <3>0, <3>3 DEF Open, Handle, Loggers
        <4> QED
          BY <2>1, <3>0, <3>3, <4>1, <4>2 DEF Open
      <3>4. CASE OpenFails(t) \/ Write(t)
        BY <2>1, <3>0, <3>4 DEF OpenFails, Write, Done
      <3> QED
        BY <1>3, <3>1, <3>2, <3>3, <3>4 DEF LogStep
    <2> QED
      BY <1>b, <2>5, <2>6, <2>7
  <1>4. ASSUME CloseRuleLoggers
        PROVE  Writers'
    <2>1. UNCHANGED <<mode, holds, step>>
      BY <1>4 DEF CloseRuleLoggers, host
    <2>2. \A u \in Tasks : step[u] # "idle" => loggers'[holds[u]] = loggers[holds[u]]
      BY <1>4, <1>a, <1>c DEF CloseRuleLoggers, Locked, Loggers
    <2> QED
      BY <1>0, <1>a, <1>b, <2>1, <2>2
  <1>5. CASE Tick \/ UNCHANGED vars
    BY <1>5 DEF Tick, vars, Writers, OneWriter, host, Handle
  <1> QED
    BY <1>1, <1>2, <1>3, <1>4, <1>5 DEF Next

-----------------------------------------------------------------------------
(* TailKept.  While no two loggers had files open at once, one of them at  *)
(* most is active, its handle is the file that has the name, and the two   *)
(* files are different: what it writes goes to the end of the tail.        *)

Active(l) == loggers[l].handle # None \/ Locked(l)

Sole ==
    /\ \A l, m \in Loggers : Active(l) /\ Active(m) => l = m
    /\ \A l \in Loggers : loggers[l].handle # None => loggers[l].handle = dir[Base]
    /\ dir[Base] # None => dir[Rotated] # dir[Base]
    /\ \A t \in Tasks : step[t] = "remove" => MaxSize > 0 /\ Len(Lines(Base)) >= MaxSize
    /\ \A t \in Tasks : step[t] = "rename" => dir[Rotated] = None

(* The lines of the rotated file and then those of the file are the last. *)
LastLines ==
    LET r == Lines(Rotated)
        b == Lines(Base)
    IN  /\ Len(r) + Len(b) <= Len(log)
        /\ \A i \in DOMAIN r : r[i] = Len(log) - Len(r) - Len(b) + i
        /\ \A j \in DOMAIN b : b[j] = Len(log) - Len(b) + j
        /\ Len(r) + Len(b) < Len(log) => MaxSize > 0 /\ Len(r) + Len(b) >= MaxSize

SoleTail == mode = "single" /\ ~ shared => Sole /\ LastLines

(* The lines of a name are numbers of lines, none if there is no file. *)
LEMMA LinesType ==
    ASSUME TypeOK, NEW n \in {Base, Rotated}
    PROVE  Lines(n) \in Seq(Nat)
  BY DEF TypeOK, Lines, Names, Inodes

(* Both files as one sequence. *)
LEMMA TailIsKept == TypeOK /\ SoleTail => TailKept
  <1> SUFFICES ASSUME TypeOK, SoleTail, mode = "single", ~ shared
               PROVE  LET kept == Lines(Rotated) \o Lines(Base)
                          from == Len(log) - Len(kept)
                      IN  /\ from >= 0
                          /\ \A i \in DOMAIN kept : kept[i] = from + i
                          /\ from > 0 => MaxSize > 0 /\ Len(kept) >= MaxSize
    BY DEF TailKept
  <1> DEFINE r == Lines(Rotated)
             b == Lines(Base)
             kept == r \o b
  <1>1. r \in Seq(Nat) /\ b \in Seq(Nat) /\ Len(log) \in Nat
    BY LinesType DEF TypeOK
  <1>2. /\ Len(r) + Len(b) <= Len(log)
        /\ \A i \in DOMAIN r : r[i] = Len(log) - Len(r) - Len(b) + i
        /\ \A j \in DOMAIN b : b[j] = Len(log) - Len(b) + j
        /\ Len(r) + Len(b) < Len(log) => MaxSize > 0 /\ Len(r) + Len(b) >= MaxSize
    BY DEF SoleTail, LastLines
  <1> HIDE DEF r, b
  <1>3. /\ Len(kept) = Len(r) + Len(b)
        /\ DOMAIN kept = 1 .. Len(r) + Len(b)
        /\ \A i \in DOMAIN kept : kept[i] = IF i <= Len(r) THEN r[i] ELSE b[i - Len(r)]
    BY <1>1
  <1>4. ASSUME NEW i \in DOMAIN kept PROVE kept[i] = Len(log) - Len(kept) + i
    <2>1. CASE i <= Len(r)
      <3>1. i \in DOMAIN r
        BY <1>1, <1>3, <2>1
      <3> QED
        BY <1>1, <1>2, <1>3, <2>1, <3>1
    <2>2. CASE ~ (i <= Len(r))
      <3>1. i - Len(r) \in DOMAIN b
        BY <1>1, <1>3, <2>2
      <3>2. kept[i] = b[i - Len(r)] /\ i \in Nat
        BY <1>3, <2>2
      <3> QED
        BY <1>1, <1>2, <1>3, <3>1, <3>2
    <2> QED
      BY <2>1, <2>2
  <1> QED
    BY <1>1, <1>2, <1>3, <1>4 DEF r, b

(* The mode stays, and a shared file is never forgotten. *)
LEMMA ModeStays ==
    ASSUME [Next]_vars
    PROVE  UNCHANGED host /\ (shared => shared')
  <1>1. CASE UNCHANGED vars
    BY <1>1 DEF vars, host
  <1>2. ASSUME NEW t \in Tasks, LogStep(t) PROVE UNCHANGED host /\ (shared => shared')
    <2>1. UNCHANGED host
      BY <1>2 DEF LogStep, Log, RemoveRotated, Rename, Open, OpenFails, Write, host
    <2>2. shared => shared'
      <3>1. CASE Log(t)
        BY <3>1, Zenon DEF Log
      <3>2. CASE ~ Log(t)
        BY <1>2, <3>2 DEF LogStep, RemoveRotated, Rename, Open, OpenFails, Write
      <3> QED
        BY <3>1, <3>2
    <2> QED
      BY <2>1, <2>2
  <1>3. CASE Next /\ ~ \E t \in Tasks : LogStep(t)
    BY <1>3 DEF Next, GetRuleLogger, EndTask, CloseRuleLoggers, Tick, host
  <1> QED
    BY <1>1, <1>2, <1>3

(* Every step keeps SoleTail, rotations and their failures included. *)
LEMMA SoleTailStep ==
    ASSUME TypeOK, TypeOK', Writers, Writers', SoleTail, [Next]_vars
    PROVE  SoleTail'
  <1> SUFFICES ASSUME mode' = "single", ~ shared' PROVE Sole' /\ LastLines'
    BY DEF SoleTail
  <1>0. mode = "single" /\ ~ shared
    BY ModeStays DEF host
  <1>s. Sole /\ LastLines
    BY <1>0 DEF SoleTail
  <1> DEFINE Same == /\ UNCHANGED <<files, step, log>>
                     /\ \A l \in Loggers' : Active(l)' => l \in Loggers /\ Active(l)
                     /\ \A l \in Loggers' : loggers'[l].handle # None
                           => l \in Loggers /\ loggers'[l].handle = loggers[l].handle
  <1>1. ASSUME Same PROVE Sole' /\ LastLines'
    <2>1. UNCHANGED <<Lines(Base), Lines(Rotated)>> /\ UNCHANGED dir
      BY <1>1 DEF Lines, files
    <2> QED
      BY <1>1, <1>s, <2>1 DEF Sole, LastLines
  <1>2. ASSUME NEW t \in Tasks, NEW c \in Configs, GetRuleLogger(t, c)
        PROVE  Same
    <2>1. /\ UNCHANGED <<files, step, log>>
          /\ step[t] = "idle"
          /\ \A u \in Tasks \ {t} : holds'[u] = holds[u]
      <3>1. step[t] = "idle"
        BY <1>2 DEF GetRuleLogger, Writers
      <3>2. UNCHANGED dir
        BY <1>0, <1>2 DEF GetRuleLogger, CleanedUp, TypeOK
      <3> QED
        BY <1>2, <3>1, <3>2 DEF GetRuleLogger, files, TypeOK
    <2>2. /\ \A l \in Loggers : l \in Loggers' /\ loggers'[l] = loggers[l]
          /\ \A l \in Loggers' \ Loggers : loggers'[l].handle = None
      <3>1. CASE UNCHANGED loggers
        BY <3>1 DEF Loggers
      <3>2. CASE loggers' = Append(loggers, [handle |-> None, date |-> None])
        <4>1. [handle |-> None, date |-> None] \in LoggerStates /\ loggers \in Seq(LoggerStates)
          BY DEF LoggerStates, TypeOK
        <4> QED
          BY <3>2, <4>1, Appended DEF Loggers
      <3> QED
        BY <1>2, <3>1, <3>2 DEF GetRuleLogger
    <2>3. \A l : Locked(l)' => l \in Loggers /\ Locked(l)
      BY <2>1, NoneAssumption DEF Locked, Writers, TypeOK
    <2> QED
      BY <2>1, <2>2, <2>3 DEF Active
  <1>3. ASSUME NEW t \in Tasks, EndTask(t)
        PROVE  Same
    <2>1. \A l \in Loggers : Locked(l)' => Locked(l)
      BY <1>3 DEF EndTask, Locked, TypeOK
    <2> QED
      BY <1>3, <2>1 DEF EndTask, Active, Loggers
  <1>4. ASSUME CloseRuleLoggers
        PROVE  Same
    <2>1. UNCHANGED <<files, step, log, holds>> /\ Loggers' = Loggers
      BY <1>4 DEF CloseRuleLoggers, Loggers
    <2>2. \A l \in Loggers : loggers'[l].handle # None => loggers'[l] = loggers[l]
      <3>1. \A l \in Loggers : loggers[l] \in LoggerStates
        BY Updated DEF TypeOK, Loggers
      <3>2. \A l \in Loggers : [loggers[l] EXCEPT !.handle = None].handle = None
        BY <3>1 DEF LoggerStates
      <3> QED
        BY <1>4, <3>2 DEF CloseRuleLoggers, Loggers
    <2> QED
      BY <2>1, <2>2 DEF Active, Locked
  <1>5. CASE Tick \/ UNCHANGED vars
    BY <1>5, <1>1 DEF Tick, vars, Active, Locked, Loggers
  <1>6. ASSUME NEW t \in Tasks, LogStep(t)
        PROVE  Sole' /\ LastLines'
    <2>1. /\ UNCHANGED holds
          /\ holds[t] \in Loggers
          /\ Loggers' = Loggers
          /\ \A u \in Tasks \ {t} : step'[u] = step[u]
          /\ \A l \in Loggers \ {holds[t]} : loggers'[l] = loggers[l]
      BY <1>6, LogStepFrame
    <2>2. \A l \in Loggers \ {holds[t]} : ~ Active(l)
      <3>1. CASE Log(t)
        BY <3>1 DEF Log, OthersOpen, Active, Loggers
      <3>2. CASE ~ Log(t)
        <4>1. Active(holds[t])
          BY <1>6, <3>2 DEF LogStep, RemoveRotated, Rename, Open, OpenFails, Write, At, Active, Locked
        <4> QED
          BY <1>s, <2>1, <4>1 DEF Sole
      <3> QED
        BY <3>1, <3>2
    <2>3. \A u \in Tasks \ {t} : step[u] = "idle" /\ step'[u] = "idle"
      <3> SUFFICES ASSUME NEW u \in Tasks \ {t}, step[u] # "idle" PROVE FALSE
        BY <2>1
      <3>1. holds[u] \in Loggers /\ Locked(holds[u])
        BY DEF Writers, TypeOK, Locked
      <3>2. holds[u] = holds[t]
        BY <2>2, <3>1 DEF Active
      <3>3. step[t] = "idle" /\ ~ Locked(holds[t])
        BY <1>6, <3>2 DEF Writers, OneWriter, LogStep, Log, RemoveRotated, Rename, Open, OpenFails, Write, At
      <3> QED
        BY <3>1, <3>2, <3>3
    <2>4. \A l \in Loggers \ {holds[t]} : ~ Active(l)'
      BY <2>1, <2>2, <2>3 DEF Active, Locked
    <2> DEFINE h == Handle(t)'
               b == Lines(Base)'
    <2>5. ASSUME h # None => h = dir'[Base],
                 dir'[Base] # None => dir'[Rotated] # dir'[Base],
                 step'[t] = "remove" => MaxSize > 0 /\ Len(b) >= MaxSize,
                 step'[t] = "rename" => dir'[Rotated] = None
          PROVE  Sole'
      <3>1. \A u \in Tasks : /\ step'[u] = "remove" => MaxSize > 0 /\ Len(b) >= MaxSize
                             /\ step'[u] = "rename" => dir'[Rotated] = None
        BY <2>3, <2>5
      <3>2. \A l \in Loggers' : loggers'[l].handle # None => loggers'[l].handle = dir'[Base]
        BY <2>1, <2>4, <2>5 DEF Active, Handle
      <3>3. \A l, m \in Loggers' : Active(l)' /\ Active(m)' => l = m
        BY <2>1, <2>4
      <3> QED
        BY <2>5, <3>1, <3>2, <3>3 DEF Sole
    <2>6. /\ UNCHANGED loggers => h = Handle(t)
          /\ h = loggers'[holds[t]].handle
          /\ Handle(t) # None => Handle(t) = dir[Base]
          /\ \A s : GoTo(t, s) => step'[t] = s
      BY <1>s, <2>1 DEF Sole, Handle, GoTo, TypeOK
    <2>7. Lines(Base) \in Seq(Nat) /\ Lines(Rotated) \in Seq(Nat) /\ Len(log) \in Nat
      BY LinesType DEF TypeOK
    <2>8. CASE Log(t)
      <3>1. UNCHANGED <<files, log>>
        BY <2>8 DEF Log
      <3>2. UNCHANGED <<Lines(Base), Lines(Rotated), dir>>
        BY <3>1 DEF Lines, files
      <3>3. h # None => h = dir'[Base]
        <4>1. CASE UNCHANGED loggers
          BY <2>6, <3>2, <4>1
        <4>2. CASE SetHandle(t, None)
          <5>1. loggers'[holds[t]] = [handle |-> None, date |-> loggers[holds[t]].date]
            BY <2>1, <4>2, HandleSet
          <5> QED
            BY <2>6, <5>1
        <4> QED
          BY <2>8, <4>1, <4>2 DEF Log
      <3>4. ASSUME step'[t] = "remove" PROVE MaxSize > 0 /\ Len(b) >= MaxSize
        <4>1. Full(t) /\ Handle(t) # None
          BY <2>6, <2>8, <3>4 DEF Log
        <4> QED
          BY <2>6, <3>2, <4>1 DEF Full, Lines
      <3>5. step'[t] # "rename"
        BY <2>6, <2>8 DEF Log
      <3>6. LastLines'
        BY <1>s, <3>1, <3>2 DEF LastLines
      <3> QED
        BY <1>s, <2>5, <3>2, <3>3, <3>4, <3>5, <3>6 DEF Sole
    <2>9. CASE RemoveRotated(t)
      <3>1. /\ UNCHANGED <<content, log, loggers>>
            /\ step[t] = "remove" /\ step'[t] = "rename"
            /\ dir'[Base] = dir[Base] /\ dir'[Rotated] = None
        BY <2>6, <2>9 DEF RemoveRotated, At, TypeOK, Names, Base, Rotated
      <3>2. /\ Lines(Base)' = Lines(Base)
            /\ Lines(Rotated)' = <<>>
            /\ h = None
        BY <2>1, <3>1 DEF Lines, Handle, Writers
      <3>3. MaxSize > 0 /\ Len(b) >= MaxSize
        BY <1>s, <3>1, <3>2 DEF Sole
      <3>4. LastLines'
        BY <1>s, <2>7, <3>1, <3>2, <3>3, SizesAssumption DEF LastLines
      <3> QED
        BY <2>5, <3>1, <3>2, <3>3, <3>4
    <2>10. CASE Rename(t)
      <3>1. /\ UNCHANGED <<content, log, loggers>>
            /\ step[t] = "rename" /\ step'[t] = "open"
        BY <2>6, <2>10 DEF Rename, At
      <3>2. h = None /\ dir[Rotated] = None
        BY <1>s, <2>1, <3>1 DEF Handle, Writers, Sole
      <3>3. CASE UNCHANGED dir
        <4>1. UNCHANGED <<Lines(Base), Lines(Rotated)>>
          BY <3>1, <3>3 DEF Lines
        <4>2. LastLines'
          BY <1>s, <3>1, <4>1 DEF LastLines
        <4> QED
          BY <1>s, <2>5, <3>1, <3>2, <3>3, <4>2 DEF Sole
      <3>4. CASE dir[Base] # None /\ dir' = [dir EXCEPT ![Rotated] = dir[Base], ![Base] = None]
        <4>1. dir'[Rotated] = dir[Base] /\ dir'[Base] = None
          BY <3>4 DEF TypeOK, Names, Base, Rotated
        <4>2. /\ Lines(Rotated)' = Lines(Base)
              /\ Lines(Base)' = <<>>
              /\ Lines(Rotated) = <<>>
          BY <3>1, <3>2, <3>4, <4>1 DEF Lines
        <4>3. LastLines'
          BY <1>s, <2>7, <3>1, <4>2, SizesAssumption DEF LastLines
        <4> QED
          BY <2>5, <3>1, <3>2, <4>1, <4>3
      <3> QED
        BY <2>10, <3>3, <3>4 DEF Rename
    <2>11. CASE Open(t)
      <3>1. FileOf(t) = Base
        BY <1>0 DEF FileOf
      <3>2. /\ UNCHANGED log
            /\ step'[t] = "write"
            /\ h = dir'[Base]
        BY <2>1, <2>6, <2>11, <3>1 DEF Open, Loggers, TypeOK
      <3>3. /\ \A i \in Inodes : content'[i] = content[i]
            /\ dir'[Rotated] = dir[Rotated]
            /\ dir[Rotated] \in Inodes \cup {None}
            /\ \/ dir[Base] # None /\ UNCHANGED files
               \/ /\ dir[Base] = None
                  /\ dir'[Base] \notin Inodes
                  /\ content'[dir'[Base]] = <<>>
        BY <2>11, <3>1, OpenedFile DEF TypeOK, Names, Base, Rotated
      <3>4. dir'[Base] # None
        BY <2>11, <3>1, OpenedFile
      <3>5. UNCHANGED <<Lines(Base), Lines(Rotated)>>
        BY <3>3, <3>4 DEF Lines, files
      <3>6. LastLines'
        BY <1>s, <3>2, <3>5 DEF LastLines
      <3>7. dir'[Rotated] # dir'[Base]
        BY <1>s, <3>3, <3>4 DEF Sole, files
      <3> QED
        BY <2>5, <3>2, <3>6, <3>7
    <2>12. CASE OpenFails(t)
      <3>1. UNCHANGED <<files, log, loggers>> /\ step'[t] = "idle"
        BY <2>6, <2>12 DEF OpenFails, Done
      <3>2. UNCHANGED <<Lines(Base), Lines(Rotated), dir>> /\ h = Handle(t)
        BY <2>1, <3>1 DEF Lines, files, Handle
      <3>3. LastLines'
        BY <1>s, <3>1, <3>2 DEF LastLines
      <3> QED
        BY <1>s, <2>5, <2>6, <3>1, <3>2, <3>3 DEF Sole
    <2>13. CASE Write(t)
      <3>1. /\ UNCHANGED <<dir, loggers>>
            /\ step[t] = "write" /\ step'[t] = "idle"
            /\ Len(log') = Len(log) + 1
            /\ content' = [content EXCEPT ![Handle(t)] = Append(@, Len(log'))]
        BY <2>6, <2>13 DEF Write, At, Done, TypeOK
      <3>2. Handle(t) = dir[Base] /\ dir[Base] # None /\ h = Handle(t)
        BY <2>1, <2>6, <3>1 DEF Writers, OneWriter, Handle
      <3>3. dir[Rotated] # dir[Base] /\ dir[Base] \in Inodes /\ dir[Rotated] \in Inodes \cup {None}
        BY <1>s, <3>2 DEF Sole, TypeOK, Names
      <3>4. /\ Lines(Base)' = Append(Lines(Base), Len(log) + 1)
            /\ Lines(Rotated)' = Lines(Rotated)
        BY <3>1, <3>2, <3>3 DEF Lines, TypeOK, Inodes
      <3>5. /\ Len(b) = Len(Lines(Base)) + 1
            /\ DOMAIN b = DOMAIN Lines(Base) \cup {Len(Lines(Base)) + 1}
            /\ \A j \in DOMAIN Lines(Base) : b[j] = Lines(Base)[j]
            /\ b[Len(Lines(Base)) + 1] = Len(log) + 1
        BY <2>7, <3>4, Appended
      <3>6. \A j \in DOMAIN b : b[j] = Len(log') - Len(b) + j
        BY <1>s, <2>7, <3>1, <3>5 DEF LastLines
      <3>7. \A i \in DOMAIN Lines(Rotated) :
               Lines(Rotated)[i] = Len(log') - Len(Lines(Rotated)) - Len(b) + i
        BY <1>s, <2>7, <3>1, <3>5 DEF LastLines
      <3>8. /\ Len(Lines(Rotated)) + Len(b) <= Len(log')
            /\ Len(Lines(Rotated)) + Len(b) < Len(log') =>
                  MaxSize > 0 /\ Len(Lines(Rotated)) + Len(b) >= MaxSize
        BY <1>s, <2>7, <3>1, <3>5, SizesAssumption DEF LastLines
      <3>9. LastLines'
        BY <3>4, <3>6, <3>7, <3>8 DEF LastLines
      <3> QED
        BY <2>5, <3>1, <3>2, <3>3, <3>9
    <2> QED
      BY <1>6, <2>8, <2>9, <2>10, <2>11, <2>12, <2>13 DEF LogStep
  <1> QED
    BY <1>1, <1>2, <1>3, <1>4, <1>5, <1>6 DEF Next

-----------------------------------------------------------------------------
(* DaysKept, on hosts at UTC or to the east of it.  A handle to the file   *)
(* of a day that is kept is the file that has the day's name: Cleanup      *)
(* takes the name from a file in use only after its day.                   *)

(* The cleanup removes no file of a retained day. *)
LEMMA RecentStays ==
    ASSUME TypeOK, zone \in Nat, NEW d \in Nat, d > Day(now) - Retention
    PROVE  ~ TooOld(d)
  <1>1. now \in Nat /\ Day(now) \in Nat /\ now < Day(now) * DayLength + DayLength
    BY DayOf DEF TypeOK
  <1>2. (Day(now) - Retention + 1) * DayLength <= d * DayLength
    BY <1>1, Product, SizesAssumption
  <1>3. (Day(now) - Retention + 1) * DayLength
           = Day(now) * DayLength - Retention * DayLength + DayLength
    BY <1>1, SizesAssumption
  <1>4. /\ d * DayLength \in Int /\ Retention * DayLength \in Int
        /\ Day(now) * DayLength \in Int /\ DayLength \in Int
    BY <1>1, SizesAssumption
  <1> QED
    BY <1>1, <1>2, <1>3, <1>4 DEF TooOld

Recent(d) == d > Day(now) - Retention

Current ==
    /\ \A l \in Loggers :
          loggers[l].handle # None =>
             /\ loggers[l].date \in 0 .. Day(MaxTime)
             /\ Recent(loggers[l].date) => loggers[l].handle = dir[loggers[l].date]
    /\ \A t \in Tasks : step[t] = "write" => loggers[holds[t]].date = Day(stamp[t])

OnItsDay(n) == \E i \in DOMAIN Lines(Day(log[n])) : Lines(Day(log[n]))[i] = n

DaysInv ==
    mode = "daily" => Current /\ \A n \in DOMAIN log : Recent(Day(log[n])) => OnItsDay(n)

(* Every step keeps DaysInv. *)
LEMMA DaysStep ==
    ASSUME Zones \subseteq Nat, TypeOK, TypeOK', Writers, Writers', DaysInv, [Next]_vars
    PROVE  DaysInv'
  <1> SUFFICES ASSUME mode' = "daily"
               PROVE  Current' /\ \A n \in DOMAIN log' : Recent(Day(log[n]))' => OnItsDay(n)'
    BY DEF DaysInv
  <1>0. mode = "daily" /\ zone \in Nat
    BY ModeStays DEF TypeOK, host
  <1>c. Current /\ \A n \in DOMAIN log : Recent(Day(log[n])) => OnItsDay(n)
    BY <1>0 DEF DaysInv
  <1>n. \A t \in Tasks : ~ RemoveRotated(t) /\ ~ Rename(t)
    BY <1>0 DEF Writers, RemoveRotated, Rename, At
  <1>1. ASSUME NEW d \in 0 .. Day(MaxTime), Recent(d)'
        PROVE  Recent(d) /\ (dir[d] # None => dir'[d] = dir[d])
    <2>1. now \in Nat /\ now' \in Nat /\ now <= now'
      <3>1. now' \in {now, now + 1}
        BY <1>n DEF Next, LogStep, GetRuleLogger, EndTask, Log, Open, OpenFails, Write,
           CloseRuleLoggers, Tick, vars
      <3> QED
        BY <3>1 DEF TypeOK
    <2>2. Recent(d)
      BY <1>1, <2>1, DayGrows, DayOf, SizesAssumption DEF Recent
    <2>3. d \in Names /\ d \in Nat
      BY DEF Names
    <2>4. ASSUME NEW t \in Tasks, NEW c \in Configs, GetRuleLogger(t, c) PROVE dir'[d] = dir[d]
      BY <1>0, <2>2, <2>3, <2>4, RecentStays DEF GetRuleLogger, CleanedUp, Recent
    <2>5. ASSUME NEW t \in Tasks, Open(t), dir[d] # None PROVE dir'[d] = dir[d]
      BY <2>3, <2>5, OpenedFile DEF files
    <2>6. CASE UNCHANGED dir
      BY <2>2, <2>6
    <2> QED
      BY <1>n, <2>2, <2>4, <2>5, <2>6 DEF Next, LogStep, EndTask, Log, OpenFails, Write,
         CloseRuleLoggers, Tick, vars, files
  <1>2. ASSUME NEW i \in Inodes
        PROVE  /\ i \in Inodes'
               /\ \A k \in DOMAIN content[i] : k \in DOMAIN content'[i] /\ content'[i][k] = content[i][k]
    <2>1. CASE UNCHANGED content
      BY <2>1 DEF Inodes
    <2>2. ASSUME NEW t \in Tasks, Open(t) PROVE i \in Inodes' /\ content'[i] = content[i]
      BY <2>2, OpenedFile
    <2>3. ASSUME NEW t \in Tasks, Write(t)
          PROVE  /\ i \in Inodes'
                 /\ \A k \in DOMAIN content[i] : k \in DOMAIN content'[i] /\ content'[i][k] = content[i][k]
      <3>1. content[i] \in Seq(Nat) /\ Len(log') \in Nat
        BY DEF TypeOK, Inodes
      <3>2. Inodes' = Inodes /\ content'[i] \in {content[i], Append(content[i], Len(log'))}
        BY <2>3 DEF Write, TypeOK, Inodes
      <3> QED
        BY <3>1, <3>2, Appended
    <2> QED
      BY <1>n, <2>1, <2>2, <2>3 DEF Next, LogStep, GetRuleLogger, EndTask, Log, OpenFails,
         CloseRuleLoggers, Tick, vars, files
  <1>3. /\ \A n \in DOMAIN log : log'[n] = log[n]
        /\ UNCHANGED log \/ \E t \in Tasks : Write(t)
    <2>1. UNCHANGED log \/ \E t \in Tasks : Write(t)
      BY <1>n DEF Next, LogStep, GetRuleLogger, EndTask, Log, Open, OpenFails,
         CloseRuleLoggers, Tick, vars
    <2>2. ASSUME NEW t \in Tasks, Write(t) PROVE \A n \in DOMAIN log : log'[n] = log[n]
      BY <2>2, Appended DEF Write, TypeOK
    <2> QED
      BY <2>1, <2>2
  <1>4. ASSUME NEW n \in DOMAIN log, Recent(Day(log[n]))'
        PROVE  OnItsDay(n)'
    <2> DEFINE d == Day(log[n])
    <2>1. d \in 0 .. Day(MaxTime) /\ d \in Names /\ Day(log'[n]) = d
      <3>1. log[n] \in 0 .. MaxTime
        BY Updated DEF TypeOK
      <3> QED
        BY <1>3, <3>1, DayNamed
    <2>2. Recent(d) /\ (dir[d] # None => dir'[d] = dir[d])
      BY <1>1, <1>4, <2>1 DEF Recent
    <2>3. PICK i \in DOMAIN Lines(d) : Lines(d)[i] = n
      BY <1>c, <2>2 DEF OnItsDay
    <2>4. dir[d] # None /\ dir[d] \in Inodes /\ i \in DOMAIN content[dir[d]] /\ content[dir[d]][i] = n
      BY <2>1, <2>3 DEF Lines, TypeOK
    <2>5. i \in DOMAIN content'[dir'[d]] /\ content'[dir'[d]][i] = n /\ dir'[d] # None
      BY <1>2, <2>2, <2>4
    <2> QED
      BY <2>1, <2>5 DEF OnItsDay, Lines
  <1>5. ASSUME NEW n \in DOMAIN log' \ DOMAIN log, Recent(Day(log[n]))'
        PROVE  OnItsDay(n)'
    <2>1. PICK t \in Tasks : Write(t)
      BY <1>3, <1>5
    <2> DEFINE d == Day(stamp[t])
               h == Handle(t)
    <2>2. /\ step[t] = "write"
          /\ UNCHANGED <<dir, now>>
          /\ content' = [content EXCEPT ![h] = Append(@, Len(log'))]
      BY <2>1 DEF Write, At
    <2>3. n = Len(log') /\ log'[n] = stamp[t]
      <3>1. log \in Seq(0 .. MaxTime) /\ stamp[t] \in 0 .. MaxTime /\ log' = Append(log, stamp[t])
        BY <2>1 DEF Write, TypeOK
      <3> QED
        BY <1>5, <3>1, Appended
    <2>4. d \in Names /\ Recent(d)
      BY <1>5, <2>2, <2>3, DayNamed DEF Recent, TypeOK
    <2>5. h # None /\ h = dir[d]
      <3>1. h # None /\ holds[t] \in Loggers
        BY <2>2 DEF Writers, OneWriter, TypeOK
      <3> QED
        BY <1>c, <2>2, <2>4, <3>1 DEF Current, Handle
    <2>6. h \in Inodes /\ content[h] \in Seq(Nat) /\ Len(log') \in Nat
      BY <2>4, <2>5 DEF TypeOK, Inodes
    <2>7. content'[h] = Append(content[h], Len(log'))
      BY <2>2, <2>6 DEF Inodes, TypeOK
    <2>8. Len(content[h]) + 1 \in DOMAIN content'[h] /\ content'[h][Len(content[h]) + 1] = n
      BY <2>3, <2>6, <2>7, Appended
    <2> QED
      BY <2>2, <2>3, <2>5, <2>8 DEF OnItsDay, Lines
  <1>l. ASSUME NEW l \in Loggers', loggers'[l].handle # None
        PROVE  \/ l \in Loggers /\ loggers'[l] = loggers[l]
               \/ \E t \in Tasks : Open(t) /\ l = holds[t]
    <2>1. CASE UNCHANGED loggers
      BY <2>1 DEF Loggers
    <2>2. CASE loggers' = Append(loggers, [handle |-> None, date |-> None])
      <3>1. [handle |-> None, date |-> None] \in LoggerStates /\ loggers \in Seq(LoggerStates)
        BY DEF LoggerStates, TypeOK
      <3> QED
        BY <1>l, <2>2, <3>1, Appended DEF Loggers
    <2>3. ASSUME NEW t \in Tasks, LogStep(t), SetHandle(t, None)
          PROVE  l \in Loggers /\ loggers'[l] = loggers[l]
      <3>1. holds[t] \in Loggers /\ Loggers' = Loggers
        BY <2>3, LogStepFrame
      <3>2. loggers'[holds[t]] = [handle |-> None, date |-> loggers[holds[t]].date]
        BY <2>3, <3>1, HandleSet
      <3>3. l # holds[t]
        BY <1>l, <3>2
      <3> QED
        BY <2>3, <3>1, <3>3, LogStepFrame
    <2>4. ASSUME NEW t \in Tasks, Open(t)
          PROVE  (l \in Loggers /\ loggers'[l] = loggers[l]) \/ l = holds[t]
      BY <1>l, <2>4, LogStepFrame DEF LogStep
    <2>5. ASSUME CloseRuleLoggers PROVE l \in Loggers /\ loggers'[l] = loggers[l]
      <3>1. l \in Loggers /\ loggers[l] \in LoggerStates
        BY <2>5, Updated DEF CloseRuleLoggers, TypeOK, Loggers
      <3>2. [loggers[l] EXCEPT !.handle = None].handle = None
        BY <3>1 DEF LoggerStates
      <3> QED
        BY <1>l, <2>5, <3>1, <3>2 DEF CloseRuleLoggers, Loggers
    <2> QED
      BY <1>n, <2>1, <2>2, <2>3, <2>4, <2>5 DEF Next, LogStep, GetRuleLogger, EndTask, Log,
         OpenFails, Write, Tick, vars
  <1>o. ASSUME NEW t \in Tasks, Open(t)
        PROVE  /\ loggers'[holds[t]] = [handle |-> dir'[Day(stamp[t])], date |-> Day(stamp[t])]
               /\ Day(stamp[t]) \in 0 .. Day(MaxTime)
    <2>1. holds[t] \in Loggers /\ FileOf(t) = Day(stamp[t])
      BY <1>0, <1>o, LogStepFrame DEF LogStep, FileOf
    <2>2. Day(stamp[t]) \in 0 .. Day(MaxTime)
      BY DayNamed DEF TypeOK
    <2> QED
      BY <1>0, <1>o, <2>1, <2>2 DEF Open, Loggers, TypeOK
  <1>6. ASSUME NEW l \in Loggers', loggers'[l].handle # None
        PROVE  /\ loggers'[l].date \in 0 .. Day(MaxTime)
               /\ Recent(loggers[l].date)' => loggers'[l].handle = dir'[loggers'[l].date]
    <2>1. CASE l \in Loggers /\ loggers'[l] = loggers[l]
      <3> DEFINE d == loggers[l].date
      <3>1. /\ d \in 0 .. Day(MaxTime)
            /\ Recent(d) => loggers[l].handle = dir[d]
        BY <1>c, <1>6, <2>1 DEF Current
      <3>2. Recent(loggers[l].date)' => Recent(d) /\ (dir[d] # None => dir'[d] = dir[d])
        BY <1>1, <2>1, <3>1 DEF Recent
      <3> QED
        BY <1>6, <2>1, <3>1, <3>2
    <2>2. CASE \E t \in Tasks : Open(t) /\ l = holds[t]
      <3>1. PICK t \in Tasks : Open(t) /\ l = holds[t]
        BY <2>2
      <3>2. loggers'[l] = [handle |-> dir'[Day(stamp[t])], date |-> Day(stamp[t])]
        BY <1>o, <3>1
      <3> QED
        BY <1>o, <3>1, <3>2
    <2> QED
      BY <1>6, <1>l, <2>1, <2>2
  <1>7. ASSUME NEW u \in Tasks, step'[u] = "write"
        PROVE  loggers'[holds'[u]].date = Day(stamp'[u])
    <2>1. CASE LogStep(u)
      <3>1. UNCHANGED holds /\ holds[u] \in Loggers /\ (\A s : GoTo(u, s) => step'[u] = s)
        BY <2>1, LogStepFrame DEF GoTo, TypeOK
      <3>2. CASE Log(u)
        <4>1. ~ NewDay(u) /\ UNCHANGED loggers /\ stamp'[u] = now
          BY <1>0, <1>7, <3>1, <3>2 DEF Log, TypeOK
        <4> QED
          BY <3>1, <4>1 DEF NewDay
      <3>3. CASE Open(u)
        <4>1. UNCHANGED stamp
          BY <3>3 DEF Open
        <4>2. loggers'[holds[u]] = [handle |-> dir'[Day(stamp[u])], date |-> Day(stamp[u])]
          BY <1>o, <3>3
        <4> QED
          BY <3>1, <4>1, <4>2
      <3> QED
        BY <1>7, <1>n, <2>1, <3>1, <3>2, <3>3 DEF LogStep, OpenFails, Write, Done
    <2>2. CASE ~ LogStep(u)
      <3>1. step[u] = "write" /\ stamp'[u] = stamp[u] /\ holds'[u] = holds[u]
        <4>1. ASSUME NEW t \in Tasks, LogStep(t)
              PROVE  step'[u] = step[u] /\ stamp'[u] = stamp[u] /\ holds'[u] = holds[u]
          <5>1. u # t
            BY <2>2, <4>1
          <5>2. stamp'[u] = stamp[u]
            BY <4>1, <5>1 DEF LogStep, Log, RemoveRotated, Rename, Open, OpenFails, Write, Done, TypeOK
          <5> QED
            BY <4>1, <5>1, <5>2, LogStepFrame
        <4>2. ASSUME NEW t \in Tasks, \E c \in Configs : GetRuleLogger(t, c)
              PROVE  UNCHANGED <<step, stamp>> /\ (step[u] = "write" => holds'[u] = holds[u])
          <5>1. step[t] = "idle" /\ UNCHANGED <<step, stamp>>
            BY <4>2 DEF GetRuleLogger, Writers
          <5> QED
            BY <4>2, <5>1 DEF GetRuleLogger, TypeOK
        <4>3. ASSUME NEW t \in Tasks, EndTask(t)
              PROVE  UNCHANGED <<step, stamp>> /\ (step[u] = "write" => holds'[u] = holds[u])
          BY <4>3 DEF EndTask, TypeOK
        <4> QED
          BY <1>7, <4>1, <4>2, <4>3 DEF Next, CloseRuleLoggers, Tick, vars
      <3>2. holds[u] \in Loggers /\ Locked(holds[u])
        BY <3>1 DEF Writers, TypeOK, Locked
      <3>3. loggers'[holds[u]] = loggers[holds[u]]
        <4>1. ASSUME NEW t \in Tasks, LogStep(t) PROVE holds[u] # holds[t]
          <5>1. u # t
            BY <2>2, <4>1
          <5>2. CASE step[t] = "idle"
            BY <3>2, <4>1, <5>2 DEF LogStep, Log, RemoveRotated, Rename, Open, OpenFails, Write, At
          <5>3. CASE step[t] # "idle"
            BY <3>1, <5>1, <5>3 DEF Writers, OneWriter
          <5> QED
            BY <5>2, <5>3
        <4>2. ASSUME NEW t \in Tasks, LogStep(t) PROVE loggers'[holds[u]] = loggers[holds[u]]
          BY <3>2, <4>1, <4>2, LogStepFrame
        <4>3. ASSUME loggers' = Append(loggers, [handle |-> None, date |-> None])
              PROVE  loggers'[holds[u]] = loggers[holds[u]]
          <5>1. [handle |-> None, date |-> None] \in LoggerStates /\ loggers \in Seq(LoggerStates)
            BY DEF LoggerStates, TypeOK
          <5> QED
            BY <3>2, <4>3, <5>1, Appended DEF Loggers
        <4>4. ASSUME CloseRuleLoggers PROVE loggers'[holds[u]] = loggers[holds[u]]
          BY <3>2, <4>4 DEF CloseRuleLoggers, Loggers
        <4> QED
          BY <4>2, <4>3, <4>4 DEF Next, GetRuleLogger, EndTask, Tick, vars
      <3> QED
        BY <1>c, <3>1, <3>3 DEF Current
    <2> QED
      BY <2>1, <2>2
  <1> QED
    BY <1>4, <1>5, <1>6, <1>7 DEF Current

-----------------------------------------------------------------------------
(* The theorems. *)

(* Every name and every open handle stands for a file that was made. *)
THEOREM TypeCorrect == Spec => []TypeOK
  <1>1. Init => TypeOK /\ Writers
    BY TypeInit DEF Init, Writers, OneWriter
  <1>2. TypeOK /\ Writers /\ [Next]_vars => TypeOK' /\ Writers'
    BY TypeStep, WritersStep
  <1> QED
    BY <1>1, <1>2, PTL DEF Spec

(* A logger is in the middle of one line at most (its mutex), and the line *)
(* has a file to go to when it is written.                                 *)
THEOREM Exclusive == Spec => []OneWriter
  <1>1. Init => TypeOK /\ Writers
    BY TypeInit DEF Init, Writers, OneWriter
  <1>2. TypeOK /\ Writers /\ [Next]_vars => TypeOK' /\ Writers'
    BY TypeStep, WritersStep
  <1>3. Writers => OneWriter
    BY DEF Writers
  <1> QED
    BY <1>1, <1>2, <1>3, PTL DEF Spec

(* In mode "single" the rotated file and the file hold the lines written   *)
(* last, for every size limit and through every failed rename or open,     *)
(* until two loggers have the file open.                                   *)
THEOREM TailIsNotLost == Spec => []TailKept
  <1>1. Init => TypeOK /\ Writers /\ SoleTail
    <2> SUFFICES ASSUME Init PROVE SoleTail
      BY TypeInit DEF Init, Writers, OneWriter
    <2>1. Lines(Base) = <<>> /\ Lines(Rotated) = <<>> /\ log = <<>>
      BY DEF Init, Lines, Names
    <2>2. dir[Base] = None
      BY DEF Init, Names
    <2>3. Sole
      BY <2>2 DEF Init, Sole, Active, Locked, Loggers
    <2>4. LastLines
      BY <2>1 DEF LastLines
    <2> QED
      BY <2>3, <2>4 DEF SoleTail
  <1>2. TypeOK /\ Writers /\ SoleTail /\ [Next]_vars => (TypeOK /\ Writers /\ SoleTail)'
    BY TypeStep, WritersStep, SoleTailStep
  <1>3. TypeOK /\ SoleTail => TailKept
    BY TailIsKept
  <1> QED
    BY <1>1, <1>2, <1>3, PTL DEF Spec

(* In mode "daily" the lines of the last retention_days days are in the    *)
(* files of their days, for every number of days and every length of a     *)
(* day, on hosts that are not to the west of UTC.                          *)
THEOREM DaysAreKept == ASSUME Zones \subseteq Nat PROVE Spec => []DaysKept
  <1>1. Init => TypeOK /\ Writers /\ DaysInv
    <2> SUFFICES ASSUME Init PROVE DaysInv
      BY TypeInit DEF Init, Writers, OneWriter
    <2> QED
      BY DEF Init, DaysInv, Current, Loggers
  <1>2. TypeOK /\ Writers /\ DaysInv /\ [Next]_vars => (TypeOK /\ Writers /\ DaysInv)'
    BY TypeStep, WritersStep, DaysStep
  <1>3. DaysInv => DaysKept
    BY DEF DaysInv, DaysKept, Recent, OnItsDay
  <1> QED
    BY <1>1, <1>2, <1>3, PTL DEF Spec

=============================================================================
