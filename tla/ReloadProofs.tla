---------------------------- MODULE ReloadProofs ----------------------------
(***************************************************************************)
(* What holds of hot reload for any number of reloading goroutines, of     *)
(* requests and of edits.                                                  *)
(***************************************************************************)
EXTENDS Reload, TLAPS

(* A configuration is what some edit left in each of the two files. *)
LEMMA ConfigType ==
    /\ First \in Config
    /\ \A c \in Config : c.global \in Contents /\ c.rules \in Contents
    /\ \A c \in Config, n \in Contents :
          [c EXCEPT !.global = n] \in Config /\ [c EXCEPT !.rules = n] \in Config
BY EditsAssumption DEF First, Config, Contents

(* An edit puts new contents, good or broken, into one file. *)
LEMMA EditStep ==
    ASSUME TypeOK, NEW file \in {"global", "rules"}, Edit(file)
    PROVE  /\ edits \in Nat /\ edits' = edits + 1
           /\ broken \subseteq 1 .. edits /\ broken' \subseteq 1 .. edits'
           /\ broken' \subseteq broken \cup {edits + 1}
           /\ edits + 1 \in Contents /\ edits' \in 0 .. MaxEdits
           /\ \/ disk'.global = edits + 1 /\ disk'.rules = disk.rules
              \/ disk'.global = disk.global /\ disk'.rules = edits + 1
           /\ disk' \in Config
<1>1. edits \in 0 .. MaxEdits /\ broken \subseteq 1 .. edits /\ disk \in Config
  BY DEF TypeOK
<1>2. /\ edits < MaxEdits /\ edits' = edits + 1
      /\ broken' \in {broken, broken \cup {edits + 1}}
      /\ disk' = [disk EXCEPT ![file] = edits + 1]
  BY DEF Edit
<1>3. edits \in Nat /\ edits' = edits + 1 /\ broken \subseteq 1 .. edits
  BY <1>1, <1>2, EditsAssumption
<1>4. broken' \subseteq broken \cup {edits + 1}
  BY <1>2
<1>5. edits + 1 \in Contents /\ edits' \in 0 .. MaxEdits
  BY <1>1, <1>2, EditsAssumption DEF Contents
<1>6. /\ \/ disk'.global = edits + 1 /\ disk'.rules = disk.rules
         \/ disk'.global = disk.global /\ disk'.rules = edits + 1
      /\ disk' \in Config
  <2>1. CASE file = "global"
    <3>1. disk' = [disk EXCEPT !.global = edits + 1]
      BY <1>2, <2>1
    <3> QED  BY <1>1, <1>5, <3>1 DEF Config
  <2>2. CASE file = "rules"
    <3>1. disk' = [disk EXCEPT !.rules = edits + 1]
      BY <1>2, <2>2
    <3> QED  BY <1>1, <1>5, <3>1 DEF Config
  <2> QED  BY <2>1, <2>2
<1>7. 1 .. edits \subseteq 1 .. edits + 1 /\ edits + 1 \in 1 .. edits + 1
  BY <1>3
<1> QED  BY <1>2, <1>3, <1>4, <1>7, <1>5, <1>6

LEMMA InitType == Init => TypeOK
BY ConfigType, EditsAssumption DEF Init, TypeOK, NoneWaits, Contents

(* Types are kept by every step. *)
LEMMA NextType == TypeOK /\ [Next]_vars => TypeOK'
<1> SUFFICES ASSUME TypeOK, [Next]_vars
             PROVE  TypeOK'
  OBVIOUS
<1> USE ConfigType DEF files, copies, requests, reloading
<1>1. ASSUME NEW file \in {"global", "rules"}, Edit(file) PROVE TypeOK'
  <2>1. UNCHANGED <<reloading, copies, requests, overlaps>>
    BY <1>1 DEF Edit
  <2> QED  BY <1>1, <2>1, EditStep DEF TypeOK
<1>2. ASSUME NEW r \in Reloaders, Ask(r) PROVE TypeOK'
  BY <1>2 DEF Ask, TypeOK
<1>3. ASSUME NEW r \in Reloaders, Begin(r) PROVE TypeOK'
  BY <1>3 DEF Begin, At, TypeOK
<1>4. ASSUME NEW r \in Reloaders, RemoveSignal(r) PROVE TypeOK'
  BY <1>4 DEF RemoveSignal, At, TypeOK
<1>5. ASSUME NEW r \in Reloaders, LoadGlobal(r) PROVE TypeOK'
  <2>1. 0 \in Contents
    BY EditsAssumption DEF Contents
  <2> QED  BY <1>5, <2>1 DEF LoadGlobal, At, Failed, TypeOK
<1>6. ASSUME NEW r \in Reloaders, LoadRules(r) PROVE TypeOK'
  BY <1>6 DEF LoadRules, At, Failed, TypeOK
<1>7. ASSUME NEW r \in Reloaders, Publish(r) PROVE TypeOK'
  BY <1>7 DEF Publish, At, TypeOK
<1>8. ASSUME NEW r \in Reloaders, CloseRuleLoggers(r) PROVE TypeOK'
  BY <1>8 DEF CloseRuleLoggers, At, TypeOK
<1>9. ASSUME NEW r \in Reloaders, FetchRules(r) PROVE TypeOK'
  BY <1>9 DEF FetchRules, At, TypeOK
<1>10. ASSUME NEW r \in Reloaders, UpdateConfigs(r) PROVE TypeOK'
  <2>1. 0 \in Contents
    BY EditsAssumption DEF Contents
  <2> QED  BY <1>10, <2>1 DEF UpdateConfigs, At, TypeOK
<1>11. ASSUME NEW r \in Reloaders, WriteStatus(r) PROVE TypeOK'
  BY <1>11 DEF WriteStatus, At, TypeOK
<1>12. ASSUME NEW h \in Handlers, Copy(h) PROVE TypeOK'
  <2>1. PICK rules \in {engine, manager.rules} : snapshot' = [snapshot EXCEPT ![h] = rules]
    BY <1>12 DEF Copy
  <2>2. rules \in Contents
    BY DEF TypeOK
  <2>3. snapshot' \in [Handlers -> Contents \cup {None}]
    BY <2>1, <2>2 DEF TypeOK
  <2>4. overlaps' \subseteq {"reload", "request"}
    BY <1>12 DEF Copy, TypeOK
  <2>5. UNCHANGED <<files, reloading, copies, cached, answered>>
    BY <1>12 DEF Copy
  <2> QED  BY <2>3, <2>4, <2>5 DEF TypeOK
<1>13. ASSUME NEW h \in Handlers, GetRuleLogger(h) PROVE TypeOK'
  BY <1>13 DEF GetRuleLogger, TypeOK
<1>14. CASE UNCHANGED vars
  BY <1>14 DEF vars, TypeOK
<1> QED
  BY <1>1, <1>2, <1>3, <1>4, <1>5, <1>6, <1>7, <1>8, <1>9, <1>10, <1>11, <1>12,
     <1>13, <1>14
  DEF Next, ReloadStep

(* Files, copies and reloaders are well typed. *)
THEOREM TypeCorrect == Spec => []TypeOK
BY InitType, NextType, PTL DEF Spec

-----------------------------------------------------------------------------
(* The manager: what has been read by a load that is still good is loaded  *)
(* contents, which no later edit can break.                                *)
Good(n) == n \in 0 .. edits /\ n \notin broken

WInv ==
    /\ disk.global \in 0 .. edits /\ disk.rules \in 0 .. edits
    /\ manager \in loads
    /\ \A c \in loads : Good(c.global) /\ Good(c.rules)
    /\ \A r \in Reloaders :
          /\ pc[r] \in {"load rules", "publish"} => Good(read[r].global)
          /\ pc[r] = "publish" => Good(read[r].rules)

(* Contents that were loaded stay good through later edits. *)
LEMMA GoodStays ==
    ASSUME TypeOK, NEW file \in {"global", "rules"}, Edit(file), NEW n, Good(n)
    PROVE  Good(n)'
BY EditStep DEF Good

(* Steps that leave files, manager and what is read alone, and go neither  *)
(* to "load rules" nor to "publish".                                       *)
LEMMA WInvKept ==
    ASSUME WInv, UNCHANGED <<files, manager, loads, read>>,
           \A r \in Reloaders : pc'[r] \in {"load rules", "publish"} => pc'[r] = pc[r]
    PROVE  WInv'
BY DEF WInv, Good, files

(* WInv is kept by every step. *)
LEMMA NextWInv == ASSUME TypeOK, WInv, [Next]_vars PROVE WInv'
<1>1. ASSUME NEW file \in {"global", "rules"}, Edit(file) PROVE WInv'
  <2>1. UNCHANGED <<pc, read, manager, loads>>
    BY <1>1 DEF Edit, reloading, copies
  <2>2. disk'.global \in {disk.global, edits + 1} /\ disk'.rules \in {disk.rules, edits + 1}
    BY <1>1, EditStep
  <2>3. disk'.global \in 0 .. edits' /\ disk'.rules \in 0 .. edits'
    <3>1. edits \in Nat /\ edits' = edits + 1
      BY <1>1, EditStep
    <3>2. disk.global \in 0 .. edits /\ disk.rules \in 0 .. edits
      BY DEF WInv
    <3> QED  BY <2>2, <3>1, <3>2
  <2>4. ASSUME NEW n, Good(n) PROVE Good(n)'
    BY <1>1, <2>4, GoodStays
  <2> QED  BY <2>1, <2>3, <2>4 DEF WInv
<1>2. ASSUME NEW r \in Reloaders, LoadGlobal(r) PROVE WInv'
  <2>1. /\ UNCHANGED <<disk, broken, edits, manager, loads>>
        /\ read' = [read EXCEPT ![r].global = IF disk.global \in broken THEN 0 ELSE disk.global]
        /\ pc' = [pc EXCEPT ![r] = IF disk.global \in broken THEN Failed(r) ELSE "load rules"]
    BY <1>2 DEF LoadGlobal, At, files, copies
  <2>2. pc'[r] = "load rules" => Good(disk.global) /\ read'[r].global = disk.global
    BY <2>1 DEF Failed, WInv, Good, TypeOK, Config
  <2>3. pc'[r] # "publish"
    BY <2>1 DEF Failed, TypeOK
  <2>4. \A q \in Reloaders \ {r} : pc'[q] = pc[q] /\ read'[q] = read[q]
    BY <2>1 DEF TypeOK
  <2>5. \A n : Good(n)' <=> Good(n)
    BY <2>1 DEF Good
  <2> QED  BY <2>1, <2>2, <2>3, <2>4, <2>5 DEF WInv
<1>3. ASSUME NEW r \in Reloaders, LoadRules(r) PROVE WInv'
  <2>1. /\ UNCHANGED <<disk, broken, edits, manager, loads>>
        /\ pc[r] = "load rules"
        /\ pc' = [pc EXCEPT ![r] = IF disk.rules \in broken THEN Failed(r) ELSE "publish"]
        /\ read' = [read EXCEPT ![r] =
                      IF disk.rules \in broken THEN First ELSE [@ EXCEPT !.rules = disk.rules]]
    BY <1>3 DEF LoadRules, At, files, copies
  <2>2. pc'[r] = "publish" =>
            /\ Good(disk.rules) /\ read'[r].rules = disk.rules
            /\ read'[r].global = read[r].global
    BY <2>1 DEF Failed, WInv, Good, TypeOK, Config
  <2>3. pc'[r] # "load rules"
    BY <2>1 DEF Failed, TypeOK
  <2>4. \A q \in Reloaders \ {r} : pc'[q] = pc[q] /\ read'[q] = read[q]
    BY <2>1 DEF TypeOK
  <2>5. \A n : Good(n)' <=> Good(n)
    BY <2>1 DEF Good
  <2> QED  BY <2>1, <2>2, <2>3, <2>4, <2>5 DEF WInv
<1>4. ASSUME NEW r \in Reloaders, Publish(r) PROVE WInv'
  <2>1. /\ UNCHANGED <<disk, broken, edits>>
        /\ pc[r] = "publish" /\ pc' = [pc EXCEPT ![r] = "close loggers"]
        /\ manager' = read[r] /\ loads' = loads \cup {read[r]}
        /\ read' = [read EXCEPT ![r] = First]
    BY <1>4 DEF Publish, At, files
  <2>2. Good(read[r].global) /\ Good(read[r].rules)
    BY <2>1 DEF WInv
  <2>3. pc'[r] = "close loggers"
    BY <2>1 DEF TypeOK
  <2>4. \A q \in Reloaders \ {r} : pc'[q] = pc[q] /\ read'[q] = read[q]
    BY <2>1 DEF TypeOK
  <2>5. \A n : Good(n)' <=> Good(n)
    BY <2>1 DEF Good
  <2> QED  BY <2>1, <2>2, <2>3, <2>4, <2>5 DEF WInv
<1>5. ASSUME NEW r \in Reloaders,
             \/ Ask(r) \/ Begin(r) \/ RemoveSignal(r) \/ CloseRuleLoggers(r)
             \/ FetchRules(r) \/ UpdateConfigs(r) \/ WriteStatus(r)
      PROVE  WInv'
  <2>1. UNCHANGED <<files, manager, loads, read>>
    BY <1>5 DEF Ask, Begin, RemoveSignal, CloseRuleLoggers, FetchRules, UpdateConfigs,
                WriteStatus, copies
  <2>2. \A q \in Reloaders : pc'[q] \in {"load rules", "publish"} => pc'[q] = pc[q]
    BY <1>5 DEF Ask, Begin, RemoveSignal, CloseRuleLoggers, FetchRules, UpdateConfigs,
                WriteStatus, At, TypeOK
  <2> QED  BY <2>1, <2>2, WInvKept
<1>6. ASSUME NEW h \in Handlers, Copy(h) \/ GetRuleLogger(h) PROVE WInv'
  BY <1>6, WInvKept DEF Copy, GetRuleLogger, reloading, copies
<1>7. CASE UNCHANGED vars
  BY <1>7, WInvKept DEF vars, reloading, copies
<1> QED  BY <1>1, <1>2, <1>3, <1>4, <1>5, <1>6, <1>7 DEF Next, ReloadStep

(* "a failed reload keeps global and rules consistent": the manager holds  *)
(* what one successful load has read, however loads and edits interleave.  *)
THEOREM WholeManager == Spec => []ManagerWhole
<1>1. Init => WInv
  BY DEF Init, WInv, Good, First
<1>2. WInv => ManagerWhole
  BY DEF WInv, ManagerWhole, Good
<1> QED  BY <1>1, <1>2, NextWInv, TypeCorrect, PTL DEF Spec

-----------------------------------------------------------------------------
(* The engine: as long as no two reloads have run together, the rules that *)
(* are published, fetched and installed are those of one reload.           *)
Installing == {"close loggers", "fetch", "update"}

Alone == \A q, r \in Reloaders : pc[q] # "idle" /\ pc[r] # "idle" => q = r

FInv ==
    "reload" \notin overlaps =>
        /\ Alone
        /\ (\A r \in Reloaders : pc[r] \notin Installing) => engine = manager.rules
        /\ \A r \in Reloaders : pc[r] = "update" => fetched[r] = manager.rules

(* FInv is kept by every step. *)
LEMMA NextFInv == ASSUME TypeOK, FInv, [Next]_vars PROVE FInv'
<1>1. CASE "reload" \in overlaps
  <2>1. overlaps \subseteq overlaps'
    BY DEF Next, ReloadStep, Edit, Ask, Begin, RemoveSignal, LoadGlobal, LoadRules,
           Publish, CloseRuleLoggers, FetchRules, UpdateConfigs, WriteStatus, Copy,
           GetRuleLogger, vars
  <2> QED  BY <1>1, <2>1 DEF FInv
<1>2. CASE "reload" \notin overlaps
  <2>1. /\ Alone
        /\ (\A r \in Reloaders : pc[r] \notin Installing) => engine = manager.rules
        /\ \A r \in Reloaders : pc[r] = "update" => fetched[r] = manager.rules
    BY <1>2 DEF FInv
  <2>2. ASSUME NEW r \in Reloaders, Begin(r) PROVE FInv'
    <3>1. CASE Quiet
      <4>1. /\ UNCHANGED <<fetched, manager, engine>>
            /\ pc'[r] \in {"remove", "load global"}
            /\ \A q \in Reloaders \ {r} : pc'[q] = "idle" /\ pc[q] = "idle"
        BY <2>2, <3>1 DEF Begin, At, Quiet, TypeOK, copies
      <4> QED  BY <2>1, <3>1, <4>1 DEF FInv, Alone, Quiet, Installing
    <3>2. CASE ~ Quiet
      BY <2>2, <3>2 DEF Begin, FInv
    <3> QED  BY <3>1, <3>2
  <2>3. ASSUME NEW r \in Reloaders,
               \/ RemoveSignal(r) \/ LoadGlobal(r) \/ LoadRules(r) \/ WriteStatus(r)
        PROVE  FInv'
    <3>1. /\ UNCHANGED <<fetched, manager, engine>>
          /\ pc[r] # "idle" /\ pc[r] \notin Installing /\ pc'[r] \notin Installing
          /\ \A q \in Reloaders \ {r} : pc'[q] = pc[q]
      BY <2>3 DEF RemoveSignal, LoadGlobal, LoadRules, WriteStatus, At, Failed,
                  Installing, TypeOK, copies
    <3> QED  BY <2>1, <3>1 DEF FInv, Alone, Installing
  <2>4. ASSUME NEW r \in Reloaders, Publish(r) PROVE FInv'
    <3>1. /\ pc[r] = "publish" /\ pc'[r] = "close loggers"
          /\ \A q \in Reloaders \ {r} : pc'[q] = pc[q]
      BY <2>4 DEF Publish, At, TypeOK
    <3>2. \A q \in Reloaders \ {r} : pc'[q] = "idle"
      BY <2>1, <3>1 DEF Alone
    <3> QED  BY <3>1, <3>2 DEF FInv, Alone, Installing
  <2>5. ASSUME NEW r \in Reloaders, CloseRuleLoggers(r) PROVE FInv'
    <3>1. /\ UNCHANGED <<fetched, manager, engine>>
          /\ pc[r] = "close loggers" /\ pc'[r] = "fetch"
          /\ \A q \in Reloaders \ {r} : pc'[q] = pc[q]
      BY <2>5 DEF CloseRuleLoggers, At, TypeOK, copies
    <3> QED  BY <2>1, <3>1 DEF FInv, Alone, Installing
  <2>6. ASSUME NEW r \in Reloaders, FetchRules(r) PROVE FInv'
    <3>1. /\ UNCHANGED <<manager, engine>>
          /\ fetched'[r] = manager.rules
          /\ pc[r] = "fetch" /\ pc'[r] = "update"
          /\ \A q \in Reloaders \ {r} : pc'[q] = pc[q] /\ fetched'[q] = fetched[q]
      BY <2>6 DEF FetchRules, At, TypeOK, copies
    <3> QED  BY <2>1, <3>1 DEF FInv, Alone, Installing
  <2>7. ASSUME NEW r \in Reloaders, UpdateConfigs(r) PROVE FInv'
    <3>1. /\ manager' = manager /\ engine' = fetched[r]
          /\ pc[r] = "update" /\ pc'[r] \in {"write status", "idle"}
          /\ \A q \in Reloaders \ {r} : pc'[q] = pc[q]
      BY <2>7 DEF UpdateConfigs, At, TypeOK
    <3>2. engine' = manager'.rules
      BY <2>1, <3>1
    <3>3. \A q \in Reloaders \ {r} : pc'[q] = "idle"
      BY <2>1, <3>1 DEF Alone
    <3> QED  BY <3>1, <3>2, <3>3 DEF FInv, Alone, Installing
  <2>8. ASSUME UNCHANGED <<pc, fetched, manager, engine>> PROVE FInv'
    BY <2>1, <2>8 DEF FInv, Alone
  <2>9. ASSUME NEW file \in {"global", "rules"}, Edit(file)
        PROVE  UNCHANGED <<pc, fetched, manager, engine>>
    BY <2>9 DEF Edit, reloading, copies
  <2>10. ASSUME NEW r \in Reloaders, Ask(r)
         PROVE  UNCHANGED <<pc, fetched, manager, engine>>
    BY <2>10 DEF Ask, copies
  <2>11. ASSUME NEW h \in Handlers, Copy(h) \/ GetRuleLogger(h)
         PROVE  UNCHANGED <<pc, fetched, manager, engine>>
    BY <2>11 DEF Copy, GetRuleLogger, reloading, copies
  <2>12. CASE UNCHANGED vars
    BY <2>8, <2>12 DEF vars, reloading, copies
  <2> QED
    BY <2>2, <2>3, <2>4, <2>5, <2>6, <2>7, <2>8, <2>9, <2>10, <2>11, <2>12
    DEF Next, ReloadStep
<1> QED  BY <1>1, <1>2

(* "After reload, new rules take effect immediately": between reloads that *)
(* did not run together the engine works by the rules of the manager.      *)
THEOREM EngineInStep == Spec => []EngineFollows
<1>1. Init => FInv
  BY DEF Init, FInv, Alone, First
<1>2. FInv => EngineFollows
  BY DEF FInv, EngineFollows, Quiet, Installing
<1> QED  BY <1>1, <1>2, NextFInv, TypeCorrect, PTL DEF Spec

-----------------------------------------------------------------------------
(* The rule logger.  As long as nothing has run during a reload, a request *)
(* is under way only between reloads, so the loggers that are closed and   *)
(* the rules that are installed after that find none that could cache the  *)
(* logger of the old rules in between.                                     *)
LInv ==
    overlaps = {} =>
        /\ Quiet \/ snapshot = NoneWaits
        /\ \A h \in Handlers : snapshot[h] \in {None, engine}
        /\ (\A r \in Reloaders : pc[r] # "close loggers") => cached \in {None, engine}
        /\ \A r \in Reloaders : pc[r] \in {"fetch", "update"} => cached = None

(* What has run together is never forgotten. *)
LEMMA OverlapsGrow == [Next]_vars => overlaps \subseteq overlaps'
BY DEF Next, ReloadStep, Edit, Ask, Begin, RemoveSignal, LoadGlobal, LoadRules,
       Publish, CloseRuleLoggers, FetchRules, UpdateConfigs, WriteStatus, Copy,
       GetRuleLogger, vars

(* LInv is kept by every step. *)
LEMMA NextLInv == ASSUME TypeOK, FInv, LInv, [Next]_vars PROVE LInv'
<1> SUFFICES ASSUME overlaps' = {} PROVE LInv'
  BY DEF LInv
<1>0. overlaps = {}
  BY OverlapsGrow
<1>1. /\ Quiet \/ snapshot = NoneWaits
      /\ \A h \in Handlers : snapshot[h] \in {None, engine}
      /\ (\A r \in Reloaders : pc[r] # "close loggers") => cached \in {None, engine}
      /\ \A r \in Reloaders : pc[r] \in {"fetch", "update"} => cached = None
  BY <1>0 DEF LInv
<1>2. /\ Alone
      /\ (\A r \in Reloaders : pc[r] \notin Installing) => engine = manager.rules
      /\ \A r \in Reloaders : pc[r] = "update" => fetched[r] = manager.rules
  BY <1>0 DEF FInv
<1>3. ASSUME NEW r \in Reloaders, Begin(r) PROVE LInv'
  <2>1. Quiet /\ snapshot = NoneWaits
    BY <1>3 DEF Begin
  <2>2. /\ UNCHANGED <<snapshot, cached, engine>>
        /\ pc'[r] \in {"remove", "load global"}
        /\ \A q \in Reloaders \ {r} : pc'[q] = pc[q]
    BY <1>3 DEF Begin, At, TypeOK, copies, requests
  <2> QED  BY <1>1, <2>1, <2>2 DEF LInv, Quiet, NoneWaits
<1>4. ASSUME NEW r \in Reloaders,
             \/ RemoveSignal(r) \/ LoadGlobal(r) \/ LoadRules(r) \/ WriteStatus(r)
      PROVE  LInv'
  <2>1. /\ UNCHANGED <<snapshot, cached, engine>>
        /\ pc[r] \notin {"idle", "close loggers", "fetch", "update"}
        /\ pc'[r] \notin {"close loggers", "fetch", "update"}
        /\ \A q \in Reloaders \ {r} : pc'[q] = pc[q]
    BY <1>4 DEF RemoveSignal, LoadGlobal, LoadRules, WriteStatus, At, Failed, TypeOK,
                copies, requests
  <2>2. snapshot = NoneWaits
    BY <1>1, <2>1 DEF Quiet
  <2> QED  BY <1>1, <2>1, <2>2 DEF LInv, NoneWaits
<1>5. ASSUME NEW r \in Reloaders, Publish(r) PROVE LInv'
  <2>1. /\ UNCHANGED <<snapshot, cached, engine>>
        /\ pc[r] = "publish" /\ pc'[r] = "close loggers"
        /\ \A q \in Reloaders \ {r} : pc'[q] = pc[q]
    BY <1>5 DEF Publish, At, TypeOK, requests
  <2>2. snapshot = NoneWaits
    BY <1>1, <2>1 DEF Quiet
  <2> QED  BY <1>1, <2>1, <2>2 DEF LInv, NoneWaits
<1>6. ASSUME NEW r \in Reloaders, CloseRuleLoggers(r) PROVE LInv'
  <2>1. /\ UNCHANGED <<snapshot, engine>> /\ cached' = None
        /\ pc[r] = "close loggers"
    BY <1>6 DEF CloseRuleLoggers, At, copies
  <2>2. snapshot = NoneWaits
    BY <1>1, <2>1 DEF Quiet
  <2> QED  BY <1>1, <2>1, <2>2 DEF LInv, NoneWaits
<1>7. ASSUME NEW r \in Reloaders, FetchRules(r) PROVE LInv'
  <2>1. /\ UNCHANGED <<snapshot, cached, engine>>
        /\ pc[r] = "fetch" /\ pc'[r] = "update"
        /\ \A q \in Reloaders \ {r} : pc'[q] = pc[q]
    BY <1>7 DEF FetchRules, At, TypeOK, copies, requests
  <2>2. snapshot = NoneWaits /\ cached = None
    BY <1>1, <2>1 DEF Quiet
  <2> QED  BY <1>1, <2>1, <2>2 DEF LInv, NoneWaits
<1>8. ASSUME NEW r \in Reloaders, UpdateConfigs(r) PROVE LInv'
  <2>1. /\ UNCHANGED <<snapshot, cached>>
        /\ pc[r] = "update"
    BY <1>8 DEF UpdateConfigs, At, requests
  <2>2. snapshot = NoneWaits /\ cached = None
    BY <1>1, <2>1 DEF Quiet
  <2> QED  BY <1>1, <2>1, <2>2 DEF LInv, NoneWaits
<1>9. ASSUME NEW h \in Handlers, Copy(h) PROVE LInv'
  <2>1. Quiet /\ UNCHANGED <<pc, engine, cached>>
    BY <1>9 DEF Copy, reloading, copies
  <2>2. engine = manager.rules
    BY <1>2, <2>1 DEF Quiet, Installing
  <2>3. snapshot' = [snapshot EXCEPT ![h] = engine]
    BY <1>9, <2>2 DEF Copy
  <2>4. \A g \in Handlers : snapshot'[g] \in {None, engine'}
    BY <1>1, <2>1, <2>3 DEF TypeOK
  <2> QED  BY <1>1, <2>1, <2>4 DEF LInv, Quiet
<1>10. ASSUME NEW h \in Handlers, GetRuleLogger(h) PROVE LInv'
  <2>1. /\ UNCHANGED <<pc, engine>>
        /\ snapshot[h] # None
        /\ cached' = IF cached = None THEN snapshot[h] ELSE cached
        /\ snapshot' = [snapshot EXCEPT ![h] = None]
    BY <1>10 DEF GetRuleLogger, reloading, copies
  <2>2. Quiet
    BY <1>1, <2>1 DEF NoneWaits
  <2>3. cached' \in {None, engine'}
    BY <1>1, <2>1, <2>2 DEF Quiet
  <2>4. \A g \in Handlers : snapshot'[g] \in {None, engine'}
    BY <1>1, <2>1 DEF TypeOK
  <2> QED  BY <2>1, <2>2, <2>3, <2>4 DEF LInv, Quiet
<1>11. ASSUME UNCHANGED <<pc, snapshot, cached, engine>> PROVE LInv'
  BY <1>1, <1>11 DEF LInv, Quiet, NoneWaits
<1>12. ASSUME NEW file \in {"global", "rules"}, Edit(file) PROVE LInv'
  BY <1>11, <1>12 DEF Edit, reloading, copies, requests
<1>13. ASSUME NEW r \in Reloaders, Ask(r) PROVE LInv'
  BY <1>11, <1>13 DEF Ask, copies, requests
<1>14. CASE UNCHANGED vars
  BY <1>11, <1>14 DEF vars, reloading, copies, requests
<1> QED
  BY <1>3, <1>4, <1>5, <1>6, <1>7, <1>8, <1>9, <1>10, <1>12, <1>13, <1>14
  DEF Next, ReloadStep

(* The rule logger that is cached between reloads writes where the rules   *)
(* in effect say, for any number of reloads and requests of which none ran *)
(* into another: CloseRuleLoggers comes before UpdateConfigs, so a request *)
(* in between would cache the logger of the old rules.                     *)
THEOREM LoggersFollow == Spec => []LoggerCurrent
<1>1. Init => FInv /\ LInv
  BY DEF Init, FInv, LInv, Alone, Quiet, First, NoneWaits
<1>2. LInv => LoggerCurrent
  BY DEF LInv, LoggerCurrent, Quiet
<1> QED  BY <1>1, <1>2, NextFInv, NextLInv, TypeCorrect, PTL DEF Spec

=============================================================================
