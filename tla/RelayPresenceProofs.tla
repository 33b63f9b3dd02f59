------------------------- MODULE RelayPresenceProofs ------------------------
(***************************************************************************)
(* What holds of the relay registry for every set of downstream instances, *)
(* all their TTLs, any limits, and any number of lost or late requests,    *)
(* crashes and restarts.                                                   *)
(***************************************************************************)
EXTENDS RelayPresence, FiniteSetTheorems, TLAPS

(* A granted TTL is a number; one that was not asked for as a negative     *)
(* number is none either, and is within the cap where there is one.        *)
LEMMA NegotiatedType ==
    ASSUME NEW ttl \in Int
    PROVE  /\ NegotiateTTL(ttl) \in Int
           /\ ttl \in Nat => NegotiateTTL(ttl) \in Nat
           /\ ttl \in Nat /\ MaxTTL > 0 => NegotiateTTL(ttl) \in 1 .. MaxTTL
           /\ MaxTTL > 0 => NegotiateTTL(ttl) \in 1 .. MaxTTL \/ NegotiateTTL(ttl) < 0
BY LimitsAssumption DEF NegotiateTTL

LEMMA IntervalType == \A u \in Clients : Interval(u) \in Nat
BY TTLAssumption, IntervalsAssumption DEF Interval

(* What the methods of the registry do keeps its type. *)
LEMMA RegisterType ==
    ASSUME RegistryTypeOK, now \in Nat, NEW u \in URLs, NEW ttl \in Int, Register(u, ttl)
    PROVE  RegistryTypeOK'
<1>1. [ttl |-> NegotiateTTL(ttl), seen |-> now] \in Entry
  BY NegotiatedType DEF Entry
<1> QED  BY <1>1 DEF Register, RegistryTypeOK

LEMMA CleanupType == ASSUME RegistryTypeOK, Cleanup PROVE RegistryTypeOK'
BY DEF Cleanup, RegistryTypeOK

LEMMA EmptyType ==
    ASSUME entries' = [u \in URLs |-> Absent] PROVE RegistryTypeOK'
BY DEF RegistryTypeOK

-----------------------------------------------------------------------------
(* Types *)
LEMMA InitType == Init => TypeOK
BY IntervalsAssumption DEF Init, RegistryInit, TypeOK, RegistryTypeOK, Messages

(* An answer changes the client it is for, within its type. *)
LEMMA ReturnedType ==
    ASSUME TypeOK, NEW u \in Clients, NEW success \in BOOLEAN, Returned(u, success)
    PROVE  /\ call' \in [Clients -> BOOLEAN]
           /\ connected' \in [Clients -> BOOLEAN]
           /\ loop' \in [Clients -> {"off", "on", "left"}]
           /\ beatAt' \in [Clients -> Nat]
BY IntervalType DEF Returned, TypeOK

LEMMA MessageType ==
    ASSUME NEW u \in Clients, NEW op \in {"register", "unregister"}, NEW late \in BOOLEAN
    PROVE  Message(u, op, late) \in Messages
BY DEF Message, Messages

(* An instance that exits waits for none of its requests. *)
LEMMA ExitMessages ==
    ASSUME TypeOK, NEW u \in Clients, Exit(u), NEW n \in net'
    PROVE  n \in Messages /\ \E m \in net : /\ n.from = m.from /\ n.op = m.op
                                            /\ n.late <=> (m.late \/ m.from = u)
<1>1. PICK m \in net : n = Message(m.from, m.op, m.late \/ m.from = u)
  BY DEF Exit
<1>2. m \in Messages
  BY DEF TypeOK
<1>3. PICK late \in BOOLEAN : late = (m.late \/ m.from = u)
  BY Zenon
<1>4. n = [from |-> m.from, op |-> m.op, late |-> late]
  BY <1>1, <1>3 DEF Message
<1> QED  BY <1>2, <1>3, <1>4 DEF Messages

(* Types are kept by every step. *)
LEMMA NextType == TypeOK /\ [Next]_vars => TypeOK'
<1> SUFFICES ASSUME TypeOK, [Next]_vars
             PROVE  TypeOK'
  OBVIOUS
<1>1. ASSUME NEW u \in Clients, Start(u) PROVE TypeOK'
  BY <1>1, MessageType DEF Start, Post, TypeOK, RegistryTypeOK
<1>2. ASSUME NEW u \in Clients, Heartbeat(u) PROVE TypeOK'
  <2>1. beatAt[u] + Interval(u) \in Nat
    BY IntervalType DEF TypeOK
  <2>2. beatAt' \in [Clients -> Nat]
    BY <1>2, <2>1 DEF Heartbeat, TypeOK
  <2>3. net' \subseteq Messages /\ call' \in [Clients -> BOOLEAN]
    BY <1>2, MessageType DEF Heartbeat, Post, TypeOK
  <2>4. crossed' \in [Clients -> BOOLEAN]
    BY <1>2 DEF Heartbeat, TypeOK
  <2> QED  BY <1>2, <2>2, <2>3, <2>4 DEF Heartbeat, TypeOK, RegistryTypeOK
<1>3. ASSUME NEW u \in Clients, Stop(u) PROVE TypeOK'
  BY <1>3, MessageType DEF Stop, Registering, TypeOK, RegistryTypeOK
<1>4. ASSUME NEW u \in Clients, LeaveLoop(u) PROVE TypeOK'
  BY <1>4 DEF LeaveLoop, TypeOK, RegistryTypeOK
<1>5. ASSUME NEW u \in Clients, RegisterTimeout(u) PROVE TypeOK'
  <2>1. net' \subseteq Messages
    BY <1>5, MessageType DEF RegisterTimeout, Abandoned, Waiting, TypeOK
  <2>2. /\ Returned(u, FALSE)
        /\ UNCHANGED <<now, entries, cleanAt, life, bye, crossed, prompt>>
        /\ faults' = faults + 1
    BY <1>5 DEF RegisterTimeout, Fault
  <2>3. /\ call' \in [Clients -> BOOLEAN] /\ connected' \in [Clients -> BOOLEAN]
        /\ loop' \in [Clients -> {"off", "on", "left"}]
        /\ beatAt' \in [Clients -> Nat]
    BY <2>2, ReturnedType
  <2> QED  BY <2>1, <2>2, <2>3 DEF TypeOK, RegistryTypeOK
<1>6. ASSUME NEW u \in Clients, UnregisterTimeout(u) PROVE TypeOK'
  <2>1. net' \subseteq Messages
    BY <1>6, MessageType DEF UnregisterTimeout, Abandoned, Waiting, TypeOK
  <2> QED  BY <1>6, <2>1 DEF UnregisterTimeout, Fault, TypeOK, RegistryTypeOK
<1>7. ASSUME NEW u \in Clients, Exit(u) PROVE TypeOK'
  <2>1. net' \subseteq Messages
    BY <1>7, ExitMessages
  <2>2. faults' \in Nat
    BY <1>7 DEF Exit, Fault, TypeOK
  <2> QED  BY <1>7, <2>1, <2>2 DEF Exit, TypeOK, RegistryTypeOK
<1>8. ASSUME NEW m \in net, HandleRegister(m) PROVE TypeOK'
  <2>1. m.from \in Clients /\ m.late \in BOOLEAN
    BY DEF TypeOK, Messages
  <2>2. RegistryTypeOK'
    <3>1. TTLOf[m.from] \in Int /\ m.from \in URLs
      BY <2>1, TTLAssumption, ClientsAssumption
    <3> QED  BY <1>8, <3>1, RegisterType DEF HandleRegister, TypeOK
  <2>3. CASE m.late
    BY <1>8, <2>2, <2>3 DEF HandleRegister, TypeOK
  <2>4. CASE ~ m.late
    <3>1. (~ Full(m.from)) \in BOOLEAN
      BY DEF Full
    <3>2. Returned(m.from, ~ Full(m.from))
      BY <1>8, <2>4 DEF HandleRegister
    <3> QED  BY <1>8, <2>1, <2>2, <3>1, <3>2, ReturnedType DEF HandleRegister, TypeOK
  <2> QED  BY <2>1, <2>3, <2>4
<1>9. ASSUME NEW m \in net, HandleUnregister(m) PROVE TypeOK'
  BY <1>9 DEF HandleUnregister, Unregister, TypeOK, RegistryTypeOK, Messages
<1>10. CASE CleanupTick
  BY <1>10, CleanupType, IntervalsAssumption DEF CleanupTick, clientVars, TypeOK
<1>11. CASE UpstreamRestart
  BY <1>11, EmptyType, IntervalsAssumption DEF UpstreamRestart, Fault, clientVars, TypeOK
<1>12. CASE Tick
  BY <1>12 DEF Tick, clientVars, TypeOK, RegistryTypeOK
<1>13. CASE UNCHANGED vars
  BY <1>13 DEF vars, clientVars, TypeOK, RegistryTypeOK
<1>14. ASSUME NEW u \in Clients, StartAgain(u) PROVE TypeOK'
  <2>1. net' \subseteq Messages /\ call' \in [Clients -> BOOLEAN]
    BY <1>14, MessageType DEF StartAgain, Post, TypeOK
  <2>2. /\ life' \in [Clients -> {"off", "up", "stopping", "gone"}]
        /\ loop' \in [Clients -> {"off", "on", "left"}]
        /\ bye' \in [Clients -> {"no", "waiting", "done", "failed"}]
    BY <1>14 DEF StartAgain, TypeOK
  <2>3. /\ connected' \in [Clients -> BOOLEAN]
        /\ crossed' \in [Clients -> BOOLEAN]
    BY <1>14 DEF StartAgain, TypeOK
  <2>4. faults' \in Nat /\ UNCHANGED <<now, entries, cleanAt, beatAt, prompt>>
    BY <1>14 DEF StartAgain, Fault, TypeOK
  <2> QED  BY <2>1, <2>2, <2>3, <2>4 DEF TypeOK, RegistryTypeOK
<1>15. ASSUME NEW u \in URLs \ Clients, NEW ttl \in PostedTTLs, Posted(u, ttl) PROVE TypeOK'
  <2>1. ttl \in Int
    BY TTLAssumption
  <2>2. RegistryTypeOK'
    BY <1>15, <2>1, RegisterType DEF Posted, TypeOK
  <2> QED  BY <1>15, <2>2 DEF Posted, clientVars, TypeOK
<1>16. ASSUME NEW u \in URLs \ Clients, Deleted(u) PROVE TypeOK'
  BY <1>16 DEF Deleted, Unregister, clientVars, TypeOK, RegistryTypeOK
<1> QED
  BY <1>1, <1>2, <1>3, <1>4, <1>5, <1>6, <1>7, <1>8, <1>9, <1>10, <1>11, <1>12, <1>13, <1>14,
     <1>15, <1>16
  DEF Next

(* The registry, the clients and the network are well typed. *)
THEOREM TypeCorrect == Spec => []TypeOK
BY InitType, NextType, PTL DEF Spec

-----------------------------------------------------------------------------
(* What a step does to the registry and the clock: a client's registration *)
(* asks for no negative TTL.                                               *)
LEMMA Effects ==
    ASSUME TypeOK, [Next]_vars
    PROVE  \/ UNCHANGED <<now, entries, cleanAt>>
           \/ \E u \in URLs, ttl \in Int :
                 /\ u \in Clients => ttl \in Nat
                 /\ Register(u, ttl)
                 /\ UNCHANGED <<now, cleanAt>>
           \/ \E u \in URLs : Unregister(u) /\ UNCHANGED <<now, cleanAt>>
           \/ CleanupTick \/ UpstreamRestart \/ Tick
<1>1. \A m \in net : m.from \in Clients /\ m.from \in URLs
  BY ClientsAssumption DEF TypeOK, Messages
<1>2. ASSUME NEW m \in net, HandleRegister(m)
      PROVE  \E u \in URLs, ttl \in Int :
                /\ u \in Clients => ttl \in Nat
                /\ Register(u, ttl)
                /\ UNCHANGED <<now, cleanAt>>
  <2>1. TTLOf[m.from] \in Nat /\ TTLOf[m.from] \in Int
    BY <1>1, TTLAssumption
  <2> QED  BY <1>1, <1>2, <2>1 DEF HandleRegister
<1>3. ASSUME NEW m \in net, HandleUnregister(m)
      PROVE  \E u \in URLs : Unregister(u) /\ UNCHANGED <<now, cleanAt>>
  BY <1>1, <1>3 DEF HandleUnregister
<1>4. ASSUME NEW u \in Clients,
             \/ Start(u) \/ Heartbeat(u) \/ Stop(u) \/ LeaveLoop(u)
             \/ RegisterTimeout(u) \/ UnregisterTimeout(u) \/ Exit(u) \/ StartAgain(u)
      PROVE  UNCHANGED <<now, entries, cleanAt>>
  BY <1>4 DEF Start, Heartbeat, Stop, LeaveLoop, RegisterTimeout, UnregisterTimeout,
              Exit, StartAgain
<1>5. ASSUME NEW u \in URLs \ Clients, NEW ttl \in PostedTTLs, Posted(u, ttl)
      PROVE  \E v \in URLs, t \in Int :
                /\ v \in Clients => t \in Nat
                /\ Register(v, t)
                /\ UNCHANGED <<now, cleanAt>>
  BY <1>5, TTLAssumption DEF Posted
<1>6. ASSUME NEW u \in URLs \ Clients, Deleted(u)
      PROVE  \E v \in URLs : Unregister(v) /\ UNCHANGED <<now, cleanAt>>
  BY <1>6 DEF Deleted
<1>7. CASE UNCHANGED vars
  BY <1>7 DEF vars
<1> QED  BY <1>2, <1>3, <1>4, <1>5, <1>6, <1>7 DEF Next

-----------------------------------------------------------------------------
(* Limits *)
LEMMA RegisteredFinite == IsFiniteSet(Registered) /\ Cardinality(Registered) \in Nat
<1>1. IsFiniteSet(Registered)
  BY URLsAssumption, FS_Subset DEF Registered
<1> QED  BY <1>1, FS_CardinalityType

(* A step that registers nobody new makes the registry no larger. *)
LEMMA FewerKept ==
    ASSUME LimitsKept,
           \A u \in Registered' : u \in Registered /\ entries'[u].ttl = entries[u].ttl
    PROVE  LimitsKept'
<1>1. Registered' \subseteq Registered
  OBVIOUS
<1>2. Cardinality(Registered') \in Nat /\ Cardinality(Registered') <= Cardinality(Registered)
  BY <1>1, RegisteredFinite, FS_Subset, FS_CardinalityType
<1>3. CapacityKept'
  BY <1>2, RegisteredFinite, LimitsAssumption DEF LimitsKept, CapacityKept
<1>4. TTLCapped'
  BY DEF LimitsKept, TTLCapped
<1> QED  BY <1>3, <1>4 DEF LimitsKept

(* Only a name that is new enlarges the registry, and only if there is     *)
(* room.                                                                   *)
LEMMA RegisterKeepsLimits ==
    ASSUME TypeOK, LimitsKept, NEW u \in URLs, NEW ttl \in Int,
           u \in Clients => ttl \in Nat, Register(u, ttl)
    PROVE  LimitsKept'
<1>1. CASE Full(u)
  BY <1>1, FewerKept DEF Register, Registered
<1>2. CASE ~ Full(u)
  <2> DEFINE e == [ttl |-> NegotiateTTL(ttl), seen |-> now]
  <2>1. entries' = [entries EXCEPT ![u] = e]
    BY <1>2 DEF Register
  <2>2. MaxTTL > 0 => e.ttl \in 1 .. MaxTTL \/ (e.ttl < 0 /\ u \notin Clients)
    <3>1. CASE u \in Clients
      BY <3>1, NegotiatedType
    <3>2. CASE u \notin Clients
      BY <3>2, NegotiatedType
    <3> QED  BY <3>1, <3>2
  <2>3. e # Absent
    BY DEF Absent, TypeOK
  <2>4. Registered' = Registered \cup {u}
    BY <2>1, <2>3 DEF Registered, TypeOK, RegistryTypeOK
  <2>5. TTLCapped'
    BY <2>1, <2>2, <2>4 DEF LimitsKept, TTLCapped, TypeOK, RegistryTypeOK
  <2>6. CASE u \in Registered
    <3>1. Registered' = Registered
      BY <2>4, <2>6
    <3> QED  BY <2>5, <3>1 DEF LimitsKept, CapacityKept
  <2>7. CASE u \notin Registered
    <3>1. entries[u] = Absent
      BY <2>7 DEF Registered
    <3>2. MaxEntries > 0 => Cardinality(Registered) < MaxEntries
      BY <1>2, <3>1, RegisteredFinite, LimitsAssumption DEF Full
    <3>3. Cardinality(Registered') = Cardinality(Registered) + 1
      BY <2>4, <2>7, RegisteredFinite, FS_AddElement
    <3> QED
      BY <2>5, <3>2, <3>3, RegisteredFinite, LimitsAssumption DEF LimitsKept, CapacityKept
  <2> QED  BY <2>6, <2>7
<1> QED  BY <1>1, <1>2

(* The limits are kept by every step. *)
LEMMA NextLimits ==
    ASSUME TypeOK, LimitsKept, [Next]_vars
    PROVE  LimitsKept'
<1>1. CASE UNCHANGED <<now, entries, cleanAt>>
  BY <1>1, FewerKept DEF Registered
<1>2. ASSUME NEW u \in URLs, Unregister(u) PROVE LimitsKept'
  BY <1>2, FewerKept DEF Unregister, Registered, TypeOK, RegistryTypeOK
<1>3. CASE CleanupTick
  BY <1>3, FewerKept DEF CleanupTick, Cleanup, Registered
<1>4. CASE UpstreamRestart
  BY <1>4, FewerKept DEF UpstreamRestart, Registered
<1>5. CASE Tick
  BY <1>5, FewerKept DEF Tick, Registered
<1> QED  BY <1>1, <1>2, <1>3, <1>4, <1>5, Effects, RegisterKeepsLimits

(* The registry never holds more targets than server.max_registry_entries, *)
(* and under server.max_relay_ttl every target has a TTL within it, but    *)
(* for those registered by hand with a negative one.                       *)
THEOREM Limits == Spec => []LimitsKept
<1>1. Init => LimitsKept
  <2> SUFFICES ASSUME Init PROVE LimitsKept
    OBVIOUS
  <2>1. Registered = {}
    BY DEF Init, RegistryInit, Registered
  <2> QED  BY <2>1, FS_EmptySet, LimitsAssumption DEF LimitsKept, CapacityKept, TTLCapped
<1> QED  BY <1>1, NextLimits, TypeCorrect, PTL DEF Spec

-----------------------------------------------------------------------------
(* Expiry: the next cleanup is never overdue nor more than an interval     *)
(* away, and what was not expired at the last one expires no earlier than  *)
(* an interval before the next.                                            *)
CInv ==
    /\ now <= cleanAt
    /\ cleanAt <= now + CleanupEvery
    /\ \A u \in Registered :
          entries[u].ttl > 0 => cleanAt <= entries[u].seen + entries[u].ttl + CleanupEvery

(* CInv is kept by every step. *)
LEMMA NextCInv ==
    ASSUME TypeOK, CInv, [Next]_vars
    PROVE  CInv'
<1> USE IntervalsAssumption
<1>0. \A u \in Registered : entries[u] \in Entry
  BY DEF TypeOK, RegistryTypeOK, Registered
<1>1. CASE UNCHANGED <<now, entries, cleanAt>>
  BY <1>1 DEF CInv, Registered
<1>2. ASSUME NEW u \in URLs, NEW ttl \in Int, Register(u, ttl), UNCHANGED <<now, cleanAt>>
      PROVE  CInv'
  <2>1. NegotiateTTL(ttl) \in Int
    BY NegotiatedType
  <2>2. CASE Full(u)
    BY <1>2, <2>2 DEF Register, CInv, Registered
  <2>3. CASE ~ Full(u)
    BY <1>2, <2>1, <2>3, <1>0 DEF Register, CInv, Registered, TypeOK, RegistryTypeOK
  <2> QED  BY <2>2, <2>3
<1>3. ASSUME NEW u \in URLs, Unregister(u), UNCHANGED <<now, cleanAt>>
      PROVE  CInv'
  BY <1>3 DEF Unregister, CInv, Registered, TypeOK, RegistryTypeOK
<1>4. CASE CleanupTick
  <2>1. now = cleanAt /\ now' = now /\ cleanAt' = cleanAt + CleanupEvery
    BY <1>4 DEF CleanupTick, CInv, TypeOK
  <2>2. \A u \in Registered' : u \in Registered /\ ~ Expired(u) /\ entries'[u] = entries[u]
    BY <1>4 DEF CleanupTick, Cleanup, Registered
  <2>3. \A u \in Registered' :
           entries'[u].ttl > 0 => cleanAt <= entries'[u].seen + entries'[u].ttl
    BY <1>0, <2>1, <2>2 DEF Expired, Registered, Entry, TypeOK
  <2> QED  BY <1>0, <2>1, <2>2, <2>3 DEF CInv, Entry, TypeOK
<1>5. CASE UpstreamRestart
  BY <1>5 DEF UpstreamRestart, clientVars, CInv, Registered, TypeOK
<1>6. CASE Tick
  BY <1>6 DEF Tick, clientVars, CInv, Registered, TypeOK
<1> QED  BY <1>1, <1>2, <1>3, <1>4, <1>5, <1>6, Effects

(* A target no longer heard of is gone one cleanup interval after its TTL, *)
(* however requests are lost or delayed and instances crash.               *)
THEOREM Forgotten == Spec => []ExpiredGo
<1>1. Init => CInv
  BY IntervalsAssumption DEF Init, RegistryInit, CInv, Registered
<1>2. TypeOK /\ CInv => ExpiredGo
  BY IntervalsAssumption
  DEF TypeOK, RegistryTypeOK, CInv, ExpiredGo, Registered, Entry
<1> QED  BY <1>1, <1>2, NextCInv, TypeCorrect, PTL DEF Spec

-----------------------------------------------------------------------------
(* Registrations by hand are not of the clients' targets. *)
LEMMA OthersEntries ==
    ASSUME TypeOK, NEW u \in URLs \ Clients,
           Deleted(u) \/ \E ttl \in PostedTTLs : Posted(u, ttl)
    PROVE  \A v \in Clients : entries'[v] = entries[v]
BY ClientsAssumption DEF Deleted, Posted, Register, Unregister, TypeOK, RegistryTypeOK

-----------------------------------------------------------------------------
(* Goodbye: an unregistration is waited for by an instance that is         *)
(* stopping, and by nobody else.                                           *)
Unregistering(u) == \E m \in net : m.from = u /\ m.op = "unregister" /\ ~ m.late

BInv == \A u \in Clients : Unregistering(u) => life[u] = "stopping" /\ bye[u] = "waiting"

(* BInv is kept by every step. *)
LEMMA NextBInv ==
    ASSUME TypeOK, BInv, [Next]_vars
    PROVE  BInv'
<1>1. ASSUME NEW u \in Clients, Start(u) \/ Heartbeat(u) PROVE BInv'
  <2>1. \A v \in Clients : Unregistering(v)' => Unregistering(v)
    BY <1>1 DEF Start, Heartbeat, Post, Message, Unregistering
  <2> QED  BY <1>1, <2>1 DEF Start, Heartbeat, BInv, TypeOK
<1>2. ASSUME NEW u \in Clients, Stop(u) PROVE BInv'
  <2>1. \A v \in Clients : Unregistering(v)' => Unregistering(v) \/ v = u
    BY <1>2 DEF Stop, Message, Unregistering
  <2> QED  BY <1>2, <2>1 DEF Stop, BInv, TypeOK
<1>3. ASSUME NEW u \in Clients, LeaveLoop(u) PROVE BInv'
  BY <1>3 DEF LeaveLoop, BInv, Unregistering
<1>4. ASSUME NEW u \in Clients, RegisterTimeout(u) PROVE BInv'
  <2>1. \A v \in Clients : Unregistering(v)' => Unregistering(v)
    BY <1>4 DEF RegisterTimeout, Abandoned, Waiting, Message, Unregistering
  <2> QED  BY <1>4, <2>1 DEF RegisterTimeout, BInv
<1>5. ASSUME NEW u \in Clients, UnregisterTimeout(u) PROVE BInv'
  <2>1. \A v \in Clients : Unregistering(v)' => Unregistering(v) /\ v # u
    BY <1>5 DEF UnregisterTimeout, Abandoned, Waiting, Message, Unregistering
  <2> QED  BY <1>5, <2>1 DEF UnregisterTimeout, BInv, TypeOK
<1>6. ASSUME NEW u \in Clients, Exit(u) PROVE BInv'
  <2>1. \A v \in Clients : Unregistering(v)' => Unregistering(v) /\ v # u
    BY <1>6, ExitMessages DEF Unregistering
  <2> QED  BY <1>6, <2>1 DEF Exit, BInv, TypeOK
<1>7. ASSUME NEW u \in Clients, StartAgain(u) PROVE BInv'
  <2>1. \A v \in Clients : Unregistering(v)' => Unregistering(v)
    BY <1>7 DEF StartAgain, Post, Message, Unregistering
  <2> QED  BY <1>7, <2>1 DEF StartAgain, BInv, TypeOK
<1>8. ASSUME NEW m \in net, HandleRegister(m) PROVE BInv'
  BY <1>8 DEF HandleRegister, BInv, Unregistering
<1>9. ASSUME NEW m \in net, HandleUnregister(m) PROVE BInv'
  <2>1. \A v \in Clients : Unregistering(v)' => Unregistering(v) /\ (v # m.from \/ m.late)
    BY <1>9 DEF HandleUnregister, Unregistering, TypeOK, Messages
  <2> QED  BY <1>9, <2>1 DEF HandleUnregister, BInv, TypeOK
<1>10. CASE UNCHANGED <<clientVars, net>>
  BY <1>10 DEF clientVars, BInv, Unregistering
<1>11. ASSUME NEW u \in URLs \ Clients, Deleted(u) \/ \E ttl \in PostedTTLs : Posted(u, ttl)
       PROVE  UNCHANGED <<clientVars, net>>
  BY <1>11 DEF Deleted, Posted
<1>12. CASE CleanupTick \/ UpstreamRestart \/ Tick \/ UNCHANGED vars
  BY <1>10, <1>12 DEF CleanupTick, UpstreamRestart, Tick, vars
<1> QED
  BY <1>1, <1>2, <1>3, <1>4, <1>5, <1>6, <1>7, <1>8, <1>9, <1>10, <1>11, <1>12 DEF Next

(* From the moment an instance is told to stop, no registration of it is   *)
(* on its way unless one crossed; it is told once in its life, and the     *)
(* loop of an instance that is gone stays left.                            *)
GInv ==
    \A u \in Clients :
       /\ life[u] \in {"off", "up"} => bye[u] = "no"
       /\ life[u] = "gone" => loop[u] = "left"
       /\ bye[u] # "no" /\ ~ crossed[u] => ~ Registering(u)
       /\ bye[u] = "done" /\ ~ crossed[u] => entries[u] = Absent

(* GInv is kept by every step. *)
LEMMA NextGInv ==
    ASSUME TypeOK, BInv, GInv, [Next]_vars
    PROVE  GInv'
<1>0. \A m \in net : m.from \in Clients
  BY DEF TypeOK, Messages
<1>1. ASSUME NEW u \in Clients, Start(u) PROVE GInv'
  <2>1. \A v \in Clients : Registering(v)' => Registering(v) \/ v = u
    BY <1>1 DEF Start, Post, Message, Registering
  <2> QED  BY <1>1, <2>1 DEF Start, GInv, TypeOK
<1>2. ASSUME NEW u \in Clients, Heartbeat(u) PROVE GInv'
  <2>1. \A v \in Clients : Registering(v)' => Registering(v) \/ v = u
    BY <1>2 DEF Heartbeat, Post, Message, Registering
  <2>2. bye[u] = "no" \/ crossed'[u]
    BY <1>2 DEF Heartbeat, GInv, TypeOK
  <2>3. \A v \in Clients : v # u => crossed'[v] = crossed[v]
    BY <1>2 DEF Heartbeat, TypeOK
  <2>4. crossed[u] => crossed'[u]
    BY <1>2 DEF Heartbeat, TypeOK
  <2>5. UNCHANGED <<life, loop, bye, entries>>
    BY <1>2 DEF Heartbeat
  <2> QED  BY <2>1, <2>2, <2>3, <2>4, <2>5 DEF GInv
<1>3. ASSUME NEW u \in Clients, Stop(u) PROVE GInv'
  BY <1>3 DEF Stop, Message, GInv, Registering, TypeOK
<1>4. ASSUME NEW u \in Clients, LeaveLoop(u) PROVE GInv'
  BY <1>4 DEF LeaveLoop, GInv, Registering, TypeOK
<1>5. ASSUME NEW u \in Clients, RegisterTimeout(u) PROVE GInv'
  <2>1. \A v \in Clients : Registering(v)' => Registering(v)
    BY <1>5 DEF RegisterTimeout, Abandoned, Waiting, Message, Registering
  <2> QED  BY <1>5, <2>1 DEF RegisterTimeout, Returned, GInv, TypeOK
<1>6. ASSUME NEW u \in Clients, UnregisterTimeout(u) PROVE GInv'
  <2>1. \A v \in Clients : Registering(v)' => Registering(v)
    BY <1>6 DEF UnregisterTimeout, Abandoned, Waiting, Message, Registering
  <2> QED  BY <1>6, <2>1 DEF UnregisterTimeout, GInv, TypeOK
<1>7. ASSUME NEW u \in Clients, Exit(u) PROVE GInv'
  <2>1. \A v \in Clients : Registering(v)' => Registering(v)
    BY <1>7, ExitMessages DEF Registering
  <2> QED  BY <1>7, <2>1 DEF Exit, GInv, TypeOK
<1>8. ASSUME NEW u \in Clients, StartAgain(u) PROVE GInv'
  <2>1. \A v \in Clients : Registering(v)' => Registering(v) \/ v = u
    BY <1>8 DEF StartAgain, Post, Message, Registering
  <2> QED  BY <1>8, <2>1 DEF StartAgain, GInv, TypeOK
<1>9. ASSUME NEW m \in net, HandleRegister(m) PROVE GInv'
  <2>1. \A v \in Clients : Registering(v)' => Registering(v)
    BY <1>9 DEF HandleRegister, Registering
  <2>2. \A v \in Clients : entries'[v] = entries[v] \/ v = m.from
    BY <1>9 DEF HandleRegister, Register, TypeOK, RegistryTypeOK
  <2>3. Registering(m.from)
    BY <1>9 DEF HandleRegister, Registering
  <2>4. \A v \in Clients : loop[v] = "left" => loop'[v] = "left"
    BY <1>0, <1>9 DEF HandleRegister, Returned, TypeOK
  <2>5. \A v \in Clients : bye[v] # "no" /\ ~ crossed[v] => v # m.from
    BY <2>3 DEF GInv
  <2>6. UNCHANGED <<life, bye, crossed>>
    BY <1>9 DEF HandleRegister
  <2> QED  BY <2>1, <2>2, <2>4, <2>5, <2>6 DEF GInv
<1>10. ASSUME NEW m \in net, HandleUnregister(m) PROVE GInv'
  <2>1. \A v \in Clients : Registering(v)' => Registering(v)
    BY <1>10 DEF HandleUnregister, Registering
  <2>2. entries' = [entries EXCEPT ![m.from] = Absent]
    BY <1>10 DEF HandleUnregister, Unregister
  <2>3. \A v \in Clients : bye'[v] = bye[v] \/ (v = m.from /\ Unregistering(v))
    BY <1>10 DEF HandleUnregister, Unregistering, TypeOK
  <2>4. \A v \in Clients : entries'[v] = IF v = m.from THEN Absent ELSE entries[v]
    BY <2>2, ClientsAssumption DEF TypeOK, RegistryTypeOK
  <2>5. UNCHANGED <<life, loop, crossed>>
    BY <1>10 DEF HandleUnregister
  <2> QED  BY <2>1, <2>3, <2>4, <2>5 DEF GInv, BInv
<1>11. CASE CleanupTick
  BY <1>11, ClientsAssumption DEF CleanupTick, Cleanup, clientVars, GInv, Registering
<1>12. CASE UpstreamRestart
  BY <1>12, ClientsAssumption DEF UpstreamRestart, clientVars, GInv, Registering
<1>13. CASE Tick
  BY <1>13 DEF Tick, clientVars, GInv, Registering
<1>14. CASE UNCHANGED vars
  BY <1>14 DEF vars, clientVars, GInv, Registering
<1>15. ASSUME NEW u \in URLs \ Clients, Deleted(u) \/ \E ttl \in PostedTTLs : Posted(u, ttl)
       PROVE  GInv'
  <2>1. \A v \in Clients : entries'[v] = entries[v]
    BY <1>15, OthersEntries
  <2> QED  BY <1>15, <2>1 DEF Deleted, Posted, clientVars, GInv, Registering
<1> QED
  BY <1>1, <1>2, <1>3, <1>4, <1>5, <1>6, <1>7, <1>8, <1>9, <1>10, <1>11, <1>12, <1>13, <1>14,
     <1>15
  DEF Next

(* An instance whose unregistration was answered stays out of the registry *)
(* until it is started again, unless one of its registrations was still on *)
(* its way when it was told to stop, or was sent after that.               *)
THEOREM Goodbye == Spec => []GoodbyeHeard
<1>1. Init => BInv /\ GInv
  BY DEF Init, RegistryInit, BInv, Unregistering, GInv, Registering
<1>2. GInv => GoodbyeHeard
  BY DEF GInv, GoodbyeHeard
<1> QED  BY <1>1, <1>2, NextBInv, NextGInv, TypeCorrect, PTL DEF Spec

-----------------------------------------------------------------------------
(* Heartbeats.  An instance is heard of in time when its interval is not   *)
(* longer than the TTL the upstream grants: true of a TTL that is neither  *)
(* below the shortest interval nor capped below its own half.              *)
Granted(u) == NegotiateTTL(TTLOf[u])
BeatsInTime == \A u \in Clients : Granted(u) = 0 \/ Interval(u) <= Granted(u)

(* Requests of an instance that is up come from its own client, which      *)
(* waits for them.                                                         *)
OwnRequests ==
    \A m \in net :
       /\ m.late => life[m.from] = "gone"
       /\ m.op = "unregister" => life[m.from] \in {"stopping", "gone"}
       /\ m.op = "register" /\ ~ m.late => call[m.from]

(* The initial registration comes before the loop; in the loop the next    *)
(* heartbeat is due one interval after the one being sent, and not overdue *)
(* otherwise.                                                              *)
Beating(u) ==
    /\ loop[u] \in {"off", "on"}
    /\ loop[u] = "off" => call[u] /\ ~ connected[u]
    /\ call[u] => Message(u, "register", FALSE) \in net
    /\ loop[u] = "on" =>
          IF call[u] THEN beatAt[u] = now + Interval(u) ELSE now <= beatAt[u]

(* The entry of a connected instance is no older than its heartbeat, and   *)
(* has the TTL that was granted.                                           *)
Heard(u) ==
    /\ entries[u] # Absent
    /\ entries[u].ttl > 0 => Interval(u) <= entries[u].ttl
    /\ now <= entries[u].seen + Interval(u)
    /\ ~ call[u] => beatAt[u] <= entries[u].seen + Interval(u)

Unstarted ==
    \A u \in Clients :
       life[u] = "off" => loop[u] = "off" /\ ~ connected[u] /\ ~ call[u]

KInv ==
    prompt =>
        /\ OwnRequests
        /\ Unstarted
        /\ \A u \in Clients : life[u] = "up" => Beating(u) /\ (connected[u] => Heard(u))

(* What a step of one instance leaves alone keeps the others in time. *)
LEMMA OthersKept ==
    ASSUME TypeOK, NEW u \in Clients, prompt,
           life[u] = "up" => Beating(u) /\ (connected[u] => Heard(u)),
           now' = now, life'[u] = life[u], loop'[u] = loop[u], call'[u] = call[u],
           beatAt'[u] = beatAt[u], connected'[u] = connected[u], entries'[u] = entries[u],
           Message(u, "register", FALSE) \in net => Message(u, "register", FALSE) \in net'
    PROVE  life'[u] = "up" => Beating(u)' /\ (connected'[u] => Heard(u)')
BY DEF Beating, Heard, Interval, Message

(* A registration that is let in is fresh and lasts to the next heartbeat. *)
LEMMA RegisteredEntry ==
    ASSUME TypeOK, BeatsInTime, NEW u \in Clients, Register(u, TTLOf[u])
    PROVE  /\ \A v \in Clients \ {u} : entries'[v] = entries[v]
           /\ ~ Full(u) => /\ entries'[u] # Absent
                           /\ entries'[u].seen = now
                           /\ entries'[u].ttl > 0 => Interval(u) <= entries'[u].ttl
<1>1. TTLOf[u] \in Nat /\ TTLOf[u] \in Int
  BY TTLAssumption
<1>2. Granted(u) \in Nat
  BY <1>1, NegotiatedType DEF Granted
<1>3. CASE Full(u)
  BY <1>3 DEF Register
<1>4. CASE ~ Full(u)
  <2>1. entries' = [entries EXCEPT ![u] = [ttl |-> Granted(u), seen |-> now]]
    BY <1>4 DEF Register, Granted
  <2>2. entries'[u] = [ttl |-> Granted(u), seen |-> now]
    BY <2>1, ClientsAssumption DEF TypeOK, RegistryTypeOK
  <2>3. Granted(u) # 0 => Interval(u) <= Granted(u)
    BY DEF BeatsInTime
  <2> QED  BY <1>2, <2>1, <2>2, <2>3 DEF TypeOK, RegistryTypeOK, Absent
<1> QED  BY <1>3, <1>4

(* KInv is kept by every step: a heartbeat renews an entry in time. *)
LEMMA NextKInv ==
    ASSUME TypeOK, BeatsInTime, KInv, [Next]_vars
    PROVE  KInv'
<1> SUFFICES ASSUME prompt' PROVE KInv'
  BY DEF KInv
<1>0. prompt
  BY DEF Next, Start, Heartbeat, Stop, LeaveLoop, RegisterTimeout, UnregisterTimeout, Exit,
         StartAgain, HandleRegister, HandleUnregister, Posted, Deleted, CleanupTick, UpstreamRestart, Tick, vars
<1>1. OwnRequests /\ Unstarted
  BY <1>0 DEF KInv
<1>2. \A u \in Clients : life[u] = "up" => Beating(u) /\ (connected[u] => Heard(u))
  BY <1>0 DEF KInv
<1>3. \A m \in net : m \in Messages
  BY DEF TypeOK
<1>4. \A u \in Clients : Interval(u) \in Nat
  BY IntervalType
<1>5. ASSUME OwnRequests', Unstarted',
             \A u \in Clients : life'[u] = "up" => Beating(u)' /\ (connected'[u] => Heard(u)')
      PROVE  KInv'
  BY <1>5 DEF KInv
<1>6. ASSUME NEW u \in Clients, Start(u) PROVE KInv'
  <2>1. /\ life[u] = "off"
        /\ life' = [life EXCEPT ![u] = "up"]
        /\ call' = [call EXCEPT ![u] = TRUE]
        /\ net' = net \cup {Message(u, "register", FALSE)}
        /\ UNCHANGED <<now, entries, loop, beatAt, connected>>
    BY <1>6 DEF Start, Post
  <2>2. OwnRequests' /\ Unstarted'
    BY <1>1, <1>3, <2>1 DEF OwnRequests, Unstarted, Message, Messages, TypeOK
  <2>3. ASSUME NEW v \in Clients, v # u
        PROVE  life'[v] = "up" => Beating(v)' /\ (connected'[v] => Heard(v)')
    BY <1>0, <1>2, <2>1, <2>3, OthersKept DEF TypeOK
  <2>4. loop[u] = "off" /\ ~ connected[u]
    BY <1>1, <2>1 DEF Unstarted
  <2>5. Beating(u)' /\ ~ connected'[u]
    BY <2>1, <2>4 DEF Beating, TypeOK, Message
  <2> QED  BY <1>5, <2>2, <2>3, <2>5
<1>7. ASSUME NEW u \in Clients, Heartbeat(u) PROVE KInv'
  <2>1. /\ loop[u] = "on" /\ ~ call[u] /\ now >= beatAt[u]
        /\ call' = [call EXCEPT ![u] = TRUE]
        /\ net' = net \cup {Message(u, "register", FALSE)}
        /\ beatAt' = [beatAt EXCEPT ![u] = @ + Interval(u)]
        /\ UNCHANGED <<now, entries, life, loop, connected>>
    BY <1>7 DEF Heartbeat, Post
  <2>2. OwnRequests' /\ Unstarted'
    BY <1>1, <1>3, <2>1 DEF OwnRequests, Unstarted, Message, Messages, TypeOK
  <2>3. ASSUME NEW v \in Clients, v # u
        PROVE  life'[v] = "up" => Beating(v)' /\ (connected'[v] => Heard(v)')
    BY <1>0, <1>2, <2>1, <2>3, OthersKept DEF TypeOK
  <2>4. ASSUME life[u] = "up" PROVE Beating(u)' /\ (connected'[u] => Heard(u)')
    <3>1. now = beatAt[u]
      <4>1. now <= beatAt[u]
        BY <1>2, <2>1, <2>4 DEF Beating
      <4>2. now \in Nat /\ beatAt[u] \in Nat
        BY DEF TypeOK
      <4> QED  BY <2>1, <4>1, <4>2
    <3>2. beatAt'[u] = now + Interval(u) /\ call'[u]
      BY <2>1, <3>1 DEF TypeOK
    <3>3. Beating(u)'
      BY <2>1, <3>2 DEF Beating, Message, Interval
    <3>4. connected[u] => Heard(u)
      BY <1>2, <2>4
    <3>5. connected'[u] => Heard(u)'
      BY <2>1, <3>2, <3>4 DEF Heard, Interval
    <3> QED  BY <3>3, <3>5
  <2> QED  BY <1>5, <2>1, <2>2, <2>3, <2>4
<1>8. ASSUME NEW u \in Clients, Stop(u) PROVE KInv'
  <2>1. /\ life[u] = "up" /\ life' = [life EXCEPT ![u] = "stopping"]
        /\ net' = net \cup {Message(u, "unregister", FALSE)}
        /\ UNCHANGED <<now, entries, loop, call, beatAt, connected>>
    BY <1>8 DEF Stop
  <2>2. OwnRequests' /\ Unstarted'
    BY <1>1, <1>3, <2>1 DEF OwnRequests, Unstarted, Message, Messages, TypeOK
  <2>3. ASSUME NEW v \in Clients, v # u
        PROVE  life'[v] = "up" => Beating(v)' /\ (connected'[v] => Heard(v)')
    BY <1>0, <1>2, <2>1, <2>3, OthersKept DEF TypeOK
  <2>4. life'[u] # "up"
    BY <2>1 DEF TypeOK
  <2> QED  BY <1>5, <2>2, <2>3, <2>4
<1>9. ASSUME NEW u \in Clients, LeaveLoop(u) PROVE KInv'
  <2>1. /\ life[u] = "stopping" /\ loop' = [loop EXCEPT ![u] = "left"]
        /\ UNCHANGED <<now, entries, life, call, beatAt, connected, net>>
    BY <1>9 DEF LeaveLoop
  <2>2. OwnRequests' /\ Unstarted'
    BY <1>1, <2>1 DEF OwnRequests, Unstarted, TypeOK
  <2>3. ASSUME NEW v \in Clients, v # u
        PROVE  life'[v] = "up" => Beating(v)' /\ (connected'[v] => Heard(v)')
    BY <1>0, <1>2, <2>1, <2>3, OthersKept DEF TypeOK
  <2>4. life'[u] # "up"
    BY <2>1 DEF TypeOK
  <2> QED  BY <1>5, <2>2, <2>3, <2>4
<1>10. ASSUME NEW u \in Clients, RegisterTimeout(u) \/ UnregisterTimeout(u) \/ StartAgain(u)
       PROVE  FALSE
  BY <1>0, <1>10 DEF RegisterTimeout, UnregisterTimeout, StartAgain, Fault
<1>11. ASSUME NEW u \in Clients, Exit(u) PROVE KInv'
  <2>1. /\ life[u] \in {"up", "stopping"}
        /\ life' = [life EXCEPT ![u] = "gone"]
        /\ loop' = [loop EXCEPT ![u] = "left"]
        /\ call' = [call EXCEPT ![u] = FALSE]
        /\ net' = {Message(m.from, m.op, m.late \/ m.from = u) : m \in net}
        /\ UNCHANGED <<now, entries, beatAt, connected>>
    BY <1>11 DEF Exit
  <2>2. ASSUME NEW n \in net'
        PROVE  \E m \in net : /\ n.from = m.from /\ n.op = m.op
                              /\ n.late <=> (m.late \/ m.from = u)
    BY <1>11, ExitMessages
  <2>3. OwnRequests'
    BY <1>1, <1>3, <2>1, <2>2 DEF OwnRequests, Messages, TypeOK
  <2>4. Unstarted'
    BY <1>1, <2>1 DEF Unstarted, TypeOK
  <2>5. ASSUME NEW v \in Clients, v # u
        PROVE  life'[v] = "up" => Beating(v)' /\ (connected'[v] => Heard(v)')
    <3>1. Message(v, "register", FALSE) \in net => Message(v, "register", FALSE) \in net'
      <4>1. ASSUME NEW m \in net, m = Message(v, "register", FALSE)
            PROVE  Message(m.from, m.op, m.late \/ m.from = u) = m
        BY <2>5, <4>1 DEF Message
      <4> QED  BY <2>1, <4>1
    <3> QED  BY <1>0, <1>2, <2>1, <2>5, <3>1, OthersKept DEF TypeOK
  <2>6. life'[u] # "up"
    BY <2>1 DEF TypeOK
  <2> QED  BY <1>5, <2>3, <2>4, <2>5, <2>6
<1>12. ASSUME NEW m \in net, HandleRegister(m) PROVE KInv'
  <2>0. PICK u \in Clients : u = m.from
    BY <1>3 DEF Messages
  <2>1. m \in Messages
    BY <1>3
  <2>2. /\ m.op = "register"
        /\ Register(u, TTLOf[u])
        /\ net' = net \ {m}
        /\ UNCHANGED <<now, life>>
    BY <2>0, <1>12 DEF HandleRegister
  <2>3. /\ \A v \in Clients \ {u} : entries'[v] = entries[v]
        /\ ~ Full(u) => /\ entries'[u] # Absent
                        /\ entries'[u].seen = now
                        /\ entries'[u].ttl > 0 => Interval(u) <= entries'[u].ttl
    BY <2>1, <2>2, RegisteredEntry
  <2>4. \A v \in Clients \ {u} :
            Message(v, "register", FALSE) \in net => Message(v, "register", FALSE) \in net'
    BY <2>0, <2>2 DEF Message
  <2>5. CASE m.late
    <3>1. UNCHANGED <<call, connected, loop, beatAt>>
      BY <1>12, <2>5 DEF HandleRegister
    <3>2. life[u] = "gone"
      BY <2>0, <1>1, <2>5 DEF OwnRequests
    <3>3. OwnRequests' /\ Unstarted'
      BY <2>0, <1>1, <2>2, <3>1 DEF OwnRequests, Unstarted
    <3>4. ASSUME NEW v \in Clients, v # u
          PROVE  life'[v] = "up" => Beating(v)' /\ (connected'[v] => Heard(v)')
      BY <1>0, <1>2, <2>2, <2>3, <2>4, <3>1, <3>4, OthersKept
    <3> QED  BY <1>5, <2>2, <3>2, <3>3, <3>4
  <2>6. CASE ~ m.late
    <3>1. Returned(u, ~ Full(u)) /\ call[u]
      BY <2>0, <1>1, <1>12, <2>2, <2>6 DEF HandleRegister, OwnRequests
    <3>2. /\ call' = [call EXCEPT ![u] = FALSE]
          /\ connected' = [connected EXCEPT ![u] = ~ Full(u)]
          /\ \A v \in Clients \ {u} : loop'[v] = loop[v] /\ beatAt'[v] = beatAt[v]
          /\ IF loop[u] = "off"
             THEN loop'[u] = "on" /\ beatAt'[u] = now + Interval(u)
             ELSE loop'[u] = loop[u] /\ beatAt'[u] = beatAt[u]
      BY <2>1, <3>1 DEF Returned, TypeOK
    <3>3. ASSUME NEW n \in net', n.from = u PROVE n.op = "unregister" \/ n.late
      BY <2>0, <1>3, <2>1, <2>2, <2>6, <3>3 DEF Messages
    <3>4. OwnRequests'
      BY <2>0, <1>1, <1>3, <2>1, <2>2, <3>2, <3>3 DEF OwnRequests, Messages, TypeOK
    <3>5. life[u] # "off"
      BY <1>1, <2>1, <3>1 DEF Unstarted
    <3>6. Unstarted'
      BY <1>1, <2>1, <2>2, <3>2, <3>5 DEF Unstarted, TypeOK
    <3>7. ASSUME NEW v \in Clients, v # u
          PROVE  life'[v] = "up" => Beating(v)' /\ (connected'[v] => Heard(v)')
      BY <1>0, <1>2, <2>2, <2>3, <2>4, <3>2, <3>7, OthersKept DEF TypeOK
    <3>8. ASSUME life[u] = "up" PROVE Beating(u)' /\ (connected'[u] => Heard(u)')
      <4>1. Beating(u)
        BY <1>2, <2>1, <3>8
      <4>2. loop'[u] = "on" /\ beatAt'[u] = now + Interval(u) /\ ~ call'[u]
        BY <2>1, <3>1, <3>2, <4>1 DEF Beating, TypeOK
      <4>3. now \in Nat /\ Interval(u) \in Nat
        BY <1>4, <2>1 DEF TypeOK
      <4>4. Beating(u)'
        <5>1. now' <= beatAt'[u]
          BY <2>2, <4>2, <4>3
        <5> QED  BY <4>2, <5>1 DEF Beating
      <4>5. ASSUME connected'[u] PROVE Heard(u)'
        <5>1. ~ Full(u)
          BY <2>1, <3>2, <4>5 DEF TypeOK
        <5>2. /\ entries'[u] # Absent
              /\ entries'[u].seen = now
              /\ entries'[u].ttl > 0 => Interval(u) <= entries'[u].ttl
          BY <2>3, <5>1
        <5> QED  BY <2>2, <4>2, <4>3, <5>2 DEF Heard, Interval
      <4> QED  BY <4>4, <4>5
    <3> QED  BY <1>5, <2>2, <3>4, <3>6, <3>7, <3>8
  <2> QED  BY <2>5, <2>6
<1>13. ASSUME NEW m \in net, HandleUnregister(m) PROVE KInv'
  <2>1. /\ m.op = "unregister"
        /\ entries' = [entries EXCEPT ![m.from] = Absent]
        /\ net' = net \ {m}
        /\ UNCHANGED <<now, life, loop, call, beatAt, connected>>
    BY <1>13 DEF HandleUnregister, Unregister
  <2>2. OwnRequests' /\ Unstarted'
    BY <1>1, <2>1 DEF OwnRequests, Unstarted
  <2>3. life[m.from] # "up"
    BY <1>1, <2>1 DEF OwnRequests
  <2>4. ASSUME NEW v \in Clients, v # m.from
        PROVE  life'[v] = "up" => Beating(v)' /\ (connected'[v] => Heard(v)')
    <3>1. Message(v, "register", FALSE) # m
      BY <2>1 DEF Message
    <3>2. entries'[v] = entries[v]
      BY <2>1, <2>4, ClientsAssumption DEF TypeOK, RegistryTypeOK
    <3> QED  BY <1>0, <1>2, <2>1, <3>1, <3>2, OthersKept
  <2> QED  BY <1>5, <2>1, <2>2, <2>3, <2>4
<1>14. CASE CleanupTick
  <2>1. /\ entries' = [u \in URLs |-> IF Expired(u) THEN Absent ELSE entries[u]]
        /\ UNCHANGED <<now, life, loop, call, beatAt, connected, net>>
    BY <1>14 DEF CleanupTick, Cleanup, clientVars
  <2>2. OwnRequests' /\ Unstarted'
    BY <1>1, <2>1 DEF OwnRequests, Unstarted
  <2>3. ASSUME NEW u \in Clients, life[u] = "up" PROVE Beating(u)' /\ (connected'[u] => Heard(u)')
    <3>1. Beating(u)'
      <4>1. Beating(u)
        BY <1>2, <2>3
      <4> QED  BY <2>1, <4>1 DEF Beating, Interval, Message
    <3>2. ASSUME connected[u] PROVE Heard(u)'
      <4>1. Heard(u)
        BY <1>2, <2>3, <3>2
      <4>2. entries[u] \in Entry /\ now \in Nat /\ Interval(u) \in Nat
        BY <1>4, <4>1, ClientsAssumption DEF Heard, TypeOK, RegistryTypeOK
      <4>3. ~ Expired(u)
        BY <4>1, <4>2 DEF Heard, Expired, Entry
      <4>4. entries'[u] = entries[u]
        BY <2>1, <4>3, ClientsAssumption
      <4> QED  BY <2>1, <4>1, <4>4 DEF Heard, Interval
    <3> QED  BY <2>1, <3>1, <3>2
  <2> QED  BY <1>5, <2>1, <2>2, <2>3
<1>15. CASE UpstreamRestart
  BY <1>0, <1>15 DEF UpstreamRestart, Fault
<1>16. CASE Tick
  <2>1. /\ OnTime
        /\ now' = now + 1
        /\ UNCHANGED <<entries, life, loop, call, beatAt, connected, net>>
    BY <1>0, <1>16 DEF Tick, clientVars
  <2>2. OwnRequests' /\ Unstarted'
    BY <1>1, <2>1 DEF OwnRequests, Unstarted
  <2>3. ASSUME NEW u \in Clients, life[u] = "up" PROVE Beating(u)' /\ (connected'[u] => Heard(u)')
    <3>1. Beating(u)
      BY <1>2, <2>3
    <3>2. ~ call[u] /\ loop[u] = "on"
      BY <2>1, <3>1 DEF Beating, OnTime
    <3>3. now + 1 <= beatAt[u] /\ now \in Nat /\ beatAt[u] \in Nat /\ Interval(u) \in Nat
      BY <1>4, <2>1, <3>2 DEF OnTime, TypeOK
    <3>4. Beating(u)'
      BY <2>1, <3>2, <3>3 DEF Beating
    <3>5. ASSUME connected[u] PROVE Heard(u)'
      <4>1. Heard(u)
        BY <1>2, <2>3, <3>5
      <4>2. entries[u].seen \in Nat
        BY <4>1, ClientsAssumption DEF Heard, TypeOK, RegistryTypeOK, Entry
      <4> QED  BY <2>1, <3>2, <3>3, <4>1, <4>2 DEF Heard, Interval
    <3> QED  BY <2>1, <3>4, <3>5
  <2> QED  BY <1>5, <2>1, <2>2, <2>3
<1>17. CASE UNCHANGED vars
  <2>1. UNCHANGED <<now, entries, life, loop, call, beatAt, connected, net>>
    BY <1>17 DEF vars, clientVars
  <2>2. OwnRequests' /\ Unstarted'
    BY <1>1, <2>1 DEF OwnRequests, Unstarted
  <2>3. \A u \in Clients : life'[u] = "up" => Beating(u)' /\ (connected'[u] => Heard(u)')
    BY <1>0, <1>2, <2>1, OthersKept
  <2> QED  BY <1>5, <2>2, <2>3
<1>18. ASSUME NEW u \in URLs \ Clients, Deleted(u) \/ \E ttl \in PostedTTLs : Posted(u, ttl)
       PROVE  KInv'
  <2>1. UNCHANGED <<now, life, loop, call, beatAt, connected, net>>
    BY <1>18 DEF Deleted, Posted, clientVars
  <2>2. \A v \in Clients : entries'[v] = entries[v]
    BY <1>18, OthersEntries
  <2>3. OwnRequests' /\ Unstarted'
    BY <1>1, <2>1 DEF OwnRequests, Unstarted
  <2>4. \A v \in Clients : life'[v] = "up" => Beating(v)' /\ (connected'[v] => Heard(v)')
    BY <1>0, <1>2, <2>1, <2>2, OthersKept
  <2> QED  BY <1>5, <2>3, <2>4
<1> QED
  BY <1>6, <1>7, <1>8, <1>9, <1>10, <1>11, <1>12, <1>13, <1>14, <1>15, <1>16, <1>17, <1>18
  DEF Next

(* When requests take no time and nothing fails, an instance whose last    *)
(* registration was accepted stays registered until its next heartbeat, if *)
(* the upstream grants no TTL shorter than the heartbeat interval.         *)
THEOREM Beats == ASSUME BeatsInTime PROVE Spec => []KeptAlive
<1>1. Init => KInv
  BY DEF Init, KInv, OwnRequests, Unstarted
<1>2. KInv => KeptAlive
  BY DEF KInv, KeptAlive, Heard
<1>3. TypeOK /\ KInv /\ [Next]_vars => KInv'
  BY BeatsInTime, NextKInv
<1> QED  BY <1>1, <1>2, <1>3, TypeCorrect, PTL DEF Spec

=============================================================================
