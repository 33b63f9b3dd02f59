---------------------------- MODULE RelayPresence ---------------------------
(***************************************************************************)
(* Downstream instances keep themselves registered with an upstream: the   *)
(* RelayClient of each (internal/engine/relay_client.go) sends a           *)
(* registration on start and on every heartbeat and an unregistration on   *)
(* stop; the upstream's handlers (internal/server/relay_api.go) apply them *)
(* to its TargetRegistry, whose cleanup loop drops what has expired.       *)
(* Targets without such a client are registered by hand (the curl examples *)
(* of docs/configuration.md), with any TTL.                                *)
(*                                                                         *)
(* A request may be lost, and a request or its answer may come after the   *)
(* sender's timeout; downstream instances crash and are started again, and *)
(* the upstream restarts with an empty registry.                           *)
(***************************************************************************)
EXTENDS TargetRegistry

CONSTANTS
    Clients,        \* the URLs of the instances with a relay_client section
    TTLOf,          \* client -> its relay_client.ttl, which Validate wants >= 0
    PostedTTLs,     \* the TTLs others ask for: no handler looks at their sign
    MinInterval,    \* the shortest heartbeat interval (10 s)
    CleanupEvery,   \* the interval of the cleanup loop (30 s)
    MaxTime,        \* bound on the clock, for model checking
    MaxFaults       \* bound on timeouts, crashes and restarts

ASSUME ClientsAssumption == Clients \subseteq URLs
ASSUME TTLAssumption == TTLOf \in [Clients -> Nat] /\ PostedTTLs \subseteq Int
ASSUME IntervalsAssumption ==
    MinInterval \in Nat \ {0} /\ CleanupEvery \in Nat \ {0}
ASSUME BoundsAssumption ==
    MaxTime \in Nat /\ MaxFaults \in Nat

VARIABLES
    cleanAt,    \* when the ticker of the cleanup loop fires next
    life,       \* client -> the instance: "off", "up", "stopping", "gone"
    loop,       \* client -> its heartbeatLoop: "off", "on" or "left"
    call,       \* client -> its register() is waiting for an answer
    beatAt,     \* client -> when its heartbeat ticker fires next
    connected,  \* client -> RelayClient.connected
    bye,        \* client -> its unregister(): "no", "waiting", "done", "failed"
    crossed,    \* client -> a registration of it was on its way when it was told
                \*   to stop, or has been sent since (history)
    net,        \* requests on their way
    faults,     \* timeouts, crashes and restarts so far
    prompt      \* heartbeats and requests take no time, and nothing fails

clientVars == <<life, loop, call, beatAt, connected, bye, crossed>>
vars == <<now, entries, cleanAt, clientVars, net, faults, prompt>>

(* A request whose sender no longer waits for the answer is late. *)
Message(u, op, late) == [from |-> u, op |-> op, late |-> late]
Waiting(u, op) == {m \in net : m.from = u /\ m.op = op /\ ~ m.late}
Abandoned(u, op) ==
    {Message(u, op, TRUE) : m \in Waiting(u, op)} \cup (net \ Waiting(u, op))

Registering(u) == \E m \in net : m.from = u /\ m.op = "register"

Init ==
    /\ now = 0
    /\ RegistryInit
    /\ cleanAt = CleanupEvery
    /\ life = [u \in Clients |-> "off"]
    /\ loop = [u \in Clients |-> "off"]
    /\ call = [u \in Clients |-> FALSE]
    /\ beatAt = [u \in Clients |-> 0]
    /\ connected = [u \in Clients |-> FALSE]
    /\ bye = [u \in Clients |-> "no"]
    /\ crossed = [u \in Clients |-> FALSE]
    /\ net = {}
    /\ faults = 0
    /\ prompt \in BOOLEAN

-----------------------------------------------------------------------------
(* Mutant of Interval: a heartbeat once in two TTLs. *)
IntervalDouble(u) == IF 2 * TTLOf[u] < MinInterval THEN MinInterval ELSE 2 * TTLOf[u]

(* ttl / 2, at least MinInterval. *)
Interval(u) ==
    IF TTLOf[u] \div 2 < MinInterval THEN MinInterval ELSE TTLOf[u] \div 2

Post(u) ==
    /\ net' = net \cup {Message(u, "register", FALSE)}
    /\ call' = [call EXCEPT ![u] = TRUE]

(* RelayClient.Start: the initial registration; the loop starts when it    *)
(* has returned, whether or not it succeeded.                              *)
Start(u) ==
    /\ life[u] = "off"
    /\ life' = [life EXCEPT ![u] = "up"]
    /\ Post(u)
    /\ UNCHANGED <<now, entries, cleanAt, loop, beatAt, connected, bye, crossed, faults, prompt>>

(* heartbeatLoop: the ticker fires.  When rc.stop is closed too, select    *)
(* may still choose the ticker.  (A Go ticker keeps one missed tick, this  *)
(* one keeps all of them.)                                                 *)
Heartbeat(u) ==
    /\ loop[u] = "on"
    /\ ~ call[u]
    /\ now >= beatAt[u]
    /\ Post(u)
    /\ beatAt' = [beatAt EXCEPT ![u] = @ + Interval(u)]
    /\ crossed' = [crossed EXCEPT ![u] = @ \/ life[u] = "stopping"]
    /\ UNCHANGED <<now, entries, cleanAt, life, loop, connected, bye, faults, prompt>>

(* register() returns. *)
Returned(u, success) ==
    /\ call' = [call EXCEPT ![u] = FALSE]
    /\ connected' = [connected EXCEPT ![u] = success]
    /\ IF loop[u] = "off"
       THEN /\ loop' = [loop EXCEPT ![u] = "on"]
            /\ beatAt' = [beatAt EXCEPT ![u] = now + Interval(u)]
       ELSE UNCHANGED <<loop, beatAt>>

(* RelayClient.Stop, called after Start has returned. *)
Stop(u) ==
    /\ life[u] = "up" /\ loop[u] = "on"
    /\ life' = [life EXCEPT ![u] = "stopping"]
    /\ bye' = [bye EXCEPT ![u] = "waiting"]
    /\ crossed' = [crossed EXCEPT ![u] = Registering(u)]
    /\ net' = net \cup {Message(u, "unregister", FALSE)}
    /\ UNCHANGED <<now, entries, cleanAt, loop, call, beatAt, connected, faults, prompt>>

(* heartbeatLoop returns on the closed rc.stop. *)
LeaveLoop(u) ==
    /\ life[u] = "stopping" /\ loop[u] = "on"
    /\ ~ call[u]
    /\ loop' = [loop EXCEPT ![u] = "left"]
    /\ UNCHANGED <<now, entries, cleanAt, life, call, beatAt, connected, bye, crossed, net, faults, prompt>>

-----------------------------------------------------------------------------
(* handleRelayRegister, POST: 200, or 429 when the registry is full. *)
HandleRegister(m) ==
    /\ m \in net /\ m.op = "register"
    /\ Register(m.from, TTLOf[m.from])
    /\ net' = net \ {m}
    /\ IF m.late
       THEN UNCHANGED <<call, connected, loop, beatAt>>
       ELSE Returned(m.from, ~ Full(m.from))
    /\ UNCHANGED <<now, cleanAt, life, bye, crossed, faults, prompt>>

(* handleRelayRegister, DELETE. *)
HandleUnregister(m) ==
    /\ m \in net /\ m.op = "unregister"
    /\ Unregister(m.from)
    /\ net' = net \ {m}
    /\ bye' = IF m.late THEN bye ELSE [bye EXCEPT ![m.from] = "done"]
    /\ UNCHANGED <<now, cleanAt, life, loop, call, beatAt, connected, crossed, faults, prompt>>

(* A POST or DELETE by another user of the API, for a target of his.       *)
Posted(u, ttl) ==
    /\ Register(u, ttl)
    /\ UNCHANGED <<now, cleanAt, clientVars, net, faults, prompt>>

Deleted(u) ==
    /\ Unregister(u)
    /\ UNCHANGED <<now, cleanAt, clientVars, net, faults, prompt>>

CleanupTick ==
    /\ now >= cleanAt
    /\ Cleanup
    /\ cleanAt' = cleanAt + CleanupEvery
    /\ UNCHANGED <<now, clientVars, net, faults, prompt>>

-----------------------------------------------------------------------------
Fault == ~ prompt /\ faults < MaxFaults /\ faults' = faults + 1

(* A client's timeout; the request may be handled yet, or is lost. *)
RegisterTimeout(u) ==
    /\ call[u]
    /\ Fault
    /\ Returned(u, FALSE)
    /\ net' \in {Abandoned(u, "register"), net \ Waiting(u, "register")}
    /\ UNCHANGED <<now, entries, cleanAt, life, bye, crossed, prompt>>

UnregisterTimeout(u) ==
    /\ bye[u] = "waiting"
    /\ Fault
    /\ bye' = [bye EXCEPT ![u] = "failed"]
    /\ net' \in {Abandoned(u, "unregister"), net \ Waiting(u, "unregister")}
    /\ UNCHANGED <<now, entries, cleanAt, life, loop, call, beatAt, connected, crossed, prompt>>

(* The instance exits: after its unregistration has returned, or by a      *)
(* crash.                                                                  *)
Exit(u) ==
    /\ life[u] \in {"up", "stopping"}
    /\ \/ bye[u] \in {"done", "failed"} /\ UNCHANGED faults
       \/ Fault
    /\ life' = [life EXCEPT ![u] = "gone"]
    /\ loop' = [loop EXCEPT ![u] = "left"]
    /\ call' = [call EXCEPT ![u] = FALSE]
    /\ net' = {Message(m.from, m.op, m.late \/ m.from = u) : m \in net}
    /\ UNCHANGED <<now, entries, cleanAt, beatAt, connected, bye, crossed, prompt>>

(* The instance is started again at the same URL: a new RelayClient, while *)
(* requests of the earlier one may still be on their way.                  *)
StartAgain(u) ==
    /\ life[u] = "gone"
    /\ Fault
    /\ life' = [life EXCEPT ![u] = "up"]
    /\ loop' = [loop EXCEPT ![u] = "off"]
    /\ connected' = [connected EXCEPT ![u] = FALSE]
    /\ bye' = [bye EXCEPT ![u] = "no"]
    /\ crossed' = [crossed EXCEPT ![u] = FALSE]
    /\ Post(u)
    /\ UNCHANGED <<now, entries, cleanAt, beatAt, prompt>>

(* The upstream comes back with an empty registry. *)
UpstreamRestart ==
    /\ Fault
    /\ entries' = [u \in URLs |-> Absent]
    /\ cleanAt' = now + CleanupEvery
    /\ UNCHANGED <<now, clientVars, net, prompt>>

(* The cleanup ticker never fires late.  When all is prompt neither do the *)
(* heartbeats, and no request takes any time.                              *)
OnTime ==
    /\ net = {}
    /\ \A u \in Clients : loop[u] = "on" => now < beatAt[u]

Tick ==
    /\ now < MaxTime
    /\ now < cleanAt
    /\ prompt => OnTime
    /\ now' = now + 1
    /\ UNCHANGED <<entries, cleanAt, clientVars, net, faults, prompt>>

Next ==
    \/ \E u \in Clients :
          \/ Start(u) \/ Heartbeat(u) \/ Stop(u) \/ LeaveLoop(u)
          \/ RegisterTimeout(u) \/ UnregisterTimeout(u) \/ Exit(u) \/ StartAgain(u)
    \/ \E m \in net : HandleRegister(m) \/ HandleUnregister(m)
    \/ \E u \in URLs \ Clients : Deleted(u) \/ \E ttl \in PostedTTLs : Posted(u, ttl)
    \/ CleanupTick \/ UpstreamRestart \/ Tick

Spec == Init /\ [][Next]_vars

-----------------------------------------------------------------------------
Messages == [from : Clients, op : {"register", "unregister"}, late : BOOLEAN]

TypeOK ==
    /\ now \in Nat
    /\ RegistryTypeOK
    /\ cleanAt \in Nat
    /\ life \in [Clients -> {"off", "up", "stopping", "gone"}]
    /\ loop \in [Clients -> {"off", "on", "left"}]
    /\ call \in [Clients -> BOOLEAN]
    /\ beatAt \in [Clients -> Nat]
    /\ connected \in [Clients -> BOOLEAN]
    /\ bye \in [Clients -> {"no", "waiting", "done", "failed"}]
    /\ crossed \in [Clients -> BOOLEAN]
    /\ net \subseteq Messages
    /\ faults \in Nat
    /\ prompt \in BOOLEAN

(* However registrations, refreshes and expiries interleave, the registry  *)
(* keeps to server.max_registry_entries and, for every instance with a     *)
(* relay client, to server.max_relay_ttl ("Max TTL cap for registered      *)
(* targets").  The one way past that cap is a negative TTL, which only a   *)
(* registration by hand can ask for: negotiateTTL lets it through, and no  *)
(* cleanup removes the target.                                             *)
CapacityKept == MaxEntries > 0 => Cardinality(Registered) <= MaxEntries
TTLCapped ==
    MaxTTL > 0 => \A u \in Registered :
        entries[u].ttl \in 1 .. MaxTTL \/ (entries[u].ttl < 0 /\ u \notin Clients)
LimitsKept == CapacityKept /\ TTLCapped

(* However requests are lost or delayed and instances crash, a target that *)
(* is no longer heard of is gone one cleanup interval after its TTL.       *)
ExpiredGo ==
    \A u \in Registered :
        entries[u].ttl > 0 => now - entries[u].seen <= entries[u].ttl + CleanupEvery

(* "Heartbeat is sent ... to keep the registration alive" (docs/usage.md): *)
(* when requests take no time and nothing fails, an instance whose last    *)
(* registration was accepted stays registered until its next heartbeat.    *)
KeptAlive ==
    prompt => \A u \in Clients :
        life[u] = "up" /\ connected[u] => entries[u] # Absent

(* "On graceful shutdown, the client sends DELETE /api/relay/register to   *)
(* unregister" (docs/usage.md): an instance whose unregistration was       *)
(* answered is not among the targets until it is started again, unless a   *)
(* registration of this or an earlier life was then still on its way: that *)
(* is the only way it comes back.                                          *)
GoodbyeHeard ==
    \A u \in Clients : bye[u] = "done" /\ ~ crossed[u] => entries[u] = Absent

=============================================================================
