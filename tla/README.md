# HookRun: a TLA+ verification project

HookRun is a webhook server: requests are matched against rule files, and the
first matching rule runs its actions (commands, scripts, outgoing webhooks,
relays to other HookRun instances), synchronously or in the background.  This
directory holds TLA+ models of its concurrent and stateful parts, TLC runs that
check them on small instances, and TLAPS proofs, for every value of the
constants, of all the safety properties the passing runs check.

Paths below are relative to `src/`.

## 1. Inventory

| Component (code) | State | Operations | Talks to |
|---|---|---|---|
| Engine (`internal/engine/engine.go`) | configs, running marks, last starts, dedup cache, async semaphore, async WaitGroup, rule-logger cache | Process, ProcessTargeted, tryAcquire, markDone, dispatchAsync, UpdateConfigs, WaitForAsync, CloseRuleLoggers, Stop | HTTP server (calls it), record store, dedup cache, action runner |
| Dedup cache (`engine/dedup.go`) | request ID to expiry | IsDuplicate, Cleanup, cleanup loop | engine |
| Record store (`internal/execstore/store.go`) | ring of records, index by request ID | Add, Complete, List | dispatchAsync writes, `/api/executions` reads |
| Action runner (`engine.go` executeActions, `webhook.go`, `relay.go`, `internal/executor`) | position in the action list, attempt | actions in order, retries with backoff, relay fan-out | shell, HTTP receivers, relay registry |
| Relay registry (`engine/registry.go`, `internal/server/relay_api.go`) | URL to TTL, last seen | Register, Unregister, Refresh, FindByTag, Cleanup | relay clients of other instances |
| Relay client (`engine/relay_client.go`) | connected, failures, stop channel | Start, heartbeat loop, Stop | upstream's registry over HTTP |
| HTTP server (`internal/server/server.go`) | listener, open requests | webhook, reload, health and status handlers; GracefulShutdown | engine, manager |
| Config manager (`internal/config/loader.go`) | global config and rules | Load, Rules, FindByFileName | reloads, server |
| Daemon (`cmd/hookrun/main.go`, `internal/daemon`) | PID file, signal files, status file, stopCh | start, stop, restart, status, reload; signal and watcher goroutines | server processes, the installed binary |
| Logger (`internal/logger`) | the log files; per logger a handle, the day and the size of its file | write, rotate, close, remove old files | tasks write, reloads close, the engine caches one per config |
| Interpolation, validation, auth, filters, templates | none | pure functions | config load, engine |
| Self-update (`internal/update`) | executable, staged file, `.old` file | stage, replace, roll back, clean up | a start cleans up; processes keep the file they run |

**What is hard here.**  Requests are goroutines that meet in the running marks,
the dedup cache, the semaphore and the record store; a background task outlives
its request and gives back what it took on a goroutine of its own, also when its
actions panic.  Reloads replace the rules under requests that hold copies.  A
shutdown races with requests, tasks and a second way to stop.  Registrations
cross an unreliable network and expire.  Commands, updates and server processes
share files nobody locks, and so do loggers that write to one file; each of
their changes to a directory is several system calls, of which any may fail.

**What makes each part correct** is stated as the properties of section 3;
`PROJECT.json` lists the hazards they are for, each at its line.

## 2. Modules

| Module | Models | State and steps |
|---|---|---|
| `ExecStore` | execstore.Store | one action per method: each holds the mutex throughout |
| `ExecutionLog` | abstract: what `/api/executions` promises | a bounded log, newest first; every entry shows the state of its own execution |
| `AsyncRecords` | the store with its writers | executions dispatch and end in any order |
| `DedupCache` | dedupCache | IsDuplicate as `Seen` and `Note`, `Cleanup` |
| `OncePerWindow` | abstract: what a caller of IsDuplicate is promised | an ID is let through once per window |
| `DedupWindow` | cache, cleanup loop, clock | refines `OncePerWindow` |
| `Engine` | the request path | one handler per request; a step is one critical section or one operation on the semaphore or WaitGroup; uses `ExecStore` and `DedupCache` by INSTANCE |
| `Backoff` | calcRetryInterval | integers of `IntBits` bits that wrap |
| `ActionRunner` | executeActions of one rule | every end an executor can report is possible for every attempt |
| `TargetRegistry` | TargetRegistry | one operator per method |
| `RelayPresence` | relay clients, targets registered by hand, network, upstream handlers, cleanup loop | messages may be lost or late, clients crash and start again, the upstream restarts |
| `Shutdown` | the end of a server process | requests, tasks, the two goroutines that take up a stop, the main goroutine |
| `Reload` | disk, manager, engine, rule-logger cache, status | a reload in nine steps; watcher, SIGHUP and API reload alike except where the code differs |
| `Logger` | loggers on one file, the directory | a line is a step of its logger, or several when the file has to be changed: remove, rename, open, write |
| `Platform` | whether the host is Windows | chosen once, shared by the next two |
| `Daemon` | commands, PID file, stop file, server processes, whether the configuration loads | a command reads the PID file, judges, acts; a server loads, writes its PID file, binds, serves, drains |
| `SelfUpdate` | runs of `hookrun update`, executable, staged and old file | one file operation a step, each of which may fail or be the last |
| `Installation` | composes `Daemon` and `SelfUpdate` | a process runs a binary; a start cleans up and needs a whole executable |

`MC*` modules give constants their values for TLC; `*Proofs` modules hold the
proofs.  Definitions called "Mutant of ..." are small mistakes someone might
make in the code; each property has one that breaks it, so that a run which
passes is known to be able to fail.

How the code is read:

- A method that holds a mutex from start to end is one action.  A method that
  releases it between steps (dispatchAsync, a reload, a shutdown) is as many
  actions as it has steps that others can see.
- A file is what it stands for: a log file is the lines in it, a handle stays
  with its file through renames and removals; a binary is whole or not.
- Names, messages, durations, request bodies and file contents are abstracted
  to what the properties tell apart.  Whether a request passes the auth check,
  the file filters or a rule's filters is part of the request (`auth`,
  `filters`, `rules`), and the runs enumerate the cases.
- Manager and Engine hold one config list in `Engine` (a targeted request is
  served from the manager's, any other from the engine's); `Reload` has the two
  apart.
- Ends of actions, answers of receivers, edits, signals, losses and crashes are
  nondeterministic.
- Variables called a history (`began` in `Engine`, `late` in `Shutdown`,
  `shared` in `Logger`, `overlap` in `SelfUpdate`) are read by properties only.
- `Engine` keeps a task key as the sequence config name, "/", rule name, so
  that two rules may share a key as they may in the code.
- A Go ticker keeps at most one missed tick; the tickers of the models keep all.

## 3. Runs

Every passing run is exhaustive within its bounds.  What the runs check of
safety is proved as well (section 4): the runs show that the interesting cases
occur, and that a small mistake in a definition is noticed.  Most type
invariants are left to the proofs.

**Stores** - the two stores the engine keeps between requests, which share
nothing: a behaviour is of one or of the other.  Five executions, five IDs, a
ring of three.  `RecordsTruthful`: a listed record is "running" exactly while its
own execution is, and then shows its outcome, although Complete finds records by
ID and slots are reused.  `LogSpec`: the ring and its index implement
`ExecutionLog`.  Five executions wrap the ring and evict records of executions
that are still running; IDs are not shared (`Inherited = FALSE`), see section 6.
Two IDs to deduplicate, windows 1 and 3, time to 7: every pair of windows meets,
ends and is cleaned up.  `PromiseSpec`: the cache refines `OncePerWindow`, cleanup
at any moment included.  `StaleDropped`: every stale entry goes, unless the loop
is stopped.

**EnginePolicies** - three requests, a synchronous and a background config,
block (default, file level) and always (rule level), reloads that turn the policy
of the synchronous task from block to always and back, two slots, actions that
succeed, fail or panic.  Two requests conflict and the third is a bystander or a
second rival; for `OverlapsPaidFor` they are a run under always, the run under
block beside it, and the one that its end lets in.  `BlockExclusive`: no two
executions overlap of a key that is under block in every list.
`OverlapsPaidFor`: of a key that changes its policy, one execution under block
runs at most, plus one for every execution under another policy that has ended
and taken the mark back.  `RunningHasHolder`: no mark is left behind, except by a
panic on the synchronous path, where nothing is deferred.  `AsyncAccounted`:
slots and counts are exactly those of the handlers between taking and giving
back.  `RecordsTruthful` again, in the whole engine.

**EngineChain** - two requests, shared IDs, requests to all configs or one,
failing auth and filters, three config lists that reloads swap (one with two
files of one routing name, one with a task under cooldown beside one that takes
the only slot), panics; with fairness, without symmetry.  Two requests are
enough for `CooldownSpaced` and `DedupOnce`, which relate pairs; the proofs
cover the rest.  `CooldownSpaced`: executions of a task under cooldown start a
cooldown apart, also when a reload, a refusal or a full semaphore comes between.
`DedupOnce`: of requests with one ID, one starts a deduplicated task per window.
`FirstMatchWins`: the rule a request runs is the first match of one whole list,
although reloads replace the list under it, and "No matching rules" means none.
`Answered`: every request is answered.  `AcceptedEnds`: every accepted task ends
with record, key, slot and count settled.

**EngineDedup** (a violation) - section 6.

**ActionRunner** - a command, a relay to two static and up to two registered
targets and a webhook, with every mix of one or two attempts and
continue_on_error, with and without the hop limit reached; and one command of
twelve attempts.  `OneByOne`: an action is left only after it succeeded or had
all its attempts.  `ResultTruthful`: count and last failure are what happened.
`NeverRedone`: nothing that succeeded is done again; a relay target whose answer
was a success is not sent to by a retry (one whose answer comes after the
timeout may be).  `WaitsBounded`: a wait is never negative and never longer than
125 % of the capped interval, whatever shift and product wrap to, and no shorter
than 75 % of it, rounded down, where the product fits the integer (12 bits here:
attempts 2 to 9 fit, 10 to 12 do not).  `Finishes`: a rule ends.

**RetryCap** (a violation) - section 6.

**RelayPresence** - two instances, TTLs 0 and 7 (half of 7 is just the cap), a
target that others register and unregister by hand with a negative TTL, as the
API lets them, room for one, a TTL cap of 3, one fault of any kind (a timeout, a crash, a
restart of the upstream, an instance started again), time to 7 (units of five
seconds), which is two TTLs.  A behaviour either is prompt (no delays, no
faults) or has both.  `LimitsKept`: capacity and TTL cap hold, but for a
negative TTL, which passes the cap and never expires, and which no instance asks
for (`TTLOf` is what validation leaves of `relay_client.ttl`).  `ExpiredGo`: a
target no longer heard of goes within a cleanup interval of its TTL.
`KeptAlive`: in prompt behaviours an accepted instance stays registered.
`GoodbyeHeard`: an instance whose unregistration was answered is out of the
registry until it is started again, unless one of its registrations, of this life
or an earlier one, was on its way when it was told to stop or was sent after that
(the heartbeat loop may still pick its ticker).  Stop does not wait for the
loop, so that exception is real; `ExpiredGo` then bounds how long the target
stays, when it has a TTL.

**Shutdown** - three requests, stops by signal, by file and by both.
`GraceGiven`: a request is cut off only after the drain timed out, a task only
after its grace period, but for tasks started by requests that outlasted the
drain.  `LogsCloseLast`: rule loggers close after the tasks, with the same
exception.  `StopEnds`: a stop ends the process even when requests and tasks
never end.

**Reload** - the watcher and the API reload, alone or together, two edits
(broken or not) of either file, one request.  `ManagerWhole`: the manager holds
what one successful load read, also when loads run together.  `EngineFollows`
and `LoggerCurrent`: between reloads, engine and cached rule logger are those of
the manager's rules, if reloads (and, for the logger, requests) did not run into
each other.  `AskedTakesEffect`: a request for a reload is never lost.

**Installation** - three processes, commands one at a time, two runs of
`hookrun update`, both platforms, one kill, failed PID write or edit after which
the configuration does not load (`MaxMishaps`; it may be repaired at any time),
one file operation that fails or one update that crashes.  Three processes are a server, its successor and a rival;
two updates are the one that overlaps another and, one after the other, the one
that meets what the first left behind.  `StatusTruthful`: at rest the PID file
names the server that is up, unless it is the one whose own PID file could not be
written (the error is only logged, section 6).  `StopsTheRightOne`: a server stops only when a
command meant it, unless one was killed before.  `BinaryThere`: at every moment, crashes and failed rollbacks
included, there is a whole executable, or on Windows one under the name `.old`,
unless updates overlapped.  `FailureKeeps`: an update that reports a failure has
left the executable alone, unless its rollback failed too.  `Serves`: after
start or restart a server is up, whatever updates do beside it, unless one is
killed, the configuration does not load by then, or there is no whole
executable.  With either of the last two a restart leaves no server at all: it
looks for them when it has stopped the old one.  Commands are given one at a time (`Serial`) to servers
that stop within restart's 15 seconds (`Patient`); section 6 tells what happens
otherwise.

**Logger** - two configs that name one file, two tasks, both modes, two loggers,
files of two lines, days of two ticks, retention of one day, hosts in UTC and
east of it, five lines, time to 3 (two days), one rename or open that fails.
Five lines fill a file, rotate it, fill it again and rotate it over the first;
two loggers are the one before a reload and the one after it.  `OneWriter`: no
two tasks are in the middle of a line of one logger, and a line that is written
has a file.  `TailKept`: in
single mode the rotated file and the file hold the last lines in order and
without a gap, in the middle of a rotation and after a failed one, unless two
loggers had files open together.  `DaysKept`: in daily mode the lines of the
retained days are there, whoever removes files meanwhile.

**LogRetention** (a violation) - section 6.

Runs with `CHECK_DEADLOCK FALSE` are of systems that may stop: all executions
done, the rule finished, the bound on time reached, the process gone.

### Bounds

`MaxTime`, `MaxFaults`, `MaxEdits`, `MaxMishaps` and the number of handlers,
executions, processes, updates, loggers and lines bound the runs only; the
proofs do not depend on them.  (`DedupOnce` speaks of the time up to `MaxTime`
when every window is longer, in the proof for every `MaxTime`.)  One mishap shows
each of them beside every command and update; two of them at once add no place
where one may happen.  A new process is always the same one of those that are
left (`NewProcess`): they do not differ.

### Fairness

Only the program's own steps are fair, and only weakly: goroutines are
scheduled, every action and every request to another host ends (each has a
timeout, or is a command taken to terminate), timers fire.  Requests, edits,
commands, faults and, in `Shutdown`, even requests and tasks themselves are
not fair.

## 4. Proofs

TLAPS checks the following for all values of the constants that satisfy the
named ASSUMEs of the modules: any number of requests, executions, processes,
updates, loggers and targets, any lists of configs and actions, any windows,
TTLs, limits and sizes.  Every invariant and every action property of a passing
run, and both refinements, are among them.  In parentheses is the property of
the runs that a theorem states.

**Records** (`StoresProofs`).  `TypeCorrect`.  `Truthful` (`RecordsTruthful`)
whenever IDs are not shared, from `IInv`: a record is owned by an execution of
its ID (`RecordsOwned`), is found in the index under that ID (`RecordsIndexed`),
and the index finds nothing else (`IndexSound`).  Without `RecordsIndexed`,
Complete could miss; without `IndexSound`, an eviction could strike another
record's entry.  `ListsTheLog` (`LogSpec`): the ring implements `ExecutionLog`
under the same condition.  The slots in use are those just behind the head
(`Filled`), so the listing is a function of the place, counted backwards from
it; an addition moves every entry one place on, drops the last of a full ring
and puts its own first (`Turned`, `Prepended`), and a completion changes one
entry in place, or none that is listed.

**Dedup cache** (`StoresProofs`).  `CacheTypeCorrect`; `KeepsPromise`
(`PromiseSpec`): the cache implements `OncePerWindow`, cleanup included.

**Engine** (`EngineProofs`).  `TypeCorrect`.  `MutualExclusion`
(`BlockExclusive`) and `MarkedHasHolder` (`RunningHasHolder`): a key held under
block is marked, because only holders unmark and, under block in every list,
there is one; and under block only an unmarked key is taken.
`OverlapsArePaidFor` (`OverlapsPaidFor`), for whatever config lists, from
`PaidInv`: the mark of a key is worth one execution under block.  A start under
block finds no mark and makes one; who takes a mark back either ran under block
itself or joins those that ended under another policy, so what is lost on one
side is won on the other.  `SlotsAccounted` (`AsyncAccounted`)
moves one handler at a time in and out of the sets whose cardinalities the
counters are.  `Cooldowns` (`CooldownSpaced`) from `CoolInv`: an execution that
was let start did so no later than the last start noted for its key
(`BeganNoted`), which is not in the future (`NotedByNow`), so a task that is not
cooling now is a cooldown after every earlier one.  `Deduplicated` (`DedupOnce`)
from `InWindow`: a handler with a deduplicated task has an entry for its ID that
outlives the window, and only a handler whose ID has none gets one.
`FirstMatch` (`FirstMatchWins`) from `PassedOver`: a request that is looking for
its rule has passed over the first k configs of one list, none of which had a
match, and has the rest of its candidates before it.  `RecordsAreTruthful`
(`RecordsTruthful`) from `RecordInv`: the records are those of background tasks
past dispatch, found under the IDs of their requests, and a handler completes
its record before it gives back anything; here the store is used by handlers
that may panic, be refused or find no slot.

**Action runner** (`ActionRunnerProofs`).  `TypeCorrect` (`TypeOK`).  `Ordered`
(`OneByOne`), `SucceedsOnce` (`NeverRedone`) and `Truthful` (`ResultTruthful`)
from `RunInv`: what is behind succeeded or used up its attempts, what is ahead
is untouched, and a target that answered makes its attempt a success (`Sent`),
so that no retry meets a target that was served.  `Counted` adds that count and
last failure are those of the actions behind.  `WaitsAreBounded`
(`WaitsBounded`): the waits, computed in integers of any width that wrap, for any
interval and number of attempts, are never negative nor above 125 % of the capped
interval (`IntervalAtMost`), and exact up to the jitter while the product fits
(`IntervalExact`).  It needs three facts about powers of two, for which the
provers have no induction; they come from counting the subsets of `1..n` instead
(`Subsets`, `PowerGrows`, `PowerDoubles`).

**Shutdown** (`ShutdownProofs`).  `TypeCorrect` (the WaitGroup counts the
tasks); `Grace` (`GraceGiven`) and `LogsLast` (`LogsCloseLast`) from `StopInv`:
where some stopper has waited for requests, none is open or the drain was cut
short, and where it has waited for tasks, none runs but late ones or the grace
period is over; what holds is kept, because the listeners are closed and a
request that outlasts a drain makes its task late.

**Relay** (`RelayPresenceProofs`).  `TypeCorrect`.  `Limits` (`LimitsKept`):
only a new name enlarges the registry, and
what negotiateTTL leaves of a TTL is at most the cap, and at least 1 unless the
TTL was negative, which that of a client is not; `TTLAssumption` lets any other
TTL be asked for.  All of it assumes that nobody registers or unregisters the
URL of an instance but that instance.  `Forgotten` (`ExpiredGo`) from `CInv`:
the next cleanup is at most one interval away, and a target with a TTL has been
refreshed late enough for that cleanup to find it.  `Goodbye` (`GoodbyeHeard`)
from `BInv`, that only a stopping instance waits for an unregistration, and
`GInv`, that no registration of an instance told to stop is on its way unless it
crossed.  `Beats` (`KeptAlive`) from `KInv`: in a prompt behaviour the loop of an
instance that is up has its next heartbeat due no later than one interval after
the entry was refreshed, which is before the entry expires.  That is the
hypothesis `BeatsInTime`: the TTL the upstream grants is none or at least the
heartbeat interval.  It holds of every TTL that is not below the shortest
interval of the client nor capped below its own half; section 6 has the case in
which it does not.

**Reload** (`ReloadProofs`).  `TypeCorrect`.  `WholeManager` (`ManagerWhole`)
from `WInv`: what a load has read and found good stays good through later edits.
`EngineInStep` (`EngineFollows`) from `FInv`: reloads that did not overlap are
alone, and outside their own install window the engine has the manager's rules.
`LoggersFollow` (`LoggerCurrent`) from `LInv` beside it: a request that copied
the rules copied those the engine still has, and no request is in a position to
cache a logger between the closing of the loggers and the update of the engine.

**Logger** (`LoggerProofs`).  `TypeCorrect`.  `Exclusive` (`OneWriter`): a logger
is in the middle of one line, and when it writes it has a file.
`TailIsNotLost` (`TailKept`) from `SoleTail`: until two loggers had files open
together, the one logger that has a handle has that of the base name (`Sole`),
and the two files hold the last lines, in the middle of a rotation too: the
rotated file is removed only when the other is full.  `DaysAreKept` (`DaysKept`)
from `DaysInv`: a logger whose day is retained has the file of that day
(`Current`), and no cleanup finds it too old.  The hypothesis `Zones \subseteq
Nat` leaves out hosts west of UTC, where the property is false (LogRetention,
section 6).

**Installation** (`InstallationProofs`).  `TypesCorrect` (`TypesOK`).
`ExecutableStays` (`BinaryThere`) and `FailureKeepsExecutable` (`FailureKeeps`)
from `FilesInv`: of updates that never overlapped one at most is under way; the
staged file is nobody's executable and, once staged, whole; the executable is
the one the update found until it is moved, and while it is away the `.old` file
is that one; on Windows servers run no other file than these two (`Images`), which
is what a file in use may get in the way of.  `StatusIsTruthful` (`StatusTruthful`) and
`RightServerStops` (`StopsTheRightOne`) from `ServerInv`: one server at a time,
or one without a PID file and another that will find its port taken (`Alone`);
a server is named by the PID file from the moment it has written it, or could not
(`Announced`); what a command has read stays so until it acts on it (`Seeing`); a
stop on its way is for the one server that can take it (`Signals`).  Both have the hypotheses `Serial` and `Patient` of section 3, under
which all this is kept; section 6 tells what happens without them.

**Only model-checked** are the liveness properties: `Answered`, `AcceptedEnds`,
`Finishes`, `AskedTakesEffect`, `StopEnds`, `Serves` and `StaleDropped`.  Their
proofs would reason about ENABLED, which this prover does not.

## 5. Not modelled

Evaluation of auth (HMAC, IP ranges), filters and templates; YAML parsing,
interpolation and validation (their results are the ASSUMEs on constants): pure
functions of one request or file, whose errors unit tests reach.  The process
tree of a command (a child that keeps the output pipes open delays the end of a
timed-out command).  Of an update: the release query, version comparison,
download and archives; only what happens to files on the way in is modelled, and
that a crash of the host may lose what was not synced is not.  Of the logger:
its format, its console output and the size in bytes (a file is full at a number
of lines).  `init` and `version` (files and output only) and the `relay` command
(a query of another instance); tags, tokens and the status endpoint of the
registry; reuse of a PID by another program.

## 6. Where code and documentation differ

Checked by a run that finds the violation:

- **EngineDedup / DedupTruthful.**  All configs share one dedup cache and the ID
  is noted before matching.  A request that passes a deduplicating config
  without a match is told by the next deduplicating config "Deduplicated,
  request already processed".  One request suffices.  The same answer goes to
  the retry of a request that was refused with 409 or 429.
- **RetryCap / WaitsCapped.**  The jitter is applied after the cap, so a wait may
  be 375 seconds.  `docs/configuration.md:550` and the comment on
  calcRetryInterval (`internal/engine/engine.go:812`) say "capped at 5 minutes";
  a test (`internal/engine/retry_test.go:131`) expects what the code does.
- **LogRetention / DaysKept.**  Cleanup takes the date in a file name for
  midnight UTC and compares it with local time, while the names are local dates.
  West of UTC a logger made in the evening removes a file on the last of its
  retention days: with `retention_days: 1` the file of today, with what was
  logged to it since midnight.  The loggers that have it open go on writing into
  the removed file.  `docs/configuration.md:26`: "Days to retain daily log files".

Seen in the models, and the reason for the conditions in the properties above:

- *Records* (`Inherited = TRUE` in `AsyncRecords`): of two executions under one
  inherited ID, the older record stays "running" after both have ended.
- *Policies*: after a reload from always to block, several executions share one
  mark; the first to end clears it and a new one starts beside the others
  (`OverlapsPaidFor` counts how many; without its second summand it fails).
- *Backpressure*: a request turned away for want of a slot has set `lastRun`;
  a cooldown runs although nothing was started (`CooldownSpaced` therefore
  bounds starts from below only).
- *Ambiguous routes*: that two files have one routing name (`b.yml`, `b.yaml`)
  or two configs one display name is found by `hookrun validate` only
  (`internal/config/loader.go:73`), not by a start or a reload; `/webhook/b` then goes to
  the first, and configs with one display name share their task keys.
- *Backoff*: for many attempts the product overflows and retries follow at once
  (`WaitsBounded` bounds a wait from below only where the product fits).
- *Webhook*: retries take any status below 400 for success; the comment on
  `WebhookResult.Success` says 2xx.
- *Relay targets*: a static URL listed twice is sent to twice.
- *Relay TTL*: the heartbeat interval is half of the client's own TTL
  (`docs/usage.md:775` says a third); the upstream may cap the TTL, and the
  client does not take the cap over: with a cap below the interval the instance
  drops out between heartbeats (`KeptAlive` with a `MaxTTL` of 2 and a TTL of 9;
  the run has half of the TTL within the cap).
- *Negative TTL*: `/api/relay/register` takes any number for a TTL
  (`internal/server/relay_api.go:90`).  A negative one passes `max_relay_ttl`
  (`internal/engine/registry.go:66`) and is no reason for Cleanup to remove the
  target (line 123): it stays until it is unregistered, and takes up one of
  `max_registry_entries`.  `docs/configuration.md:22` says "Max TTL cap for
  registered targets".
- *Unregistration*: Stop does not wait for a heartbeat under way, which may
  reach the upstream after the DELETE and register the instance again.
- *Shutdown*: a request that outlasts the drain may start a task after
  WaitForAsync has returned, and it gets no grace period.  A process stopped by
  signal and by file can close stopCh twice and panic.
- *Reload*: of two reloads that run together, the one that loaded first may
  install its rules last.  A request that copied old rules may put the old rule
  logger back after CloseRuleLoggers, where it stays.
- *Daemon*: a restart that does not see the old server end within 15 seconds,
  or two starts at once, end with a server whose PID file was removed by
  another (`Patient` or `Serial` FALSE).  On Windows a second stop, or a stop of
  a server that is killed first, leaves `stop.signal` behind for the next server.
  The `reload` command sends SIGHUP to a process that may have no handler for it
  yet, which ends it.
- *Start*: the error of WritePID is only logged (`cmd/hookrun/main.go:126`).  The
  server goes on, `status` says "stopped", `stop` and `restart` do not reach it,
  and what they start beside it cannot bind.
- *Restart*: the configuration is loaded, and the executable started, when the
  old server has been stopped (`cmd/hookrun/main.go:351`, `:272`); when either
  fails no server is left.
- *Log rotation*: two loggers on one file in single mode (two configs with one
  `log.path`, or a logger that a task still holds after a reload and the one
  that replaced it) each rotate by their own handle: the second rotation removes
  what the first put aside (`shared`).  A logger that opens a file that is full
  writes one line before it looks at the size, so files exceed
  `max_size_mb` (`docs/configuration.md:27`).  When the rename fails, the file
  rotated before is gone already and the file grows on.
- *Log retention*: old files are removed when a logger is made, not while it
  runs; `docs/configuration.md:154` promises long-running services automatic
  cleanup, `docs/usage.md:787` says "on startup".
- *Self-update*: two updates at once share the staged file, and the second may
  truncate what the first moves into place (`overlap`).  On Windows an update
  fails while a server runs from the `.old` file that an earlier update left.

## 7. Plan

Done: the core (records, dedup, engine), runner, relay, shutdown, reload,
daemon, then logger and self-update, the composition of the last with the
daemon, and the proofs of section 4, with which no safety property is left to
the runs alone.  Next, in this order:

1. A composition of `Engine` with `Shutdown`, so that drain and grace period
   meet the real request path.
2. Interpolation and template substitution as operators against a reference
   definition; the registry's tags.
3. Loss of power between the operations of an update.
