# GenWatch in TLA+

GenWatch supervises a standby generator. A Python service polls an H-100
generator controller, and optionally an ATS-Pi companion that watches the
transfer switch, over Modbus; it derives a state and alarms, keeps a SQLite
history, feeds browsers and Slack, and lets operators start, stop and transfer
under one-shot confirm tokens. Everything runs as coroutines of one asyncio
event loop, so two handlers interleave only where a handler really suspends: at
a contended lock, a Modbus call, a sleep, or a thread hand-off.

This directory models the parts in which a wrong interleaving, a stale value or
a restart would command a generator wrongly, lose its history or tell its
operator something false. Paths below are relative to `src/backend/genwatch/`
unless they start with `src/`.

## 1. Inventory

| Component | State it keeps | Operations | Talks to |
|---|---|---|---|
| Control service `services/control.py` | token dictionary, asyncio lock, register map | issue a token, execute a verb, consume a token, swap the map | Modbus client (write), state snapshot (gates), audit log |
| ATS command service `services/ats_control.py` | its own lock | execute a command | control service (tokens, under the other lock), ATS client |
| Alarm acknowledgement `api/events.py` | none | ack | tokens, Modbus client, alarm table |
| Register-map reload `api/settings.py` | `app.state.regmap` | reload | poller, state machine, control service |
| Poller `modbus/poller.py` | comms health, sample window, LOST episodes, last-good values and their ages, heartbeat, map | prime poll, base poll, watchdog, map swap | Modbus client (reads), poll callback |
| Modbus client `modbus/client.py` | connection, lock | connect, read, write, retry, close | controllers |
| Register maps `modbus/registers.py` | none | load, validate, batch, decode | poller, state machine |
| State machine `services/state.py` | snapshot, debounce counters, codes raised by this session | update, map swap | alarm table, event bus, ATS service, Slack |
| ATS service `services/ats.py` | ATS snapshot, previous uptime, skew and version flags, times of its own commands | on_poll, note_command_write, is_authoritative | state machine, Slack |
| Event bus and feed `services/state.py`, `api/ws.py`, `main.py` | subscribers with bounded queues | publish, subscribe, drop, re-validate | browsers |
| Live page `src/frontend/src/hooks/useLiveData.ts` | alarm list, freshness clock | seed, connect, apply a message | REST API, WebSocket |
| Slack notifier `services/slack.py` | bounded queue, dedupe table, retry tasks, configuration | alert, send, retry, update_config, stop | HTTP |
| Database and retention `db.py`, `services/retention.py` | telemetry, two roll-ups, events, alarms, audit rows | write, roll up, prune, read by span | everyone |
| systemd watchdog `services/notify.py`, `main.py` | none but the ticker's clock | decide to ping | poller's heartbeat, systemd |
| Rate limiter `services/ratelimit.py` | buckets | check | login, ATS routes |

What is hard in it, and what makes it correct:

* **Control.** Three surfaces pop tokens of one dictionary; the ATS surface
  holds its own lock while it waits for the control lock; gates are read before
  an await and acted on after it; a write may land after its handler timed out
  or its process died. Correct: a token authorises one write, by its operator,
  for its action, within its lifetime, in its process; refusals leave it usable;
  no token vanishes without a trace in the audit log; writes to one controller
  do not overlap; no map is swapped under a write; nobody hangs.
* **Poller.** Two loops read concurrently and share one health record and one
  table of last-good values; a reload swaps the batches under polls in flight; a
  watchdog overrides the classifier. Correct: LOST and healthy mean what they
  say, a value that is no longer decoded leaves the reading, the heartbeat never
  outlives the engine state it vouches for, a frozen controller is reported, a repaired link
  recovers.
* **Modbus client.** The loops and the control writes share one wire; a lock is
  taken per attempt; a call is cancelled, times out or is resent below the
  caller's sight, and its frame may land afterwards. Correct: one transaction at
  a time, a write gets in between the attempts of a read, ok means landed.
* **Register maps.** Blocks, gaps, two-word registers at the edge of a block, a
  word that fails beside one that does not. Correct: a register has a value
  exactly when its words arrived, and the controller's value.
* **State machine.** Alarm rows persist and the memory of having raised them
  does not; alarms are suppressed, debounced, dropped by reloads and deleted by
  acknowledgements that looked at them two awaits earlier; one cumulative reading
  is evaluated by the callbacks of both tiers. Correct: no row leaks, each raise
  and each clear is told once.
* **ATS service.** Two snapshots of a cumulative reading are diffed; registers
  are missing, evicted and cached from the slower tier; the companion reboots, is
  replaced or keeps a command that this process never gave. Correct: authority
  rests on an identification and on faults that were really read, no row leaks,
  positions and reboots are told as they are.
* **Feed and page.** A base poll awaits the telemetry write between deriving and
  publishing; a full queue drops its consumer, whose socket lives on; the page
  seeds itself before it subscribes. Correct: no hole in the stream, a dropped
  page goes stale, an expired session loses its stream.
* **Slack.** A full queue, retries that overtake, a dedupe entry made before the
  decision to send, a configuration that changes in between. Correct: fresh
  alerts keep their order, only repetitions are swallowed, the backlog empties.
* **Retention.** A tick is a sequence of database calls with writers in between;
  it fails or the process dies after any of them; prunes and roll-ups select by
  different clocks. Correct: no period is lost while it should be kept, and a
  query is answered from a table that still has it.
* **systemd watchdog.** The ping depends on a heartbeat that may stay away, on a
  ticker that may be late and on a loop that may hang. Correct: a frozen service
  is restarted in bounded time, a live one only after a long enough outage.

`PROJECT.json` lists each hazard at its line with the property that would catch it.

## 2. Modules

| Module | Models |
|---|---|
| `Control` | the control service, the ATS command service, the acknowledgement, the reload and a restart, over one token store and two locks |
| `TokenLedger` | abstract: what the token store promises its clients |
| `Poller` | one poller with both tiers, watchdog, classifier and map swap |
| `Registers` | validation of a map, the plan of block reads, the reads and the decoding |
| `ModbusClient` | the serial and the TCP client under two reading loops and control writes |
| `RemoteWrite` | abstract: what a write promises the service that calls it |
| `StateMachine` | `StateMachine.update()` and everything that touches the same alarm state |
| `AtsService` | `AtsService.on_poll()`, authority and the echo window, with the companion as environment |
| `Feed` | poll callbacks, event bus, WebSocket handlers and the page |
| `SlackNotifier` | alerts, queue, worker, retries, configuration |
| `Retention` | the tables of a site's history, the tick and the choice of a table by a query |
| `SdWatchdog` | heartbeat, ticker, systemd's deadline and restart |
| `ControlProofs`, `PollerProofs`, `RegistersProofs`, `ModbusClientProofs`, `AtsServiceProofs`, `SlackNotifierProofs` | the theorems about the module of that name |
| `PipelineProofs` | the theorems about `StateMachine` and `Feed` |
| `UpkeepProofs` | the theorems about `Retention` and `SdWatchdog` |
| `MC…` | the instances TLC explores |

Definitions that begin with a comment `Mutant:` are plausible bugs of the
definition that follows; no specification uses them, they only show that the
properties notice such a bug.

How the modules fit together: `Control` lets any write land late, never, or up
to `MaxEffect` times, which is `RemoteWrite` (`WritesAreRemote` proves it for
every `MaxEffect`), and `ModbusClient` implements `RemoteWrite` with as many
effects as the library sends frames (`ClientRefinement`, `MaxSend`): with
`MaxEffect = MaxSend` the promise given is the promise used. `Poller` lets a batch yield
any part of its words, which is what `Registers` computes from the reads.
`SdWatchdog` lets the heartbeat come or stay away as it likes, which covers
`Poller`'s. `Feed` and `SlackNotifier` take the alarm changes that
`StateMachine` and `AtsService` produce as arbitrary alternations. So each
module's environment allows all that its neighbour does, and its properties hold
for the whole; the reverse (a property that needs the neighbour's restrictions)
is the composition listed in section 7.

### Control

An API call is a member of `Request`; `job` says what it asks for and is fixed
by the clients. `pc` is the point where its handler is suspended: `idle` (not
arrived), `hwait` (queued on `ControlService._lock`), `await` (queued on
`AtsControlService._lock`), `writing` (in `client.write()`), `done`. A lock is
its queue: the head holds it, the rest wait first-in first-out, which is what
`asyncio.Lock` does; acquiring a free lock does not suspend. `tokens` is
`_tokens`, `grant` what each token was issued for, `snap` and `ats` the parts of
the two snapshots that the gates read, `ctlMap`, `liveMap`, `appMap` the holders
of the register map. The gates of `execute`, of the ATS surface and of the ack
are operators (`ExecuteGate`, `AtsGate`, `AckGate`) that return the first
refusal in the code's order.

A step runs from one real suspension to the next, so checking the gates and
consuming the token under a free lock is one step, while the ATS surface's wait
for its token (`AtsWaitsForToken`) ends a step between its gates and its write.
`WriteLands` is separate from the handler's answer: a frame of a write, the
first or a resend, may reach the controller while the handler waits, after it
timed out, or after the process died; `landed` counts them. `Restart` empties RAM and keeps the database.

The environment moves the snapshots freely within the constants (`EngineSeen`,
`PanelSeen`, `CommsSeen`, `AtsSeen`, `PollYields`); the rate limiter may refuse
any ATS call.

### Poller

`task[t]` is the loop of a tier: sleeping, or reading batch `at` of the map it
captured. A batch ends with a sample (`ReadYields`): nothing readable, or some
of its words, which covers the register-by-register fan-out. `Record` pushes the
sample and classifies; `LastBatch` decodes, evicts, and feeds the heartbeat.
Monotonic times are kept as ages that stop growing one past the last threshold
they meet (`age`, `silence`, `episodes`, `since`), so time itself is unbounded
and the state space finite. `settled` marks the moment from which every read
succeeds, for `Recovers`.

### Registers

The loop of `batch_reads` is the state machine it is in the code: `todo` holds
the registers it has not reached, `start` and `end` the open batch, `batches`
what it has closed. `ReadBatch` reads a block whole or word by word with any set
of failed words, a block beyond the last address always failing; `DecodeTier`
cuts the registers out of the blocks that arrived and decodes them. `Meaning` is
the reference definition of a register's value. The controller's memory stands
still during one poll and changes before the next (`PollAgain`).

### ModbusClient and RemoteWrite

A call is a reader's (repeated for ever) or a write. `pc` is where it is
suspended: the lock's queue, a reconnect under the lock, the wire, a backoff
without the lock. `frames` counts what was sent for a write and `landed` what
reached the controller, at any later time: after an answer, a timeout, a
cancellation or `close()`. The refinement maps a call's outcome and `landed` to
`RemoteWrite`: `ok` is said only of a write that landed, any other answer leaves
it open, and one call takes effect at most `MaxSend` times (the library resends
below the timeout of the client).

### StateMachine

A reading is reduced to what the rules derive from it: engine state, high alarm
bits, registers outside their band, levels of kW and current. `seen` is the
poller's cumulative reading: a prime poll replaces its status part, a base poll
its metrics, and `update()` runs on the whole after either. `session` is the RAM
of the process, `rows` the alarm table. `shared` records that after the first
update the snapshot holds the poller's own health object. An acknowledgement is
two steps: `AckBegin` looks at the row and the link, then the token and the write
are awaited (`Control` has that path), and `AckEnds` deletes whatever row the code
then has, or `AckFails`; several may be under way. `balance` counts, per alarm,
the raised events less the cleared ones since it was last acknowledged; an
acknowledgement answers what is open, and one that comes late answers nothing.
Debounce counters stop
at `MaxPolls`, which `StateMachineAssumption` puts at or above every
`min_poll_count`, so the cap is never seen.

### AtsService

`face`, `output` and `uptime` are the companion: what its sense and identity
registers show, its maintained outputs and its clock. `got` and `missed` are the
poller's cumulative reading, a register being absent once it failed `Stale`
polls of its tier. `Poll(t, fresh)` is one poll of a tier that decoded `fresh`,
with the whole of `on_poll`: `NewSnap` decodes, `Events` diffs the old snapshot
against the new one, `RowsAfter` is the alarm table, and the flags follow.
Positions and modes are decoded from raw enums and encoded back where a register
is missing, as in the code. After the first update the snapshot holds the
poller's health object, so `KnownLink` is the link itself. `told`, `rebooted`
and `orphans` are history: the position last told, a reboot not yet read, rows
of an earlier process. Registers that are only displayed are left out.

### Feed

`OnPollPrime` derives and publishes in one step; `OnPollBase` derives and
`PublishBase` publishes after the telemetry write, whatever ran meanwhile;
`OnPollAts` publishes on the same bus. `Publish` hands a list of messages to every
subscriber, and drops the one whose queue is full: `subs` loses it, `ws` keeps
it. `WsTurn` is one turn of a handler's loop, a message or a keep-alive, with the
periodic re-validation at its end. `page`, `alarm` and `age` are the page's seed,
list and freshness clock. Publications are numbered modulo `Cap + 3`, more than
a queue and the message in hand can hold, so that equal numbers mean the same
publication.

### SlackNotifier

`AlertAlarm` is one raise or clear with the callers' `is_enabled`, the flag, the
dedupe entry and `_enqueue`; `AlertOther` the alerts without dedupe. `Take`,
`Answered`, `SendFails` and `Requeue` are the worker and its retry tasks. A
message is the number under which it was accepted, with its attempts and its age;
elapsed times stop at the largest value the code tells apart. `told` is history:
the age of the last accepted message about a code and direction.

### Retention

`raw`, `in1m` and `in1h` are sets of samples: a row of a roll-up stands for the
samples it was computed from, since averages, extremes and energy are functions
of them. `step` is the database call the tick makes next; between any two of
them telemetry is written, the tick fails or the process dies. A prune deletes
one chunk per step and ends with the first chunk that is not full. `ReadTier`
chooses the table by the length of a query's span and by the roll-ups that carry
its metric, `Selected` takes the rows between `from` and `to`, and `Answer` thins
them out to one in every `Stride`. `QueryAnswered` ranges over windows that reach
up to now, for which every table's memory counts, and windows in the past, which
are answered as far as the table of their length reaches. The properties hold while
`kept`: no two successful ticks were further apart than the window of the minute
roll-up, which is what bounds the outage the code can make up for.

### SdWatchdog

`boot`, `silence`, `nap`, `quiet` and `hung` are elapsed times: since the start,
since the heartbeat, since the ticker went to sleep, since systemd was last
pinged, since the event loop stopped. `Elapse` lets a living ticker be at most
`Latency` late. `late` is history: by how much a heartbeat came too late since the
last ping, so that an outage that ends just before the deadline is remembered.

## 3. Runs

| Run | Shows |
|---|---|
| `tokens` | two tokens and up to two commands over the H-100 and ATS surfaces, with expiry, one restart and lost or late writes: `TokenSingleUse`, `TokenAuthorises`, `WriteExclusion`, `TokenAccounted` (audit), `RefusalKeepsToken`, and the refinement `ImplementsLedger` |
| `reload` | an ack, commands of both surfaces and one or two reloads overlapping: `ControlMapStable`, `ReloadConverges`, `AckTruthful`, and under fairness `RequestsFinish` |
| `poller` | both tiers, two maps that put a register in different tiers: `ClassifierSound`, `HeartbeatHonest`, and under fairness `DeadValuesLeave`, `FrozenStateReported`, `Recovers` |
| `state_machine` | polls of both tiers, reloads, two acks that overlap them, ATS authority, restarts: `NothingLeaks`, `FeedBalanced`, `RowsFollowBits`, `NoInstantRaise` |
| `ats` | complete and partial polls, evictions, a fine, a foreign and a replaced companion, reboots, commands, acks, restarts: `AuthorityIdentified`, `FaultsHoldAuthority`, `RowsOwned`, `PositionTold`, `RebootsReal` |
| `retention` | samples written on time and late, ticks that succeed, fail or die half way, and in every state the queries of all metrics between nine instants: `HistoryKept`, `QueryAnswered` |
| `modbus_client` | two loops and two writes (one with bad arguments) on either transport: `WireExclusion`, `WritePreempts`, the refinement `ImplementsRemoteWrite`, and under fairness `WritesReturn` |
| `feed` | three callbacks publishing to a tab that seeds, connects, lags, breaks and expires: `FeedContiguous`, and under fairness `DroppedShowsStale`, `ExpiredSessionsEnd` |
| `alarm_list` | expects a violation of `ListTrue`, see section 5 |
| `slack` | alerts, a full queue, failures, retries, three configurations, stop: `FreshInOrder`, `DedupeHonest`, and under fairness `Drains` |
| `registers` | every map of up to three registers over a small address space: `PlanExact`, `PollExact` |
| `sd_watchdog` | heartbeats that come, stop and return, late ticks, a hung loop: `FrozenRestarts`, `RestartJustified` |

**Bounds.**

* Control: four or five calls; two tokens (one shared, one to confuse it with); a
  clock up to 2 with TTL 1, so that a token is live, at its limit and past it;
  one restart; a write lands up to twice, as the client's library may resend it.
  A pair of calls on one token plus the calls that issue the tokens
  is the smallest instance with every race between surfaces.
* Poller: window 3, LOST after 2 samples, streak 2, flap limit 2: small enough to
  wrap the window, and with `LostAfter <= Window` as in the code (60 and 5); both
  tiers have the same cadence, and since a poll takes any time, they still meet
  in every phase.
* StateMachine: one bit with debounce 2 and a suppressing state, one banded
  register, the disagreement alarm, and a second map that drops the bit's rule and
  disables numeric alarms; alarms of one kind do not interact, so one of each kind
  gives every interaction. Two acknowledgements may be under way, so that one
  overtakes the other. Of the two directions of the cross-check the run has one
  (the ATS on the generator against an idle H-100); the proofs have both. It
  identifies states that differ only in the load source and in what the feed told
  of the link (`VIEW`): only their own next values and the refuted
  `CommsAnnounced`, which is checked without the view, read them.
* AtsService: one position fault, one maintained command, three companions (a
  fine one; a foreign one that differs from it in every register; and one that
  differs in its unit and shows an invalid raw position, so that the position
  passes through unknown within a process) and a register that leaves the
  reading after one failed poll; base polls are one tick apart. Its run identifies states that
  differ only in the events of the last poll (`VIEW`), which no step reads.
* Retention: a minute of 2, an hour of 4, windows 4 and 8, retentions 6, 8 and
  12, a chunk of one row, a clock up to 14: a sample passes through both roll-ups
  and out of the last table, and every prune needs several chunks. Queries start
  and end at eight instants (`QueryTimes`) or end now, with spans on both sides of
  the two limits, and two points at most, so that four rows are thinned out. The
  ratios are
  those of `ProportionAssumption`, which the code's 60 s, 1 h, 2 h, 6 h, 7 d,
  14 d, 90 d meet.
* ModbusClient: both loops, two writes, two retries, one resend; a third reader
  does not exist and a third write queues as the second does.
* Feed: one tab (handlers share nothing but the bus), a queue of 2 (empty, filling
  and full), a freshness limit of 1 tick, a re-validation every 2.
* SlackNotifier: one code, a queue of 2, three attempts, four messages, age and
  window limits of 2: the queue overflows with a retry outstanding and the window
  opens again between two raises.
* Registers: words of 8 values, addresses 0 to 9, at most 3 registers of every
  type at six addresses, blocks of at most 4 words, gaps of 1: adjacent,
  overlapping, gapped and too distant registers, a block that is full, a two-word
  register on the last address.
* SdWatchdog: `WatchdogSec` 12, a ticker of 3 that is up to 1 late, stale after 6,
  a grace of 10: the code's proportions (60, 15, 30, 300) but for the grace, which
  only has to exceed the start.

**Deadlock** is checked in every run but `registers`, where a map that is refused
ends the behaviour.

**Fairness.** `Control!FairSpec`: weak fairness of the next step of every call
that has arrived (the event loop runs every ready callback, a released lock goes
to its first waiter, a Modbus call answers or times out because the client
bounds it). Arrival itself is not fair. `Poller!FairSpec`: weak fairness of
both loops, of the watchdog and of time, again because they are tasks of one
event loop and every read is bounded by a timeout. Nothing forces the cabling to
be repaired: `Recovers` starts from `settled`. `ModbusClient!FairSpec`: every
suspension of a call ends, since `wait_for` bounds connects and transactions and
the backoff is a sleep; that the link returns is not assumed. `Feed!FeedFairSpec`:
handlers take turns, because the wait for a message is bounded by the keep-alive,
and time passes; polls, reconnects and seeds are not forced.
`SlackNotifier!FairSpec`: the worker takes, a send ends within its timeout, a due
retry is put back, time passes; that a send ever succeeds is not assumed. The
bound on messages (`MaxMsg`) stands for alerts that stop coming, without which
no backlog need empty.

## 4. Proofs

Every theorem holds for all values of the constants that meet the named
assumptions of its module, which restrict types and, where a module says so, the
proportions the code's own constants have.

| Module | Theorems (each `Spec => []…`, or `Spec => …` for action properties and refinements; `FeedSpec` and `WatchdogSpec` for those two modules) |
|---|---|
| `ControlProofs` | `TypeCorrect`, `TokensAreSingleUse`, `TokensAuthorise`, `WritesExclude`, `MapIsStable`, `LedgerRefinement`, `TokensAreAccounted`, `RefusalsKeepTokens`, `ReloadsConverge`, `AcksAreTruthful`, `NoLockDeadlock`, `WritesAreRemote` |
| `PipelineProofs` | of `StateMachine`: `TypeCorrect`, `RowsAreWarranted`, `FeedIsBalanced`, `RowsFollow`, `RaisesAreDebounced`; of `Feed`: `FeedTypeCorrect`, `FeedIsContiguous` |
| `PollerProofs` | `TypeCorrect`, `ClassifierIsSound`, `HeartbeatIsHonest` |
| `AtsServiceProofs` | `TypeCorrect`, `AuthorityIsIdentified`, `FaultsDenyAuthority`, `RowsAreOwned`, `PositionIsTold`, `RebootsAreReal` |
| `ModbusClientProofs` | `TypeCorrect`, `WireIsExclusive`, `WritesPreempt`, `LockIsOwned`, `RejectedIsUnsent`, `ClientRefinement` |
| `SlackNotifierProofs` | `TypeCorrect`, `FreshStayInOrder`, `DedupeIsHonest`, `AlertsAreNotDuplicated` |
| `RegistersProofs` | `TypeCorrect`, `PlanIsExact`, `PollIsExact` |
| `UpkeepProofs` | of `Retention`: `TypeCorrect`, `HistoryIsKept`, `QueriesAreAnswered`; of `SdWatchdog`: `WatchdogTypeCorrect`, `FrozenIsRestarted`, `RestartIsJustified` |

Almost no property is inductive; this is what had to be added, and why.

* **Control** (from `ControlAssumption`, and `WorkloadAssumption`: token strings
  are never issued twice, verbs go to the surface that knows them). Single use
  needs to know that a token that started a write is out of the dictionary and
  cannot come back: `TokenInv` adds that a token still to be issued is not yet in
  `issued` (`IssuedOnce`), that a request that was sent has left its token outside
  the dictionary (`SpentIsGone`), and that a live token belongs to the running
  process and is not from the future (`LiveIsCurrent`). Exclusion needs the lock:
  `LockInv` says that a handler in `client.write()` is the head of its surface's
  queue; map stability follows, since a reload has to be the head itself.
  Convergence of reloads needs the order of the queue: `QueueInv` (each waiter is
  in it once) and `ReloadInv` (the last reload queued holds the live map). The
  audit needs that a token's answer, once given, stays (`AnswersStay`) and that no
  grant is of a later process (`GrantsArePast`). The refinement maps the store to
  the ledger (`LedgerView`) and shows, action by action, which tokens are voided,
  issued and spent.
  `NoLockDeadlock` is the safety half of `RequestsFinish`: every chain of handlers
  that wait for a lock has at most two links and ends at one that runs. It needs,
  besides `QueueInv`, that the queue of the ATS lock holds ATS commands only, each
  once (`AtsQueueInv`): such a command may wait for the control lock, but no
  holder of the control lock ever waits for the ATS lock. `WritesAreRemote`
  needs that a handler is in `client.write()` exactly while its write is started
  and unanswered (`SentInv`, `AnsweredIsDone`); a write whose handler a restart
  killed stays unanswered for ever and may still land.
* **StateMachine.** `PipelineInv` is the conjunction of the two state properties,
  of `RowsOwned` (every row of this process is in the memory that clears it) and of
  `CountsBounded`: no debounce counter is ahead of the updates seen since the last
  reload. `RowsAreWarranted` follows from `RowsOwned`: an update clears whatever
  the memory holds and the reading no longer supports, range alarms only while
  the map in force has them enabled (`Stranded`). One lemma states what the union of the three alarm kinds raises
  and clears, so that `update()` is opened once and not once per property.
* **Poller.** `RunInv`: unless the watchdog spoke, the failure counter is the run
  of empty samples at the end of the window. `HealthyInv`: a healthy link ended
  with a good sample and has its streak or its percentage. `SilencedInv` and
  `TaskInv` tie the watchdog and the loops to it. `HeartbeatIsHonest` has a
  hypothesis of its own, `Cadence["prime"] <= Cadence["base"]`: a reload may move
  an engine-state register to the base tier, whose poll evicts by its own limit,
  and a shorter one would take away a register the heartbeat still vouches for.
  The defaults are 1500 and 15000 ms; the code does not validate it.
* **AtsService.** `MirrorInv`: the snapshot is the cumulative reading, but for the
  faults of an evicted register. `GotInv` types the reading. `UptimeInv`: without a
  reboot the uptime last read is not ahead of the companion's.
* **ModbusClient.** `LockInv`: a caller is in the queue once, exactly while it
  waits or holds, and whoever is on the wire is its head. `AttemptInv` bounds the
  attempts, `WriteInv` says that a write has no second attempt and sent nothing
  before its first. `TurnInv`: a reader that is ahead of a queued write has not
  had its transaction yet, and behind it cannot have one. From the same invariant,
  a waiting call has a live one at the head of the queue (`LockIsOwned`), and with
  `OutcomeInv` a write reported as not attempted has sent nothing
  (`RejectedIsUnsent`): after these two failures a retry cannot act twice.
* **Registers** (from `RegistersAssumption`: an even word base, finite maps). The
  loop of `batch_reads` is a state machine, so its result is an invariant and no
  induction over data. `ClosedInv`: every closed batch begins and ends at a
  register and ends before the next begins. `OpenInv`: the open batch likewise,
  it ends before every register still to come, and every register behind is
  covered. `LoopInv`: when the loop ends nothing is to come. For the poll,
  `ReadInv` says that a block that was read is a batch of the plan with the
  controller's words, a failed one reading 0, and `DoneInv` that the values are
  those cut out of these blocks. As batches do not overlap, the first block that
  contains a register is the only one (`OneBlock`); that the decoded number is
  the one of its type (`DecodeIsMeaning`) rests on lemmas about `%` and two's
  complement in any even base.
* **Feed.** `LiveInv` adds that only open sockets are subscribed. Numbers are
  modulo `Cap + 3`, so the step cases are sums modulo that number; a queue holds
  at most `Cap`, which keeps the sums apart.
* **SlackNotifier.** `TriedInv`: what waits for a retry was tried, so putting it
  behind fresh alerts breaks no order. `CopyInv`: an alert is in the queue, with the
  thread or with a retry task, and only in one of them (`OneCopy`), with a try
  left (`TriesLeft`) and a number that was given once (`Numbered`).
* **Retention.** `RawInv`: only what is older than the retention as of the last
  complete roll-up has left the raw table, hence what a roll-up still has to see
  is there. `RollInv`: up to the last roll-up every sample has its minute and its
  hour, or they are over (`MinutesUpTo`, `HoursUpTo`); between the two roll-ups of
  a tick the minutes are one tick ahead. That decimation leaves a row less than a
  stride before every row (`Decimation`) is a counting argument: ranks of rows grow
  by one from row to row (`BeforeCounts`), so the least instant with more than `v`
  rows up to it is a row of rank `v` (`RowOfRank`, by the least-number principle).
* **SdWatchdog.** `ClocksBounded` relates each clock to `quiet`; `OutageSeen`: a
  ticker that withheld its ping has seen an outage as long as the quiet since,
  less the passes.

Only model-checked: liveness and everything else that needs fairness or `ENABLED`
(`RequestsFinish`, `DeadValuesLeave`, `FrozenStateReported`, `Recovers`, `WritesReturn`, `Drains`,
`DroppedShowsStale`, `ExpiredSessionsEnd`). Every invariant, action property and
refinement that a passing run checks is also a theorem. The type invariants and the five
theorems without a run property (`NoLockDeadlock`, `WritesAreRemote`,
`LockIsOwned`, `RejectedIsUnsent`, `AlertsAreNotDuplicated`) are proved and are in
no run.

## 5. Where the code and its documentation disagree

`alarm_list` is the run in which TLC finds a documented statement violated:
`src/frontend/src/hooks/useLiveData.ts:1-3` says that the seed and the pushes are
the page's single source of truth. The seed is read before the socket subscribes
and never again after a reconnect, so an alarm raised or cleared in the gap stays
wrong on a page that is connected and has received everything. A second way to
get there is a base poll whose event is published after that of a later prime
poll.

The following statements are refuted in the same way; their configurations are
kept and show the counterexample with `tlc -config <cfg> <module>`:

| Statement | Configuration, module, property |
|---|---|
| README.md:745: two concurrent control requests cannot both observe a stale snapshot and both fire. The lock serialises them, but the second reads the snapshot of the first unless a poll ran in between. | `MCControlDoubleStart.cfg`, `MCControl`, `OneCommandPerObservation` |
| ats_control.py:12-23: an assert is refused without authority. The gates run before the wait for the control lock, the write after. | `MCControlAtsGuard.cfg`, `MCControl`, `AssertGuardedAtWrite` |
| poller.py:254-256: one success cannot un-LOST the link. The watchdog sets the counters and leaves the window alone, so it does. | `MCPollerLeap.cfg`, `MCPoller`, `NoInstantRecovery` |
| README.md:743 and poller.py:17-18: an event on a comms change. The snapshot keeps a reference to the poller's health object and is compared with itself from the second update on. | `MCStateMachineComms.cfg`, `MCStateMachine`, `CommsAnnounced` |
| events.py:88-89 and 102-103: the next poll raises an acknowledged alarm again. Raising skips codes the snapshot already displays. | `MCStateMachineAck.cfg`, `MCStateMachine`, `DisplayedHasRow` |
| state.py:541, of the numeric alarms: "A value back in range clears." When a reload turns them off while one is up, `update()` no longer looks at them (state.py:437) but keeps displaying the codes it remembers (439-440): the row stays, whatever the value does, until it is acknowledged or a later map turns them on again. `NothingLeaks` sets exactly these rows apart (`Stranded`). | `MCStateMachineNumeric.cfg`, `MCStateMachine`, `RangeRowsClear` |
| ats.py:535-538: the boot-time step from unknown to utility is not told. Line 542 keeps every such step silent, so after an outage of the position register, which is told, the return to utility is not; a feed that last said generator, then unknown, never says utility. `PositionTold` states what is kept. | `MCAtsReturn.cfg`, `MCAtsService`, `PositionToldOnceUp` |
| ats-pi-icd.md:355: the skew alarm fires when the clocks differ by more than 5 s. The wall clock is read every 15 s and its cached value is compared with the present time every 1.5 s, so exact clocks raise it too. | `MCAtsSkew.cfg`, `MCAtsService`, `SkewIsReal` |
| retention.py:70-71: re-aggregating the current hour is safe. The window starts inside an hour, and the last pass over it replaces its row by one computed from the minutes that are left. | `MCRetentionHours.cfg`, `MCRetention`, `ClosedHourWhole` |

Met while modelling, with the exact statement that does hold:

* registers.py:71-72 counts `min_poll_count` in consecutive prime polls. Base
  polls count the cached bit too (`StateMachine!NewCounts`).
* ats.py:264-266 says missing registers keep their value. A missing
  `fault_summary` reads as no fault; this is the exception that
  `FaultsHoldAuthority` states.
* ats.py:490-492 says a command asserted before a restart does not warn. The
  poller's first poll is a base poll, which sets `last_reading_ts` without having
  read the commands, so the first prime poll does warn (`CommandEvents`).
* events.py:88-89 calls the local clear of an ack idempotent. The row and the link
  are looked at before the awaits of the token and of the write; at the end the
  row is deleted and "Alarm acknowledged" written without a second look. A poll
  that clears the alarm meanwhile, or a second ack under another token, leaves an
  extra entry, and an alarm that was cleared and raised again meanwhile loses its
  new row. `FeedBalanced` is what is kept.
* poller.py:349-351 says a value past its limit is dropped. Only the registers of
  the tier being polled are looked at, so the value of a register that a reload
  drops from the map stays for ever (`DeadValuesLeave` speaks of the others).
* db.py:249-250 picks the table of a query by its span. A short window that lies
  further back than the raw table is kept is read from that table and comes back
  empty, although both roll-ups have it; no comment claims otherwise, and
  `QueryAnswered` promises a past window only what its table retains.
* README.md:735 says the service stays up through an outage, without
  restart-thrash. The ticker withholds its ping and systemd restarts the service;
  `RestartJustified` is the bound that is kept.
* README.md:737 says a Stop waits for one timeout. With both loops ahead of it, it
  waits for an attempt of each, which may reconnect first (`WritePreempts`).
* slack.py:61-62 says a message past its age is dropped. The age is looked at only
  after a failed send (`AfterFailure`).
* slack.py:305 says the oldest message is evicted. It is the head of the queue,
  behind which an older retry may wait (`FreshInOrder`).

## 6. Not modelled

* Control: the contents of audit rows beyond who and what; the rate limiter's
  bucket (one call per request without an await; it may refuse at any time);
  password hashing and JWT.
* Poller: a reload that changes the cadences, `stop()`.
* Registers: parsing of the YAML file, the checks of names, rules and bands,
  scaling. The mock Modbus client is a test double.
* StateMachine: the payloads of transition and load-source events, panel mode
  (Control has it), a database error in the middle of `update()`.
* AtsService: registers that are only displayed, forwarding to Slack, a database
  error in the middle of `_update()`.
* ModbusClient: the refusal of an unsupported function code (client.py:265, 468),
  which no register map asks for.
* Feed: an ack deletes a row without any bus event (events.py:176-187), and a page
  whose seed failed opens its socket all the same (useLiveData.ts:97-100, 334).
  Both make the list of `ListTrue` wrong in further ways; no passing property
  depends on them.
* SdWatchdog: a ticker pass while the poller is stopped (main.py:469-470), which
  happens only during shutdown, and a ping whose send fails, which is a ping that
  was not sent.
* Retention: a query returns 0.0 for a row whose metric is NULL and truncates
  `from` and `to` to whole seconds for the roll-ups (db.py:259, 281).
* SlackNotifier: `test()` and the building of messages.
* Database: schema, migrations, runtime statistics.
* Read-only queries, configuration parsing, the command-line tool, the rest of
  the front end and the installation scripts hold no concurrent state of their
  own.

Hazards that were met and have no property, because the model leaves out what
they are about: a debounce counter that advances on cached values (state.py:363,
stated as a finding); the ATS snapshot sharing the poller's health object
(ats.py:415, as in `StateMachine`); a command released by somebody else between
two polls (ats.py:502); a database error
between raising a row and telling it (state.py:387); a retried raise that joins
the queue behind its clear (slack.py:373); a fan-out that reads the halves of a
two-word register at different times (poller.py:424); `stale_after` computed once
from the boot map's cadence (main.py:448); a death between a write and its audit
row (control.py:350).

## 7. Plan

1. The composition of `AtsService` and `StateMachine`: the switch as shared
   environment, and the disagreement alarm over base-tier values that are stale
   after a transfer.
2. Reloads that change the cadences, through `Poller` and `SdWatchdog`, with the
   limit computed at boot.
3. Database errors in the middle of an update, with the rows and events that are
   left behind.
