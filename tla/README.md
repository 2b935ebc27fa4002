# TLA+ models of the R60V bridge and Home Assistant integration

The Rocket R60V has a Wi-Fi listener that takes one client at a time, answers a
half-duplex ASCII protocol without identifiers, and *wedges*: after some abuse it
still accepts a connection and greets, but answers nothing until it has been left
alone for minutes. Everything in this repository is arranged around that listener.
The models here describe the two programs that talk to it: the bridge daemon
(`src/bridge/r60v_broker`) and the integration (`src/custom_components/rocket_r60v`).

- [Inventory](#inventory)
- [Modules](#modules)
- [Runs](#runs)
- [Bounds](#bounds), [Fairness](#fairness)
- [Proofs](#proofs)
- [Divergences](#divergences): where the code does not do what it says
- [Left out](#left-out)
- [Plan](#plan)

To repeat a run: `tlc -config MCBroker_push.cfg MCBroker.tla`. To repeat the proofs:
`tlapm BrokerProofs.tla`, and the same for the other modules named `*Proofs`.

## Inventory

### The bridge daemon

One asyncio process; paho's MQTT client adds a thread.

| Part | State | Operations | Correct when |
|---|---|---|---|
| Device store (`store.py`) | cached settings block and live registers, optimistic overlay, failure streak, availability verdict | `update_settings`, `update_live`, `note_success/failure/wedged`, `apply_optimistic`, `reconcile_clear` | the cache shows the newest command until that one is over, then the machine; one verdict, moved by readings, failures and the wedge only |
| Wedge recovery (`wedge.py`) | start of the failure streak, cooldown deadline, back-off index, good probes | `record_*`, `begin_cooldown`, `in_cooldown`, `awaiting_probe` | a rest runs its course; probes only, afterwards; only a whole run of good ones resumes |
| Governor (`governor.py`) | priority queue, worker task, socket ownership | `read`, `write`, `close_link` | each request is carried out and answered once, commands first |
| Client (`client.py`) | TCP streams, lock, pacing | `connect`, `request`, `_exchange`, `close` | a reply is the reply to its request; a request ends |
| Broker (`broker.py`) | poll cadence, intent queue, MQTT command queue | poll loop, write-intent loop, MQTT command loop, `run`, `main` | no traffic in a cooldown; intents end and reconcile; a failed task ends in a restart |
| LAN front-end (`tcp_frontend.py`), protocol (`protocol.py`) | connections of native clients | read a frame, dispatch, acknowledge, relay | exactly what was sent is dispatched, in order |
| Push server (`push_server.py`) | subscribers, last snapshot, broadcast lock | `broadcast`, `_safe_send`, `_handler`, inbound commands | frames never go back; one subscriber cannot hold up the rest |
| MQTT (`mqtt_bridge.py`, `publisher.py`) | session, will, last published verdict | `_on_connect`, `publish_availability`, `disconnect` | the retained topic tells the store's verdict, and offline when the daemon is dead |

### The integration

| Part | State | Operations | Correct when |
|---|---|---|---|
| Client (`client.py`) | as the bridge's, plus a drain before each send | `request`, `_drain`, `close` | as above |
| Coordinator (`coordinator.py`) | cached snapshot, cooldown, index, probes, failures | `_async_update_data`, `async_write`, `async_end_cooldown` | the bridge's discipline when there is no bridge; no flapping |
| Push client (`push_client.py`) | WebSocket, reconnect back-off | `_run`, `_handle` | what is shown is shown over a connection |
| Timer switch (`switch.py`, `time.py`) | remembered time, restored attribute | `async_turn_on/off`, `async_added_to_hass` | off and on brings the timer's own time back |
| Setup and unload (`__init__.py`, `clock.py`, options flow) | the entry's state, its client, coordinator, stream, daily clock task, the options read | `async_setup_entry`, `async_unload_entry`, reload on options | what is over leaves nothing running; what is loaded runs with the options in effect; it comes up again |
| Entities (`entities.py` with its platforms; the bridge's `state.py`) | none: decoders and encoders over the settings | `decode`, `encode` | both registries read alike; an accepted command reads back and disturbs nothing else |
| Bridge health (`bridge_health.py`) | the last verdict | fetch, `blocking` | see [Left out](#left-out) |

### How they interact

- Poll loop, intent loop, MQTT command loop and LAN connections all *await* the
  governor, whose one worker drives the one client. So each task's request is in one
  of two places (queued, or with the worker) while the task stands still and every
  other task goes on.
- The poll loop alone drives the wedge recovery, and closes the client's socket from
  outside (`close_link` takes no lock), beside whatever the worker is doing.
- Every task may move the store; projections (MQTT, push) listen to it.
- Push subscribers send commands, which become intents: shown at once (overlay),
  executed later, reconciled by a read.
- The integration either subscribes to the push stream or polls the machine itself;
  in the second case it carries the same wedge recovery in other code.
- A command of the integration goes over the stream while that is connected, and
  otherwise (or when the stream's send raises) through its own client, to the bridge's LAN
  front-end or the machine. Both channels, and MQTT's, end in the governor's command lane.
- A reload ends one client, coordinator and stream and starts another; requests of the old
  ones may still be under way.

### What is hard

Answers that arrive after the state they were asked in is gone (a read in flight when
the cooldown starts, a probe in flight when the operator presses End Cooldown); a
socket closed under a request; commands that overlap on one register; replies matched
by size and order only; subscribers that stop reading; a process that stops while its
clients wait for it; restarts from a state that was not saved; commands that overtake one
another over two channels, or are carried out after their caller was told they failed;
what is left of an entry after it was unloaded. Every such place is a
row of `hazards` in `PROJECT.json`, at its line, with the properties about it.

## Modules

| Module | Models | Remarks |
|---|---|---|
| `DeviceStore` | `store.py` | One operator per method on a record, so that calls without an await between them compose in one step. |
| `WedgeRecovery` | `wedge.py` | The same for the recovery. Deadlines are distances from now, moved by `Elapse`. |
| `CooldownDiscipline` | what both recoveries promise | Abstract: `Enter`, `Pass`, `GoodProbe`, `BadProbe`. Implemented by `Broker` and by `PollingCoordinator`. |
| `PatientRequest` | what tasks are promised of one request | Abstract: connect (for as long as it takes, or as one attempt of several), warm up, send, re-send on the same connection, let go before making another. Implemented by both clients of `R60VClient`, by the worker of `Broker` and by the client of `CommandPath`. |
| `Broker` | `broker.py`, `governor.py`, the entry points of the servers | EXTENDS the first two; composes every task, the queue, the worker, the link and the machine. |
| `R60VClient` | both `client.py` files | `build` says which of the two clients it is. Units of replies on the wire, no identifiers. |
| `PushChannel` | `push_server.py`, `push_client.py`, push mode of the coordinator | The store's content is a version number. |
| `PollingCoordinator` | `coordinator.py` in polling mode | Writes and End Cooldown run beside the refresh. |
| `TimerSwitch` | `switch.py`, `time.py` | Restarts of Home Assistant and the empty snapshot included. `push` says what feeds it. |
| `DaemonLife` | `Broker.run`, `main`, MQTT session and availability, systemd unit | EXTENDS `DeviceStore`. `waits` says which `wait_closed` Python has. |
| `Framing` | `protocol.py`, reading in `tcp_frontend.py` | Frames as character codes; one damaged character, of those `int()` does not forgive between digits (`IntForgives`: white space, signs, `_`). A `0x` or `0X` prefix, which `int(..., 16)` takes as well, is refused by the model at once; the code reads such a frame and leaves it to the sum, as any other with a damaged digit. |
| `CommandPath` | `coordinator.async_write`, `clock.py`, both channels to the bridge, the front-end's connections, the intent loop, the command lane | Commands are numbered and all write one register; the content of the register is the number of the command that wrote it. `subject` says whether they are settings or clock pushes. `wire` has a line per stream handler, since the next connection does not wait for the last one's; `loose` are frames the bridge's client left with the machine, `doubt` an acknowledgement that may be another frame's. |
| `EntryLife` | `__init__.py`, options flow, `clock.py`'s tasks, `close()` of the client, end of the stream | Generations: what one set-up made, and what is left of it. `direct` and `data` say how the entry was configured. |
| `Entities` | `entities.py`, `climate.py`, `select.py`, `text.py`, `switch.py`, `state.py` | EXTENDS `TimerSwitch`, whose steps are steps on the same settings block. Two records of entity descriptions, as the code has. |
| `BrokerProofs`, `PollingProofs`, `TimerProofs`, `ClientProofs`, `LifeProofs`, `PushProofs`, `CommandProofs`, `FramingProofs` | | Theorems. `LifeProofs` has those of `DaemonLife` and `EntryLife`; the former's specification is called `DaemonSpec`, since one module extends both. |
| `MC*` | | Constants of the runs. |

### Atomic steps

On an asyncio loop the code between two awaits cannot be interrupted, and one action is
one such stretch, whole. Two consequences shape `Broker`:

- Resolving a job's future, taking the next job and running the awaiting caller on to
  its *next* await are one step (`JobSucceeds`, `JobFails`, `JobCrashes`, with
  `Resumes(caller, result, block)` for the caller's part). The caller's own
  continuation, for instance `update_settings`, then `note_success`, then `record_success`,
  is composed of store and wedge operators in that step.
- The governor's priority queue with its counter is two FIFO lanes. `Submit` puts a job in
  the lane of its kind; `job[c]` is what caller `c` awaits.

The worker's phases (`connect`, `warmup`, `pace`, `await`, `served`) are the awaits inside
a request, because those are the points at which a cooldown may close the socket under
it: at `await` that is a connection error and the request reconnects, at `pace` the
streams are `None` and the request dies of another exception (`JobCrashes`; for the MQTT
command loop, which has no catch-all, `DaemonRestarts`).

`Broker` reduces the client to outcomes of a request. `R60VClient` models the client in
full, byte-run by byte-run, and is where mixed-up replies are visible. `PatientRequest` is
what holds the two together: both are proved to implement it. So is `CommandPath`'s
reduction of the integration's client (`EntryLife` reduces it further, to requests that end
in a number of attempts it does not count). In `Broker` the
machine is an environment: `ok`, `mute` (greets, answers nothing) or `off`, changing at any
time; in `R60VClient` it loses frames, answers late or closes its side. Time is `Tick`, at
any moment.

### Abstractions

- Settings: a function from addresses to bytes. A write, the overlay and the machine's
  memory are functions of the same shape with `NoByte` where nothing is touched.
  Live registers carry no decision, so only "one was read" is kept.
- The failure streak saturates at the grace, the streak's age at `WedgeAfter`, the back-off
  index at the last step: beyond these the code compares and nothing else.
- Pacing and back-off sleeps are the gaps between steps.
- A broadcast is the version it carries; a connection's buffer is a short sequence.
- A reply is a run of units tagged with the request and position: the client itself only
  uses how many there are and whether they form a whole frame.

## Runs

Twelve runs: eleven must hold, one shows a disagreement between code and documentation.
Each property has a mutant, a small plausible bug of the same code written beside the
definition it would replace (`..._Unbounded`, `..._NoTimeout`), with which the property
fails.

| Run | Checks | Shows |
|---|---|---|
| `push` | `TypeOK`, `PollRestsInCooldown`, `OverlayIsNewest`, `OverlayShown`, `CooldownForcesOffline`, `OnlineOnlyByReading` | A push-only bridge, users sending intents, panel edits, a machine that wedges, goes off and comes back. In a cooldown the poll loop has no request anywhere. The overlay belongs to the newest command and is never uncovered by an older read. Entering a cooldown takes the store offline in the same step, and only an answered read takes it online. |
| `mqtt` | `EveryJobHeldOnce`, `WedgeKeepsDiscipline` | MQTT commands and a LAN client. Each awaited request is in exactly one place, once, through failures, dying requests and restarts; the recovery implements `CooldownDiscipline`, whoever else reaches the machine. |
| `live` | `HealthyComesOnline`, `MuteGoesOffline`, `SettingsConverge`, `IntentsEnd` | Under fair tasks a healthy, watched machine ends up online and a mute one offline; the cache keeps returning to the machine's memory; a taken intent ends. |
| `client` | `AnswersUntilTimeout`, `ClientsKeepPatience`, `RequestsEnd` | Both clients against a late, fragmenting, silent or closing peer. No reply is mixed up on a connection on which no wait has timed out, however earlier connections ended; both clients implement `PatientRequest` (a fault costs one of the bridge's two connections or of the integration's three attempts, never a second connection beside the first); a request ends, or (bridge) is connecting. |
| `stream` | `ViewNeverGoesBack`, `UnconnectedIsNotShown`, `PollNotHeldUp`, `ServedCatchesUp` | Poll loop and intent handler broadcast to two subscribers that connect, stall and drop. No older snapshot follows a newer one, over reconnections too; a subscriber that is not connected comes to be shown only by an operator's refresh; a stalled one holds up nobody; one that reads and is served comes to show the last content and keeps it, if the poll loop gets on. |
| `polling` | `RefreshRestsInCooldown`, `OverrideForgetsBackoff`, `KeepsDiscipline`, `WithdrawnForCause`, `RecoversWhenHealthy` | The integration on its own. No refresh is at a resting machine, writes and End Cooldown notwithstanding; it implements the same `CooldownDiscipline`, but for the override; entities are withdrawn for a cause; a machine that answers again is shown again. |
| `timer` | `RemembersGenuine`, `KeepsEnabledTime`, `RemembersAcrossRestart`, `SameReading`, `CommandsReadBack` | The settings under commands of the integration, MQTT and the panel. Integration and MQTT show the same of every setting, the strange bytes included; an accepted command shows as asked for and changes nothing unrelated. The timer switch: off and on brings back the enabled time on show; with polling a time the machine had or the default, and the last one seen after a restart from an available state. |
| `life` | `SameSessionTruth`, `DeadIsOffline`, `CrashRestarts` | Failures, signals, kills, power cuts, MQTT reconnections. Once a verdict was told on a session the topic stays true; a daemon cut off while up does not leave its entities online; a failed task ends in a fresh daemon (where `wait_closed` waits, once the LAN clients hang up). |
| `frames` | `OnlySentDispatched`, `CleanStaysAligned` | Pipelined requests with any one character damaged at any time: what is dispatched was sent, once and in order, but for a damaged write cut short where its data is its sum, which is the last one; undamaged streams stay aligned; replies have the size the client waits for. |
| `commands` | `AckedStands`, `NoneAfterReport`, `IntentsInOrder` | Commands through stream, client or both, with drops and handlers that read on, time-outs, re-sends, replies taken for another's, frames left with the machine, a bridge that dies. A command acknowledged over connections on which no wait timed out is done and stands against older ones, with the exceptions listed in it; nothing reported failed or long past is carried out later, but from a frame left behind; intents keep their order, but for those left behind. |
| `entry` | `OverIsQuiet`, `LoadedIsCurrent`, `ComesUp` | Set-up, retries, reloads, unloads, disabling, option changes at any time, requests of two generations side by side, a machine of one client or a front-end. A generation that is over has nothing running but what unloading cut into; a loaded entry runs with the options in effect, unless they changed during set-up; an entry comes up once its host answers. |
| `latest_intent` | `LatestIntentNotReverted` (fails) | See [Divergences](#divergences). |

Types are invariants too: `TypeOK` of `Broker` is checked in `push` and proved; that of
the other modules with proofs is proved for every value of the constants.

Deadlock is checked everywhere except in `frames`, where a closed connection is the end.

## Bounds

- `Broker`: one address, two bytes (interchangeable, hence the symmetry in the safety runs;
  the liveness run has none). Addresses do not interact except through a multi-byte
  write, which the store treats byte by byte. Back-off `<<1, 2>>`: first rest, longer
  rest, and the repeated last one; `live` uses one step, as escalation does not matter to
  ending a rest. Two confirming probes, so that confirming and resuming differ. Grace 2 in
  the safety runs, so that wedge and grace can come in either order; 1 in `live`. One
  retry of an intent and one re-send, so that first and last try differ. One queued intent
  beside the one in progress (two in `latest_intent`, which needs on, off, on), one queued
  MQTT command beside the one in progress, one LAN client: with poll loop, intent loop
  and command loop that fills both lanes of the governor with contenders.
  `CommandBound` is the model's; `IntentQueueMax` is the code's own limit, small.
- `R60VClient`: three requests, a long reply (2 units) and two equally short ones (1 unit):
  what matters is equal against different size. Two re-sends. The machine holds 3 unread
  frames. 2 attempts (bridge) or 3 (integration) as in the code.
- `PushChannel`: two subscribers, poll loop and one handler, one frame of buffer before a
  send has to wait, two changes of the store: older, newer and one overtaken between them.
- `PollingCoordinator`: back-off `<<1, 2, 3>>`, two probes, tolerance 2.
- `TimerSwitch`: midnight, the default, one more time.
- `Entities`: besides the auto-on timer, the settings are at most one command or one strange
  byte away from a normal state, since commands touch a block each and `CommandsReadBack`
  looks at each command from each of these states. Temperatures at, between and just beyond the
  limits, half degrees included; three profiles with both bytes of a time in use, one out of range.
- `CommandPath`: two commands, an older and a newer one, which is what each property relates;
  two connections, so that a re-sent frame may be on one the client left; two stream handlers,
  so that one may read on beside its successor; one re-send and two attempts (the code's two
  loops with both outcomes each); one retry of an intent and one queued intent beside it.
  `Torn` bounds the commands that may take both ways or leave a frame with the machine to the
  older one: it is the one to undo or overtake the other. The theorems have no such bound.
- `EntryLife`: two generations at a time (a third set-up waits until the first is forgotten),
  one pending clock task per generation, three choices of options: polling, streaming, and
  streaming with clock sync.
- `DaemonLife`: grace 2, two LAN clients.
- `Framing`: 2 addresses, 3 values, lengths to 2, two requests, eight damaging characters
  (digits, letters of both cases, a command letter, one that is none of these). The values
  are such that some writes, cut short by a damaged letter or length, end in what is their sum.

## Fairness

- `Broker`: weak fairness of `WorkerStep`, `PollStep`, `IntentStep`, `CommandStep` and
  `Tick`. Every await of these tasks is on a timeout, a sleep, a queue or the worker, and
  the loop runs whatever is ready; the clock goes on. Nothing is assumed of the machine,
  users or network; "healthy" and "watched" are premises of the properties.
- `R60VClient`: weak fairness of the client's steps: each await is bounded by
  `wait_for`. Nothing of the peer.
- `PushChannel`: the server's tasks (lock, sends with their 1 s timeout, ending handlers).
  Subscribers need not read, and the poll loop need not come to its next broadcast: inside a
  cycle it may connect for ever (bridge `client.py:157`). `ServedCatchesUp` has both as
  premises, of the subscriber it is about (`Reads`) and of the loop (`Polls`). That the store
  is left alone in the end is its bound, `MaxVersion`.
- `PollingCoordinator`: Home Assistant's refresh timer, the refresh's awaits, the clock.
- `EntryLife`: Home Assistant's own tasks (set-up, retries, unload), the client's bounded
  awaits. That a machine of one client lets go of a connection nobody uses any more is a
  premise of `ComesUp` (`PeerLetsGo`).
- `CommandPath` and `Entities` state safety only.
- `DaemonLife`: the clean-up's awaits, systemd's restart and stop timeout, and the MQTT
  server publishing a will. That LAN clients hang up is a premise of `CrashRestarts`, for
  `waits` only.

## Proofs

TLAPS proves these for every value of the constants, from the constants' named
assumptions (`StoreAssumption`, `WedgeAssumption`, `BrokerAssumption`, `PollingAssumption`,
`TimerAssumption`, `EntityAssumption`, `ClientAssumption`, `EntryAssumption`,
`DaemonAssumption`, `PushAssumption`, `CommandAssumption`, `FramingAssumption`), which TLC evaluates in the
runs. They say what a configuration or the code's own constants are: a limit is a number
(at least 1 where the code tries at least once), a reply has a length, a time is an hour
and a minute, the disabled timer is none, a length fits into four digits.

Every safety property of the passing runs is a theorem. Each
inductive invariant was checked with TLC, from reachable states, before it was proved.

`BrokerProofs`. The inductive invariant `IInv` joins

- `TypeOK`,
- `ServedReply`: while the worker is at `served` its reply is a whole block (otherwise
  the store could be given something else),
- `EveryJobHeldOnce` itself, with its relation between kinds and lanes: submitting and
  releasing keep it, by lemmas about the two lanes (`AppendLane`, `TailLane`,
  `SubmitHolds`, `TakeHolds`, `ReleaseHolds`),
- `TasksAwait`: a task at an await of the governor has a job there, a task
  elsewhere has none (otherwise a resumed caller could be somewhere its job is not),
- `PhaseKnown`: a cooldown or a due probe is never found with the poll loop inside an
  ordinary cycle (that is what makes the poll loop the only one to move the recovery).

From it: `TypeCorrect` (`TypeOK`), `JobsHeldOnce` (`EveryJobHeldOnce`), `PollRestsTheorem`
(`PollRestsInCooldown`), `CooldownForcesOfflineTheorem`, and `WedgeDisciplineTheorem`: the
refinement of `CooldownDiscipline`, initial states and steps (`DisciplineStep`).
`OverlayShownTheorem` (`OverlayShown`) goes through the store's operators: each keeps the
overlay shown (`StoreShows`), so each resuming task does (`ResumesShows`).
`OnlineOnlyByReadingTheorem` needs one more invariant, `JobKinds`: the poll loop never
writes, and a task at its re-read is not writing. `OverlayIsNewestTheorem`
(`OverlayIsNewest`) needs the invariant `OInv`: `OverlayBacked` names, for each byte of the
overlay that no dead command left behind, the queued intent that wants it and is the last
one to (so that clearing by value, which is what `reconcile_clear` does, leaves no byte of an
intent that is over, though it may drop a newer one's, see [Divergences](#divergences)), and `KnownIsHad` says that a known block
counts as data (so that an intent marked as shown was). Lemmas follow the
relation through the queue's two ends: `BackedByRest` when the oldest intent ends,
`BackedByLast` when a new one is shown.

`PollingProofs`. The invariant `PInv` joins `TypeOK`, `DeadlineKept` (a deadline exists
exactly during the back-off), `RefreshPhase` (past the cooldown check a refresh is outside
every cooldown, and a whole read has cleared the recovery), `FailuresCounted` (failures
beyond the tolerance are on their way into a cooldown) and `ShownWhen` (nothing is shown
during the back-off). `FailuresCounted` is what bounds the count in `TypeOK`;
`DeadlineKept` is what the refinement mapping needs to tell polling from a due probe.
From it: `PollingTypeCorrect`, `RefreshRestsTheorem`, `KeepsDisciplineTheorem` (the same
abstract discipline, with the override as its reset), `WithdrawnForCauseTheorem`, and, with
`OverrideStage`, `OverrideTheorem`.

`TimerProofs`. The invariant `TInv` joins `TypeOK`, `SavedWell` (what Home Assistant
restores is as good as what the switch held when it stopped: with polling a time the
machine had or the default, and the last one seen unless that was lost on the way down)
and the three properties the run checks; without `SavedWell` the first step after a
restart could remember anything. `EntitiesStep` shows that a step of any other entity, and
an MQTT command, is a step of the switch or leaves it alone, so `SwitchAmongEntities`:
`EntitiesSpec` implements `TimerSwitch`'s `Spec`. From the two: `TimerTypeCorrect`,
`GenuineTheorem` (`RemembersGenuine`), `KeepsEnabledTheorem` (`KeepsEnabledTime`) and
`RestartTheorem` (`RemembersAcrossRestart`), from `TimerAssumption` alone.

The same module proves the codecs. `HoldsTimer` says that the settings are always some
settings of `Untimed` with the switch's timer written over them; the registry's
entries write disjoint bytes (`WritesApart`), and what each reads depends on its own bytes
alone (`ReadsLocal`). From there `SameReadingTheorem` (`SameReading`) and
`CommandsReadBackTheorem` (`CommandsReadBack`) go through the entities one by one, for any
`Time`, `Profile`, `Setpoint` and `Strange` that `EntityAssumption` allows.

`ClientProofs`. The invariant `CInv` joins `TypeOK`, `OneAtATime` (until a wait has timed
out, what the connection carries is the present exchange's frame or the parts of its
reply, and nothing between exchanges), `BeginsClean` and `GoneIsSilent` (a new connection
inherits nothing, a closed one brings nothing), `Connected` and `Unconnected`, and
`FaultsCounted` (an exchange failed for each attempt spent, at the most). `OneAtATime` is
why a client that compares no identifiers cannot mix replies up: without it the first
reply of equal length would do. From it: `ClientTypeCorrect`, `AnswersTheorem`
(`AnswersUntilTimeout`), `ReconnectsOnceTheorem` (a request of the bridge's has had one fault at
most when it connects again), `CleanConnectionTheorem`.

`PatienceTheorem` (`ClientsKeepPatience`): either client implements `PatientRequest`, with
its own parameters. The mapping takes a whole warm-up for one phase, a drain for part of the
send, and forgets bytes; besides `CInv` it needs `IdleIsFresh` (a request that is over leaves
no count behind). `WorkerPatienceTheorem` in `BrokerProofs` is the same for the worker of
`Broker`, with the invariant `ConnectsFresh` (a request connects where there is no link, and
has re-sent nothing on a new one), and `RequestPatienceTheorem` in `CommandProofs` for the
request in progress of `CommandPath`, with `BeginsFresh`. TLC found `WorkerKeepsPatience` to hold
with the constants of `push` and `mqtt`, and `RequestKeepsPatience` with those of `commands`,
before they were proved; they have no run of their own. `Broker`'s phases are coarser, and its
socket is closed in one step and missed in a later one, where the client's does both at
once; in `CommandPath` the warm-up is part of connecting: `PatientRequest` has room for each.

`ForwardTheorem` is the safety half of `RequestsEnd`: attempt, stage, try and phase of a
request only rise, in that order of weight (`RequestsGoForward`, checked by TLC with the
constants of `client` first), except that the bridge connects again when the peer closes
the socket under its warm-up. All four are bounded; that something moves is fairness.

`EntryLife`, in `LifeProofs`. `EInv` joins `TypeOK`, `OverIsQuiet` and `LoadedIsCurrent` themselves,
`IdleWithoutRequests` (only a request keeps a client at work), `SetUpHoldsBack` (what a
set-up has not started yet), `ClosesLast` (stream and timers are stopped before the
client is closed) and `SetUpIsCurrent` (a set-up under way uses the options in effect, or
has missed a change). Without `SetUpHoldsBack` a set-up that fails could leave anything.
From it: `EntryTypeCorrect`, `OverIsQuietTheorem`, `LoadedIsCurrentTheorem`.

`DaemonLife`, in `LifeProofs`. `DInv` joins `TypeOK`, `ToldStands` (a verdict was told on a session that is
open, and stands), `NoGhostWhileLinked` (no will of an older session is pending then, so
none can overwrite it), `CleansWhileStopping`, `GoneIsUnlinked` and `OnlineIsBacked`
(outside the clean-up "online" has a linked session or a pending will behind it). From it:
`DaemonTypeCorrect`, `SameSessionTheorem` (`SameSessionTruth`), and `DeadHasWillTheorem`,
the safety half of `DeadIsOffline`: the will that ends a dead daemon's "online" exists; that
the server publishes it is fairness, and TLC's.

`PushProofs`. `PInv` joins `TypeOK` (with: one broadcast of each task), `QueueRises` and
`FramesRise`: along store, lock queue, last snapshot, connection and view, versions never
fall. Taking the snapshot before waiting for a fair lock is what
keeps the queue in order. From it: `PushTypeCorrect`, `ViewTheorem` (`ViewNeverGoesBack`),
`UnconnectedTheorem` (`UnconnectedIsNotShown`).

`ServedTheorem` is the safety half of `ServedCatchesUp`: the newest frame of a subscriber
that is in `_clients`, connected and not among those the broadcast under way has still to
reach is the last snapshot broadcast, or it shows that already (`ServedIsCurrent`). `SInv`
adds to `PInv` only that nobody is left to send to without a broadcast (`TurnOfMembers`);
TLC found it to hold with the constants of `stream` (294,072 states). That the poll loop
broadcasts again after a change and that the subscriber reads are premises of
`ServedCatchesUp`, and what follows from them is TLC's.

`CommandProofs`. `XInv` joins `TypeOK`, `AskedInOrder` (commands through the client are
served in the order they were asked), `QueueLinesUp` and `WiresLineUp` (together
`IntentsLineUp`), `LaneIsBusy` (the command lane holds each waiting task once),
`ConnsAreOpen`, `FramesAreOwned` (a frame still to be carried out was given up, has taken
another's acknowledgement, or is awaited), `CleanConn` and `AckIsTrue` (before a time-out
the one acknowledgement on the connection is that of a command done, unless it is in
doubt), `AckedStands` and `DoneWasAsked` (with: what is left with the machine counts as
left behind). `FramesAreOwned` and `CleanConn` are the two that meet: an acknowledgement is
believed because the connection can hold nobody else's. The order of intents needs both its
parts: `QueueLinesUp` says that along loop, queue and wires each intent comes after those
ahead of it and those carried out or left with the machine, *unless it was left behind
itself*; `WiresLineUp` says which those are, everything unread on the wires of streams that
ended, and that the one still connected has the newest, in their order. Without the second a handler
that reads on could put anything before anything. From it: `CommandTypeCorrect`,
`AckedTheorem` (`AckedStands`), and, with what the register can be set to
(`RegisterFacts`), `NoneAfterTheorem` (`NoneAfterReport`) and `IntentsTheorem`
(`IntentsInOrder`).

`FramingProofs`. First the operators. `NatMin` (a set of naturals that is not empty has a
least member) stands in for induction, which the prover's library cannot be instantiated
for: a sum or a row of frames that is not as claimed would go wrong at a first index, and it
does not. From it, that the running sum exists and is a number (`RunningExists`), that one
changed character changes it by the difference (`SumOfChanged`) and so changes the
checksum (characters are less than 256 apart: `SumNotices`), and that a row of frames opens
with its first and ends with its last (`FlattenCons`, `FlattenSnoc`). `FramesAreUnderstood`:
each request that is built announces its own size and parses back to itself; for any
address, length and data. Then a frame with one character damaged, by where it is: it is
read to its end and the sum notices; or its length or letter makes it read to elsewhere, and
either it is refused, or it waits for characters of the next request, or it passes, cut
short (`Accepted`, `WholeDespite`, `NotBeyond`, `CutDespite`). The invariant `FInv` joins `TypeOK`,
`OnlySentDispatched` and `Placed`: an undamaged stream is the row of the requests not read
yet; a damaged one on an open connection is such a row with one character changed in one
request (`Spoilt`), or that request has been cut short and what is left of it, which can open
no frame, comes next (`Lost`). Without `Lost` a write cut short could be followed by others. From it:
`FramingInvariant`, `FramingTypeCorrect`, `OnlySentIsDispatched` (`OnlySentDispatched`),
`CleanConnectionAligned` (`CleanStaysAligned`), for any requests, any number of them and any
damaging character of `FramingAssumption`. The proof is what showed that `OnlySentDispatched`
needs its second disjunct: an instance without an unlucky sum does not reach it.

Only model-checked:

- every liveness property (`HealthyComesOnline`, `MuteGoesOffline`, `SettingsConverge`,
  `IntentsEnd`, `RequestsEnd`, `PollNotHeldUp`, `ServedCatchesUp`, `RecoversWhenHealthy`,
  `DeadIsOffline`, `CrashRestarts`, `ComesUp`): fairness and ENABLED are beyond the prover.
  Of three of them the safety half is proved, as said above.

## Divergences

What the code does against what its comments or documents say. `latest_intent` is a run.
The others were each reproduced with TLC while the modules were written, by adding the
formula to the module and to the named run's configuration; they are not runs of their
own, and the checked properties are stated so that they hold of the code as it is.

| Where | Statement | What happens |
|---|---|---|
| `store.py:145`, `broker.py:449` | "a cooldown always implies unavailable" | A reconcile read or re-read answered after the cooldown began calls `note_success`; the store reads online until the rest is over. `InCooldown(wedge) => ~Available(store)` in `push`. |
| `store.py:189-195` | a newer command's overlay "is left in place so the latest user intent is never reverted" | Run `latest_intent`. The overlay is compared by value: on, off, on, and the first command's reconcile drops the third one's byte. |
| `push_server.py:6-7`, `:93` | streams "to every connected client" | A send over a second takes the client out of `_clients` with its socket left open: connected, no error, no more frames; alone, it also stops a push-only bridge's polling. `\A c \in Subscribers : sock[c] = "open" => c \in members` in `stream`. |
| `broker.py:404`, `:415-432` | "a command must not reconnect during the machine's required rest" | The cooldown is waited out before the first attempt only; retries and the reconcile read reconnect in a later one. `[][InCooldown(wedge) /\ link = "down" /\ link' = "up" => worker.who # "intent"]_vars` in `push`. |
| `broker.py:396`, `:408`, `governor.py:66` | "a failed write self-heals to the machine's real value" | A link closed under an intent ends it in the catch-all, unreconciled: the overlay stays. `\A a \in Addr : store.pending[a] # NoByte => Newest(a) # NoByte` in `push`; the variable `abandoned` marks these bytes. |
| `docs/architecture.md:203`, bridge `client.py:157` | unreachable means "(off or wedged)" | Connecting never gives up inside a request, so a machine off for good fails no cycle. `<>[](mode = "off" /\ WantsData) => <>(store.available = "offline")` in `live`. |
| bridge `client.py:134-137` | "the first real request self-heals (or reconnects) if the stream is misaligned" | A late warm-up reply is a whole frame: it answers the first request and each later one of equal size is a reply behind. `build = "bridge" /\ exch.at = "idle" /\ conn = "open" => pipe = <<>> /\ air = <<>> /\ buf = <<>>` in `client` (`MaxRetries = 0`). |
| integration `client.py:215-216` | a late reply "cannot be mistaken for this one" | The drain is over before the pacing sleep and the send. `build = "integration" => ReplyAnswersRequest` in `client`. |
| integration `client.py:139-146` | "reconnects **once** before giving up" | The loop makes three attempts: `exch.at = "connect" => exch.faults <= 1` in `client`. |
| `coordinator.py:332`, `push_client.py:122` | "entities go unavailable until we reconnect" | End Cooldown in push mode returns the cached snapshot as a success. `\A c \in Subscribers : sock[c] # "open" => ~Shown(c)` in `stream`. |
| `coordinator.py:290`, `:350` | "do not touch the device: keep its single slot free" | `async_write` does not look at the cooldown. `[][InCooldown /\ InCooldown' /\ link = "closed" => link' = "closed"]_vars` in `polling`. |
| `coordinator.py:225-229`, `:389` | "end any cooldown now and retry immediately" | A probe under way that then fails begins a new cooldown before the retry. `override => ~InCooldown` in `polling`; `OverrideForgetsBackoff` is what holds. |
| `switch.py:73-75`, `:118` | "the last time seen on the machine, a value restored across restarts, or a sensible default" | With the stream the empty seed snapshot decodes to 00:00 and passes for a time seen. `configured \in seen \cup {Default}` in `timer`. |
| `switch.py:74`, `:102` | "a value restored across restarts" | The attribute is not saved for an unavailable entity. `RemembersAcrossRestart` without `~unsaved` in `timer`. |
| `publisher.py:5-7`, `mqtt_bridge.py:182` | mirrors the verdict "the instant it flips" | Every (re)connection publishes online unasked. `proc = "up" /\ session = "open" => topic = Word(Available(store))` in `life`. |
| `broker.py:173-176`, `tcp_frontend.py:116` | a failed task exits "and systemd restarts it" | From Python 3.12 on `wait_closed` waits for idle LAN clients. `CrashRestarts` without its premise in `life`. |
| `coordinator.py:274` | "fall back to the governed front-end write (idempotent)" | Intents queued or retried at the bridge are carried out after the newer write that fell back and was acknowledged; so is a frame given up. `\A n \in Command : outcome[n] = "ok" /\ reg \in 1..(n - 1) => reg \in strays` in `commands`. |
| `push_client.py:89-92` | a send that raises was not sent; "fall back" instead | The frame may have left: the command takes both ways and is carried out again after it was acknowledged. `\A k \in Streams : \A n \in Elements(wire[k]) : outcome[n] # "ok"` in `commands`. |
| `push_client.py:99-127`, `push_server.py:104-120` | `store.py:189-190`, "the latest user intent is never reverted" | The client reconnects while the old connection's handler still has commands to read (each awaits a broadcast): the new handler's are admitted among them, and an older one is carried out last. `[][reg' # reg /\ ByIntent(reg') /\ reg' \notin loose => \A m \in done : ByIntent(m) => m <= reg']_vars` in `commands`. |
| integration `client.py:233` | a write returns once acknowledged | A re-sent write has two acknowledgements coming: the second is the next command's. `\A n \in Command : outcome[n] \in {"ok", "late"} => n \in done` in `commands`. |
| `tcp_frontend.py:175-179` | "the upstream ack already validated inside the governor/client" | The bridge's client takes any reply of 13 characters, undrained (`client.py:225-246`): after its own re-send the next write is acknowledged on the stale reply, over a front-end connection that never timed out. `[][Accept /\ ~late => Now \in done]_vars` in `commands`. |
| bridge `client.py:234-245` | `no reply for ... after ... tries`, reported as a failed write | The machine may still have the frame, and carries it out after the failure (or a later success) was reported. `[][CatchesUp => outcome[reg'] \notin {"ok", "failed"}]_vars` in `commands`. |
| `tcp_frontend.py:137`, `coordinator.py:296` | a write that raises has failed | The front-end goes on with the frames of a client that gave up. `[][reg' # reg => reg' \in Torn \/ outcome[reg'] # "failed"]_vars` in `commands` (`Torn` sets the frames left with the machine apart). |
| `__init__.py:89`, `strings.json:39` | "options override entry data"; "Leave blank to poll." | A blank URL in the options falls back to the one in the entry's data: the stream cannot be switched off. `entry = "loaded" /\ ~reload /\ ~missed /\ ~opts.push => ~set.push` in `entry`. |
| `__init__.py:142-143` | options changes reload the entry | The listener is added last: a change during set-up is missed. `entry = "loaded" => set = InEffect \/ reload` in `entry`. |
| `__init__.py:155`, integration `client.py:122` | "Unload a config entry and close the client" | `close()` takes no lock: a request under way connects again and leaves that connection open. `\A g \in DOMAIN gens : ~Active(g) /\ gens[g].over # "abandoned" => Quiet(g)` in `entry`; on a machine of one client the next set-up then fails until the machine lets go (`ComesUp` without its premise). |
| `__init__.py:126` | a set-up that fails leaves nothing | The stream starts before the platforms: an error there leaves it running unowned. `\A g \in DOMAIN gens : ~Active(g) => ~gens[g].stream` in `entry`. |
| `clock.py:64-70` | clock sync disabled | A push under way at unload is a task nobody cancels. `entry = "loaded" /\ ~set.clock => \A g \in DOMAIN gens : gens[g].over = "cut" => gens[g].tasks = <<>>` in `entry`. |
| `state.py:61-63`, `:159` | `encode` "Should raise `ValueError` on an out-of-range or unrecognized payload" | The switches turn any payload they do not know into off. `\A k \in DOMAIN Mqtt : Sent(Mqtt[k], Junk).bytes = <<>>` in `timer`. |
| `state.py:242-251` | its own `pattern`, an HH:MM time | A disabled timer shows as 100:100 on MQTT: `\A k \in {"auto_on", "auto_off"} : IsTime(MqttReads(k, settings))` in `timer`. |
| `tcp_frontend.py:142-143`, `protocol.py:47-48` | a damaged request drops the client "rather than desyncing" | The sum has eight bits: a write whose damaged letter or length announces less than it holds is carried out, shortened (or answered as a read), where two digits of its data are the sum; the client is dropped at what is left of it. `IsPrefix(got, sent)` in `frames`. |
| `mqtt_bridge.py:129` | offline is the last word of a stopped daemon | paho may reconnect between the farewell message and the disconnect: `DeadIsOffline` without `cleaning = 0` in `life`. |

Smaller ones, seen in reading: `climate.py:36-38` says the machine's byte is in the
display unit, `entities.py:499-501` that it is Celsius whatever that is (so does the code).
MQTT thermostats report `heat` in standby, the integration's report off.
`__init__.py:106-110` says push mode loads its data once at set-up; the first refresh
does no I/O there.

## Left out

- `interpolate_live_temps` (cosmetic estimates, floats), live sensors, the temperature
  parsed off the display, discovery payloads and topics, `connection_state`: formatting and
  labels without effect on state.
- `bridge_health.py`: its verdict is the flag `blocking`; fetching and parsing are not modelled.
- `config.py`, `const.py` and the host probe of `config_flow.py`: what they read are the
  CONSTANTS, or `direct` and `data` of `EntryLife`.
- `emulator.py` (a test double; the machine of the models fails in more ways),
  `check_no_loop_io.py` (a lint).
- A reconnection of paho between the farewell message and the disconnect: `DeadIsOffline`
  leaves that window out, since closing it depends on the library.
- The streak's start surviving an idle period (`wedge.py:90`): its age saturates, and an
  earlier wedge is a behaviour of the model already.

## Plan

Written, in this order: `DeviceStore`, `WedgeRecovery`, `CooldownDiscipline`, `Broker` and
its proofs; `R60VClient`; `PushChannel`; `PollingCoordinator` and its proofs; `TimerSwitch`;
`DaemonLife`; `Framing`; `CommandPath`; `EntryLife`; `Entities`; then the proof modules
of the other components, `PatientRequest`, and `FramingProofs`.

Next:

1. The liveness properties in parts: the steps of their arguments that are safety (what a
   fair step achieves and no other step undoes) as theorems. `DeadIsOffline`, `ServedCatchesUp`
   and `RequestsEnd` have theirs; `HealthyComesOnline` and `PollNotHeldUp` are next.
2. `EntryLife`'s requests against `PatientRequest`: they would have to count their attempts.
