# A TLA+ verification of EH Home: commands, edge firmware and backend services

EH Home is a smart-switch product: a Node.js backend (`backend/src`), ESP32 firmware
(`firmware`), mobile and desktop applications. The core of the system is one sentence
long, *a client's command switches a relay, once, and its status tells the truth*, and
it crosses an HTTP service, a database, an MQTT broker and a microcontroller that may
each stop at any moment. A second, independent source of switching is the firmware
itself: scheduled routines, wall switches and a local HTTP server. Around these stand
the services that decide who may send a command and to what (accounts, homes,
invitations, commissioning, claims, trust), what is sent without a user (automations,
schedules, updates, notifications), and what the system believes of a device (its
reports, its presence, its energy). This project models all three, checks them with TLC
and proves every safety property of the runs that hold with TLAPS.

Contents: [parts](#the-parts-modelled-and-how-they-interact) ·
[modules](#modules-and-the-code) · [runs](#runs) ·
[properties](#what-the-properties-say) · [bounds](#bounds) · [fairness](#fairness) ·
[proofs](#proofs) · [findings](#findings) · [inventory](#inventory) · [not
modelled](#not-modelled) · [plan](#plan)

## The parts modelled and how they interact

```
 phone ──BLE: EH-PROV/1──▶ device                      administrator ──▶ OtaRollout ──▶ OtaOperations ──┐
   │  (BleProvisioning)                                                                               │
   │                                                                                                  ▼
 clients ──POST /commands/send──▶ DeviceCommandService ──"commands"──▶ MQTT task ──▶ relays, routines
   │        ▲      ▲               │  device_commands                     │ ring of keys      ▲
   │        │      │               │  outbox_events                       │                   │
   │        │      │               ◀───────"command-receipts"─────────────┘      timer · wall switch · LAN
   │        │      └─ Scheduler, Automations ◀─┐
   │        │                                  │      "state", "events", "telemetry", "heartbeat"
   │   HomeAccess, RefreshTokens,              └── ReportedState, EnergyTelemetry ◀──── CloudReporting
   └──▶ Commissioning, DeviceClaims,                      │
        DeviceTrust                                       └──▶ Notifications ──▶ phone
```

| module | code | state |
|---|---|---|
| `CommandWire` | the broker's two topics as both ends use them (`mqtt-device-transport.js`, `esp_mqtt_client_wrapper.c`) | messages in flight, the device's session, expired requests |
| `CommandService` | `device-command.service.js`, `CommandRepository`, the unique keys of `postgres-db-adapter.js`/the schema | where each request stands, rows of `device_commands` and the outbox, answers |
| `CommandLifecycle` | none: what the pipeline promises, in five actions | the status shown, commands committed, dispatched, told |
| `DeviceCommands` | `esp_mqtt_client_wrapper.c`, `mqtt_protocol.c`, `on_mqtt_command_received` of `main.c` | relays, routine table, idempotency ring, the MQTT task's step; what the clock shows, at each parse |
| `CommandPipeline` | `CommandService` and `DeviceCommands` joined by `CommandWire` | all of these |
| `EdgeDevice` | `edge_routine_engine.c`, `relay_manager.c`, and what `switch_manager.c`, `local_server.c`, `main.c` ask of them | relays, pins and flash; routine table, runtime states; what each task still has to do |
| `CloudReporting` | settling timer, heartbeat and connection handler of `main.c`, the outbox of the MQTT client | relays, the last report, messages out, what the broker has |
| `BleProvisioning` | `eh_prov1.c`, `ble_commissioning.c`, `wifi_manager.c`, `reset_button.c`; `onboarding_service.dart`, `ble_commissioning_channel.dart` | the pages, the session and its key, the queue of frames, credentials in flash and driver |
| `Handlers` | | the requests that may be open at a time |
| `HomeAccess` | `home.service.js`, `invitation.service.js`, `deleteAccount` | owner, members, invitations |
| `RefreshTokens` | `auth.service.js`, `RefreshTokenRepository` | password version, live tokens |
| `Commissioning` | `provisioning.service.js`, `ProvisioningSessionRepository` | sessions and their statuses |
| `DeviceClaims` | `device-claim.service.js`, the assignments of `device.service.js`, `deleteRoom` | home and room of a device |
| `DeviceTrust` | `device-trust.service.js`, `DeviceTrustRepository` | trust state, ledger of credentials |
| `Notifications` | `notification.service.js` with its decision and delivery services, the delivery worker | notifications, deliveries, attempts |
| `Scheduler` | `schedule.service.js`, `ScheduleRepository`, `automation-scheduler-worker.js`, the schedule routes of `automation-scene.router.js` | next run, locks and keys in RAM, ticks, updates read and not yet written |
| `Automations` | `automation.service.js`, `AutomationRepository` | the rule, hysteresis and cooldown in RAM, triggers |
| `OtaRollout` | `ota-rollout.service.js`, `ota-rollout-policy.service.js` | campaign, statistics, devices at work |
| `OtaOperations` | `ota.service.js`, `OtaOperationRepository` | operations, the recorded version |
| `EnergyTelemetry` | telemetry of `device-event-telemetry-ingestion.service.js`, `energy.service.js`; the telemetry of the firmware's `main.c` | meter, last sequence, total held in RAM, the hour's aggregate |
| `ReportedState` | the rest of ingestion, `redis-state-cache.service.js`, `device-stale-detector.js`, startup of `server.js` | `connection_state`, reported state, cache |
| `CommandPipeline_proofs`, `EdgeDevice_proofs`, `Accounts_proofs`, `Devices_proofs`, `Reports_proofs`, `Updates_proofs`, `Events_proofs`, `Backend_proofs` | | theorems |
| `MCCommandService`, `MCDeviceCommands`, `MCCommandPipeline`, `MCEdgeDevice`, `MCBackend` | | constants of the runs |

## Modules and the code

**CommandWire.** A *request* is one call of `sendCommand`; its command id and
idempotency key are functions of it, so that retries (same id and key), a reused id and
a reused key are choices of the constants. Both MQTT sessions are clean: a command
published to a device without a session is gone, those in flight are gone when it ends,
a receipt is gone while the backend is away. QoS 1 is re-sending by the publishers:
`Republish` for commands (order kept per topic), `ReceiptResent` for receipts, which
form a bag because the backend's callback is not awaited and each UPDATE takes a pooled
connection of its own.

**CommandService.** One action per awaited call of `sendCommand`, in its order: `Submit`
(or `RejectExpired`), `PreCheck` (the look-up that computes `isIdempotentReplay`),
`RecordFinds`/`RecordMisses` (the second look-up, in `recordCommand`),
`InsertCommand`/`InsertConflicts`, `Enqueue`/`EnqueueConflicts`, `Publish`,
`PubAck`/`PublishFails`, `Audit`. At each await any other request, any receipt or a
`Crash` may come. `HandleReceipt` is the whole of `handleCommandReceipt`. Two details of
the source shape the model: the four statements are not one transaction, whatever the
comment above them says, and only primary keys are unique. The optimistic write of
`channel_state` is rejected by the schema's CHECK and its error is swallowed, so it
changes nothing.

**DeviceCommands.** One task handles one command at a time: `DropMalformed`,
`ReceiptExpired`, `ReceiptDuplicate` or `Dispatch` (in the code's order: parse, expiry,
duplicate, dispatch); one action per command of `on_mqtt_command_received` (an emergency
stop walks the channels one step at a time); `Receipt`; `RecordKey`. `Reboot` may come
between any two, and loses the ring; the relays come back in whatever state and with
whatever table flash holds, which need not be the last, because a write may have failed.
The parser compares `expiresAt` with the *device's* clock (`mqtt_protocol.c:307`), which
need not be the backend's: it may be *unset* (nothing is found expired), *right*, or
*off*, because a LAN client may set it to any time at any moment
(`time_sync_manager.c:150-181`), and then the comparison may come out either way. Which,
is chosen at each parse (`Clocks`); commands answered EXPIRED by a clock that was off are
`misjudged`. A routine id that does not fit the parser's 37 bytes is left empty
(`NoRoutineId`): the upsert is refused, and a deletion finds any empty slot. Of the
routines only what commands see is here (`RoutineStarts`, `RoutineEnds` are the timer);
`EdgeDevice` has their real machinery.

**CommandPipeline.** Conjoins the two on the wire. `ImplementsService` says that the
firmware behind the broker is an environment `CommandService` allows; `LifecycleSpec`
that the whole implements `CommandLifecycle` under the mapping *shown ← status,
committed ← outbox, dispatched ← published, told ← sent*.

**EdgeDevice.** Four FreeRTOS tasks (timer, wall switch, local HTTP server, MQTT client)
share relays and routines without a lock, and switching a relay writes flash. A handler
is a *job*, the sequence of operations it still has to do: `Set` changes
`s_relay_states` and leaves `pin` and `nvs` writes to do, a tick is one `count` per
slot, which may leave `dec` and `due`, and so on. An operation is one step; where the
code tests a value and then uses it (`count`/`dec`, start's relay write and `run`, the
copy and the write of the table) there are two. The end of `start_routine` is three:
`run` reads the duration, `arm` assigns `remaining_sec`, `mark` the state, and an upsert
or a deletion of another task may come between any two (`overwritten` notes one that does
while the timer is at `arm` or `mark`). A write to flash may fail. `relay_manager.c:58-60` only logs that, and the
engine tells its caller and keeps the table in RAM: no code writes it again until the
next change, so RAM and flash differ with nothing pending (`unsaved`). `Tick` reads the
clock once, as the callback does; the clock may then be any minute, because SNTP or a
LAN client may set it. Routines of the trigger types MANUAL and TIMER are left out
because no code starts them, disabled ones because the timer skips them. `torn`,
`unsaved`, `overwritten`, `revoked` and `fired` are history.

**The backend's handlers** have one shape. The backend is one process: a handler runs
alone up to its next `await`, and the handlers of other requests run there. So a request
is a *caller* (module `Handlers`), and each of these modules has one function from
callers to what they are at: the program counter and what the handler has read and still
means to use. An operation is a first action, which reads and decides, and one action
for each later await that separates a read from the write it decides; a read and a write
under a constraint of the schema that refuses what the read refuses are one action.
`Handler ends` is the return to `idle`. A restart, or a statement that fails, may end a
request at any await (`Cut...`); a crash also drops what is in RAM.

- `HomeAccess`: `CreateHome`, the role changes, removals, leaving, both transfers of
  ownership, deletion of home and account; create, accept, reject, revoke and expire an
  invitation. The two ways in which ownership is kept (`homes.owner_id` and the OWNER
  memberships) are two variables, because the code writes them apart.
- `RefreshTokens`: registration, login, refresh, logout, logout of all, password change,
  account deletion. A token is a number; the rows are a set. A request carries the
  password it verified (login, `auth.service.js:264`) or the one its token was issued on
  (refresh, 341-343), and its token is dated by that, not by the password in force when
  it is inserted (290, 358): so a change whose list of rows (434-437) came before the
  insert leaves it, and those are `survivors`.
- `Commissioning`: each step of a session reads its status and then writes the next one
  unconditionally, which is one action to read and one to write.
- `DeviceClaims`: `claimDevice` reads the authorization three times before it writes,
  and each of these reads is a step.
- `DeviceTrust`: quarantine, reset, revoke, restore, begin and confirm a rotation; a
  pending credential is looked for, numbered and created in three steps.
- `Notifications`: an event becomes a row and one delivery per push token; the worker
  claims what is due, sends, and records. Writes may fail, answers may be lost, and a
  restart may come between any two.
- `Scheduler`: ticks overlap, because the interval does not wait for the last one. Time
  is a clock in minutes, `DayLength` of them to a day. `UpdateSchedule` reads the row and
  recalculates the run from camelCase fields, `WriteUpdate` writes what it was given and
  what it computed from a row that may be stale by then; `PatchSchedule` is a body of
  snake_case fields or `nextRunAt`, which `repositories/index.js:1336-1354` writes without
  a recalculation.
- `Automations`: a rule the backend runs itself, its triggers and what guards them in
  RAM, which a restart forgets. Of a rule classified EDGE there is nothing to model: its
  routine's id is `'auto_'` and a UUID, 41 characters (`automation.service.js:265`), the
  parser keeps at most 36 (`mqtt_protocol.c:329-335`), and the firmware refuses an upsert
  without an id (`main.c:243`). Such a rule never runs, and its `edge_sync_status` stays
  PENDING; what the device does with the command is in `DeviceCommands`.
- `OtaRollout`: a campaign's states, its batches, the reports that read its statistics
  JSON and write it back whole, the failure threshold. The service's handlers of reports
  have no caller outside tests and do not ask whether a device was sent anything, or has
  reported its end already: the model lets any report of any device come, at any time,
  and again, in the campaign's states they accept (`strays` counts the ends of devices
  that were not in flight). Failures of a rollback count apart.
- `OtaOperations`: the operations of one device. The firmware's `otaUpdate` only
  acknowledges (`main.c:313-320`) and `ota_manager_start_update` has no caller, so
  nothing but an HTTP post moves or ends an operation: whether its command was lost,
  refused by the broker or received makes no difference to it. The model lets posts come
  of any operation, at any time, and again.
- `EnergyTelemetry`: meter, reading, sequence filter, the total in RAM, the row, the
  aggregate of the hour; losses, reordering, restarts of either side.
- `ReportedState`: report, switch event, availability and telemetry handlers, the delta
  filter and the cache, the sweep of the stale detector, the startup reset. The
  optimistic update of a command changes neither row nor cache: its confidence
  `COMMANDED` violates a CHECK (`001_initial_schema.sql:150`), and the catch
  (`device-command.service.js:157`) skips the cache.
- `CloudReporting`: the settling timer, the heartbeat and the reports of a new
  connection as three tasks that read the relays one by one; the client's outbox.
- `BleProvisioning`: the three exchanges of EH-PROV/1 between pages and host task,
  replies frame by frame through the queue they wait in, the steps in which credentials
  are applied, and the Wi-Fi and reset tasks beside them. Cryptography is abstracted to
  *whose secret and which session*; a session, its challenges and its key are one
  number.

**MCBackend** puts these fourteen components in one run. They share no variable (what
one takes from another is part of its environment: a claim sees of a session whether it
was authenticated, a rollout sees of an operation whether it starts), so their
conjunction would only multiply their states. A behaviour of `BackendSpec` is therefore
one of a single component, chosen by `part`; the others rest. Nothing is lost by it: a
property of each is over the variables of one. `MCView` drops what tells no two states
of the part from one another: the resting components; *which* of two callers is at what
(`Both`), and which of a campaign's devices is at which point (`Standings`), for no other
variable names them; and which of several exceptions a property makes has arisen, where
it only matters that one has. `Backend_proofs` shows that `BackendSpec` implies the
specification of each component, so the run and the theorems are about the same thing.

## Runs

| run | question | result |
|---|---|---|
| `service_retries` | two retries and a request that reuses the id under another key, crashes, loss, receipts in any order: can a command be handed to the broker twice, or before it is stored? is a replay answered from the right row? | holds |
| `service_replay_error` | is a recognised replay answered the existing record? | **violated** |
| `service_outbox_retry` | is a command whose publish failed published later? | **violated** |
| `device_commands` | the firmware on every kind of command, malformed and expired, redelivered at will, with a routine table of one slot: ring and table keep their bounds | holds |
| `pipeline_retried` | a command and its retry, end to end, with loss, crashes and reboots: the abstract life cycle, and a database that says only what happened | holds |
| `pipeline_live` | two commands in flight, sessions that last: every request is answered, every command delivered gets a final status, nothing is dispatched twice, receipts are not confused | holds |
| `pipeline_reactuation` | is a key dispatched once even across a reboot? | **violated** |
| `pipeline_verdicts` | does a command have one verdict? | **violated** |
| `edge_device` | a relay and a routine shared by the timer and any other task, reboots anywhere: agreement of state, pin and flash, the countdown, once per minute, every pulse ends | holds |
| `edge_stop` | does a stop end what is running? | **violated** |
| `backend_services` | the fourteen components above, each with two overlapping requests, workers or tasks, and with restarts, losses and failures where it meets them: what interleaved handlers must keep | holds |
| `reported_state` | is a state report dropped as a duplicate only if the row already says it? | **violated** |

Every property of a run that holds also has a mutant, a plausible bug of the code
written beside the definition it changes (`EnqueueConflicts_Swallowed`,
`IsDuplicate_Oldest`, `Count_OffByOne`, `HandleWifi_Unchecked`, ...), under which the
same run finds it violated; so none of them holds for want of interesting behaviours.

## What the properties say

The command path and the edge device:

- `DispatchedOnce`: no two requests hand the same command to the broker. Only the
  primary key of the outbox stops the second; the look-ups before it race.
- `PublishedIsDurable`, `PublishedIsRecorded`: what is published has its outbox row and
  a row with its key (with *its id*, if clients make one id per key).
- `ReplayAnswersItsKey`: a replay's answer comes from a row of its own key and is no
  newer than that row.
- `NoRegression`: a row keeps its request and never goes back to CREATED.
- `ExpiredStatusIsTrue`, `AppliedWasDispatched`, `ActedIsStored`: EXPIRED, APPLIED and a
  relay's movement each have their cause at the other end of the pipeline. EXPIRED may
  also be the verdict of a device whose clock was off (`misjudged`).
- `EveryRequestAnswered`, `DeliveredIsAnswered`: liveness of the two ends.
- `TablesHold`: the firmware's two tables, of keys and of routines, neither overflow nor
  hold an entry twice.
- `StoresAgree`: with no write pending, state, pin and flash of a relay agree, and the
  flash blob is the table, except where two tasks wrote at once, or the last write to
  flash failed.
- `RunningCounts`: what is RUNNING has between 1 and its duration left, in spite of the
  unsigned decrement that races with stops, edits and deletes. The exception is a
  routine upserted or deleted between the last two assignments of `start_routine`: it is
  RUNNING with nothing left, or with the time of the routine it replaced.
- `FiresOncePerMinute`, `PulseEnds`: schedules and pulses, the latter with the same
  exception: a RUNNING slot with nothing left is neither counted down nor ended.

The backend's handlers do not lock, and many of these hold only as long as requests do
not overlap at one particular point. Where that is so the property says *which* overlap
breaks it, with a history variable set by exactly that overlap; everything else,
restarts and failures included, it must withstand. These exceptions are statements about
the code too: each is a race the code loses. What is excepted is not caught: the hazards
of overlapping acceptances, owners, claims, triggers, campaign requests, initiations and
energy readings are *located* by these properties and not excluded by them, and
`PROJECT.json` says so at each. Nor does any property look for a command stuck in
CREATED after a crash, or for a malformed message that is dropped without a receipt.

| property | says | except |
|---|---|---|
| `OwnerKept` | a home has an owner who is its member | after overlapping requests, a transfer of ownership to oneself, or a deletion of the home cut short |
| `ClosedIsClosed` | an invitation rejected, revoked or expired makes no member and stays closed | an acceptance overlapped |
| `SessionsHold` | a refresh token buys one successor; with a password ends every session begun under it | two refreshes held the token at a time; the sessions an interrupted change of password did not get to, or that a login or refresh already under way inserted after the change had listed them |
| `SessionKept` | credentials only on an authenticated session; an ended session stays ended; one active session per device | a request had read the session before its end; two creations overlapped |
| `DevicePlaced` | a device is in a room of its home, and was taken on a proved session | claims overlapped |
| `NoTakeover` | a device's home changes only by a move or after a removal | claims overlapped |
| `TrustKept` | a revocation ends only by a restoration that saw it; one pending and one confirmed credential; a revoked credential stays so | a request with its state yet to write met the revocation; two rotations begun or confirmed at once |
| `PushedOnce` | a delivery reaches the phone once, in at most its attempts | a restart, lost answer or failed write met it between push and record |
| `RecordIsTrue` | SENT was accepted, DEAD_LETTER spent its attempts, FAILED has a dead delivery | |
| `FiredOnce` | each due run is started once | keys forgotten by a restart or a full table |
| `ScheduleKept` | an enabled daily schedule keeps a next run at its time of day | one overdue beyond the limit; a patch of the time without the run or of the run without the time; an update met a tick that had read the row, or another change of the time |
| `NotFiredTwice` | no trigger fires a rule that is cooling down or has not recovered | triggers overlapped; a restart has forgotten that the rule fired |
| `HeldForAReason` | a rule is held back only if it fired and was not found recovered since | triggers overlapped |
| `RolloutInStep` | the statistics are what happened, the concurrency limit holds, too many failures have paused the campaign | requests overlapped or were cut; off by at most one for each end reported again, or of a device that was sent nothing (the threshold also: until someone starts or resumes it with too many failures) |
| `OneUpdate` | a device has one active operation; its recorded version is the one the last report of a success named | two initiations overlapped; operations whose progress was posted after their end; a report of a success cut, or overlapped by another |
| `EnergyCounted` | no energy is counted that was not consumed; a reading that is held has been added with all before it | two readings reckoned from one total; a restart; a failed or overlapping aggregate update |
| `StaleWasSilent` | a device is STALE only after a silence | its message came between listing and marking |
| `CloudIsCurrent` | connected and at rest, the broker has the state of every relay | the last report was read in the middle of a change, or by two tasks at once |
| `Provisioned` | a page told that its credentials are accepted was told so of its own session; both ends hold one key; flash holds one whole pair; a device that is online says so | the link was gone and the page told itself so; a restart between the two writes of a pair; the device was online already |

## Bounds

| bound | meaning | why it is enough |
|---|---|---|
| `Requests` | 2 or 3 requests, 1 or 2 commands | `DispatchedOnce` and the row invariants relate two requests; the third makes ids and keys cross. The proofs hold for any number |
| `MaxInFlight = 1` | `Republish` and `CloudSends` only while fewer messages are in flight | first publishes are not limited, so two commands, or a command and its repetition, are in flight together |
| `MaxCopies = 1` | copies of one receipt | a receipt taken may be sent again, so an old one follows a newer one; equal copies commute |
| `MaxActs = 2` | how far `acts` counts | properties compare with 0 and 1 |
| `RingSize = 2`, 3 keys in `device_commands` | the ring (`EH_MQTT_IDEM_RING_SIZE`) | it wraps and forgets; in the pipeline it has room for every key |
| `Clocks` | what the clock may show | all three; without *off* in `pipeline_live`, where it only adds verdicts of EXPIRED |
| `RoutineSlots = 1`, 2 ids | the table fills up | |
| `Expirable` | requests whose expiry may pass | all of them, or one where the run is about something else |
| `Width = 2` | bits of `remaining_sec` | durations 0, 1 and 2 are below 2^2, and the wrap to 3 is visible |
| `Minutes = {1, 2}` | the routine's minute and another | the code only compares with the routine's minute |
| `NumChannels`, `NumRoutines = 1` (`EdgeDevice`) | channels and slots | they are independent but for the order the tick visits them; the proofs take any number |
| `Configs` | a pulse of two seconds, a toggle without a duration | one that must end and one that ends at once; each may replace the other at any step |
| `MaxBusy = 1` | requests in progress besides the timer's tick | each race of the code is between the timer and one other task, or is a pair of writers, which `StoresAgree` excludes by `torn`; the proofs take any number. The run has 1.2 million states |
| `Lossy`, `Reboots` | whether sessions end and the device reboots | on, but in the liveness run and where nothing is at stake |

Of `backend_services` (2.3 million states):

| bound | why it is enough |
|---|---|
| `Callers`: 2 requests, `Tickers`: 2 ticks, 1 `Admins` | every race here is of a read in one handler with a write in another. A rollout's overlaps come from its administrator, reports and batches; two administrators add no new pair |
| 2 `Users`, 1 invitation | two owners who leave at once, an invitation accepted and revoked; the proofs take any number |
| `MaxTokens = 3`, `MaxPasswords = 1` | a login, its refresh and the refresh of that; one change of password in between |
| `MaxSessions = 2`, 2 `Homes`, 1 room | a session and the one that supersedes it; a claim into either home |
| 1 event, 1 push token, `MaxAttempts = 2`, `MaxDeliveries = 2`, `MaxCuts = 1` | one retry, then the dead letter; one interruption anywhere. A critical event differs only by skipping quiet hours |
| `DayLength = 2`, `MaxTime = 2`, `Late = 1`, `KeyLimit = 2`, `MaxChanges = 3` | more than a day: a run, the next day's, one overdue beyond the limit; the table of keys fills. Three changes: a schedule, a patch of it, and the update that puts it right or meets a tick |
| 3 `Devices`, `BatchSize = 2`, `MaxConcurrency = 2`, threshold 1 or 50 %, `MaxReports = 2` | a full batch and the rest; the threshold is reached by the first failure or not |
| `MaxOps = 3` | an operation, its successor, and one more after the first has been reactivated |
| `MaxReadings = 3`, `MaxEnergy = 1`, `MaxFaults = 1` | a reading lost or failed, one before and one after |
| 1 channel, `MaxOutbox = 2` | channels are read one after another and a change between two reads is `doubt`; the theorem has any number |
| `MaxRotations = 2` | two credentials race; `DeviceTrust` alone was also passed with 3 (5.0 million states) |
| 2 phones of which 1 has scanned the code, 2 networks of which 1 is unfit, `Parts = 2`, `QueueSize = 3`, `MaxHellos = 2` | a session and the one that replaces it, by the same phone or a stranger's; a reply of several frames and a queue that a second reply overflows. With both phones scanned (618 thousand states), and one phone with 4 sessions and a queue of 5, `BleProvisioning` was also passed alone |

Runs whose system may stop, all requests answered and the device idle, switch the
deadlock check off; `edge_device` keeps it on. `backend_services` switches it off
because the bounded counters end each component.

## Fairness

- `CommandService`, `CommandPipeline`: weak fairness of `Progress(r)` for each request
  begun (the event loop runs continuations, database and broker answer), of the
  firmware's `MqttTask` and of each receipt's callback. None for requests being made,
  loss, crashes, expiry or reconnection. `DeliveredIsAnswered` is checked with sessions
  that last (`Lossy = FALSE`): with clean sessions a lost command stays CREATED, because
  no timeout worker runs.
- `EdgeDevice`: weak fairness of `Tick` (an auto-reload timer) and of the timer task's
  steps (its callback never blocks for ever). None for the other tasks, so `PulseEnds`
  holds however long they keep a handler half done.
- The modules of `MCBackend` assume none: their properties are safety. What a
  client would call liveness there the code mostly does not promise: an operation nobody
  posts the end of stays active, and refuses the next, for ever; a schedule overdue too
  long is never run again; an EDGE rule never runs.

## Proofs

Checked by TLAPS for every value of the constants. Every safety property of every run
that holds is stated by a theorem, for any number of users, requests, devices, tokens,
sessions and so on; what the runs bound by counters is bounded by those counters in the
proofs too, at any value.

**Assumptions.** Each module names one (`RequestsAssumption`, `WireAssumption`,
`DeviceAssumption`, `EdgeAssumption`, `HomeAssumption`, `TokenAssumption`,
`SessionAssumption`, `ClaimAssumption`, `TrustAssumption`, `NoticeAssumption`,
`ScheduleAssumption`, `AutomationAssumption`, `RolloutAssumption`,
`OperationAssumption`, `EnergyAssumption`, `StateAssumption`, `ReportingAssumption`,
`BleAssumption`). They type the constants and no more: `Reboots => Lossy`, an upsert
names a routine, "none" is no home. TLC evaluates each. A theorem that needs another
hypothesis names it: `KeyDeterminesCommand`, *clients make one command id for each
idempotency key*, which the code's clients do and the schema does not force;
`RoomForAll`, *the ring has a slot for every key*; `~Reboots`; and `MaxActs > 0`, *the
history counts dispatches at all*.

**The shape of the proofs.** Hardly any property is inductive. A handler that waits
writes later what it read before, so the property has to say what each waiting request
still relies on, and which overlap, already noted in a history variable, releases it
from that. Each module therefore has an inductive invariant of named parts, a lemma for
each action or each part, and theorems that read the properties off.

**`CommandPipeline_proofs`**, the service: `DispatchedOnce` is not inductive: two
requests about to publish would break it in a step. The inductive invariant `OutboxInv`
strengthens it with what the store holds for a request at each of its steps:

- `RowIsOfItsCommand`: a row was inserted from a request of its id;
- `RecordsAreKept`: the record a request holds has a row with its key, no older;
- `OwnersAreStored`: a request that got past the outbox insert (it *owns* the command)
  has its outbox row, and a row with its key;
- `OwnersAreUnique`: no two requests own one command, which is where the outbox's
  primary key is used.

`TypeCorrect`, `DispatchedOnceAlways`, `PublishedIsDurableAlways` and
`ReplayAnswersItsKeyAlways` are conjuncts or consequences of it, `NeverRegresses` proves
the action property `NoRegression`, and `PublishedIsRecordedAlways` adds
`KeyDeterminesCommand`.

The firmware: `RingDistinct` is not inductive, because the ring is searched when a
command is dispatched and the key recorded several steps later, after the receipt.
`DeviceInv` adds that until then the ring still does not hold it (`HandlesFreshKey`);
`RecordedRing` says what recording a fresh key does to a ring of any size. With the
bound of the routine table it gives `DeviceTypeCorrect`, `RingDistinctAlways`,
`TableBoundedAlways`, `TablesHoldAlways`. Two more invariants rest on it:

- `OnceInv`: every key dispatched is in the ring or being handled. Recording never
  evicts, because the ring's keys and the fresh one are distinct (`RingHasRoom`, a
  counting argument from `RoomForAll`). It needs a device that stays up; the run
  `pipeline_reactuation` shows what a reboot does.
- `TruthInv`: keys remembered were dispatched, and every APPLIED or EXPIRED receipt
  published is true of some request, or of a clock that was off.

The two together: `ChannelsInv` says what may be in the channels: only published
commands are in flight or being handled, only receipts sent for such commands are in
flight. `DeviceEffect` summarises every step of the firmware by what it does to shared
state; each action of the firmware is shown to have that effect once, and the rest
argues about the summary. From it:

- `PipelineImplementsService`: `PipelineSpec => Spec`, so that every theorem about the
  service holds with the real firmware in the place of the arbitrary one;
- `PipelineImplementsLifecycle`: under `KeyDeterminesCommand` the pipeline implements
  `CommandLifecycle`, whatever is lost, repeated or restarted. The steps that publish
  need `OwnersAreUnique`; those that learn a status need `ChannelsInv`;
- `AppliedWasDispatchedAlways`, `ExpiredStatusIsTrueAlways`: a final status is that of a
  receipt sent (`StatusWasTold`, from `ChannelsInv`), and receipts are true
  (`TruthInv`);
- `ActedIsStoredAlways`: what the device dispatched was published (`ActedWasPublished`),
  and what was published has its row (`OwnersAreStored`);
- `PipelineDispatchesOnce`: `OnceInv` holds behind the service too.

**`EdgeDevice_proofs`.** `StoresAgree` speaks of a device with nothing left to write, so
`EdgeInv` says what is true while there is: a write a task still has to do for a relay
writes what `s_relay_states` says, and where no write is to come the store already says
it (`RelayFits`, of the channels two tasks have not written at once, and of flash if no
write to it failed; `TableFits`, of the table and its copies). It holds because no write
of a relay waits behind another operation of its task (`WritesFirst`). `FiredIsMarked`,
*a routine triggered in this minute is marked with it*, gives `FiresOncePerMinuteAlways`
as an action property. The countdown is a second layer, `RunInv`, proved from the first:
what the timer has triggered and not yet marked is not RUNNING, the timer looks at its
slots in turn (`SlotsInTurn`), and a routine between the last assignments of
`start_routine` will have its time when it is marked, unless another task rewrote it
(`MarkFits`). From it follows `RunningCountsAlways`.

**`Accounts_proofs`.** Tokens: `RotationInv` says that a row about to buy a successor is
no longer in the table (`DeletedIsGone`) and that a token held by two requests, or held
and spent, was shared by overlapping refreshes (`HeldTwiceIsShared`); `OldIsListed`,
that between changes of password each row of an earlier one is on a list of rows still
to be revoked, or is a survivor: left by a change cut short, or inserted too late for
any list. Homes: until two requests overlap one
at most is under way (`OneRequest`). `InvitesInv` adds that a request about to write
ACCEPTED has made its invitee a member and that what it found PENDING still is;
`OwnersInv`, with `KeepsOwner`, which owner is left by whatever each request does next.

**`Devices_proofs`.** One part per component:

- `CommInv`: requests that will write the outcome of a proof are of a proved session
  (`WritesAreProved`), one that holds an ended session held it before it ended
  (`HoldersOfEnded`), and a creation alone has listed all that is active (`OneCreation`,
  `AtMostOneActive`).
- `ClaimInv`: `AloneRelies`, what a claim that is alone may rely on at each of its steps
  (the room is of the home, the row is still free, the session was proved). `NoTakeover`
  is an action property from it.
- `TrustInv`: a request that will write over a revocation it has not seen is noted
  (`BlindIsNoted`); one rotation is begun, and one ended, at a time, unless they
  overlapped (`OneIsBegun`, `OneIsEnding`); the generations in the ledger are always
  1..k (`GenerationsCount`), so the highest plus one is free; `HeldOpen`, of revoked
  records.
- `BleInv`: the page at the other end of the link, the queue and the host task move in
  step. The reply to a page's own proof is the last thing in the queue (`AuthIsLast`), a
  page with a key finds the queue empty but for the reply to its credentials
  (`KeyedIsQuiet`), and what the host applies is what that page has asked for
  (`Applied`). Without these the property would allow a reply of the last session to be
  taken for one of this.

**`Reports_proofs`.**

- `CloudInv`: what a task has read of the relays is true of those not changed since
  (`ReadingIsTrue`), so is what is settling and what was published (`SettlingIsTrue`,
  `PublishedIsTrue`, of the last thing in the outbox).
- `SilentInv`: a device about to be marked STALE that has been heard of since is noted
  (`MarkingWasSilent`).
- `StateInv`: what each report and event still has to write.
- `EnergyInv`: the aggregate and all that handlers still owe it are bounded by what had
  been consumed when the reading held was taken (`NoneInvented`, with a function from
  sequence numbers to consumption as witness), and equal the reading itself where
  nothing was lost (`NoneMissing`). The sum over callers is carried as a function on
  sets of callers that grows by one caller at a time (`IsTotal`), because a recursive
  sum would need induction over data. In the witness lies the point of the proof: the
  meter restarts with the device, its numbers start again, and old readings still
  arrive.

**`Updates_proofs`.** `OpInv`: until initiations overlap, one creates at a time and finds
nothing active but what a late post made so again (`OneCreates`); until reports of a
success overlap or are cut, one is before its write of the version, and it is the last
(`OneRecords`). `OtaInv`: a batch or report that is alone has the statistics as they
are, up to what it has itself used or freed (`AloneTrusts`), and the slots they show
fall short of those in use by at most the ends reported of devices at no work
(`Covers`); from this `InFlightBounded` and `ThresholdKept`.

**`Events_proofs`.**

- `AutoInv`: until triggers overlap, the one being evaluated has read hysteresis and
  cooldown as they are (`TriggerReads`), and they say what has happened to the rule, and
  all of it unless the process has forgotten (`StateIsTrue`). `NotFiredTwice` and
  `HeldForAReason` are the two directions of this.
- `SchedInv`: until something has spoilt it, the schedule's next run is there and at its
  time of day (`RowFits`; `NextRunIs` says what the next run computed from any clock is),
  and what a tick has read is the schedule's time and type (`ReadsFit`); an update that
  waits will write a run at the time it asks for, or at the one it has read (`EditsFit`);
  one tick holds the schedule (`OneHolds`), and until keys are forgotten what was fired
  and what is about to be is among them (`KeysKept`).
- `NoteInv`: what the record of a delivery says has happened (`Happened`), for those the
  worker is not on (`Rests`) and, at each of its steps, for the one it is on (`Works`).

**`Backend_proofs`.** `BackendImplementsParts`: a behaviour of `BackendSpec` is a
behaviour of each of its fourteen components, so what is proved of these holds of the
composition that TLC runs; `BackendTypeCorrect` draws the conclusion for
`BackendTypeOK`.

**Only model-checked.** `EveryRequestAnswered`, `DeliveredIsAnswered` and `PulseEnds`,
which are liveness: they need fairness and ENABLED, which the prover does not handle.
The properties of the runs that find a violation are false and have counterexamples. No
module uses RECURSIVE.

## Findings

Disagreements between the code and what it says of itself, each the counterexample of
one run:

1. `service_replay_error` (`device-command.service.js:424`): a replay enqueues its
   outbox row again; on PostgreSQL the duplicate's message is not the one the handler
   expects, so a retry is answered 500 instead of the existing record.
2. `service_outbox_retry` (`:128`): "outbox will retry", but no processor is started and
   a client's retry is a replay: the command is never published.
3. `pipeline_reactuation` (`mqtt_protocol.c:94`): the ring of keys is in RAM, so a
   command repeated after a reboot is dispatched again, against ADR-002.
4. `pipeline_verdicts` (`esp_mqtt_client_wrapper.c:161`): a failed command delivered
   again is answered APPLIED; the receipt is not "deterministic".
5. `edge_stop` (`edge_routine_engine.c:195`): a stop or a press of the wall switch while
   the timer is starting a routine finds it not RUNNING yet; the routine runs on and
   switches the relay again at its end.
6. `reported_state` (`redis-state-cache.service.js:53`): the delta filter reads a power
   from `power`, `value` or `enabled`, and reports carry it in `reportedState`: each is
   taken for off, and the report of a relay switched meanwhile is dropped as "duplicate
   chatter".

The models record these too, as guards, exceptions of properties or behaviour left open;
they are not runs of their own, because the code promises nothing else or the promise is
about a part that is not modelled:

- *Commands.* `sendCommand`'s four statements are not one transaction; only `createHome`
  uses `withTransaction`. The write of `channel_state` is refused by a CHECK and
  ignored. The device judges expiry by a clock any LAN client may set
  (`mqtt_protocol.c:307`, `time_sync_manager.c:150-181`), so a command may be answered
  EXPIRED that has not expired, or carried out although it has.
- *Edge device.* An upsert or deletion between the assignments of `start_routine`
  (`edge_routine_engine.c:202-204`) leaves a slot RUNNING with nothing left, and the
  timer then neither counts it down nor ends it: the relay stays on until something else
  switches it. A failed save to flash is logged (`relay_manager.c:58-60`) or told to the
  caller (`edge_routine_engine.c:372-375`, 392-396), and never tried again: the next
  reboot brings the old relay state or table back.
- *Accounts.* Overlapping refreshes of a token fork the session (`auth.service.js:342`);
  a crash between the new password and the revocation (434-437) leaves the old sessions;
  so does a login that has verified the old password (264) or a refresh that has deleted
  its token (343) and inserts (290, 358) after the change has listed the rows.
  A transfer of ownership to oneself leaves no OWNER (`repositories/index.js:164-182`);
  `owner_id` may name somebody who is no member; a deletion of the home cut short leaves
  a home without members; a single-use invitation is accepted twice by two acceptances
  and a leave; a VIEWER's invitation cannot be accepted on PostgreSQL.
- *Claims.* The path for a device already in the home does not check the room
  (`device-claim.service.js:50-54`); "re-assign to new home" is always refused; two
  overlapping claims let the second home take the device.
- *Trust.* Two overlapping initiations give two pending rotations of one generation,
  although "only one ROTATION_PENDING" is promised (`device-trust.service.js:389`); a
  factory reset or quarantine that overlaps a revocation undoes it; rotations are begun
  on revoked devices; `device_credentials` has no `updated_at`, so updates of its row
  throw, and a revocation then never reaches the ledger.
- *Updates.* The firmware acknowledges `otaUpdate` and starts nothing
  (`main.c:313-320`), and no firmware code reports an end: an operation stays active, and
  refuses the next, until somebody posts its end; a late progress report reopens an ended
  one. A failed dispatch keeps its slot in the campaign's statistics; a report that comes
  twice, or of a device that was sent nothing, frees a slot that is in use
  (`ota-rollout.service.js:464-475`, 537-593); overlapping reports lose updates of the
  JSON; a rollback stores the release to go back to and the batches send the campaign's
  (288); no code outside tests reports installed, booted or failed;
  `handleDeviceHealthVerified` writes COMPLETED in any state.
- *Schedules and rules.* A schedule overdue by more than two minutes gets no next run
  and stays enabled (`automation-scheduler-worker.js:69-83`); so does one patched with
  `nextRunAt: null`, and one patched with `time_of_day` keeps the run of its old time,
  because the recalculation looks for camelCase fields only
  (`schedule.service.js:166`, `repositories/index.js:1336-1354`). The keys that stop a
  second run are in RAM, and so are hysteresis and cooldown
  (`automation.service.js:899-937`), so a restart lets a rule fire that is cooling or has
  not recovered. On PostgreSQL `findDueSchedules` compares in a way that matches nothing
  (`repositories/index.js:1331-1334`). The device refuses the routine of every rule
  classified EDGE: its id of 41 characters does not fit (`automation.service.js:265`,
  `mqtt_protocol.c:329-335`), so the rule runs nowhere.
- *Notifications.* `idempotency_key` is not UNIQUE, so an event may have two rows;
  deferred ones are released whatever the quiet hours; FAILED may overwrite DELIVERED.
- *Reports and energy.* Equal state heartbeats dropped by the filter do not refresh
  `last_seen_at`; the cache's expiry equals the stale threshold; the startup sets ONLINE
  to OFFLINE. The firmware sends no interval energy, so after a restart of the backend
  the first reading adds the device's whole total; after a restart of the device its
  readings are dropped until their number passes the old one
  (`device-event-telemetry-ingestion.service.js:446`). "Net state unchanged"
  (`main.c:142`) ignores what heartbeat and connection have published.
- *Commissioning over BLE.* With the link lost after HELLO_ACK the app skips sending and
  reports success (`onboarding_service.dart:306`); HELLO resets neither the
  authentication nor the key of the session before; nothing on this path calls
  `set_secret_consumed`; an acknowledgement is not tied to its request; a factory reset
  is undone by credentials in its last 500 ms; a restart between the writes of SSID and
  password leaves a mixed pair.

## Inventory

Each component with its state, operations, what is hard about it and what makes it
correct. *M*: modelled, all of them in part, with what is left out named in
`PROJECT.json`; *–*: not modelled, see the next section.

| component | state | operations and interactions | hard behaviour | correct when |
|---|---|---|---|---|
| Command service (M) | `device_commands`, `outbox_events`, `channel_state` | `sendCommand` from HTTP, scenes, automations; `handleCommandReceipt` from MQTT | requests interleave at awaits; crash between statements; retries | stored before published, published once, status true |
| MQTT transport (M) | session, in-flight publishes | `sendCommand`; callbacks for receipts, state, events, telemetry | QoS 1 repetition, clean sessions | no callback for what was not sent |
| Device command handling (M) | idempotency ring, MQTT session | parse, expiry, dedup, dispatch, receipt | redelivery, reboot between dispatch and record | one actuation per key, one receipt per delivery |
| Edge routines, relays, switches (M) | relay states, pins, NVS, routine table | tick, start, stop, upsert, delete; press; LAN handlers | four tasks without a lock; flash writes inside handlers | stores agree, pulses end, stops stop |
| Cloud state reporting (M) | last published state, settling timer | relay callback → 2 s timer → publish; heartbeat; connection | three tasks read the relays one by one | the cloud's copy becomes the relay's state |
| Ingestion, state cache (M) | `channel_state`, cache, last sequence (RAM) | `ingestState/Event/Telemetry` | rows and cache written an await apart; restarts of either side | no report that says something new is dropped |
| Presence (M) | `connection_state`, `last_seen_at` | heartbeat, stale sweep, startup | the sweep writes from a list read earlier | a device heard of is not STALE |
| Energy (M) | totals in RAM, rows, hourly aggregate | reading → delta → aggregate | lost, late, reordered readings; read, then write | energy counted is energy consumed |
| Authentication (M) | users, refresh tokens | login, refresh, logout, password | two refreshes of one token; interrupted change | one successor per token, a password ends its sessions |
| Homes, invitations (M) | homes, members, invitations | roles, transfers, deletions; create, accept, revoke | a revocation during an acceptance; two owners leave | an owner stays; closed is closed |
| Provisioning sessions (M) | sessions | create, authenticate, provision, complete, expire | read, then unconditional status write | states in order, one active session |
| Claim and add (M) | authorizations, rooms | claim, assign, move, remove | three reads before a write | a device in a room of its one home |
| Device trust (M) | trust state, credentials, ledger | quarantine, revoke, restore, reset, rotate | a rotation confirmed after a revocation | a revoked device stays revoked |
| OTA updates, rollouts (M) | operations, campaign, statistics | initiate, progress, report; batch, pause, roll back | late, repeated and stray reports, overlapping batches | one active operation at a time, limits hold |
| Notifications (M) | notifications, deliveries, tokens | decide, queue, push, record, retry | a failure after the push was sent | pushed once, recorded truly |
| Automations, scheduler (M) | rules, schedules, keys, hysteresis (RAM) | edit, trigger; tick, run | overlapping ticks and triggers, restart, updates of a stale row | a run starts once and at its time; a rule fires, and is held back, for a reason |
| BLE commissioning, Wi-Fi (M) | session, key, queue, credentials in flash | EH-PROV/1, frames, connect, factory reset | repeated pages, replies in frames, restarts between writes | credentials only in a proved session, whole in flash |
| Outbox, timeout workers; worker runner (–) | attempts | sweep, publish, expire | | |
| Scenes, execution routing, local execution (–) | last known connectivity | choose a route, call | stale reads | |
| Sync, recovery (–) | cursors; backups | pull, push; plan, restore | rows that change while read | |
| Releases, catalog, export, retention, incidents, rate limits, Matter, webhook, event bus (–) | rows, counters | single-row writes, reads, fan-out | | |
| Adapters of the database (–) | tables, pool | | rollback over other writers | |
| Factory identity, clock, OTA manager of the firmware (–) | | parse, set, boot | | |
| Administration API, apps, shared packages, tools, hardware, legacy (–) | | | | |

The hazards, each at its line with the properties that watch it, are in `PROJECT.json`.

## Not modelled

- *Outbox and timeout workers, telemetry batch worker.* The server never starts the
  first two (`app.js:454-460`) and never fills the third: the models take the program as
  it runs, and `service_outbox_retry` shows what that means. The *worker runner* only
  starts timers; overlapping ticks are in `Scheduler`.
- *Scenes, execution routing, local and edge execution.* Loops and choices around the
  command service; the idempotency records of an execution are looked up and created as
  its are, and the local transport is a simulation no code registers.
- *Sync.* Reads of what changed since a cursor, and writes of single rows.
- *Recovery.* It works on the tables of the in-memory adapter only; on PostgreSQL, which
  the models take, a backup is empty and a restore fails.
- *Firmware releases, catalog, incidents, operations, export, retention, rate limits.*
  Rows changed one at a time, counters that only reject, reports.
- *MQTT webhook, Matter, realtime bus.* A decision from tables it only reads; mapping
  tables and stubs; a synchronous fan-out that keeps nothing.
- *The database adapters.* Their constraints are modelled where they decide; pooling and
  SQL text are I/O. The in-memory one is a substitute for development.
- *Factory identity, clock, OTA manager of the firmware.* A pure conversion; setting the
  clock is in `DeviceCommands` and `EdgeDevice`; download and trial boot are ESP-IDF's.
- *Administration API, desktop and mobile applications* (but for the app's
  commissioning, in `BleProvisioning`), *shared packages, tools, hardware, legacy
  firmware*: separate systems, user interfaces, design files.

## Plan

Modules are written to be proved about: constants with named assumptions, one action per
operation, invariants as conjunctions of named parts, no RECURSIVE.

Done: the command path with its life cycle, the edge device, the reports of the firmware
and fourteen components of the backend, checked; every safety property of these, proved.
What is left, in this order:

1. Abstract specifications for the components whose promise is a sentence, with the
   refinement proved: a delivery that is pushed at least or at most once, a scheduled
   occurrence, a meter that only counts up.
2. A composition of reporting and ingestion on one wire: the row becomes the relay's
   state.
3. Sync: a client that pulls and pushes while rows change; execution records.
4. The transactions of the in-memory adapter and the outbox worker: what the properties
   of the command path would gain if the server started it.
