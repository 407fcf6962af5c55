# smart-switch in TLA+

TLA+ specifications of the parts of smart-switch where order, concurrency and
failure decide whether it is correct: the backend's live device connections and
relay, the database rows those connections write, device ownership and
configuration, schedules and automations, usage statistics, the safety rules,
accounts and households, API keys, scenes and groups, the dashboard's session, live
device list and schedule editor, the ESP8266's relays and Wi-Fi and the ESP32's
relays. TLC checks them on small instances; TLAPS proves every one of their safety
properties for every value of the constants. `PROJECT.json` holds, for every definition, the source lines it
models, the list of runs, a plausible bug for every property that its run
finds (the *mutants*), the hazards, the findings and the theorems.

1. [The system](#1-the-system)
2. [How the code is modelled](#2-how-the-code-is-modelled)
3. [The modules](#3-the-modules)
4. [The runs](#4-the-runs)
5. [What disagrees with a doc or a comment](#5-what-disagrees-with-a-doc-or-a-comment)
6. [Fairness](#6-fairness)
7. [The proofs](#7-the-proofs)
8. [Not modelled](#8-not-modelled)
9. [Plan](#9-plan)

## 1. The system

A household's switches are ESP8266 boards. Each keeps one WebSocket to a
Node.js backend (Express, `ws`, PostgreSQL). Phones (Flutter) and browsers
(Next.js) talk REST and a second WebSocket to the backend. A command travels

    app / automation / schedule / safety scheduler / API v1
      -> relayCommand (guard, reqId, timer) -> registered device socket
      -> channelControlSetState on the board -> reply {reqId}
    board: state_changed frame -> handler -> cached_channel_state, log,
      automations triggered by the change -> further commands ...

| Component | State it keeps | Operations | What makes it correct |
|---|---|---|---|
| Live-connection registry and relay (`ws/registry.js`, heartbeat and close in `ws/deviceServer.js`) | `deviceSockets`, `pendingRequests`, `pendingReqIdsByDevice`, per-socket `isAlive`, closures | register, unregister, relay, reply, timeout, heartbeat, disconnect | newest connection wins; every call settles once, honestly, and early when the device goes |
| Device session and cache (`ws/deviceServer.js`, `cloud_client.cpp`) | `is_online`, `cached_channel_state`, the handler's `authenticated`/`deviceId` | auth frame, replay, state frames, close | not online when gone; cache equals the relays after the replay |
| Ownership and authentication (`authenticateDevice`, `routes/devices.js`, `routes/admin.js`, `auth/deleteAccount.js`) | `household_id`, `cloud_secret_hash` | claim, unclaim, reassign, reset, trust on first use | no connection let in, no claim overwritten, by a crossing of statements |
| Device schedules (`deviceSchedules/scheduler.js`) | `device_schedules` rows, `last_fired_at` | minute tick, retry, one-shot cleanup, edits | one occurrence fired once |
| Automations (`automations/engine.js`, `ws/attribution.js`) | queues of expected echoes with depth and chain | note, take, fire, expire | no loop |
| ESP8266 relays and store (`channel_control.cpp`, `config_store.cpp`, `physical_input.cpp`, `recovery_button.cpp`, `main.cpp`) | relays, inching deadlines, config in RAM and flash, debounced inputs | set, all off, poll, flush, push, reboot, factory reset, power loss | interlock, restorable file, no phantom press |
| Safety rules (`safety/guard.js`, `safety/scheduler.js`, lock in `deviceApi`) | `locked_at`, `state_since`, `inFlight`, `lastAttemptAt` | check a command, tick, retry, cool-down | minimum OFF kept, maximum ON enforced |
| Accounts and households (`routes/households.js`, `routes/admin.js`, `auth/deleteAccount.js`, `admin/guards.js`) | `users`, `households`, `household_members`, `household_invites`, row locks | sign up, invite, answer, remove, disable, promote, demote, delete | a household lives as long as its members and keeps an owner; an active admin remains; no deadlock |
| Sessions (`dashboard/lib/server/session.ts`, `auth/tokens.js`, `routes/auth.js`) | cookies, `refreshFlights`, `refresh_tokens` | resolve, refresh, retry after a 401, log out, change the password, revoke all | a single-use refresh token never strands the browser nor forks the session |
| Wi-Fi of the ESP8266 (`wifi_provisioning.cpp`, `recovery_button.cpp`) | `s_state`, deferral, candidate and previous network, retry, scan; the SDK's mode and stored network | join at boot, hotspot, test and roll back, retry, scan, restart | a working network is kept; the radio goes to one of them at a time; the hotspot goes off |
| Live device list (`dashboard/lib/live.tsx`, `cache.ts`, `queries.ts`, `ws/clientServer.js`) | the cached list, `useLiveStatus`, the request under way | connect, snapshot, event, poll, switch and roll back | nothing is missed; the screen catches up |
| Settings and hardware configuration (`deviceApi/settings.js`, `hwConfig.js`, `defaults.js`, `switches.js`) | `device_settings`, `device_switches`, the board's copy | read, merge, write, push, seed on connect | a settled board works by what is stored; nothing half-set, nothing deleted comes back |
| Schedule editor (`schedule-dialog.tsx`, `schedule-list.tsx`, `queries.ts`, `deviceApi/schedules.js`) | `device_schedules`, the cached configuration, the dialog, mutations under way | edit, toggle and roll back, delete, invalidate, fetch | the screen ends up with what it confirmed to its user |
| Activity log and usage (`activity.js`, `usage.js`) | `activity_log`, `households.timezone` | report, replay, claim, add up by local day | every hour on is counted once, on its day |
| Public API, keys and hooks (`routes/apiKeys.js`, `routes/hooks.js`, `auth/apiKeys.js`) | `api_keys`, `switch_hooks` | make, revoke, command with a key or a hook | no command without the right to it; no key beyond the cap |
| Scenes, groups and automations' rows (`routes/scenes.js`, `groups.js`, `automations.js`) | the lists, group members, row locks | create, replace, delete, run | a group is one save's; only the household's own devices |
| ESP32 relays (`channel_control.c`, `relay_hal.c`, `config_store.c`, `cloud_client.c`) | relays, inching timers, interlock, what each task is doing | set, reverse, report, publish on connect | the interlock; inching ends; the backend is told the truth |
| LAN page, offline schedules, solar times, start-up, app, the dashboard's other screens | see section 8 | | |

**What is hard here.** The backend is one event loop, but every `await` is a
gap in which other handlers, timers and closes run: a socket may close during
its authentication query; a second frame of the same socket may arrive during
the first one's handler; a tick may start while the one before is still
retrying. Statements are issued without waiting for one another and run on a
pool, so two of them may take effect in either order. The device is a second
actor that loses power, reboots itself, reconnects with a full replay and
changes its relays without asking. Its configuration reaches the flash seconds
after it changes, or never. Its one radio is the station, the hotspot, the scanner
and the test bench of a new network. The database runs at READ COMMITTED, so two
transactions cross wherever they do not lock the same row. A browser sends
several requests at once, all with the same cookies, and shows changes before they are
confirmed. On the ESP32 four FreeRTOS tasks change the relays with no lock over a
change. `PROJECT.json`'s `hazards` lists these, each at
the line where it bites, with the properties that cover it or the reason why
none does yet.

## 2. How the code is modelled

*One action is one run of the event loop.* What lies between two awaits of the
backend is one step, and each await is a gap where anything else may happen.
On the ESP8266, one action is one handler called by `loop()`. A database
transaction that locks its row is one step, a `SELECT` followed by a separate
statement is two. A `WHERE` clause is judged when the statement runs, not when
the handler began. Accounts, SavedLists and PublicApi look inside transactions: there
a step is one SQL statement, with the row locks it waits for. On the ESP32 one
action is one access to something shared, because its tasks preempt one another.

*Data is cut down* to what the properties tell apart. Secrets, sockets,
requests and households are model values; a command's payload is a channel and
a state, or nothing.

*History variables* (`held`, `fired`, `mixed`, `moved`, `missed`, `overtaken`,
`overlapped`, `failed`, `good`, `cut`, `spoiled`, `mishap`, `best`, `caught`, `calm`,
`removed`, `owed`, `had`, `used`, `meant`, `fresh`, `told` of UsageStats, `truth`, `timed`,
`forced`, `alone`, `sole`, `known`, `unsure`, `lost`, `early`, the `ancestry` of notes, echoes
and evaluations) are read by no guard that models
the code. They only let a property speak of the past.

*Bounds* are constants in the guards and are named in each module's `CONSTANTS`:
`MaxConns`, `MaxChanges`, `MaxTime`, `MaxMinutes`, `MaxEdits`, `MaxWrites`, `MaxClicks`,
`MaxEvents`, `MaxDays`, `MaxMoves`, `MaxCalls`, `MaxMisses`, `MaxMishaps`, `MaxFaults`,
`MaxReports`, `MaxRequests`, `MaxRestarts`, `MaxDrops`, the sets `Slots`, `Ticks`,
`Requests`, `Reqs` and `Clicks`. `MaxDepth`, `Grace`, `Transit`, `CallTime`, `DayLength`, `MaxOn`,
`MinOff`, `Cooldown`, `KeyCap` and `HookCap` are not bounds but values of the code or of
its settings.

*Unions of parts.* Components that share no state are checked in one run:
`MCDeviceBackend`, `MCAccounts` and `MCBoards` begin with one of their parts, and `part`
says which one moves; the variables of the others stand still (at `Nothing`, or in one
state they begin in). Such a run explores the sum of its parts, not their product, and
says of each what a run of its own would.

## 3. The modules

### DeviceRelay, RelayPromise

`registry.js` and the life of a device socket. `deviceSockets`,
`pendingRequests` and `reqIdsByDevice` are the code's maps; `ready`, `auth` and
`isAlive` belong to a socket; `phase`, `outcome`, `via` and `leg` follow one
`relayToDevice` call, its promise and its frames. `AuthFrame` and
`AuthAccepted`/`AuthRejected` are the two halves of the first frame around
`await authenticateDevice`; `RelayCall` and `GuardPasses`/`GuardBlocks` the two
halves of `relayCommand` around the guard's query, after which the socket is
looked up again. `DeviceReply` and `RelayTimeout` settle a promise,
`CloseEvent` all those of a device.

`RelayPromise` is what a caller may rely on with none of that: a call starts, the
device applies the request at some moment or never, and the promise settles
once. "reply" means it was applied, "blocked" that it never will be; a timeout
and "offline" say nothing. `DeviceRelay` implements it with `status <- CallStatus` and
`applied <- Applied`.

### DeviceSession

The device's frames (auth, replay, changes) over its successive connections,
each a FIFO, their handler, and the `UPDATE`s it does not order: `MarkOffline`
and `RecordStateChange(i)` take any statement still to run. `HandleEarlyFrame` is a
frame handled while `authenticateDevice` is awaited: it has no credentials, so
the socket is closed with 4001. The device holds the right secret here; when
authentication refuses is DeviceOwnership's subject.

Its connections are those of `DeviceRelay`: `Registry` is that module over one device and no
requests, with a connection's `marked` (the row is updated, the continuation still to run) as
its `checking`, and `RegistryKept` says that a session is one of its behaviours. So what
DeviceRelay's theorems say of the registration holds of the registration that decides
`is_online`; of `OneLiveConnection` that is proved (`NewestSessionWins`).

### DeviceOwnership

One `devices` row (`exists`, `household`, `secret`). An attempt's `pc` is the next
statement of `authenticateDevice`: `SelectRow`, then `InsertRow`, `AdoptSecret`,
`RepairUnclaimed` or `Revalidate`, then `MarkExistingDeviceOnline`; each re-states its
condition in its `WHERE`, as in the code. Claims, unclaims, reassignments,
resets and account deletions run between any two of them. The schedules some of
these operations disable are left out.

### ScheduleTicks

One `device_schedules` row against the ticks in flight. `RunTick` starts a tick
whatever the others do; `SelectRows` takes the snapshot that `Visit`
judges (`IsDue`), possibly minutes later; `Handled` and `Fails` are the attempts
of the command, and `UpdateFired` records the fire or removes a one-shot. A
retry's pause and the rows of other schedules appear as `Clock` steps between
two steps of a tick. Days are numbers: the weekday mask, the time zone and the
solar times are abstracted.

### ScheduleEditing

The rows behind a dashboard's list of schedules and the dashboard's copy of them. A row
is its versions: `ver` numbers its writes and `what` says which write its content comes
from, so that an older copy can be told from a newer one. `Upsert` and `Delete` are the
backend's statements, `SettleSave`, `SettleToggle` and `SettleDelete` the mutations'
`onSuccess`, `onError` and `onSettled`, `ReadRows` and `EndFetch` the two ends of a
fetch, which a switch's `onMutate` cancels. Others' edits and the scheduler's turning off
of a one-shot are `Outside`.

### HwConfigSync

`device_settings` and `device_switches` of one device. A request is a handler: `ReadCurrent`
and `WriteSettings`, `WriteSwitch`, `DeleteSwitch`; `Connect` and `Seed` are the handler of a
connection. Whoever `TouchesBoard` then pushes: `ReadSwitches` and `ReadInterlock` in
either order over two connections of the pool, `SendPush` on the socket that is there at
that moment, or nowhere. `Hear` is the board taking a frame; `Disconnect` loses those
on their way.

### UsageStats

The log of one switch, in hours. `Turn`, `Connect` (which reports every channel again),
`Disconnect` and `Move` (to another household or none) write it or fail to; `GetUsage` is
the arithmetic of `usage.js` over a zone that changes its offset once: local days
(`ZonedMidnight`, `DayWindows`), the state before the first row (`StateBefore`), the loop that
folds replays (`Follow`, `OnIntervals`), the clipping of intervals to days (`Overlap`,
`BucketSeconds`). `truth` keeps, hour by hour, what a reader of the log could know.

`MidnightsFound` is what a zone must satisfy for `zonedMidnightMs` to find its midnights: no
midnight is skipped or repeated by the change, except one that clocks skip exactly from,
east of UTC, or go back exactly to, west of it. Most zones change between one and three in the
morning. A zone west of UTC that goes forward at midnight (Santiago, Havana) is one it excludes:
`zonedMidnightMs` is an hour early there, once a year.

### AutomationCascade

`notes` are `attribution.js`'s queues, `echoes` the `state_changed` frames on their
way, a `slot` one evaluation of `evaluateStateTriggeredAutomations`, walking its automations
and their actions. Notes and evaluations carry the code's `depth` and `chain`, and all three
the *true* `ancestry`, the automations really behind them, which the code cannot see.
`NoteAction` comes before the guard and `RelayAction` after it, as in the code, so
other commands cross between the two. `Refused` discards the newest note
(`DiscardRecent`), `Fails` is an attempt that is retried, `Expire` a note
that outlived its TTL, `Press` a wall switch.

### ChannelControl

One board. `on` is the relay HAL, `armed` the inching deadlines, `cfg`, `dirty` and
`flash` the store. `channelControlSetState`, with the interlock's forced OFFs and its
restore cache, is one operator that every caller uses. Wall switches are polled
(`refreshActive`, `PollBounce`, `PollBaseline`, `PollConfirms`), the flush is debounced
and may fail, a reboot may be requested and come later, and `PowerLoss` may come
at any step. Time is not counted: a deadline that is set may pass at any later
step, which is weaker than the code and so makes the safety properties stronger.

### Esp32Relays

The board boots with the `default_boot_state` of every switch, whatever the interlock says.
`channel_control_set_state` runs as its callers run it: each task's `call` is a
walk over `StopTimer`, `ReadConfig`, the other channels (`ReadOther`, `StopOther`,
`TurnOtherOff`, `TellOther`), `SetOwn`, `TellOwn` and `Arm`, and the tasks' walks interleave at
every step. A lock that is not had in 50 ms (`misses`) leaves a read at OFF and a write
undone. `SetSwitch`, `DeleteSwitch` and `SetInterlock` are the HTTP server's changes of the
configuration; a channel whose switch is gone can still be commanded. `CopySwitches`,
`PublishRead` and `PublishSend` are the publication on connect, over a copy of the configured
switches only; `told` is what the backend last heard of each channel.

### ChannelSafety

One channel, in discrete time. `relay` and `age` are the truth, `cached` and
`sinceAge` what the backend believes. `CheckChannelCommand` is the guard's query,
`RelayCommand` what follows its await; `RunTick`, `FireDue` and `TurnOffOnce` are
`runSafetyTick` with its in-flight set, retry and cool-down. Sending and applying a
command are one step here, and `online` is both the device's and the backend's
view: how a call ends and how a connection is noticed to be gone are
DeviceRelay's and DeviceSession's subjects.

### Accounts

`users`, `admin`, `disabled`, `homes`, `members`, `owners` and `invites` are the tables.
A request's `step` is its next SQL statement, `seen`, `got`, `others` and `heir` are
what earlier ones read, and `rows` what its transaction has locked. A statement
is enabled when no other transaction holds a row in its `Needs`; foreign keys count
(an `INSERT` of a member needs the household's row). A transaction's
writes become visible with its last statement. `SeeAdmins` and `LockAdmin` are the
two halves of PostgreSQL's `SELECT ... ORDER BY id FOR UPDATE` at READ COMMITTED:
the snapshot chooses the rows, then each is locked and its condition looked at
again, and a row that came to match only meanwhile is not seen. `DeadlockOf` and `Abort`
are the database's deadlock detector.

### PublicApi

Keys, hooks and what they command. A request's `pc` is its next query: `CountKeys` and
`InsertKey`, `LockKey` and `CommitRevoke`, `ReadHomes`, `ReadKey`, `GetSwitch`, `CountHooks` and
`InsertHook`, `Authenticate` or `LookupHook`, then `Actuate`. `seen` is what it has read, `had`
the rights it really held at any moment since it came. Members join and leave, devices
move, accounts are disabled and enabled between any two queries.

### SavedLists

Groups, scenes and automations as rows that name devices. A save `Find`s the list, checks
the devices and writes; a group's transaction locks its row, drops the members and
inserts the new ones (`LockGroup`, `DropMembers`, `InsertMembers`). `SendSceneAction` and
`SendAction` are what running a scene or an automation commands, after its look at
`devices.household_id`, `Move` a claim or an unclaim at any moment.

### DashboardSession

One browser, several requests in flight (`req`), the cookies (`at`, `rt`), the dashboard
server's `refreshFlights` (`flight`) and the backend's statements of a refresh or a
password change (`job`: `Verify`, `Revoke`, `Issue`). A request carries the cookies it left with
and its answer is applied when it arrives. `CallFails`, `FlightFails`, `Lose` and `Restart`
are the 502s, the refresh nobody waited for, the closed tab and the restarted
server. Time matters only for the grace window in which a settled refresh is
shared: `TimeAssumption` says it outlasts a call and two ways to the browser, as
30 s does against 20 s.

### WifiProvisioning

One board. The firmware's state, the SDK's and the link are one record `dev`.
A pass of `wifiProvisioningLoop` is the composition of its blocks in their order,
`Collect`, `Defer`, `Test`, `Back` and `Retry`, each a function from record to record; which
timers a pass finds due is left open. `RequestReconfig` and `StartScan` come
between passes, and so do the router's coming and going, the SDK's own
`Associate`, and restarts. `SetMode` and `Begin` are external: what the firmware
relies on in `WiFi.mode` and `WiFi.begin`, which also *stores* the network.

### LiveDevices

One open dashboard, from the loading of the page: the list is requested and the connection
being made, and until the first list is there (`NoList`) an event has nothing to write to
and is dropped (`Patch`). `ConnectFails` is a connection that does not come about; `OnOpen`
asks for the list again, which joins the first request as long as that has no answer. Each
recorded state of a channel has a number, so that a
property can tell a newer one from an older. A list is read by the backend at one
moment (`ReadFetch`, `ReadSnapshot`) and written over the cache at a later one
(`FetchArrives`, `OnMessage`); `Cast` is the second half of `broadcastToHousehold`, after its
query. `Click`, `Succeeds` and `Fails` are `onMutate`, success and `onError` of
`useSetChannelState`, `Execute` the device's report, which may come after the
time-out.

### How they fit together

The modules meet at operations, not at variables. What DeviceRelay says of a call
(`RelayPromise`) is what ScheduleTicks, AutomationCascade and ChannelSafety take
for a command: it succeeds, is refused, or fails with nothing known about the
device. DeviceSession's out-of-order `RecordStateChange(i)` reappears in
ChannelSafety, where it decides what the guard believes, and
`channelControlSetState` in AutomationCascade's `SetState`, where the interlock decides
which echoes arise. Every report DeviceSession records is a `Change` of LiveDevices,
and a `Click` there is a call of DeviceRelay. The deletion of an account, whose
statements Accounts models, is one action of DeviceOwnership; its revoked tokens are
`SignedOutElsewhere` of DashboardSession. The homes and members that
PublicApi and SavedLists see change are Accounts' and DeviceOwnership's, their commands
calls of DeviceRelay. A schedule row is edited through ScheduleEditing and fired by
ScheduleTicks; the configuration HwConfigSync sends is ChannelControl's `handleHwConfigPush`.
Of these meetings one is checked and proved: DeviceSession's registration is DeviceRelay's
(`RegistryKept`). The reports UsageStats adds up are those DeviceSession records. WifiProvisioning decides when the board of
DeviceSession has a connection at all, and its restarts are ChannelControl's.

## 4. The runs

Each passing property has a mutant: a definition with a plausible bug (a dropped
guard, a forgotten reset, a missing `WHERE`) under which the run's own configuration
finds the property violated. Each module's `TypeOK` carries, besides the types, what
ties its variables together (a socket's registration, a refresh somebody works on,
a link only with the station interface on).

| Run | Instance | What it shows |
|---|---|---|
| `relay` | 1 device, 2 sockets, 2 requests, one of them guarded | `NoWaitOnClosedSocket`, `OneLiveConnection`; implements `RelayPromise` (`PromiseKept`); `PromiseSettles`, `SilentConnectionCloses` |
| `device_session` | session: 1 channel, 3 connections, 1 change | `OfflineWhenUnregistered`, `CacheFollowsRelays`; implements DeviceRelay's registry (`RegistryKept`) |
| `device_backend` | config: 1 channel, 2 requests of 8 kinds of body, 2 connections | `CalmMeansCurrent`, `RowsSound` |
| | usage: 12 hours in days of 5, 2 days asked for, 3 events, 4 zones | `OnTimeCounted` |
| | schedules: 2 schedules, 2 versions, 2 clicks | `ShowsOwnChanges` |
| | ticks: minutes 0..2, days of 2 minutes, grace 1, 2 ticks, 2 edits | `RecordedNotRepeated` |
| | cascade: 2 channels, 2 automations that trigger one another, 1 user command, 2 slots, depth 5 (the code's), 1 mishap | `LoopsRefused` |
| `cascade` | the last part alone, with 2 mishaps and fairness | `CascadeEnds` |
| `accounts` | people: 3 users (one signs up during the run), 2 admins (one disabled), one shared household, 3 requests | `HomeOutlivesMembers`, `AdminLostOnlyUnseen`, `AdminsWaitInOrder` |
| | devices: 2 households, 2 secrets, 2 attempts, 1 removal | `AcceptedSecretWasHeld`, `ClaimedSecretKept` |
| | keys: 1 user, 2 keys with room for one, 1 hook, 2 requests | `RightsHeld`, `CapWhenAlone` |
| | lists: a group, a scene, an automation, 2 devices, 2 requests, 1 claim or unclaim | `GroupFromOneSave`, `OnlyOwnDevices` |
| `accounts_owner` | people alone, 3 users in one household, 2 requests | section 5: a counterexample to `OwnerKept` |
| `boards` | esp8266: 2 channels, 1 wall switch, 4 configurations to push | `InterlockHolds`, `CleanIsRestorable`, `NoPhantomPress` |
| | esp32: 2 channels, ON or OFF at boot, with or without a switch and the interlock, one inching at boot, 2 commands or changes of the configuration, 1 missed lock | `InchingTimed`, `InterlockAlone`, `ReportedAlone` |
| `esp32_interlock_race` | esp32 alone, no missed lock | section 5: a counterexample to `MutuallyExclusive` |
| `channel_safety` | 2 commands, MaxOn 2, MinOff 2, Cooldown 1, 2 mishaps, 2 reports | `MinOffKept`, `MaxOnEnforced` |
| `dashboard_session` | 3 requests, Transit 1, CallTime 0, Grace 3 | `CookieUsable`, `OneSession`, `NotSignedOutByRefresh` |
| `wifi` | 2 networks, 3 changes of network, 2 restarts | `KeepsWorkingNetwork`, `TestKeepsHotspot`, `HotspotGoesOff` |
| `live_devices` | from the loading of the page: 2 channels with 2 recorded states each, 1 click, 1 lost connection | `NothingMissed`, `PollingCatchesUp` |

The configurations that no run names reproduce the counterexamples of section 5, with
`tlc -config <file> <module>`; `MCBoardsEnds.cfg` is the exception, and passes.
`device_backend` and `accounts` use symmetry: schedules, and the devices of the lists, are
told apart by nothing; both runs check safety only.

**Why the bounds are enough.** `relay`: superseding, and a close crossing it, needs two
sockets of one device; a disconnect that settles some calls and not others needs
two requests. *session*: three connections give a superseded one, its successor and a
reconnect, with the first's statements still to run; a replay and one change of the same
channel are two reports, one of which can overtake the other. *config*: two requests and two
connections are every pair of handlers, across a reconnect; the bodies are one of each kind,
with its fields apart. *usage*: two days with a change of offset within a day, on either side
of UTC, or right at a midnight that is skipped (east) or repeated (west), and three events
are an ON that lasts over it, lost and replayed. *schedules*: two switches, or a switch and
the dialog, cross with a change of somebody else's. *ticks*: two ticks are what overlaps, a day of two minutes makes midnight
fall inside the grace window, and two edits re-arm a one-shot. *cascade*: two automations over
two channels, one of which undoes its own trigger, are the smallest loop through another
automation; two slots let two echoes be evaluated at once; one mishap loses a note or brings
in a press, two (in `cascade`) also let another command's echo take it. *people*: a race needs
two transactions, and a third request makes the state they race from (an invite, a promotion)
or a wait of three; three users are an owner, a member and a newcomer, and the disabled admin
is the one a third request enables between a snapshot and its locks. *devices*: two attempts
with different secrets, a claim and an unclaim between any two of their statements. *keys*:
one key exists and there is room for one, so that the cap is at its limit; a second request
revokes or uses what the first makes. *lists*: two saves of one group, or a save and a
deletion or a run, and a device that changes hands in between. *esp8266*: the interlock needs
two channels; the one wall switch lets the switched and the forced channel differ. *esp32*: two
commands and a timer are three tasks at work, and `MaxCalls` counts the changes of the
configuration too, so that one meets a command, or a publication. `channel_safety`: times of two units are the
smallest at which a check may come too early and too late by one, two reports are what
overtakes, and two mishaps are, for example, a press while offline and a restart.
`dashboard_session`: two requests share a refresh, the third arrives with the old cookie after
it, logs out or changes the password; one tick of transit and a grace of three are the least
that satisfies `TimeAssumption` with a leg that can be late, and a backend call that fits
within one tick is enough to let every step of it cross every step of another. `wifi`: two
networks are the working one and a candidate; three changes are a first network, a second one
and a request during its test; two restarts are the power cut in the middle of the test and
the one after it. `live_devices`: two channels let a rollback undo the other channel, two
recorded states let a list be one older than an event, and one lost connection gives one
before the first list, or before and after the loss; a connection may fail any number of times. For every safety property the proofs then remove
the bounds.

Deadlock is checked for `boards`, `channel_safety` and `wifi`, which never stop. The other
instances end when their requests, connections, edits or minutes are used up. No run checks
`TypeOK`: each module's is proved (`RelayPromise` has none).

**Exceptions the properties name.**

- `CacheFollowsRelays` excepts runs in which one report's upsert overtook another's:
  two statements of one channel that run in the other order really leave the older
  state in the cache until the next report or replay.
- `MinOffKept` speaks of moments when all reports are in and none was missed: a press
  while offline is reported on reconnection, with the time of the report.
  `MaxOnEnforced` excepts an overtaken report, where the backend shows OFF what is ON.
- `LoopsRefused` compares what fires with its true ancestry, and excepts runs in which an
  echo took the note of a command with *another* ancestry, which the queues cannot tell
  apart, or found none (`mixed`). What is carried from an evaluation to its commands and on
  to theirs is not excepted. `CascadeEnds` holds even then.
- `InterlockHolds` excepts a push that enables the interlock over two channels that are
  ON, for which the code does nothing.
- `CookieUsable` and `NotSignedOutByRefresh` except refresh tokens that are `spoiled`:
  their successor was lost (a 502, a closed tab, a restart) or everything was revoked.
  `OneSession` excepts a `mishap`: a refresh cut off or crossing a revocation.
- `KeepsWorkingNetwork` excepts a restart in the middle of a test (`cut`), and
  `HotspotGoesOff` a failed test of the very first network.
- `AdminLostOnlyUnseen` names the one way to lose the last admin, `AdminsWaitInOrder`
  speaks of requests that saw the same admins: section 5.
- `CalmMeansCurrent` speaks of a board whose handlers have not overlapped since it
  connected, and `CapWhenAlone` of requests that have not: section 5 says what happens otherwise.
- `InterlockAlone` speaks of boards on which the last command to turn a channel ON met no
  other such command, missed lock or change of the setting (`sole`): a boot, a time with the
  interlock off or two commands at once may leave several relays ON, and that command
  ends it.
- `ReportedAlone` speaks of channels published or commanded over this connection (`known`)
  whose last report was neither lost nor crossed by another of theirs (`unsure`): the next
  report that is alone makes up for those.
- `RightsHeld` and `OnlyOwnDevices` ask for the right at *some* moment of the request: no
  query is repeated before the command goes out, so that nothing stronger holds.
- `OnTimeCounted` counts by what the household was told: nothing before the first report,
  and the last report while the device is away or not yet heard again.
- `InchingTimed` excepts a missed lock, which may leave a relay ON with no timer.
- `NothingMissed` says that the last state *reached* the screen, not that it is what the
  screen shows: an older list may have overwritten it since. It excepts a state whose event
  came before the page had its first list (`lost`): section 5.

## 5. What disagrees with a doc or a comment

Two runs expect a violation and are findings of `PROJECT.json`, which quotes the lines:

- `accounts_owner`, `OwnerKept`: the member who is to inherit a household leaves between
  `deleteUserAccount`'s `SELECT` of the others and its `UPDATE`; the household keeps
  members and no owner.
- `esp32_interlock_race`, `MutuallyExclusive`: two tasks of the ESP32 walk over the other
  channels at once, each before the other has turned its own ON; both end ON.

More, each reproduced by the configuration named:

- `MCDeviceRelayGhost.cfg`, `SilentDeviceUnregistered`: a socket that closes during its
  authentication query is registered after its close handler ran. Its heartbeat
  terminates a closed socket, which fires nothing, so it stays registered and the
  device looks online until it connects again.
- `MCDeviceBackendAdmit.cfg`, `HonestDeviceAdmitted`: the firmware sends its replay right
  behind the auth frame. The replay is handled while the query is awaited and the
  device is closed with 4001.
- `MCDeviceBackendTwice.cfg`, `OncePerDay`: a tick that is still retrying when the next
  begins: both fire the same daily occurrence.
- `MCAutomationCascadeInterlock.cfg`, `CascadeEnds` with the interlock on: the OFF of a
  channel that the device's interlock turned off was noted by nobody, so its echo
  starts a cascade of depth 0. Two "keep it on" automations loop for ever.
- `MCBoardsInching.cfg`, `InchingReverses`: a restart of the ESP8266 while an inching
  deadline is pending restores the channel ON and forgets the deadline. (On the ESP32 the
  inching of a channel that was commanded ends, as long as no lock is missed:
  `MCBoardsEnds.cfg`, `InchingEnds`.)
- `MCDeviceBackendSettings.cfg`, `OmittedPlaceKept`: a settings request that leaves the
  location out writes back the one it read, over another request's. Variations of the same
  file: with `Bodies <- MCPatchBodies`, `Claimed = FALSE` and `PROPERTY RenameKeepsZone`, a rename
  wipes a zone set meanwhile; with `Bodies <- MCModeBodies` and `INVARIANT CurrentWhenQuiet`, two
  pushes arrive in the order opposite to their reads and the board works by the older mode;
  with `Bodies <- MCZoneBodies` and `INVARIANT LabelsCurrent`, a POST of a zone alone resets the
  name and is not pushed; with `Bodies <- MCTimezoneBodies` and `INVARIANT SeededOnConnect`, a
  time zone set before the first connection uses up the seed of the switches.
- `MCDeviceBackendFlag.cfg`, `EditKeepsFlag`: a schedule is saved with the flag it had when the
  dialog opened, and a one-shot that fired meanwhile is armed again. With `PROPERTY
  ToggleKeepsContent` in its place: a switch in the list posts the whole schedule as shown and
  undoes another's edit.
- `MCLiveDevicesFirst.cfg`, `FirstListMissesNothing`: `live.tsx:99` says of the new request "Catch
  up on anything missed while disconnected (the snapshot also covers this)". While a page
  loads, that request joins the one for the first list, which may have been read already, as
  may the snapshot; an event that arrives now finds no list and is dropped (`cache.ts:47`). Then the
  list comes, and the state it lacks never reaches the live screen.
- `MCAccountsCap.cfg`, `KeysWithinCap`: two requests count, then both insert: one key more than
  the cap. With `Parts = {"keys"}`, `Commands = {"toggle"}` and `PROPERTY ToggleFlips` in
  `MCAccounts.cfg`: a toggle goes by the cached state and may leave the relay as it is.

Met while modelling, and inside what the models allow:

- `main.c:64-70` sets every switch's `default_boot_state` and `http_api.c:213-218` accepts ON for
  any number of them: a board with the interlock on may boot with two relays ON, until the
  next command that turns one ON.
- `http_api.c:341` commands any channel and `cloud_client.c:198-208` publishes those that have a
  switch: what a channel does whose switch was deleted while the connection was down is not
  known to the backend before its next change.
- `deviceServer.js:342`: the `UPDATE` of a close may land after that of the next connection, and a
  connected device is shown offline until it connects again.
- `admin/guards.js:1-7` says that the count of active admins "can't be raced". A locking
  `SELECT` looks again only at the rows its snapshot chose. When it comes back empty,
  because the one admin it saw was disabled while it waited and another was enabled
  meanwhile, `wouldRemoveLastAdmin` is false and the last admin goes (`AdminLostOnlyUnseen`
  states that this is the only way).
- `routes/admin.js:449` says that one lock order keeps admin actions from deadlocking. Two
  that saw different sets of admins, because one was promoted between their
  snapshots, can wait for each other; so can the acceptance of an invite and the
  deletion of its inviter. PostgreSQL aborts one of them.
- `routes/households.js:83`: the look for a membership and the insertion of the invite
  are separate statements. A member may be left with a pending invite, and return by
  it after being removed.
- When the backend call after a refresh fails, the dashboard answers 502 and does not
  write the rotated cookies. The browser keeps the revoked token and is signed out
  once the grace window ends.
- A logout is undone in the browser when a refresh answered later puts its pair back;
  a change of password, which is to sign out every session, is escaped by a refresh
  that is past its verification.
- `wifi_provisioning.cpp:250-271`: `WiFi.begin` stores the candidate before it worked; a power
  cut during the test loses the working network. `wifi_provisioning.h:9-12` says that a
  failed first test restores AP mode; the board stays in `apsta`, where the
  retry that looks for `WIFI_AP` never starts.
- Between a request and its deferred test (700 ms) the loop already judges the state
  TESTING by the old link, and may report CONNECTED or FAILED_ROLLED_BACK to the app.
- A list or a snapshot read before a change and applied after its event shows the
  older state, and while the connection is live nothing asks again; a rollback
  (`queries.ts:173`) puts back the whole list, with other channels' older states.
- `scheduler.js:111`: a fire delayed by its retry past midnight is recorded on the next
  day, whose own occurrence is then skipped; a restart between the command and the
  `UPDATE` forgets the fire. `devices.js:151`: an owner's unclaim leaves the device's
  schedules enabled, unlike an admin's, and names the device by its id alone, so that one
  delayed behind a claim by another household undoes it.
- An automation's retry, 3 s later, does not look again whose device it is; a save of no
  members of a group that was deleted meanwhile is answered as if it had been stored.
- `queries.ts:167`: a switch cancels a refetch that was under way and clears the mark that
  asked for it; `device-detail.tsx:63,161`: the list is changed after a rename, a removal or a
  lock and an older request still overwrites it; `switch-config-dialog.tsx:150`: new watts do
  not refresh the usage card.
- `usage.js:74`: "two passes so a DST change between guess and answer is accounted for", but
  the second does not settle a zone west of UTC that goes forward at midnight, nor one east of
  it that goes back to midnight: `MidnightsFound` excludes them. Log rows inserted out of
  order, and a switch that was ON when its device was unclaimed (its time away counts
  as ON), are outside UsageStats or inside its definition of `truth`.
- After a restart of the backend the notes of `attribution.js:17` are gone, and an echo
  counts as the device's own change. `config_store.cpp:257`: a save that failed is not
  retried. `safety/scheduler.js:53`: the retry turns OFF a channel that was turned off
  and on again meanwhile.

## 6. Fairness

Fairness is assumed only of what a runtime guarantees, never of devices or people.

- `DeviceRelay`: a query's continuation runs, a timer fires, the heartbeat's
  interval fires, the `close` event of a closing socket is delivered. Replies,
  pongs and new connections are not fair: `PromiseSettles` rests on the timer.
- `AutomationCascade`: the continuations of user commands and of evaluations run
  (`AppStep`, `Evaluate`). Mishaps and presses are not fair.
- The boards, only in `MCBoardsInching.cfg` and `MCBoardsEnds.cfg` (`MCFairSpec`): `loop()` of the
  ESP8266 comes to an expired deadline; on the ESP32 the operating system runs every task
  and timers run out.
- `ChannelSafety`: time passes; a device without a connection tries again
  (`computeReconnectIntervalMs` grows to a cap and never gives up); frames and
  statements are worked off; the interval and the continuations of the safety
  scheduler run. With `MaxMishaps` bounded, `MaxOnEnforced` reads: after the last
  press, lost connection, failed relay or restart, the channel is turned OFF.
- `WifiProvisioning`: a pass of the loop that finds every timer over comes again and
  again, weakly, since `loop()` never ends and each timer is a difference of
  `millis()`. A station that again and again may join its network joins it,
  strongly: the retry opens the interface for a while, every few minutes, and the SDK
  associates within that time now and then. Routers and users are not fair.
- `LiveDevices`: the poll timer, weakly; a request under way is again and again read
  and answered, strongly, because clicks and drops may cancel or fail it any number
  of times. The live connection is not fair: `PollingCatchesUp` is about being
  without it.

The other modules state safety only.

## 7. The proofs

Eight modules, checked by TLAPS (SMT, Zenon and LS4) to the last leaf. Each proves
inductive invariants by `Init => Inv`, `Inv /\ [Next]_vars => Inv'` (one step or lemma per
action, with a lemma for each way in which an action moves the state) and derives its
theorems from them. Of the instances in a union of parts the steps are those of `MCSpec`.

| Module | Theorems | Inductive invariants and why they are needed |
|---|---|---|
| `DeviceRelayProofs` | `TypeCorrect`, `PendingIndexCorrect`, `DisconnectFailsFast`, `NewestConnectionWins`, `OutcomesAreHonest`, `SettlesAtMostOnce`, `SupersededSocketHarmless`, `RelayKeepsPromise` | `SocketsConsistent` (a socket is registered only for the device it authenticated as) makes a close settle the right calls; `CallsConsistent` ties outcome, phase and frame; `PendingIndexed`, that the set `CloseEvent` settles is the set of calls that wait |
| `DeviceBackendProofs`: DeviceSession | `UnregisteredEndsOffline`, `SessionTypeCorrect`, `CacheIsResynced`, `SessionKeepsRegistry`, `NewestSessionWins` | `OnlineHasReason`: when `is_online` is true there is a registration, a `markOffline` still to run, or an authentication that marked the row and will go on; at rest only the first is left. `CInv` follows the last word about each channel on its way (`Followed`): the last frame on the device's own connection is the relay's state; with none under way the last statement to run is; with none of those the cache. For the refinement `RInv`: what is registered has authenticated, so that a connection that finishes authenticating supersedes another one; an open connection that has authenticated is registered; connections are opened in turn |
| HwConfigSync | `ConfigTypeCorrect`, `CalmIsCurrent`, `RowsAreSound` | `HInv`: since the last connection, as long as no two handlers overlapped, at most one is at work, what its push and its write have read is still so, and either it will push or the last frame (or, with none, the board) has the stored configuration. For the rows: both coordinates are set or neither, and a seed comes only before a first deletion |
| ScheduleEditing | `EditingTypeCorrect`, `OwnChangesAreShown` | `EInv`: what a mutation became is no newer than its row; a copy that was read is as new as what was confirmed; so is the copy shown, unless it is marked invalid or a switch is unanswered, which will mark it |
| ScheduleTicks | `TicksTypeCorrect`, `FiresAreNotRepeated` | `TicksInv`: a recorded fire is dated no later than the row's `last_fired_at` and leaves a one-shot disabled until it is armed anew; what a tick had seen is dated and armed no later than its snapshot, and the snapshot was due at the minute the tick fires for. Since days follow one another, the fire and the tick cannot be of one day |
| AutomationCascade | `CascadeTypeCorrect`, `LoopsAreRefused` | `CascadeInv`: as long as every echo found the note of a command with its own ancestry, the chain of each note and evaluation is its true ancestry; the depth is the size of the chain, mixed or not. Both are carried over each note, echo, refusal and retry; with the test of depth and chain the theorem follows |
| UsageStats | `UsageTypeCorrect`, `UsageIsCounted` | `UsageInv`: the rows are in the order of their time, what we were told last is our last row's state, and `truth` at each hour is what the rows up to it say. From it the counts follow by inductions over the rows (`LoopInvariant`: after each row, `onIntervals` has the hours up to that row's time in which the rows say ON, and the start of the open interval) and over the intervals (what of them falls in a window adds up), and because the windows are the local days (`WindowsAreDays`) |
| `AccountsProofs`: DeviceOwnership | `TypeCorrect`, `AcceptedHeldTheSecret`, `ClaimNeverOverwritten` | `RowSeen` (an attempt under way has seen every secret the row has had since it began), `RowThere`, `MatchSeen` (an attempt past its comparison presented one of them) |
| Accounts | `PeopleTypeCorrect`, `HomesOutlive`, `AdminsLostUnseen`, `AdminsInOrder` | `PeopleInv`: no row is locked twice, a request holds the rows its step needs and what it read of them is still so (`Progress`): the admins it got are still active admins, the members of a household it found empty have not come, a request that waits for an admin's row holds only lower ones |
| PublicApi | `KeysTypeCorrect`, `RightsAreHeld`, `CapKeptAlone` | `ApiInv`: what a request has read after each of its steps it was entitled to at some moment since it came (`Entitled`), and whatever its credential gives now is noted. `CapInv`: a request with nobody beside it still has the count it took. `RevokeInv`: a revocation that holds its key has it to itself, and the key is active |
| SavedLists | `ListsTypeCorrect`, `GroupIsOfOneSave`, `OwnDevicesOnly` | `ListsInv`: the save that found its group holds the row until it commits and has deleted just the members that were there; nobody else knows the id of a list before its row is there; what a request uses is among what its household had |
| `BoardsProofs`: ChannelControl | `TypeCorrect`, `DeadlineOnlyOnOn`, `InterlockKept`, `CleanFileRestores`, `OneMoveOnePress` | `LastIsOn` (the restore cache is the relays), `FileHolds` (the file obeys its own interlock, so that restoring it does), `InputInv` (a confirmed input whose contact has not moved stands where it was confirmed) |
| Esp32Relays | `TasksTypeCorrect`, `InchingIsTimed`, `InterlockKeptAlone`, `ReportsAreTrue` | `TasksInv`. `InchingTimed` is inductive once each call has the types of its step. `AloneInv`: an ON command that is alone has turned OFF the channels its walk has passed (`WalkedOff`), and when the last to set a channel ON was alone (`sole`) at most one is ON. `ReportInv`: of each channel that is known and not unsure, the backend has the relay's state, or exactly the task that wrote or read it will say it (`WillSay`), or the publication has still to come to it |
| `ChannelSafetyProofs` | `TypeCorrect`, `TrustsTheClock`, `MinOffIsKept` | `NewestIsTrue` (the newest report, on the wire, among the statements or in the cache, is the relay), `NewsOrTrust` (with nothing new under way, `state_since` is not too old), `QuietOffline` |
| `WifiProvisioningProofs` | `TypeCorrect`, `HotspotStays`, `WorkingNetworkKept` | `Sound` (a change of network that waits for its deferral rolls back to the network that is stored, a device that is online is on its stored network) and `Keeps` (the last working network is the rollback's during a test and the stored one otherwise). Inside a pass `Keeps` gives way to the weaker `Safe`, because the network just joined may replace the good one; each block of the loop has a lemma for either |
| `DashboardSessionProofs` | `TypeCorrect`, `SessionNeverForks`, `CookieStaysUsable`, `RefreshSignsNobodyOut` | `JobsKnown` (a refresh whose statements still run is listened to by its own flight and request, or was cut off) and `OneToken` (one token is alive, or exactly one statement is about to issue one). `SInv` is about time: whoever may still send a token for refreshing finds it good or finds its flight, which is at most one call and one way older than the request (`TokenUsable`), because until then the cookie was still the old one; `TimeAssumption` says that the grace window is longer |
| `LiveDevicesProofs` | `TypeCorrect`, `LiveMissesNothing` | `LInv`: states are numbered in the order they are recorded; any list on its way over a connection has the last state of each channel, or the event that brings it is on its way or has arrived, be it at a page without a list; so has an answer to a request, unless it was read before the client was registered (`early`) |

Two theorems are refinements. `RelayKeepsPromise` is `Spec => Promise!Spec`: every step of the
registry maps to a step of `RelayPromise` or to a stutter, under `IInv`. `SessionKeepsRegistry`
is DeviceSession's `Spec => Registry!Spec`, under `RInv`. Its first attempt failed for a good
reason: DeviceRelay had a socket's first frame handled only while the socket is `OPEN`, and a
frame that is there when the server has begun to close it is still delivered; it is corrected.

*Induction over data.* `OnTimeCounted` is about recursive functions over the log. The library's
induction theorems take a predicate and cannot be used, but their set-valued relative can:
`WFMin` gives a nonempty set of naturals a least element. `UpTo` and `Recursion` say once that a
set of numbers which has 0 and the successor of each of its members has them all and that a
function defined by recursion satisfies its equations; each induction is then of the set of the
numbers up to which its claim holds.

**Assumptions.** Almost only what types the constants: `DeviceOfType`, `TargetOfType`,
`NoSocketIsNotASocket`, `GuardedType`; `BoundsType`; `NullsAssumption`;
`InputsAreChannels`, `PushesAreHardware`, `TasksAssumption`; `TimesAssumption`;
`WifiAssumption`; `LiveAssumption`, `NoListAssumption`; `TimeAssumption`; and the `PartsAssumption` of
`MCDeviceBackend` and `MCAccounts`, which names those of their parts. Some say more:
`TimeAssumption` that the grace window outlasts a call and its ways; Accounts' that
somebody is an active admin and that users are numbered (row locks are taken in the order of
ids); PublicApi's that the keys made before the run are within the cap and that ids are
finite, to count them; UsageStats' that `zonedMidnightMs` finds every midnight of a zone (`MidnightsFound`); AutomationCascade's that a device has finitely many channels and a
household finitely many automations, to put them in sequences. TLC evaluates each on the
module's runs. No other set is assumed finite: the theorems hold for any number of devices,
sockets, requests, households, secrets, users, schedules, ticks and lists, and the bounds are
arbitrary naturals.

**Only model-checked.** All liveness: `PromiseSettles`, `SilentConnectionCloses`,
`CascadeEnds`, `MaxOnEnforced`, `HotspotGoesOff`, `PollingCatchesUp`. Fairness and
`ENABLED` are beyond this prover. Every safety property that a passing run checks is proved.

**Only proved.** `PendingIndexed`, `HonestOutcome`, `SettledOnce`, `UnregisteredByOwnClose`,
`ArmedIsOn` and `ClockTrusted` are part of an argument or implied by another property
(`PromiseKept` implies most of `HonestOutcome`), and no run repeats them.

## 8. Not modelled

- *API dispatcher*: the read-only answers (`info.js`, `channels.js`); what changes state is
  HwConfigSync's, ChannelSafety's (the lock and the limits) and ScheduleEditing's.
- *LAN page of the ESP8266*: its commands are ChannelControl's `Command`, its
  changes of network WifiProvisioning's `RequestReconfig`; its synchronous forward to the
  backend, which re-enters the WebSocket's loop (`cloud_client.cpp:79`), is not modelled.
- *Offline schedules of both boards*: calendar arithmetic, a clock set from a phone,
  and the handover to the backend's schedules; the relays they move are commands.
- *Client WebSocket*: its membership checks. A half-open client socket has no
  heartbeat, unlike a device's; the operating system ends it at some time.
- *Rate limits and `last_used_at` of API keys, the pages of the activity log, the admin
  console's lists and statistics*: rows without a protocol. Energy, a product of hours and
  watts, is left out of UsageStats.
- *Solar times*: floating point.
- *Start-up and shutdown, pool, migrations*: a restart is an action of
  ScheduleTicks and ChannelSafety; the orderly wait for ticks is not modelled.
- *The ESP32's configuration store, updates, clock and provisioning*: only its relays and
  reports are modelled. The board is an earlier device of the product.
- *Mobile app*: a user interface of which the backend's side is modelled.
- *The dashboard's screens*: forms, dialogs, tables and charts. Their state ends with
  the request they make.

The last two and the admin console's lists make up most of the lines of the
repository. They render, validate and format; a model of them would restate
layout, not behaviour, so the share of lines that the map covers stays small by
the nature of this code and not for want of modules.

## 9. Plan

Every component of section 1 that has a protocol of its own has a module, and every safety
property that a passing run checks has a theorem. Left, most important first:

1. Abstract specifications: what a caller may rely on of ScheduleTicks (an occurrence
   fires, or is skipped, or fires once more while a tick retries) and of ChannelSafety's
   backend view, each with its refinement proved as `RelayKeepsPromise` is.
2. The ESP8266's forward to the backend, which re-enters the WebSocket's loop, and its
   offline schedules at the rollover of a minute.
