# A TLA+ verification of KasaBuena

KasaBuena (`src/`, package `kasa-nice`) is a home server for TP-Link Kasa
devices: a FastAPI application with background tasks, a handful of JSON files
and one SQLite file, and a Svelte single-page application (SPA) that is kept up
to date over Server-Sent Events.  This directory holds TLA+ models of it, TLC
configurations that check them on small instances, and proofs checked by TLAPS.

Contents: 1 the system; 2 the modules and their correspondence with the code;
3 what is checked, with bounds and fairness; 4 what the checks found;
5 what is proved; 6 what is not modelled; 7 plan.

## 1. The system

Everything on the server runs on **one asyncio event loop**.  Tasks and request
handlers interleave only where one of them awaits; the JSON stores are
synchronous, so a read or a write of a file is atomic with respect to the other
tasks (not with respect to a crash or a failing write).  All the models rest on
this: *a step of a model is what runs between two awaits*.

| component | state | operations | interacts with |
|---|---|---|---|
| Schedules (`scheduler.py`, `schedule_store.py`, `routers/schedules.py`) | rules file; cursor `last_minute` in memory | minute loop with catch-up, `run_tick`, `fire_rule`; create, edit, toggle, delete | registry (`set_power_many`), scenes, solar |
| Vacation (`vacation.py`, `vacation_store.py`, `routers/vacation.py`) | config file; `_next_toggle`, `_expected`, `_cooldown_until`, `_window_open` in memory | tick, jittered toggles, back-off, window close; PUT config | registry (`set_power_many`, cached `is_on`) |
| Alerts (`alerts.py`, `routers/alerts.py`) | thresholds file; `_reachable`, `_over_threshold`, ring in memory | cycle: refresh, collect, evaluate, emit, webhook | registry cache and misses, energy rows |
| Energy history and recorder (`energy_history.py`, `routers/energy.py`) | SQLite samples | recorder cycle, prune, aggregations | registry, alerts |
| Device registry (`kasa_service.py`, `device_store.py`, `routers/devices.py`) | `_devices` with open sessions, `_cloud_devices`, `_miss_counts`; host and snapshot files | discover_all, discover_subnet, startup_discover, refresh, set_power(_many), attach_cloud | everything |
| Cloud client (`cloud_service.py`) | token and login lock; per strip a cached energy summary and its lock | login, device list, passthrough calls, energy bursts | registry, energy |
| Live updates (`events.py`; SPA `devices.svelte.ts`) | subscribers' queues, `_last_frame`; each tab's devices, busy flags | subscribe, publish, loop; merge, toggles, reconnect, visibility refresh | registry, SPA |
| JSON stores, rooms, scenes, backup (`json_store.py`, `group_store.py`, `scene_store.py`, `scene_service.py`, `routers/backup.py`, ...) | files | read-modify-write; apply_scene; export, restore | SPA |
| Other SPA stores | optimistic copies | request and revert | REST API |
| Solar, configuration, schemas, test fakes | none | pure | |

Background tasks started by `main.py`: the discovery sweep, the recorder, the
scheduler, the alert evaluator, the vacation engine.  `PROJECT.json` lists every
component with its status and every hazard with its line.

What is hard to test here, by component, and what it takes to be correct:

* **Schedules.** Wall-clock minutes against a loop that may wake late, twice
  within a minute, after a clock correction, or in the repeated hour of the end
  of daylight saving; rules edited while an earlier rule's devices are being
  awaited; the process restarting in the minute.  Correct: nothing fires twice
  for a minute, or twice for one wall-clock label; a one-shot has one outcome
  and gets one; a one-shot that nothing disturbs runs.
* **Vacation.** The engine acts on what was last read, while people act on the
  relays; its commands fail, its configuration changes under it.  Correct: it
  does not fight people, does not hammer a device, closes every window it
  opened, and leaves dark what it was in charge of.
* **Alerts.** One alert per incident, although several tasks count misses for
  the same device, discovery passes empty and rebuild the cache while the
  evaluator runs, and power rows come with gaps.  Correct: no alert without
  an incident, one with each, and the end of each.
* **Registry.** Passes that overlap share a cache with awaits in the middle
  of check-then-act sequences.  Correct: a cached object's session is open and
  no other session is leaked; a device once known stays listed; one that
  answers is cached when the passes are over; nothing is listed twice.
* **Live updates.** Suppression of equal frames is global, initial frames are
  per stream; optimistic state against frames and lost answers.  Correct: the
  tabs converge and optimistic state is not clobbered.
* **Cloud client.** One token shared by concurrent calls, expiring at any
  moment; answers that never come; a lock held across a request.  Correct: a
  command runs at most once, the newest token stays cached, every call ends.
* **Energy.** A shared cache of a slow read, filled after awaits; counters that
  restart at midnight; pruning in the middle of a day.  Correct: one burst at a
  time, energy filed under its own day but for moments, totals that agree.
* **Rooms and stores.** Optimistic edits that send whole lists as several
  requests, from several tabs; a read-modify-write over a file that cannot be
  read or written; entries re-keyed once per process; a backup restored under
  open tabs.  Correct: the file ends as the user last said, and the tab shows
  what the file has.

## 2. The modules

Every definition's source lines are in `PROJECT.json` under `map`.  In each
module, definitions under a comment "Mutant:" are plausible bugs kept next to
the definition they would replace; no action uses them.

### Scheduler, MCScheduler, SchedulerProofs

The loop of `run_scheduler` is `Wake` (clock read, `minutes_to_evaluate`),
`BeginTick` (`run_tick` up to its first await: one reading of the file, missed
one-shots noted, due rules chosen), `StartFire`/`FinishFire` (around the await
of `fire_rule`, then `update_rule` merged into whatever the file holds now),
`EndTick`, `EndCycle` (cursor forward only).  `pc` says where the task is;
handlers (`CreateRule`, `EditRule`, `ToggleRule`, `DeleteRule`) run only where it
is suspended.  Time is a count of minutes, and `Label[m]` is the local date and
time of instant `m`, not injective where the clocks fall back.  A trigger is its
kind and the labels (fixed time, one-shot) or instants (sunrise, sunset) it
names.  Which devices a rule reaches does not feed back into the schedule: the
fan-out is one awaited step that ends.

`JsonDocumentStore` reads an unreadable file as empty and swallows a failing
write, and the scheduler goes on: a tick that sees no rule (`BeginTickBlind`),
missed one-shots that are not noted (`BeginTick(lost)`), a firing whose outcome
is not written (`FinishFire(e, FALSE)`), a rule appended to an unreadable file and
so replacing it (`CreateRule(t, on, FALSE)`).  `ioFaults` counts them with the
other faults (`MayFail`).  `unsaved` and `unread` are histories: the rules whose
outcome was lost, and those whose minute went by in a blind tick.

### Vacation, MCVacation, VacationProofs

`BeginTick`, `BackOff`, `StartToggle`, `EndToggle`, `EndTick` are `run_tick` and
`_toggle`; `BeginClose`, `EndClose` are `_close_window`.  `set_power_many` is
modelled per device by `phase` (`Switch`, `SwitchFails`, `ReadBack`), so that a
person (`Outside`), a refresh by another task, a PUT or a restart falls between
the command, the read-back and the note of the expectation.  `live` is the
relay, `cached` what the registry last read.  A configuration has its window,
devices and intervals, and all three change with a PUT; a tick runs with the one
it loaded (`gaps`, `ids`), which is the schema's defaults when the file cannot be
read (`Loaded`), so an unreadable file closes the window with no devices at all
(`BeginClose(Defaults)`).  `lit` is a history: the lights that are on by the
simulation's doing; `promise[d]` is the smallest minimum interval of the ticks since
`d` was last sent a command.

### LiveUpdates, LiveUpdatesProofs

Server side: `Connect` (subscribe, initial frame, loop started), `LoopPublish`,
`Unsubscribe` and `Drop` (a dead stream lingers as a ghost until the server
notices), the suppression in `Publish`.  Queues are unbounded and in order, as
`asyncio.Queue()` and the stream are.  Client side: `Deliver` and `ArriveState` are
`merge`, `Toggle`/`ToggleMany` the optimistic flips with `busy`, `Settle` and
`LoseAnswer` the answers.  Requests execute per device (`Execute`, `ReadBack`)
and publish when answered.

### AlertIncidents, Alerts, AlertsProofs

`AlertIncidents` is the promise: per device, "gone" and "back" alternate.
`Alerts` is the mechanism: discovery passes (`Found`, `ReadFound`,
`BeginProbes`, `Probe`, `EndScan`, `ScanFails`), other tasks' refreshes and the
recorder (`Refresh`, `Record`, `Expire`) and the evaluator (`BeginCycle`,
`OwnRead`, `Evaluate`, `Emit`, `EndCycle`) interleave over the cache and the miss
streaks.  `Evaluate(L)` judges by the thresholds it read, which are none if the file
could not be read (`NoLimits`); a PUT replaces all of them (`SetLimits`), without
reading the old ones.  `told[d]` is the last thing an alert said of `d`, the variable of
`AlertIncidents`; a repeated announcement would make it `"again"`, which no step
of `AlertIncidents` produces, so the refinement fails if one is made.

### Registry, MCRegistry, RegistryProofs

Three passes (`startup_discover`'s and `POST /api/discover`'s `discover_all`,
and `discover_subnet`) as separate processes.  `Found` empties the cache,
`Attach` probes and reads one host and enters `_store_device`, which stores at
once or first awaits the disconnect of the object it found in the slot
(`EndStore`), `BeginProbes`, `ReleasePrevious` (disconnect the superseded
objects), `EndScan` (persist, collect the local ids for the cloud), `EndSweep`,
`AttachCloud`.  An object is
named by its device, host, pass and stage, which is unique because a pass runs
once in a process.  `Move` is DHCP or a device leaving; `Restart` keeps only the
two files.

### RemoteCall, CloudSession, CloudSessionProofs

`CloudSession` is `_call`, `_login` and `_raw_post`.  `stage[c]` says where the
coroutine of call `c` is suspended: waiting for `_login_lock` (`waiters`, first
come first served), for the answer to its login, or to its command.  `Begin`,
`LoginGranted` and `TokenRejected` each run to the next await, so taking the lock,
dropping the token and building the URL are parts of them.  `Timeout` is
`ClientTimeout`: it ends the wait while the request is still under way, and
the cloud (`IssueToken`, `RefuseLogin`, `Execute`, `RejectToken`, `Expire`, all
external) may execute it afterwards.  Tokens are numbered as they are issued.
`RemoteCall` is what a caller may rely on: a command takes effect at most once,
success means that it did, failure that it may have.

### SharedRead, StripEnergy, Energy, MCEnergy, EnergyProofs

`StripEnergy` is the energy of a cloud strip: `Enter`, `Handover` and `Inside` are
`energy_summary` and `energy_scalars` up to their first await and once they have
the lock, `EndBurst` what follows `_fetch_emeter`.  Lock and cache belong to one
`CloudDevice`: `Attach` (in `Energy`, `Rediscover`) is `POST /api/discover` putting
another object in its place while calls go on inside the old one, and all of
`waiters`, `cache` and `cacheAt` are per object.  The strip keeps its days by its own
clock, which `Skew` sets ahead of or behind the server's by up to `Drift`: a burst
reads that clock (or, failing that, takes the server's date) and then the outlets.
A reading is abstracted to the day that was asked for, the instant it was read and
the outlets that answered; the energy (`Kwh`) is a function of these and of a fixed
load.  `SharedRead` is what the summary of one object promises the account:
bursts do not overlap, none starts while the last result is fresh, and none at
all once the object is gone.

`Energy` extends it by the recorder (`BeginCycle`, `StripAnswers`, `PlugAnswers`,
`PlugFails`, `WriteBatch`, `Prune`, `Sleep`), users who ask for usage, and a
restart.  The totals (`DailyTotals`, `TodayKwh`, `MonthKwh`, `WeekKwh`, `RoomKwh`,
`UnassignedKwh`) are operators on the table of samples.  A row's `lag` is
bookkeeping: how much of a later day had begun when the row was stamped.

### Rooms, MCRooms, RoomsProofs

The file of `GroupStore`; its handlers (`CreateGroup`, `UpdateGroup`,
`DeleteGroup`, `SetFavorites`, and `RestoreGroups` for the store's part of
`restore_backup`), each one step with a file that may be unreadable or unwritable
meanwhile (`IO`); `Discover` for `_migrate_identity`, which re-keys what is filed
under the address the device has *now* (`host`; `Move` is DHCP); and the tabs:
`AssignDevice`,
`DeleteRoom`, `RenameRoom`, `CreateRoom`, `ToggleFavorite` apply at once (`Edit`)
and send requests, `AnswerOk` and `AnswerFailed` settle them, `ReadPart`, `Loaded`
and `LoadFails` are `load`.  `wire` is a set: requests and answers overtake each
other.  `Ip(d)` is the address an old entry of `d` is filed under, whoever has that
address later.  The history variables say what the user wants (`wish`), which
placements are open because a fault hit them or because a device was found at the
address of another and took its entries (`doubt`), who edited last (`last`), who may
still be listed under an address although migrated (`carried`), and whether the
user's edits were of a kind the code makes no promise about
(`muddled`): built on a view that differs from the file in the rooms concerned,
overlapping another edit of the same rooms or devices or of the stars, made while
the page was loading, or followed by the replacement of a file that could not be
read.

## 3. What is checked

Passing runs (TLC explores every state of the instance):

| run | distinct states | invariants and properties |
|---|---|---|
| `scheduler` | 2.2 M | `TypeOK` `PunctualOnceRuns` `OneOutcome` `NoRefire` `NoLabelRepeat` `OnceSettles` |
| `vacation` | 0.80 M | `TypeOK` `LeavesHouseDark` `NoRapidFlips` `CooldownKept` `EveryLightGoesOff` |
| `live_updates` | 0.44 M | `TypeOK` `LoopServesSubscribers` `SuppressionSound` `OptimismKept` `WatcherConverges` |
| `alerts` | 0.22 M | `TypeOK` `QuietHouseQuiet` `OneIncidentOneAlert` `PowerOncePerIncident` `OutageAnnounced` `RecoveryAnnounced` |
| `registry` | 3.4 M | `TypeOK` `CachedIsOpen` `SessionsHeld` `KnownStaysListed` `Reattached` |
| `cloud_session` | 0.88 M | `TypeOK` `TokenNewest` `CallEnds` `AtMostOnce` |
| `energy` | 0.72 M | `TypeOK` `MisdatedOnlyBriefly` `ViewsAgree` `SharedReads` `TotalsOnlyGrow` `ReadsEnd` |
| `rooms` | 6.1 M | `TypeOK` `EditsSettle` `EditorSeesStore` |

What they show, in words:

* `NoRefire`, `OneOutcome`, `NoLabelRepeat`: no rule fires twice for a minute in
  one process; an untouched one-shot runs once or is missed, never both, across
  restarts and failures of the file; the repeated hour does not fire a daily rule
  again.  The last two say nothing of a rule whose own outcome could not be written
  (`unsaved`): the note is control state, and the code loses it silently (a
  finding).  That nothing else suffers from a failing read or write, a missed note
  or a tick without rules in particular, is what they show.
  `PunctualOnceRuns`: only a restart, a clock correction or a sleep beyond the
  catch-up makes a one-shot missed that was accepted while its label lay ahead of
  the first minute the loop had yet to begin (`early`; ahead of the clock is not
  enough on the night of the change, see section 4), unless the file could not be
  read in the very minute of its label (`unread`) or take its outcome.
  `OnceSettles`: no one-shot stays armed for a past minute.
* `LeavesHouseDark`: after a close, everything nobody touched and whose commands
  worked is off and stays off.  `NoRapidFlips`: when a command is sent, the
  smallest minimum interval of the ticks since the previous one has passed since
  the tick of the previous one, across restarts, reopened windows, edited
  intervals and failed commands.  (From tick to command, because the code counts from
  the tick; the smallest, because a PUT does not move an instant drawn before.  Both are
  a finding: the schema speaks of the time between switches.)  `CooldownKept`:
  whatever is PUT meanwhile.  `EveryLightGoesOff`: a light the simulation switched on
  and nobody has touched goes off again, by a toggle or by the all-off of a window
  that ends, is edited or is switched off; excepted are a restart, which
  forgets that a window is open, failed commands, and a light that was taken out of
  the configuration, or an unreadable file, before the close.
* `LoopServesSubscribers`: the refresh loop runs exactly while somebody is
  subscribed.  `SuppressionSound`: for a stream that has had a frame since its
  initial one, suppressing an equal frame loses nothing.  `OptimismKept`: a
  tab's only outstanding request for a device is never shown undone.
  `WatcherConverges`: a quiet, connected tab ends with the true state.
* `QuietHouseQuiet`: without outage or manual rediscovery there is never an
  alert, whatever restarts and however the startup sweep is timed.
  `OneIncidentOneAlert`: `Alerts` implements `AlertIncidents`.
  `PowerOncePerIncident`: no second power alert without a reading at or below
  the threshold, an edit of it or a cycle in between that could not read the
  thresholds file, which the code takes for "no threshold" (a finding).
  `OutageAnnounced` and
  `RecoveryAnnounced`: lasting outages and recoveries are announced.
* `CachedIsOpen`: no pass disconnects an object that is cached, however passes
  overlap.  `SessionsHeld`: no session is lost, unless two passes store one
  device at once.  `KnownStaysListed`: a persisted device stays listed as long
  as passes do not overlap and no address is reused.  `Reattached`: after the
  broadcast passes every answering device is cached.
* `AtMostOnce`: `CloudSession` implements `RemoteCall`, through retries, timeouts
  and late executions.  `TokenNewest`: the answer of an earlier login never
  replaces the token of a later one.  `CallEnds`: nobody waits for ever for
  the login lock.
* `SharedReads`: the cache of every object that stands for the strip implements
  `SharedRead`, across replacements; the bursts of an old and a new object do
  overlap (a finding).  `MisdatedOnlyBriefly`: near midnight a row may carry another
  day's energy for the length of a read and, for the strip, the age of a shared
  result and the error of the strip's clock (`MaxBurst + TTL - 1 + Drift`), and
  queues, replaced objects and recorder cycles add nothing to that; rows of plugs
  that failed are excepted (a finding).  How far a strip's clock is off is not for
  the code to bound: it warns above a day.  `ViewsAgree`: month, week, days and
  rooms are one account of
  the same energy: the devices' months add up to the home's days, and to the rooms
  and the rest unless the file has a device in two rooms; a week within the month
  is part of it.  `TotalsOnlyGrow`: today's, this week's and this month's totals
  do not shrink, although partial reads report less and pruning cuts through
  days.  `ReadsEnd`: every read of the strip and every recorder cycle ends.
* `EditsSettle`: outside `muddled`, once the requests about it are over, a
  device is in the room, and starred, as the user last said, whatever other tabs,
  discovery, restores, restarts and moves to other addresses did; open (`doubt`) are
  only a placement a fault has hit itself, and the two devices concerned when one is
  found at the address the other was filed under, and takes its room and star (a
  finding).  `EditorSeesStore`: without faults the tab that last
  edited a room or the stars then shows what the file has.

Action properties (`NoRefire`, `NoRapidFlips`, ...) say what a step may never do;
each is stated over the action that hands work to the hardware.  Every property
has a mutant in `PROJECT.json`: a change to the code it would catch.

### Bounds, and why they are enough

* `scheduler`: six minutes with the labels 0 1 2 0 1 2 (the clocks fall back by
  three at minute 3), two rules, catch-up 2, repeat window 3, one edited rule, one
  fault (a restart,
  a clock set back, or a read or write of the file that fails).  The
  comparisons are all between two instants or two labels, so one
  gap beyond the catch-up, one within it, one repeated label and one minute
  after it cover their cases; two rules are what it takes for one to be edited
  while another is fired.  `MCTriggers` has one trigger of each kind.
* `vacation`: two devices, a window from minute 0 or 1 to 5, minimum intervals of 1
  and 2 among the configurations and a maximum of 2, cooldown 2, three bounded events
  (a switch by a person, a PUT, an unreadable file, a failure, a restart).  Two
  toggles, an interaction with its full cooldown, a close and a reopening by PUT with
  another interval fit.  `vacation_close` needs two events and a window to 4.
* `live_updates`: two tabs, one device, two requests, four events.  The stale
  frame of the findings takes two tabs and two changes.  Two requests of one
  tab for the device can overlap (`overlapped` marks them); a room toggle
  of a single device is the degenerate room.
* `alerts`: one metered and one plain device, two draws around one threshold, a
  miss limit of 2 (3 in the code: what counts is that one miss is not enough)
  and two events, which are also the cycles that cannot read the thresholds.  With two
  metered devices the run takes longer than it is given; that an edit of one device's
  threshold leaves the others' latches alone is in the proof.
* `registry`: two devices, one on the broadcast's segment and one the cloud has
  too, two interchangeable addresses (symmetry: addresses are only compared),
  each pass once per process, two events.  The startup sweep of a configured
  subnet is a step the same code takes in `discover_subnet`; with it
  (`ScanSubnet = TRUE`) the run passed too, with 10 M states, when releasing and
  persisting were still one step.
* `cloud_session`: three calls, four tokens, an account on which a login ends the
  other sessions.  Two calls can be refused with an old token while a third logs
  in; four tokens let each log in once and one twice.  With
  `Exclusive = FALSE` it passed too.
* `energy`: days of two ticks, a horizon of two and a half days, a burst of up to a tick
  and a result shared for one, months of two days, one user beside the recorder,
  one outlet and one plug, one restart, one replacement of the strip's object, the
  strip's clock half a day ahead at first and half a day behind later.  The load
  puts one day's use at its start and the next one's at its end, so a misfiled
  reading shows.
* `rooms`: two interchangeable tabs (symmetry: tabs are only compared), two
  devices filed under their addresses, of which one is placed, starred, found and given
  other addresses (the other is there to be lost, kept or mistaken), two rooms and an
  id for a third, two user actions, one fault, a change of address among them.  At the
  start that device is where it was filed, or at the address of the other.  Two
  overlapping edits, an edit and a restore, a deletion and a reassignment fit.

Deadlock is checked for `scheduler`, `alerts` and `energy`.  The other models may
really stop: the vacation clock ends outside a window, a tab may have nothing left
to do, a registry pass runs once per process, and a cloud call is made once.

### Fairness, and why the code justifies it

* Tasks of the event loop are weakly fair (`WF_vars(Task)`, `Cycle`, `ScanStep`,
  `LoopPublish`, handlers): asyncio runs every ready task, and no handler blocks.
* Device I/O ends (`IO`, `Execute`, `ReadBack`, the reads of a scan): python-kasa
  applies timeouts, and a failure is one of the ways to end.  No fairness is put
  on success, except that hardware is *read again* for ever (`Refresh`): the
  evaluator, the recorder and an open stream's loop each re-read every cached
  device periodically.
* The clock advances (`Tick`).
* In `CloudSession` a waiter is woken, an answer that arrived is handled, and
  `ClientTimeout` fires when none does (`Resumes`).  Nothing is assumed of the
  cloud, nor that a request is ever executed.
* In `Energy` reads end, by an answer or their timeout, and the threads of the
  SQLite store return (`Fairness`).  Nothing is assumed of the clock there.
* `Rooms` states safety only and has no fairness.
* Nothing is assumed of people, clients, outages, reconnections or restarts.
  `WatcherConverges`
  therefore speaks only of tabs that stay connected.

## 4. What the checks found

Violation runs state what a comment or docstring says, and TLC shows how the
code departs from it:

| run | property | in short |
|---|---|---|
| `vacation_close` | `CloseSparesCooling` | adopting a person's change as expected hides it from the window close, which switches the light off during its cooldown |
| `live_updates_stale` | `StreamConverges` | a stream whose initial frame is newer than the last broadcast misses the change back to it |
| `registry_vanish` | `NeverVanishes` | a rediscovery empties the cache under a subnet sweep, whose devices are then never persisted |
| `registry_twice` | `ListedOnce` | a device attached through the cloud and found locally later is listed twice (the other case of the property, two gray entries of one id, lies deeper in the same instance) |

Other divergences met while modelling are in `PROJECT.json` without a run:

* Schedules: the cursor is in memory, so a restart within the minute fires the
  minute's rules again; a one-shot for the running minute is accepted after that
  minute was evaluated, and can only be "missed"; on the night the clocks fall
  back an overrun leaves a label to evaluate that is ahead of the clock, and a
  one-shot between the two is missed before its minute comes.  A lost write of a
  firing's outcome, called an audit note, leaves the one-shot armed, to be noted as
  missed, or lets a rule fire again in the repeated hour.
* Vacation: the engine compares with a cached state it does not refresh; it counts
  intervals from the tick, not the switch, and a PUT does not move a planned one.
* Alerts: a manual rediscovery does not raise the flag that startup raises, so healthy
  devices are reported unreachable; a cycle that cannot read the thresholds
  forgets that an alert was given, and the next repeats it; rows recorded from a
  device that stopped
  answering.
* Registry: two passes storing one device at once lose a session; a snapshot
  is overwritten when an address is reused.
* Energy: a plug whose read fails is recorded with what its object last read,
  counted again on each following day while it stays cached; the
  recorder's bursts are outside the lock that makes callers share one, and a
  rediscovery replaces lock and cached result under the callers.
* Rooms: identity migration re-keys the address a device is found at, not the
  one it was filed under, so a device that moved before loses its entries, perhaps to
  another; the two requests of a move fail independently; a revert restores the
  whole list and takes back another edit with it; a star set
  after a failed load, or with an unreadable file, replaces all the others; a
  restore does not reach the rooms of an open tab, whose next edit undoes it.
* The SPA's boolean busy flag with two overlapping requests; `vacation.json`
  missing from the backup.

## 5. What is proved

Proved by TLAPS, for all values of the constants that satisfy the named
assumptions of the modules.

| module | theorem | says |
|---|---|---|
| `SchedulerProofs` | `TypeCorrect` | `Spec => []TypeOK` |
| | `NoRefireHolds` | `Spec => NoRefire` |
| | `OneOutcomeHolds` | `Spec => []OneOutcome` |
| | `PunctualOnceRunsHolds` | `Spec => []PunctualOnceRuns` |
| | `NoLabelRepeatHolds` | `Spec => NoLabelRepeat` |
| `VacationProofs` | `TypeCorrect` | `Spec => []TypeOK` |
| | `NoRapidFlipsHolds` | `Spec => NoRapidFlips` |
| | `CooldownKeptHolds` | `Spec => CooldownKept` |
| | `LeavesHouseDarkHolds` | `Spec => []LeavesHouseDark` |
| `AlertsProofs` | `TypeCorrect` | `Spec => []TypeOK` |
| | `IncidentsHold` | `Spec => OneIncidentOneAlert`: `Alerts` implements `AlertIncidents` |
| | `QuietHolds` | `Spec => []QuietHouseQuiet` |
| | `PowerOnceHolds` | `Spec => PowerOncePerIncident` |
| `RegistryProofs` | `TypeCorrect` | `Spec => []TypeOK` |
| | `CachedIsOpenHolds` | `Spec => []CachedIsOpen` |
| | `SessionsHeldHolds` | `Spec => []SessionsHeld` |
| | `KnownStaysListedHolds` | `Spec => []KnownStaysListed` |
| | `ReattachedHolds` | `Spec => []Reattached` |
| `CloudSessionProofs` | `TypeCorrect` | `Spec => []TypeOK` |
| | `TokenStaysNewest` | `Spec => []TokenNewest` |
| | `RetryStaysFresh` | `Spec => []RetryIsFresh` |
| | `CallsAtMostOnce` | `Spec => AtMostOnce`: `CloudSession` implements `RemoteCall` |
| `LiveUpdatesProofs` | `TypeCorrect` | `Spec => []TypeOK` |
| | `LoopServes` | `Spec => []LoopServesSubscribers` |
| | `SuppressionHolds` | `Spec => []SuppressionSound` |
| | `OptimismHolds` | `Spec => []OptimismKept` |
| `EnergyProofs` | `StripTypeCorrect` | `Spec => []StripTypeOK` |
| | `BurstsShared` | `Spec => SharedReads`: the strip's cache implements `SharedRead` |
| | `TypeCorrect` | `Spec => []TypeOK` |
| | `MisdatedOnlyBrieflyHolds` | `Spec => []MisdatedOnlyBriefly` |
| | `ViewsAgreeHolds` | `Spec => []ViewsAgree` |
| | `TotalsOnlyGrowHolds` | `Spec => TotalsOnlyGrow` |
| `RoomsProofs` | `TypeCorrect` | `Spec => []TypeOK` |
| | `EditsSettleHolds` | `Spec => []EditsSettle` |
| | `EditorSeesStoreHolds` | `Spec => []EditorSeesStore` |

The assumptions, each named in the module that declares the constant and
evaluated by TLC:

* sizes and bounds are natural numbers, a day, a week, a month and a result's time
  to live are not empty, a gap is at least a minute and no minimum is above
  its maximum, the strip's clock is off by at most `Drift`, there is a tab
  (`BoundsAssumption`,
  `VacationBounds`, `ConfigsAssumption`, `AlertBounds`,
  `LiveBounds`, `MaxTokenAssumption`, `TimesAssumption`, `ClockAssumption`,
  `CountAssumption`);
* metered, segment and cloud devices are devices, and the values standing for "no
  address", "no room", "the stars" and "none" are none of the others
  (`RegistryConstants`, `StripAssumption`, `RecorderAssumption`,
  `NoRoomAssumption`, `NoTabAssumption`, `FavsAssumption`);
* labels are numbers and a one-shot names one (`LabelAssumption`,
  `TriggersAssumption`); two minutes a rule names within two hours bear the same
  label (`RepeatAssumption`): a rule has one time of day, and so little time
  contains a second one only where the clocks repeat an hour;
* the meters and rooms of a house are finitely many, and a load is what each meter
  uses per tick (`MeterAssumption`, `LoadAssumption`, `RoomAssumption`); rows are
  kept for at least a week and a month (`CalendarAssumption`: `_RETENTION_SECONDS`
  is ninety days, and no total looks further back);
* the initial file is a document (`InitFileAssumption`), an address is no device
  id (`IpAssumption`, `ElsewhereAssumption`: ids are MAC-based), and no two devices
  have one address (`HostsAssumption`).

The specifications of `CloudSession` and `Energy` include their fairness; no proof
uses it.

### The arguments

*Scheduler.* `TypeOK` is not inductive: `minute` stays in range only because it
lies between the cursor and the clock reading of the cycle (`Ticking`).  The
same fact gives `NoRefire`: every completed firing of this run is at or behind
the cursor or in the part of the cycle already done (`FiredBehind`), so the
minute being evaluated has not been fired.  `OneOutcome` needs more of the
store: fresh ids have no history, an unedited one-shot keeps its single target,
one that has an outcome is disarmed, and what waits in `due` has none and was
not noted as missed in the tick that chose it (`FreshIds`, `OneTarget`,
`Settled`, `Waiting`); the last is where the label order enters.  A note of a
missed one-shot that is lost is harmless: the rule is still armed and undecided, to be
noted in a later minute or to run where the clocks repeat its label.
`PunctualOnceRuns` follows the cursor: while nothing disturbs the loop it
keeps up with the clock (`KeepsUp`), so a timely one-shot is either in `due` or has
its label at or after the first minute not yet begun (`Punctual`); a blind tick that
passes its label puts it into `unread`.
`NoLabelRepeat`: `_fired_at_this_label_recently` looks at the latest firing only,
which is enough because minutes come in order (`Ordered`), so whatever repeats a
label repeats that of the latest firing within the window (`Spaced`,
`LatestIsEnough`).

*Vacation.* `NoRapidFlips` and `CooldownKept` speak of the step that starts a
switch, but a device gets there long after it was found due.  `GapInv` and
`CoolInv` carry the reason across: the planned instant keeps the promised
gap from the last switch except while that switch is running (a tick only lowers the
promise, to no more than the interval it plans with: `TaskInv`), what is left in
`due` was
chosen at this tick by such an instant and outside its cooldown, and a noticed
change is remembered as a cooldown.  `LeavesHouseDark` needs the evening as a
whole: inside the window a device the engine has switched, and nobody else has,
is and reads as expected (`AsExpected`), so the closing does not mistake it for
somebody's doing, and each device of the closing is on its way to dark
(`GoingDark`); no device counts as left dark while a tick may switch one on
(`Phases`).

*Alerts.* `IncidentsHold`: between `Evaluate` and `Emit` what the evaluator has
seen and what the user was told differ by exactly the drafts.  `IncidentInv`
says so: a draft is news (`DraftsAreNews`), without a draft the user's knowledge
agrees with the evaluator's (`ToldIsSeen`), and drafts do not survive the cycle
(`DraftsInCycle`), which is why `_reachable` may be updated before the alert is
emitted.  Then every `Emit` is a `Gone` or `Back` step or, for power, a stutter.
`QuietHolds`: as long as nothing was disturbed, the startup pass attaches
everything that answers (`StartupAttaches`), no cycle runs before it has
(`SweepFirst`), so the evaluator sees the devices as they are (`SeenAsIs`).
`PowerOnceHolds`: until a low reading, an edit or an unreadable cycle, the incident is
remembered and every row there is lies above the threshold (`PowerInv`).

*Registry.* `CachedIsOpen` needs to know what `_store_device` has in its hands
across the await: the object about to be stored is open, is nobody's to
release, and belongs to one call only (`StoredNext`).  That rests on objects
being new when made: each is the work of a pass that is now past its host or
its stage, and passes do not go back (`AllMade`, lemma `MadeStays`).
`SessionsHeld` adds that the slot of a device in transit holds the superseded
object or nothing (`SlotKept`, only without a race), and that a pass whose
previous cache would be overwritten has none (`PreviousWhileReading`).
`KnownStaysListed` is about addresses: unless one is reused each has had one
device only, wherever it is written down (`AddressInv`), so a cached object's
address has its device's snapshot, and a known device has its own in memory
and in the file under a known host (`KnownInv`), which is what lists it grayed when
it is not cached.  `Reattached`: from the moment a broadcast empties the cache, and
while nothing happens, a device that answers is cached or some pass has yet to come
to it, by the answers or by its known address (`InPlace`, `Awaited`).

*Cloud session.* A retry's token is newer than the refused one only because the
login lock orders the answers of logins: at most one coroutine is inside
`_login` (`LockOK`), so a granted token not yet cached is newer than every token
ever cached (`TokensOK`).  `CallsAtMostOnce` needs to know what each suspended
coroutine can have on the network (`WireOK`) and that a request still under way, or
rejected, has not been executed (`EffectsOK`): then a retry is a stutter of
`RemoteCall`, and so is a timeout followed by a late execution, seen as `Fail`
and then `Execute`.

*Live updates.* A subscription that lingers is bounded only because each was left
by a bounded event (`GhostsBounded`).  `OptimismHolds` needs more than what is
shown: the request's busy flag is set, and no other request of the same tab for
the device is outstanding that could clear the flag or revert (`Governs`); two
requests that meet on a device are `overlapped` there for good, and nothing is
claimed of it.

*Energy.* Every step of the recorder's world is a step of the strip or leaves
it alone (`StripSteps`), so the refinement is proved for the strip and holds
inside `Energy`.  `StripInv` says that one task at a time holds the lock of an object
and is a user (`BurstsShared` fails if the recorder could), that a cached result
carries the time of the last burst, and that an object neither the registry nor a
call holds has none (`SingleFlight`).  `MisdatedOnlyBriefly` needs the age of what a
row is made of: a burst lasts at most `MaxBurst` and names a day the strip's clock or
the server's showed meanwhile (`StripBounded`), a cached result is at most `TTL`
older, a plug's
answer is of this cycle (`CycleBounded`); waiting for the lock adds nothing because
what is returned there is a fresh result or one's own burst.  `TotalsOnlyGrow` and
`ViewsAgree` are theorems about sums and greatest elements of finite sets.  The
library folds over a set with `CHOOSE`, so the first part of the module proves
induction over the subsets of a finite set (from the well-foundedness of strict
inclusion) and from it what is needed: a sum splits over disjoint sets, is
monotone, and over a family of sets is at least the sum over their union, and equal
if they are disjoint.  What a running week or month counts is younger than the
retention, so pruning spares it.

*Rooms.* `TypeOK` says more than types: an edit whose promise is open has a request
on the wire (a request stays there, as an answer, until the tab has handled it),
and the file's rooms have ids that were handed out, which holds of a restored
document because it was once the file (`FileOK`, `WireOK`).
`EditsSettle` says nothing while requests are under way, so it is far from
inductive: its invariant (`SettleInv`) says what each of them will do.  Outside
`muddled`, two requests are about disjoint places and subjects or are the two of one
move (`Apart`); what each carries is what the user wants of the device it is about
and what the file holds of the others (`Means`), which stays true of a request when
another one is served because they are apart; and where no request is still to
decide and no fault has struck, the file is as wished (`Kept`).  A handler then
either writes what its request means or changes nothing that matters (`Written`,
`Unwritten`).  Discovery changes ids, not what they mean (`RekeySame`), or else puts
the two devices it mistakes into `doubt`; that a device found where it was filed is
really under its stable id from then on is `Carried`, which rests on no two devices
having one address (`HostOK`).

`EditorSeesStore` is silent about a place until its requests are answered, so its
invariant (`SeenInv`, for histories without faults outside `muddled`) follows them:
each will be served and touches what it is about (`Aims`), the tabs know only rooms
that were handed out (`Handed`), a request bears the number
of its edit and no tab edits while it loads (`Numbered`), a room just created is
unknown to the tab that still waits for it, so adopting it overwrites nothing
(`NewRooms`), and what the last editor of a place shows is what its requests there
ask for and, unless one of them is still to be served, what the file holds (`Shown`).
That no other request can take the place away needs `Apart` of the first theorem.

TLC checked each strengthened invariant on the instances of the runs before it
was proved.

### Only model-checked

Liveness under fairness (`OnceSettles`, `EveryLightGoesOff`, `WatcherConverges`,
`OutageAnnounced`, `RecoveryAnnounced`, `CallEnds`, `ReadsEnd`): the prover handles
neither fairness nor `ENABLED`.  Every other property of a passing run is proved.

## 6. What is not modelled, and why

* Sun times (`solar.py`): floating-point astronomy; a rule's instants are inputs.
* Formatting, logging, validation, HTTP and presentation (`client.ts`,
  components): no state of interest.  Validation bounds the inputs that are
  enumerated.
* Which devices a rule, scene or room reaches: fan-outs are abstracted to their
  outcome, or modelled per device where the outcomes matter (`Vacation`,
  `LiveUpdates`).
* In the registry: identity migration (it is in `Rooms`), `restore_known_devices`,
  pairing of
  cloud devices with addresses, failing writes of its two files, and a refresh
  of an object whose address was given to another device.
* In the SPA's device store: polling, the startup watch, brightness, colour,
  rename, outlets.  The alert ring's eviction and the webhook.
* In the energy history: the idle draw, the projection, cost, and the re-keying
  of rows when a device's id changes; a strip that the account does not list between
  two rediscoveries; the clocks of local plugs, taken to agree with the
  server's; a strip's use before the first instant.  In the cloud facade: the relay
  state of
  `CloudDevice` and its re-reading after a switch.
* The scene store and `apply_scene`: the same read-modify-write as the rooms and a
  fan-out like `set_power_many`.  The other sections of a backup: independent
  replacements of files that no code relates, except by room ids.
* The other SPA stores (scenes, schedules, alerts, vacation): one call at a time,
  whose answer is shown.

## 7. Plan

Order by importance:

1. **LiveUpdates** with several devices per room request and with polling and
   the startup watch.
