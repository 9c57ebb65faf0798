# A verification project for DORIS

DORIS is an untethered deep-sea camera lander. This directory holds TLA+ models
of the software that flies it (`src/extension`), the TLC configurations that
check them, and TLAPS proofs about them. The models are written from the
source; where a document and the code disagree the model follows the code and
the disagreement is written down, with a checked counterexample where there is
one (see *Findings*).

    tlc -workers 2 -config MCDiveScript_release.cfg MCDiveScript
    tlc -workers 2 -config MCConsole_console.cfg MCConsole
    tlapm DiveScriptProofs.tla

## 1. The system and its parts

A dive runs on three computers. The **autopilot** runs `doris.lua`, a state
machine called every 500 ms that owns the drop-weight release. The **payload
computer** (a Raspberry Pi with BlueOS) runs the Python backend: it starts
dives, records the camera, keeps the dive's record, shuts the payload down and
builds the videos afterwards. The **AGT** (Artemis tracker) gives GPS and
Iridium and can cut the payload's power. They talk by MAVLink named floats and
parameters; the script drives the recorder over local HTTP; everything the
payload must remember is a JSON file. The operator works through the
**console**, Vue pages in a browser on the boat that poll and command the
backend over the vehicle's WiFi. Each of these may restart while the others go
on, and what a page shows is always the answer to a question asked earlier.

**The vehicle.**

| Part | State | Operations | What is hard | Must hold |
|---|---|---|---|---|
| Dive script `scripts/doris.lua` | mission state, release output, test timers, GPS latch, failsafe timers, rings; `DORIS_START`, `WAS_DEEP`, `GPS_RBT`, `RLS_TST` in EEPROM | one tick every 500 ms; reboot | early returns that skip later checks; latches that outlive a mission; a reset at any tick | the release is on when it must be and something always owns switching it off; no dive flown twice |
| Safe surfacing `services/safe_surface.py`, `shutdown_policy.py` | latch, task, confirmation event, AGT capability and stage, bench policy file | AGT messages, the sequence disarm-quiesce-sync-ACK-poweroff, policy toggle | tasks that outlive the request that started them; stale confirmations; failures and timeouts at each await; restart | one sequence; ACK only after sync; poweroff only on a fresh confirmation; every request ends |
| Recorder `services/ip_camera_recorder.py`, `routes/recorder.py` | session, phase, part and cycle counters, snapshot stamp, watchdog task, lock | start, rotate, stop, snapshot, status | watchdog restart against stop and rotate; `is_recording()` is false while a stop still flushes; the stamp is cleared for an old dive | segments of one dive share one stamp and are never overwritten |
| Dive records `routes/dive.py`, `services/dive.py`, `dive_records.py`, `dive_receipt.py` | dive record files, `mission_state.json`, cached `DORIS_START` and `STATE` | start, stop, status poll, receipt, delete, restart | several writes with no transaction; records reconciled with parameters read over a shared message slot; backend restart mid-dive | one active record; a flown dive ends `completed`, an aborted one `cancelled` |
| Post-dive processing `services/dive_finalize.py`, `dive_processing.py`, `dive_csv_export.py`, `binlog.py` | the job with its log, the record it holds, `.ts` and `.mp4` files, USB copies | process, retry, quiesce | record rewritten by others while the job holds a copy; raw video is deleted; crash while running | raw video is deleted only with its outputs in place; the record of another dive is left alone |
| Media and USB storage `storage.py`, `usb_storage.py`, `external_storage.py` | mounts, migrated directories | mount, migrate, list, delete | hot-unplug, migration against writers | no file deleted that nobody chose |
| Network `network.py`, `hotspot_radio.py`, `wifi_driver.py`, `blueos/network/*` | intent and its file, the switch's task, watchdog, state polls | switch, fall back, watchdog, boot pin | the watchdog, a state poll and a switch act on the same intent over awaits; a radio that is a hotspot in name only | the operator can always get back in |
| Clock `timesync.py` | last sync, source, floor file | poll AGT time, browser time, restart | the age of a message is measured with the clock that is being set | the clock settles on GPS time |
| Tracker `tracker.py`, `artemis.py` | buffer of its messages; flashing sessions | Iridium test, flash | message ids begin anew at a restart; the autopilot is stopped for the loader | a verdict is of the test asked for; the autopilot comes back |
| Arming status, AGT serial `arming.py`, `agt_serial.py` | caches of MAVLink messages, port map | websocket loops, reconcile | rotating messages, reconnects | nothing stale reported as fresh |
| Settings: camera, presets, frame, missions, notifications | JSON files, proxies | CRUD | last writer wins | |
| Sensors, system, power model, logs, telemetry | none or caches | readings, parsing | real-number arithmetic | |

**The console** (`frontend/src`).

| Page | State | Operations | What is hard | Must hold |
|---|---|---|---|---|
| Mission editor `MissionProgramming.vue` | form, selected name, unsaved flag, dialogs, loads and saves under way | edit, choose, save, save as, overwrite, delete | name and content are set by different handlers; answers fill the form whatever is shown by then | edits are not lost; "saved" is true; a name keeps its own content |
| Sensor page `SensorConfiguration.vue` | hold-to-test flags, intervals; Iridium test; camera tile | press, let go, leave; ask for a test; record, stop | a flag read after an await belongs to another press; a poll brings the verdict of the test before | nothing is energised that is not held |
| Dashboard `HomeScreen.vue`, `useDiveControl` | chosen configuration, its date, status | choose, start, cancel, poll | two loads overtake each other | a dive starts with its own release |
| Processing view `App.vue`, `useApi.ts` | session, log, cursor, interval | start, follow, dismiss | polls overlap or are lost | the whole log, once, to its end |
| Previous dives `AllMissions.vue`, `useDiveHistory` | list, dialog | list, delete | numbers are given again; lists are older than what they show | only the dive that was chosen goes |
| Media `MediaManager.vue` | list, selection, dialogs, running deletions | filter, select, delete, erase all | the selection and the disk change under a batch | only what was confirmed goes |
| Downloads `useDownloads.ts` | jobs, batches | enqueue, prune | a file is gone or fails | a batch ends |
| Network `NetworkSetup.vue` | state shown, dialog, banner | switch, dismiss | the page loses the vehicle by what it asks for | a failed switch is shown |
| Flashing `ArtemisFlash.vue` | upload, session, result | upload, flash, poll | the page is left and opened again | the banner speaks of its own session |

Requests may be lost or arrive while another is running; a restart may fall
between any two writes.

## 2. Plan

Done, in this order:

1. `DiveScript` with its contract `DiveContract`; proved.
2. `SafeSurface`; proved.
3. `Recorder`: session, lock, watchdog, rotation, names and the stamp; proved.
4. `DiveRecords`: start, stop, poll, quiesce, restart and crash over the record
   files and the mission state; its safety proved.
5. The console, one module per page over the part of the backend that answers
   it, composed by `MCConsole`: `MissionEditor`, `HoldTests`, `IridiumTest`,
   `CameraTile`, `DiveStart`, `ProcessingView`, `DiveList`, `MediaPage`,
   `Downloads`, `WlanSwitch`, `FirmwareFlash`; their safety proved.
6. `ClockSync`: GPS time, browsers, the floor over restarts.
7. `DiveVideos`: what a processing job muxes, verifies, copies and deletes, over
   jobs that break off and a stick that comes and goes; proved.

Open, the most valuable first:

8. Composition: the script's phase requests against the recorder, recovery
   against the shutdown handshake and the records, the bottom phase's camera
   dispatcher.
9. Storage migration, AGT serial mapping.

Abstract specifications, each with the refinement checked and proved: the
promise about the weight (`DiveContract`), the shutdown handshake
(`ShutdownProtocol`) and the log of dives with what is told of it (`DiveLog`).
Still worth stating: a recorder that yields each segment once. Theorems in
order: types, the inductive invariant of each module, its safety properties, the
refinements, and what liveness needs besides fairness.

| Module | Models | Proofs |
|---|---|---|
| `DiveScript`, `DiveContract`, `MCDiveScript` | `doris.lua` | `DiveScriptTypes`, `DiveScriptProofs` |
| `SafeSurface`, `ShutdownProtocol`, `MCSafeSurface` | `safe_surface.py` | `SafeSurfaceProofs` |
| `Recorder`, `MCRecorder` | `ip_camera_recorder.py` | `RecorderProofs` |
| `DiveRecords`, `DiveLog`, `MCDiveRecords` | `routes/dive.py`, `services/dive.py` | `DiveRecordsProofs` |
| `MissionEditor` | the mission editor and the stored configurations | `MissionEditorProofs` |
| `HoldTests`, `IridiumTest`, `CameraTile` | the sensor page | `SensorPageProofs`; `ConsoleProofs` |
| `DiveStart`, `ProcessingView`, `DiveList`, `MediaPage`, `Downloads`, `WlanSwitch`, `FirmwareFlash`, `ClockSync`, `DiveVideos`, `MCConsole` | the other pages, the clock, the footage of a processed dive, their composition | `ConsoleProofs` |

The runs:

| Run | Checks | Properties |
|---|---|---|
| `release` | the script's safety and its refinement of the contract | `ReleaseAccounted`, `SelfHealBounded`, `DiveNotRepeated`, `ImplementsContract` |
| `live` | the script's liveness | `SunkIsReleased`, `BottomEnds`, `FirstLeakReleases` |
| `handshake` | the shutdown and its refinement of the protocol | `OneSequence`, `RequestNotLost`, `AckMeansSafe`, `ImplementsProtocol`, `ShutdownCompletes` |
| `record` | the recorder | `OneStampPerDive`, `HeldMeansRecording`, `NoClobber`, `LabelFollows`, `RecordingReturns` |
| `records` | records and mission state, and their refinement of the log | `StampBelongs`, `ImplementsLog`, `PollKeepsDive` |
| `ends` | the end of a mission | `MissionEnds` |
| `console` | safety of the pages and of what a processing job does to footage | `CleanMeansSaved`, `EditsKept`, `AsksWhileHeld`, `OwnRelease`, `LogComplete`, `VerdictFresh`, `FlashVerdict`, `OnlyConfirmedGo`, `RecordsKept`, `FootageKept`, `SafeMeansBundled` |
| `console_live` | liveness of the pages and of what they command | `TestEnds`, `EndIsShown`, `BatchEnds`, `TileAgrees`, `Reachable`, `FailureShown`, `MavlinkReturns`, `ClockSettles` |
| `deadman`, `overwrite`, `hold`, `watchdog` | one counterexample each (*Findings*) | `DeadmanBurns`, `OwnContent`, `LeavingLetsGo`, `WatchdogYields` |

No run spends an invariant on types: those of every module are theorems.

## 3. DiveScript

`DiveScript.tla` models `update()` of `doris.lua`. One action is one path
through the whole handler, from the telemetry at the top to the `return`: the
tick reads depth `d`, GPS fix `g` and pack voltage `v`, then runs the release
test, the GPS-reacquire latch, the RECOVERY keepalive, the light test, the
operator's cancel and the branch of the current state, in that order. The early
returns are what makes the script hard, so they are guards: `Reaches(s, d, g)`
says that no earlier return was taken.

| Code | Model |
|---|---|
| `prm.START`, `WAS_DEEP`, `GPS_RBT`, saved copy of `RLS_TST` | `START`, `WAS_DEEP`, `GPS_RBT`, `rls_saved` (kept by `Boots`) |
| `state`, `relay_active`, `prearm_passed`, `armed_once`, `recovery_done`, `telem.gps_lost`, `leak_detected`, `ipcam_recording` | variables of the same names |
| `tst.rls_start_ms`, `tst.lgt_start_ms`, `batt_fs.crit_since_ms` | `rls_age`, `lgt_age`, `crit_age`: ticks since the start, -1 for 0 |
| `bottom_start_ms`, `ascent_start_ms` | `phase_age` |
| rings `dr`, `ar`, `sr` | `rate_fill`, `sr_fill`, and `sr_shallow`, the newest run of shallow samples |
| `check_failsafes` | `FailsafeFires`, `CritTimer`, `Guarding`, `Failsafe` |
| `update_release_test` | `TestedRelay`, `TestedAge`, `ReleaseTest`, in every action |

`crit_hold` and `flown` are history. The recorder client is reduced to its
flag, and the bottom phase's light and camera dispatcher to its effect on that
flag. A missing depth reading, SITL-only branches, the light PWM and white
balance are left out. `DORIS_INJ_LEAK` is the only leak input there is
(`doris.lua:698`): nothing in the repository feeds the leak detector into it.

`DiveContract.tla` says in five actions what the script promises about the
weight; `ImplementsContract` is the refinement with
`burning <- relay_active /\ rls_age = -1`.

**Runs.** `release` checks safety and the refinement with a leak, a critical
battery, release tests, disarms and one reboot at any tick. `live` checks
liveness with light tests, disarms, leaks and operator commands. `deadman` is
a counterexample (*Findings*).

**Bounds.** Depth 0..4 (0..2 in `live`) has a value on each side of every
threshold; a tick moves the vehicle by at most one, so no threshold is jumped
in the model that could not be reached otherwise. Each timer lasts one or two
ticks, enough for it to start, be seen running and expire; rings have one or
two samples, enough to be empty, filling and full. One unplanned reboot
(`MaxReboots`) besides the self-heal reboots covers a restart between any two
ticks; the theorems hold for any number. `Volts` in `release` leaves out the
implausible reading, which the theorems include.

**Fairness.** `FairSpec` adds weak fairness of `Tick`, since `update` returns
its own rescheduling on every path; the operator, the sea and the faults are
not fair. A tick that changes nothing must still count as a tick, or weak
fairness could be met by real time passing elsewhere: `Beats = TRUE` makes
every tick flip `beat`. Liveness is therefore of the form "or the cause went
away": no property assumes the vehicle sinks, floats or gets a fix.

**Proofs.** `DiveScriptTypes` proves type correctness; `DiveScriptProofs` the
rest, for all constants meeting `DepthAssumption` (thresholds are naturals,
`SrfDpt <= Gate` as `snapshot_config` clamps it, the air window within 2 m),
`TimerAssumption` (durations are positive) and `InputAssumption`. The
invariant is

    IInv == TypeOK /\ ReleaseAccounted /\ RecoveryOnce /\ DeadmanReady
            /\ CameraStopped /\ HealBudget /\ FlownBarred

`ReleaseAccounted` alone is not inductive: switching off in RECOVERY happens
once, so `RecoveryOnce` must know that `recovery_done` is only set there.
`SelfHealBounded` needs the budget of a boot (`HealBudget`): a boot that may
still heal has spent at most one reboot. `DiveNotRepeated` needs `FlownBarred`:
a deep dive that ended with START still set is caught by WAS_DEEP and the GPS
latch, even across restarts. The refinement needs `BurnWhere` and the fact that
an on-deck test is not a burn.

Liveness is only model-checked, but what it needs besides the scheduler is
proved (section *Progress* of `DiveScriptProofs`). `BottomTimerRuns`,
`SunkWaitsForLight` and `LeakWaitsForLight` say of `BottomEnds`,
`SunkIsReleased` and `FirstLeakReleases` that every tick which does not do what
is waited for moves a clock towards its cap: the bottom timer, or the light test
that holds the tick, of at most `TestTicks`. Between ticks only a restart of the
script, or the end of the cause, moves it back. `BottomTimerRuns` needs that the
bottom timer has not run out while the script is still ON_BOTTOM (`BottomAge`).

## 4. SafeSurface

`SafeSurface.tla` models `SafeSurfaceService`: the synchronous message handlers
are one action each, and a shutdown or bench sequence is a task whose steps are
the stretches between its awaits (`Disarm`, `Flush`, `Sync`, `SendAck`,
`Confirm`, `Poweroff`, and `Fail` at every one of them). `latched`, `handle`
and `acked` are `_shutdown_request_latched`, `_shutdown_task` and
`_power_acknowledged`; a task's identity outlives the handle, as in asyncio, so
two sequences can be expressed and `OneSequence` says they do not happen. The
AGT is external: it asks, counts down once an ACK reached it, cuts the power or
resets. `granted` is history. Display state, the release-mismatch report and
`evaluate_release_readiness` are left out, and a new dive is not started during
a shutdown; `recovery_seen` is in `DiveRecords`.

`ShutdownProtocol.tla` is the handshake as one sequence: idle, preparing,
exchanging the ACK, confirmed, halted. `ImplementsProtocol` is the refinement;
`Phase` reads the phase off the one shutdown task there is and is "void" once
the policy was changed, and `safe` is disarmed and synced. Its `Halt` has no
guard but the phase: that a host only halts safely (`HaltedMeansSafe`) is what
the order of the phases is for.

**Runs.** `handshake`: two task identities, two requests, one restart (of the
backend, or of the host after a poweroff or cut) and one change of the bench
policy at any moment. Two requests are needed for a reset and a second request
while the first sequence is still running; two tasks to see a second sequence.
Deadlock is not checked: the payload is off at the end.

**Fairness.** Weak fairness of the event loop and of messages the AGT repeats;
strong fairness of each step that can fail (disarm, quiesce, sync, ACK,
poweroff, the confirmation heard while waiting, which may come just as the wait
runs out): it succeeds if tried for ever. The code's part in that is to try
again. `ShutdownCompletes` checks it; a latch kept after a failure, or a handle
kept after the end of a task, would break it.

**Policy.** `bench_mode` is read when a request is scheduled. Properties of the
latch and the disk are claimed until the policy first changes (`toggles = 0`);
after that the code allows a bench quiesce beside a shutdown sequence, and a
latch left by bench mode. These are listed as hazards.

**Proofs.** `SafeSurfaceProofs` proves `TypeOK`, `OneSequence`,
`RequestNotLost`, `AckMeansSafe` and `PoweroffConfirmed` for any set of tasks
and any bounds, and the refinement (`ProtocolHolds`). `OneSequence` is not
inductive: the invariant says that the running shutdown sequence is the one
`handle` names and that bench sequences run in bench mode only (`Held`), so the
guard on the handle is enough. `AckMeansSafe` then follows because no other task
can write between a task's sync and its ACK (`SyncedPast`). `PoweroffConfirmed`
rests on `SeenGranted`: the event is only set by a countdown, and clearing it
when the exchange begins is what makes it a new one. With these the refinement
goes step by step: a task that is not the sequence's can at most do some of its
work (`Work`), in bench mode; of the sequence's steps each is one of the
protocol's or a stutter. `HaltIsSafe` is then proved of `ShutdownProtocol` alone
and carried over.

## 5. Recorder

`Recorder.tla` models `ip_camera_recorder.py` and the calls that
`quiesce_dive` and `finalize_dive` make on it. Requests and the watchdog share
an event loop, so a step is what one of them does between two awaits.
`start_recording` holds `_state_lock` without awaiting anything and is one
action; `stop_recording` holds it while the pipeline flushes, so it is
`StopRecording` and then `Stopped` or `StopTimedOut`. GStreamer opens files on
its own thread, hence `OpenFragment` may fall anywhere while a pipeline is up.

| Code | Model |
|---|---|
| `_last_base_stamp`, `_session_part_offset`, `_dive_cycle_seq`, `_session` | `base_stamp`, `part_offset`, `cycle_seq`, `held` |
| `_state_lock` | `lock`: the caller whose stop holds it |
| fields of `RecordingSession` | `sess`, `user_stop` |
| `_watchdog`'s task, `_pipeline`, `_muxsink` | `pipe`: `none`, `new`, `down` (backing off, no muxsink), `up` |
| `_on_format_location` | `OpenFragment`, which adds a record to `files` |
| `clear_snapshot_state` | `ClearState`, called by `StartDive` and `Finalized` |
| the awaits of a stop, a quiesce and a finalize | `at[c]` |

One session variable is enough: a start needs the lock and a recorder that is
not recording, so no older session is alive (`Lifecycle` is the invariant that
says so, and it is proved). `files`, `wanted` and the counters are history.

A stamp is a number that is never allocated twice: the code takes it from the
clock, in seconds, so this leaves out a clock set back and two dives in one
second. The open time at the end of a name is left out, which makes `NoClobber`
stronger than what the file system needs. The phases a session is asked for go
forward, as those of a dive do; with a phase that goes back, a start that asks
for the current phase while another one is queued leaves the queued one in
place (`ip_camera_recorder.py:1105`). Segment lengths, the stream log, the
reported status and the contents and numbers of snapshots are left out.

**Runs.** `record` checks everything below with three concurrent callers: one
plain stop, one quiesce, one finalize. Deadlock is not checked: with the bounds
used up and the recorder stopped, nothing is left to do.

**Bounds.** Two sessions, two phases, one fragment per pipeline, one pipeline
restart per session (parts up to 1), one reset (by a new dive, a finalize or a
restart of the backend) and one stop that times out. Two sessions are needed
for every question about names, in one dive or in two; a restart of the
pipeline on either side of a stop needs part 1, and the parts of a second
session then begin at 2 or are those a timed-out stop did not record. The
theorems have no bounds.

**Fairness.** Strong fairness of `RunOne(TRUE)`: the watchdog is a task of the
event loop and retries for ever with a backoff of bounded length, and a camera
that is tried again and again answers. Only `RecordingReturns` uses it; that
the code does try again, whatever way the pipeline ended and whatever was
rotated or asked for meanwhile, is what it checks. It is claimed up to the
bound on parts.

**Proofs.** `RecorderProofs` proves every safety property of the `record` run
for any callers and bounds. The invariant is

    IInv == TypeOK /\ Lifecycle /\ Numbered /\ Parted /\ Labelled

`NoClobber` cannot be had from the files alone: `Numbered` orders each of them
against the dive (`Known`) and against the session that will open the next
(`Earlier`): of the same stamp and cycle, it has an earlier part, or the same
part and an earlier fragment. That a stop that timed out leaves `part_offset`
behind does no harm to it, because the cycle differs; `PartsAscend` does need
the offset (`Parted`) and holds only while no stop has timed out. `LabelFollows`
rests on `Labelled` and on the conjunct of `TypeOK` that nothing stays queued
while a pipeline is up.

## 6. DiveRecords

`DiveRecords.tla` models what a dive leaves on disk: `routes/dive.py`, the
status poll and the commands of `services/dive.py`, `dive_records.py` and
`quiesce_dive`. Requests share one event loop, so a step is the stretch between
two awaits; the stretch that writes files is one step if it ends (`Started`,
`Stopped`, `Quiesced`, `PollEnd`) and any prefix of its writes if the payload
loses power (`StartCut`, `EndCut`, `PollCut`). Each write but that of a new
record is atomic (`write_json_atomic`); a new record may be cut off.

| Code | Model |
|---|---|
| `dive_NNNN.json`, `mission_state.json` | `records`, `mission` |
| `_last_known_value`, `_started_at`, `recovery_seen`, `_last_base_stamp` | `last_known`, `cooling`, `recovery_seen`, `stamp` |
| `DORIS_START`, `DORIS_STATE` on the autopilot | `START`, `vehicle` |
| the awaits of a request | `at[t]`; what it remembers over them, `local[t]` |
| `update_active_dive_record`, `_close_all_active_dive_records` | `Updated`, `StaleClosed` |
| `find_unstamped_dive_for_recording` | `FindUnstamped` |
| `get_status` and `_sync_mission_state_from_vehicle` | `PollStart`, `PollEnd` |

All parameters are read over one `PARAM_VALUE` slot, so a poll may find its
parameter there or another one (`found`). `opened`, `restarts`, `astray`,
`torn` and `overtaken` are history: for each stamp the record that was open when
it was allocated, and which faults have happened. Times are counts of stamps:
what the code asks of them is whether a stamp lies between a dive's start and
end. A clock that is wrong or set back during a dive is left out (what sets it
is in `ClockSync`), and so are the deletion of records (it is in `DiveList`),
samples, receipts, what processing adds, and a stamp given with
`/dive/finalize` (which only the simulation still calls).

`DiveLog.tla` is what the two files promise together: a log of dives of which
only the last can be active, each closed once and told of in the same step with
the same outcome. A crash between two writes may close or begin a dive and tell
nothing of it (`Tear`); the log is torn until the next dive is started.
`ImplementsLog` is the refinement with the statuses of the records as the log.

**Exceptions.** Properties that hold only up to a fault name it:
`ImplementsLog` up to a crash between two writes (`torn`), and `PollKeepsDive`
up to a restart of the backend or a lost command: a restarted backend whose
first poll finds neither parameter takes the dive under way for abandoned.
`StampBelongs` and `PollKeepsDive` except a start that got through while a stop
or a quiesce waited for the recorder (`overtaken`): there the code closes the
new dive's record. All three are hazards in `PROJECT.json`.

**Runs.** `records` has one request of each kind (the mission poll is the
status poll and the healing), two dives and one restart or crash. `ends` checks
under fairness that the mission ends, with one dive, one restart or crash and
one lost command or answer. Deadlock is not checked: the bounds may be used up.

**Bounds.** Two dives are needed for a stale record, for a stamp that could
reach the wrong record and for a mission that could name one; one stamp, because
what may go wrong with a stamp is which of the two records gets it. Requests of
one kind do not overlap with themselves in the runs; in the theorems they may.

**Fairness.** Weak fairness of the end of a poll and of the cooldown, which is a
time; strong fairness of a poll that finds START: the pages poll for as long as
they are open, and a poll that is repeated for ever does find its parameter.

**Proofs.** `DiveRecordsProofs` proves the types, `OneActive`, `MissionAgrees`,
`ForwardOnly`, `StampBelongs`, `PollKeepsDive` and the refinement (`LogHolds`)
for any requests and bounds. `Effect` says in
six disjuncts what a step may do to the disk (`StepEffect` proves it of every
action), and all but the stamps follow from it. `MissionAgrees` is not
inductive: that a request closes the record the mission names needs
`NewestOpen`, no record but that one is open. `StampBelongs` needs `Stamped`:
the stamp in memory belongs to the open record and to any closed one whose
window it falls in (`BelongsTo`), and so does what a quiesce under way remembers
(`Held`). The first is true because a start resets the recorder before it opens
its record. `PollKeepsDive` needs `StartKnown`: unless the
backend restarted, something was lost or a start overtook a stop, it knows of a
START that is set, or the request that set it has still to end. For `LogHolds`
each disjunct of `Effect` is a step of the log, or none. An end and a crash
(`EndingMaps`, `TearsMaps`) need that the open record is the last one
(`LastOpen`) and, unless torn, the one the mission state names. `MissionEnds` is
only model-checked.

## 7. The console, the clock and the footage

A page keeps what it was told and acts on it later; between the two the vehicle,
the other requests of the page and the operator go on. All modules of this
section therefore have the same shape: the backend's state, the page's state,
and the requests on their way as a set (or in slots) of records that say what
was asked and what was answered. A request reaches the backend, is answered or
is lost, in any order. An `await` in the code is where a record stays in the
set; what the code compares or assigns after it is in the action that takes the
record out. Leaving a page drops its state and intervals but not what it asked
for: a request of a page that was left has `here` FALSE, or is of no one.

`ClockSync` and `DiveVideos` are about the backend alone: about what windows and
the operator at the stick make it do.

`MCConsole.tla` composes the parts. They share no state of the model, so a
behaviour is about one of them: `part` is chosen at the start and only the
steps of that part are taken. This is a disjoint sum and not a product, which
would only repeat the same states; where two parts do meet in the code (the
dashboard's selection that the editor takes over, the dives another window
starts, the recorder the script commands) the module of the page has the other's
steps in it. `console` checks the safety of all of them and `console_live`
their liveness, over the parts that have any.

**Bounds.** A question about answers that come late needs two of a kind: two
configurations, files, runs, polls. One save, one dive started, one batch
deletion and one switch are enough, since a second only begins where the first
began; a processing run, an Iridium test and a flash are needed twice, because
their question is whether the second is taken for the first. Three presses of a
button (two in `console_live`) are one to overtake, one that is overtaken and
one after them; three messages of the tracker an old verdict, a start and a new
verdict. Two record numbers and three dives let a number be given again while
another record exists; of the lists of dives one on its way besides the one
shown is enough, since one that was overtaken brings what an old one does. The
footage needs a video of two segments, so that one may go before the other,
beside one of one; two jobs, the second over what the first left; and one pull
of the stick, which is in at first. Its segments are on the stick up to some
point and from there on the internal disk (`RunsFull`). The theorems have no
bounds. Deadlock is not checked: when the bounds are used up a page may be idle.

### Mission editor (`MissionEditor`)

| Code (`MissionProgramming.vue`) | Model |
|---|---|
| the fields, `selectedConfiguration`, `hasUnsavedChanges` | `form`, `selected`, `unsaved` |
| `showUnsavedWarning`, the save and delete dialogs, `configurationName`, `pendingConfigurationChange` | `modal`, `typed`, `pending` |
| `loadConfiguration`, `saveConfiguration`, the deletion, over their awaits | `loads`, `saves`, `deleting` |
| the backend's configurations | `stored` |

The fields that raise the unsaved flag are one bit, `marked`; `of` is the
configuration the content came from. The watchers run after the handler and
only if a configuration is selected, so an edit may or may not raise the flag in
the step that made it (`Flags`).

`CleanMeansSaved`: a page without unsaved changes holds what is stored.
`EditsKept`: changes announced as unsaved are only replaced when the operator
discarded or deleted them or a save was answered. Both except `blurred`: a load
that failed, or a form or store that changed during a request, after which the
code makes no promise; `CleanMeansSaved` is also about a form that came from the
configuration it names, since `overwrite` is the counterexample of the other
case.

### Sensor page (`HoldTests`, `IridiumTest`, `CameraTile`)

`HoldTests` has the two hold-to-test buttons: `active`, `handle` and `intervals`
are `lightTestActive`, `lightKeepAlive` and the intervals the browser really
runs, each named by the press that started it, which is what makes a lost handle
visible. The script's own timeout is `ScriptLetsGo`. `AsksWhileHeld` is about the
page, `TestEnds` about the vehicle: a button left alone ends its test. Both
except a press, or the end of the visit, that overtook the answer to an earlier
press (`overtaken`); `hold` shows what happens then. Fairness: the second "off"
is a timer, a request ends some way, the script's timer runs out. That an "off"
reaches the vehicle is not assumed; the script's timer is what `TestEnds` needs,
and that no interval goes on asking is what it checks.

`IridiumTest` numbers the messages of the tracker as they are said, while the
backend numbers those it holds from 1 and forgets them at a restart.
`VerdictFresh`: the verdict shown was said after the test was asked for, except
when a poll of the test before was still under way (`belated`).

`CameraTile` has the state of the recorder as one bit (`Recorder` has the rest),
which the script also changes, the list of cameras, which may lose the camera
(both count as mishaps), the queries and images in slots, and the buttons.
`StatusLost` stands for a lost answer and for a request that never arrived.
`TileAgrees`: a tile left open comes to say what the recorder does, also when a
state asked before a press is answered after it, or one asked before another is
answered last: two slots, so that requests for the state overtake each other. One
image at a time is enough, as no image says whether the recorder records. When
all slots are taken a request is as one that never arrives, so it never holds up
what else the page does. Fairness: the interval goes on, a request ends, and now
and then one is answered. What a command's messages say is left out.

### Dashboard (`DiveStart`)

`picked` and `date` are the chosen configuration and the release date on the
card, `fetching` the configurations being loaded, `calls` the starts and
cancellations under way. `OwnRelease`: a start carries the release date of the
configuration it names, if every choice was loaded before the next one
(`hurried`).

### Processing view (`ProcessingView`)

The backend's job is the latest run while it is remembered; another console may
start one, a restart forgets all. The page has the session, the lines, the
cursor, the interval and the polls, each with the run and the line it asks from.
`LogComplete`: every line up to the cursor is shown, once, as long as no two
polls were on their way at once (`crossed`): two that were append the same lines
twice. `EndIsShown`: a run shown as going on is shown to its end. Fairness: the
job and the interval go on, a poll ends, and now and then one is answered and
one that says the end comes through.

### Previous dives (`DiveList`)

A record is a number and the dive it tells of. `RecordDive` gives the number as
`start_dive` does, one more than the highest in use, and `owner` remembers the
dive a number was last given to. A job (`BeginJob`, `JobReloads`, `JobDone`)
keeps the record it read and writes it back. The page has its list, the lists on
their way, the dialog (`chosen`, with the dive that was meant as history), and
the deletions under way; other windows delete at once. `RecordsKept`: the record
of a dive goes only when that dive was chosen and its deletion confirmed, and it
does not come back. It excepts what the code does not hold up under, both listed
in *Findings*: a number given twice (`again`) and a deletion under a job
(`undone`).

### Media and downloads (`MediaPage`, `Downloads`)

`MediaPage`: a batch walks the selection itself, so a deletion record says what
was confirmed, what is left, whether it still walks the present selection
(`live`) and whether the operator changed it meanwhile (`altered`).
`OnlyConfirmedGo`: no file goes that was not in the dialog that was confirmed,
unless the selection was altered.

`Downloads`: every job has a phase and every batch the files it has still to
enqueue. `BatchEnds`: the button comes back, whatever fails. Fairness: jobs and
the loop that enqueues go on.

### Network (`WlanSwitch`)

| Code (`network.py`, `NetworkSetup.vue`) | Model |
|---|---|
| `_wlan_state` with `last_attempt`, and its file | `intent` |
| what the radio really does | `radio`: `hotspot`, `mute` (a hotspot in name only), `normal`, `sta` |
| `_wlan_switch_task` | `task`: where it is between its awaits; `attempt` |
| `start_ap_watchdog` | `dog`: asleep, about to look, about to assert |
| `get_wlan_state` | `probe`: the intents read before it asks, written back after |
| `wlanState`, the dialog, `dismissedAttemptTimestamp` | `seen`, `asked`, `waived` |

This is the switch over the WiFi manager's v2 interface; that of v1 has the same
steps with other commands. The manager may refuse anything, the radio may drop
what it does, the backend may restart (`MaxUpsets`, two in `console_live`: one
to fail the switch's way back, one more). One switch is asked for;
`SwitchesEnd`, the safety half, is proved for any number. `Reachable`: a hotspot
or a joined network, again and again. `FailureShown`: a failed switch comes to
be shown on a page that stays open. Fairness: tasks, probes, polls and the
watchdog go on; now and then the watchdog's hotspot is accepted, a probe is
answered and a state is read. The watchdog is what brings a radio back that
failed its switch, its restore and its restart; without its step `Reachable`
fails.

### Flashing (`FirmwareFlash`)

Sessions are numbered. Each stops the autopilot, loads and starts it again, and
nothing keeps a second from beginning meanwhile. `adrift` are uploads and starts
of pages that were left. `FlashVerdict`: the banner tells the end of the session
this page asked for, unless a poll of the one before was still under way when it
began (`late`). `MavlinkReturns`: the autopilot comes back, whoever else flashes,
unless BlueOS did not do as told or the backend restarted (`stranded`). The page
is checked in `console`, without outages; `console_live` has restarts, and no
polls, which do not matter to the autopilot. Fairness: every await of a session
is bounded in time, and the loader ends.

### Clock (`ClockSync`)

Times are counted from the true time, in a unit longer than the drift that is
tolerated (30 s) and the age at which a message is stale (15 s). `skew` is the
error of the system clock. The code takes the age of a message as the difference
of two readings of that clock, so every step of the clock in between is in it:
`shift`. `FindsFix` and `ReadsTime` are the two halves of a poll. A tracker
without a fix sends a time that is not sane. Browsers offer their own time to a
vehicle whose clock is off by years; a restart applies the floor.

`ClockSettles`: from some time on the clock is right whenever the tracker is
heard with a fix, whatever browsers offered and whatever floor a start went back
to. Fairness: time goes on, and the poll now and then finds a fresh fix and then
reads it. It is checked in `console_live` with a right and a wrong browser and
one restart or power cut.

### The footage of a processed dive (`DiveVideos`)

| Code (`dive_processing.py`, `dive_finalize.py`, `usb_storage.py`) | Model |
|---|---|
| `.ts` segments of the dive, and the disk they were recorded on | `raw`, `disk_of` |
| `.mp4` files in `dive_<stamp>/`, the segments each shows, the manifests | `made`, `shows`, `noted` |
| `dives/<slug>/` on the stick, or on the bare directory it would be mounted on | `bundled`, `copies` |
| the mount | `stick`: `in`, `lost` (pulled, the mount still there), `out` |
| the steps of `_run` | `doing`, one action or more for each |
| `ctx`, and the paths `finalize_dive` works on | `dive_dir`, `usb`, `video_outputs`, `pending_deletions`, `copied`; `base`, `unmuxed` |
| `get_recording_dir_if_available` | the parameter `room` of `StepPreflight` and `ListSegments` |

A video is named after the start of its first segment and lies beside it, so
files are known by their segment. The stick may be pulled, dropped by the host
and mounted again between any two steps; a step may raise, or the backend
restart, at any of them (`JobBreaks`), with what was done so far left on the
disks; ffmpeg may fail and leave a useless file; files are deleted one by one as
far as it gets; the job is run again. `get_recording_dir_if_available` makes a
directory at the mount point and asks for room, not for a mount: whether there is
room is chosen anew by the preflight, whose two questions get the same answer, and
by `finalize_dive`.

`FootageKept`: every segment is left, or a video that shows it is, in the dive's
folder or in a bundle. `SafeMeansBundled`: when the job says that the stick is
safe to remove, what is mounted holds every video the job found, complete,
unless it was pulled or mounted after the check (`moved`). `FootageKept` excepts
a segment that could not be deleted while a later one of its video could
(`stuck`, in *Findings*).

Left out: photos, logs, telemetry and the record, which the same job writes; the
cutting of a long video into chunks, so that a group makes one video; a muxer
that says it succeeded and did not; power cuts. `os.sync` in the last step and
the `fsync` of each copy are about those, and so is the question whether an MP4
is on the disk before its segments are unlinked, which nothing in the job
ensures.

### Fairness of the composition

`LiveSpec` is `ConsoleSpec` with
`WeakFairness`, the weak fairness of the modules (a part that takes no steps has
no step it must take; the watchdog, the state polls and time need nobody, so
theirs name the part or are of a variable that has no other step), and
`NowAndThen`, strong fairness of what comes about now and then. TLC pays for
each strong fairness, and one part only ever acts; so the strongly fair steps of
different parts are joined in one condition, which for a given `part` is the
condition on the one step that part has in it.

### Proofs

`MissionEditorProofs`, `SensorPageProofs` and
`ConsoleProofs` prove the types of every part and every safety property of the
`console` run, for any names, files, runs, requests and bounds;
`ConsoleTypeCorrect` proves the types of the composition. The safety of a part
is proved of the part's own next-state relation, without its fairness;
`ConsoleImplementsParts` shows that a behaviour of the composition is one of each
part, and `ConsoleSafe` draws the conclusion: all of it holds of `ConsoleSpec`.

Of what only `console_live` checks, the safety half is proved for four parts:

- `DownloadsOrderly`, for `BatchEnds`: the files of a press are taken one after
  the other (`OneFileAtATime`) and each once (`TriedOnce`), what is under way is
  listed (`BusyListed`), and a button comes back with nothing of its batch under
  way (`OverRested`). `Ahead` is the strengthening: what is still to be enqueued
  was not tried.
- `SwitchesEnd`, for `Reachable` and `FailureShown`: a pending switch has its
  task at work (`PendingWorked`), so nothing blocks the next one for ever, and a
  failure is not dismissed before it happens (`NewFailureShows`), since whatever
  is known of attempts, also on its way, is of earlier ones (`AttemptsInOrder`).
- `AutopilotComesBack`, for `MavlinkReturns`: an autopilot that is down is one
  some session has still to start (`AutopilotDue`).
- `GpsClockKept`, for `ClockSettles`: a clock that says it is set by GPS is never
  ahead, no further behind than a message may be old (`GpsClock`), and is not
  taken over by a browser (`GpsStands`).

What has to be strengthened for the safety of the others:

- `OwnRelease` needs that the card follows the choice (`CardFollows`): if
  nobody hurried, what is being fetched is what was picked last.
- `AsksWhileHeld` needs that a press awaits one answer and has no interval yet
  (`InTurn`).
- `LogComplete` needs that the one poll on its way asks from the cursor, of the
  run shown (`Continues`), and that neither page nor poll knows more of a run
  than there is (`Known`).
- `VerdictFresh` needs that past the baseline the buffer holds only what was
  said since, also if it began anew (`FreshBuffer`), and so do the readings.
- `FlashVerdict` needs that what a poll asked or brings is of this page's
  session, and that a session that is over stays so (`SeenTrue`, `AskInOrder`).
- `OnlyConfirmedGo` needs that what is left of a deletion was confirmed
  (`Confirmed`).
- `FootageKept` needs to know which video may replace which, since a file is
  written over one of its name. A video begins with the segment it is named
  after, and while that one is left so are all it shows (`Beginnings`): what is
  written over can be made again. Of a video whose segment is gone, or may go,
  the copies show no more than it does (`Covering`). Of the segments of a video
  that are left, only the first ever gives a name (`FirstsOnly`), and they are
  listed and released together (`ListedWhole`, `PendingWhole`). `ReleaseKeeps`
  is where the order of the deletions is needed.
- `SafeMeansBundled` needs `CheckedInv`: between the check and the flush the
  folder may lose videos but neither folder nor bundle gets any.
- `RecordsKept` needs, unless a number was given twice: every record is of the
  last dive its number was given to (`Owned`), the dialog and the deletions mean
  the dive the number is of (`Meant`, `Asked`), and so does a job (`Worked`).

## 8. Findings

With a run that shows it:

| Run | The document says | The code does |
|---|---|---|
| `deadman` | `doris.lua:1401`: the deadman goes to ASCENT so the relay stays on for BRN_MIN | with START at 0 the cancel check of the next tick switches it off; the output flaps |
| `overwrite` | `MissionProgramming.vue:2314`: "Replace the existing configuration with your updated settings" | the selected name may have changed without its content being loaded: defaults, or another's content, are stored under it |
| `hold` | `SensorConfiguration.vue:880`: "Leaving the page must not leave the release energised" | two presses within one request leave an interval nobody clears, which goes on asking for the release |
| `watchdog` | `network.py:661`: suppressed while the intent is to join a network | the intent is read two awaits before the hotspot is asserted |

Met while modelling, without a run of their own:

| Source | The document says | The code does |
|---|---|---|
| `doris.lua:760` | `doris.lua:44`: a leak triggers a release, checked every cycle | only the first leak of a boot does |
| `doris.lua:785` | `doris.lua:412`: released only when critical for BATT_LOW_TIMER | a timer left over from a cancelled mission releases at once |
| `safe_surface.py:441` | `CHANGELOG.md:9`: an unconfirmed ACK leaves payload power on | an accepted but unconfirmed ACK does not; the retry writes during the countdown |
| `dive_processing.py:300` | `dive_processing.py:252`: quiesce stops the recorder so the trailing segment is complete on disk | while another stop flushes, `is_recording()` is False: quiesce goes on with the segment open |
| `routes/dive.py:130` | `routes/dive.py:124`: whether this dive was observed to reach RECOVERY | `recovery_seen` is never reset: the next dive is recorded as completed even if it is abandoned |
| `services/dive.py:140` | the receipt (`dive_receipt.py:154`) plans a release by date from the date | the elapsed time is pushed whatever the method |
| `useDownloads.ts:62` | `useDownloads.ts:24`: the overlay renders the queue | the queue is replaced by a new array; the overlay keeps the old one, which stays empty |
| `ViewMediaScreen.vue:145` | `ViewMediaScreen.vue:474`: "This will permanently remove all media files" | no request is made |
| `useApi.ts:1070` | `useApi.ts:1071`: after a dropped poll "the next tick retries" | the interval is set only after an answered poll |
| `artemis.py:95` | `artemis.py:95`: the autopilot is stopped before flashing | a second session may begin; the one that ends first starts the autopilot while the other's loader writes |
| `artemis.py:117` | `artemis.py:96`: always started again afterwards | not if the answer to the stop was lost |
| `timesync.py:111` | `timesync.py:24`: relative age is reliable even when absolute time is wrong | the clock may be stepped between the two readings; a negative age passes |
| `dive_processing.py:635` | `AllMissions.vue:874`: a deletion cannot be undone | a job writes the deleted record back, or the old record over a new dive's of the same number |
| `dive_finalize.py:146` | `dive_processing.py:435`: the *same* resolution, over both roots | finalizing looks at one root: a dive recorded on the internal disk and processed with a stick in gets no video, and the job is complete |
| `usb_storage.py:188` | `usb_storage.py:178`: a directory on external USB | nothing asks whether a stick is mounted: without one the bundle goes beneath the mount point and is "safe to remove" |
| `dive_processing.py:737` | `dive_processing.py:17`: segments survive until the MP4s have been probed | until they exist and are not empty; a probe that fails changes nothing |
| `dive_processing.py:749` | `dive_processing.py:16`: nothing irreversible before it has been verified | a first segment that could not be deleted is muxed alone by the next job, over the whole video of its name |
| `routes/dive.py:154` | `routes/dive.py:155`: the next available path | the number of a deleted newest dive is given again; a page older than the new dive deletes it by that number |

## 9. What is proved, what is checked, what is neither

Proved for every value of the constants: the types of every module; every safety
property that a passing run checks, of the console also in its composition
(`ConsoleSafe`); the refinements of `DiveContract`, `ShutdownProtocol` and
`DiveLog`; and, beyond what runs check, the steps towards what liveness promises
(sections 3 and 7), that a host that halted is safe (`HaltIsSafe`), that at most
one record is active (`OneDiveOpen`), that only the end of a dive cuts a burn
(`BurnNeverCut`), that parts ascend (`PartsClaimed`), that a cycle is one start
(`CycleIsOneStart`) and that closed records stay closed (`ClosedForGood`). The
only assumptions are the named ones on the constants, which TLC evaluates in the
runs.

Only model-checked: the liveness properties (liveness under fairness and ENABLED
are outside the prover) and the four counterexamples.

Not modelled, and why:

- **The rest of a processing job**: photos, logs, telemetry, the export and the
  chunks of long videos; that a crash leaves a record in state running
  (`dive_processing.py:573`), and that finalizing looks at the recorder as
  quiesce does (`dive_finalize.py:787`).
- **Bottom-phase dispatcher** of the script: light and camera intervals; its
  effect on the recorder's flag is in `DiveScript`.
- **Bench mode's page and AGT debug settings, GPS and barometer tiles, arming
  status and notice, notifications, frame configuration, camera settings and
  presets, attitude socket, location, storage view, sensors**: displays and
  settings that ask and show, where the last writer wins.
- **Power and data model, CSV export, filters, sorting, paging, the viewer**:
  functions of what is listed, on real numbers or text, with no state of their
  own.
- **Hotspot radio pin, AGT serial mapping, mDNS and web entry, storage
  mounts and migration, thumbnails**: work on the host through commands whose
  effects are not in this repository.
- **The loader's serial protocol, telemetry and log parsing**: byte formats.
- **Simulation and operator tools**: test harness.

`PROJECT.json` has a note for each.
