# TLA+ models of totalmix-osc-bridge

The bridge (`src/tmosc`) sits between RME TotalMix FX (OSC over UDP), an MQTT
broker (Home Assistant), a web UI and an optional MIDI agent (`src/agent`). It is
a program of many threads that share one Python object, `TotalMixOSCBridge`; its
hard part is not what it computes but in which order its threads act and what it
believes about a mixer that it can only partly observe. The modules here model
that part; the theorems hold for every number of threads, macros, workspaces,
snapshots and triggers.

## 1. Inventory

### Components, their state and their operations

| component | code | state | operations |
|---|---|---|---|
| Bridge object | `bridge.py` | all instance state, threads, WebSocket queues | `start`, `stop`, `broadcast`, `subscribe` |
| Macro engine | `core/macros.py` | `_running_macros`, `_cancel_events`, `_queued_params`, `_suppress_count`, `last_trigger`, under `_macro_lock`; the device under `_device_lock` | `run_macro`, re-fire threads |
| Switching and belief | `core/switching.py`, the switch block of `macros.py` | `current_workspace`, `current_snapshot`, `state_confirmed`, `device_snapshot_slot`, `workspace_report` | `switch_to`, `report_workspace`, `_sync_snapshot_from_device` |
| MQTT handler | `mqtt_handler.py` | `_last_macro_end_time`, `_own_retained_republish`, `_retained_snapshot_num` | `on_connect`, `on_message`, `_run_switch`, publishes |
| Knobs | `core/knobs.py` | `knob_values`, throttle times, trailing timers, crossing memo and limits of the section | `knob_set`, switch and companion of the card, watch, readback, assertion of held knobs |
| Duck engine | `duck_engine.py` | per duck: base, recorded write, envelope | tick, seed, enable/disable, restore |
| OSC listener | `osc_listener.py` | `DeviceState` (row, label, strips per bank, arrival counts), waiters | `_handle`, `ingest`, `wait_for` |
| Classic transport | `core/transport.py`, the step loop of `core/macros.py` | none of its own: the mixer's row, bank and submix | resolve and aim, confirm, set a button, probe, restore |
| Channel map and sweep | `core/channel_map.py` | `channel_map`, `channel_map_is_example`, `sweep_state`, the file | load, migrate, persist, record, sweep |
| Physical table | `physical_table.py` | a part of the channel map | `merge_observation`, `resolve_start`, `covers`, legacy import |
| Broadcast and MIDI ownership | `core/broadcast.py` | owner, time to live | claim, heartbeat, expire |
| Global OSC | `global_*.py` | name and level cache, snapshot feed | resolve, dump, write |
| Operations | `operations.py` | none | knob, ramp, LFO |
| HTTP and WebSocket API | `src/tmosc/api` | none of its own | routes onto the above, config save |
| MIDI agent | `src/agent` | bindings, pending knobs, running status | parse, match, send, refresh, reconnect |
| Browser client | `src/web` | knob positions, echo guard, view state | drag, receive a frame |

`PROJECT.json` lists them all, with the ones that are left out and why.

### How they interact

* **Threads.** Every web request, MQTT message (paho's network thread), macro
  re-fire, MQTT switch (`_run_switch`), trailing knob timer, duck ticker and OSC
  ingest runs on a thread of its own. They meet in `_macro_lock` (short critical
  sections), `_device_lock` (held for seconds: a switch waits for the device, a
  macro plays its steps) and in plain attributes that no lock guards.
* **The device** is reached over UDP: a datagram may be lost, and success is
  only inferred from what the device dumps afterwards.
* **The broker** returns to the bridge what the bridge publishes, because the
  bridge subscribes to its own topics; after a (re)connect it replays what was
  retained. Echo, replay and genuine command look alike but for the retain flag,
  a mark and a cooldown.
* **Humans** move the mixer behind the bridge's back; it learns of it from a
  1 Hz look at the Global feed (snapshots) and the agent's window title
  (workspaces).

### What is hard here

Re-triggers of a running macro; the trigger that arrives while the run cleans
up; a macro that waits for the device lock while another one switches; exceptions
between any two sends; belief that moves outside the lock; echoes that arrive as
commands; replays in either order after a restart; a skip decided on a belief
that nobody checked; the performer's hand against the duck's ticker; the last
value of a knob stream against a throttle. The `hazards` of `PROJECT.json` name
each at its line with the property that watches it.

### What makes each component correct

* *Macro engine*: one execution per macro; a queued trigger is handed over, never
  stranded; suppression is lifted exactly when the last execution ends; an event
  cancels the execution it was meant for; one user of the device at a time;
  everything is given back on every exit.
* *Switching and belief*: nobody switches underneath a macro; steps play on the
  macro's own layout as long as the calm lasts; a skip is only taken when it is right; echoes and replays
  become belief, never commands.
* *Ducks*: the base follows the performer and never the duck's own writes; what
  the engine lets go of is back where a person put it.
* *Knobs*: the last value of a stream is told; broker and browsers end with the
  value TotalMix has, whoever wrote it and however far a browser's queue was behind; the
  section of a played knob is on, of a parked one off, a pinned companion as pinned; no
  recall leaves a held knob anywhere else.
* *Classic transport*: a write lands on the channel it names, however the strips have
  moved since they were seen; a button that can only be flipped ends as asked; bank and
  row are given back on every way out.
* *Listener*: a message that satisfies a waiter is not missed.
* *Channel map*: the file is always one whole map; no save, no measurement and no name
  is lost between the four threads that write it; what the table accepts for a name is
  that channel.

## 2. Modules

| module | models | reads |
|---|---|---|
| `FireModes` | the abstract promise of `fire_mode` (`docs/config.md`) | -- |
| `MacroEngine` | `run_macro`, from guard to re-fire | refines `FireModes` |
| `MCMacroEngine` | instances of it for TLC | |
| `MacroEngineProofs` | theorems about it | |
| `SwitchBelief` | switches, belief, echoes, replays, reports | uses what `MacroEngine` establishes of the suppression counter |
| `MCSwitchBelief` | instances of it for TLC | |
| `SwitchBeliefProofs` | theorems about it | |
| `DuckEngine` | one sidechain duck, the knob and the hand on its fader | -- |
| `DuckEngineProofs` | theorems about it | |
| `KnobStream` | one knob and everybody who shows it: `knob_set`, flushes, readback, watcher, queues, echo guard | -- |
| `MCKnobStream` | an instance of it for TLC | |
| `KnobStreamProofs` | theorems about it | |
| `KnobSection` | what a knob writes beside its value: section switch, off end, pinned companion; held knobs and recalls | the value alone is `KnobStream`'s |
| `MCKnobSection` | an instance of it for TLC | |
| `KnobSectionProofs` | theorems about it | |
| `ClassicAim` | one run at the mixer: every kind of classic step, probe, live names, the sweep's aims, with the listener and its waits | the lock is `MacroEngine`'s |
| `MCClassicAim` | an instance of it for TLC | |
| `ClassicAimProofs` | theorems about it: page 2, buttons, restores, waits, sweep | |
| `ClassicStripProofs` | theorems about page 1 | `ClassicAimProofs` |
| `ChannelMap` | the channel map, its table and its file: web saves, name sync, confirmed aims, sweep, crashes | what a sweep reads is `ClassicAim`'s |
| `MCChannelMap` | an instance of it for TLC | |
| `ChannelMapProofs` | theorems about it | |

### MacroEngine

A thread's place in `run_macro` is `pc`:

    idle -> waiting -> decide -> (switch ->) steps -> report -> finally -> idle | refire

* `Trigger` and `Refire` are the guard (`macros.py:158-190`), one critical section
  of `_macro_lock`: `Ignore`, `Queue` (which sets the event in mode restart),
  `Debounce`, `Register`.
* `Acquire` is `with self._device_lock`; `SkipBlocked`, `SkipSwitch`, `SendSwitch`,
  `SwitchDone` are the switch block; `StaticStep`, `OperationTick`, `OperationEnd`
  the steps; `Report` the bookkeeping that opens the debounce window.
* `Raise` leaves any of the places under the device lock by an exception;
  `Cleanup` is the `finally` block with the pop of the queued parameter and the
  re-fire thread, which is represented by the thread that spawned it.
* `OtherSwitch` and `BeliefMoves` stand for whatever else moves the belief;
  `SwitchBelief` says what that is.

A trigger's parameter is its arrival number, so that the model can tell which of
two triggers was lost; nothing of the content of a step is kept. The values of an
operation are counted (`MaxTicks`), its curve is not computed.

### FireModes

Three functions: the trigger a macro executes, the one that waits, the ones that
are on their way back in. `ImplementsFireModes` maps them to `started` (of a
registered macro), `queued` and the threads in `refire`. That a handed-over
trigger is offered again, and may then be lost to the debounce window or be
parked behind a newer one, is part of the abstract promise because it is what the
code does; the disagreement with the documentation is a finding (section 5).

### SwitchBelief

The mixer shows one workspace and one snapshot (`device`); the bridge believes
another pair (`belief`, `confirmed`). A macro is here no more than its target, a
workspace and a snapshot, a workspace alone, or neither (`Targets`): it takes the lock,
skips (`MacroSkips`), has nothing to send (`MacroHasNoTarget`), or loads, recalls and
confirms (`MacroLoads`, `MacroRecalls`, `MacroConfirms`; without a snapshot `MacroStays`
ends the switch after the load), plays its steps, ends (`MacroEnds`). `ClickLoads` .. `ClickEnds` are `switch_to`, which takes the lock
twice. `on_message` is one action per early return, in the code's order
(`DropsEcho`, `Suppresses`, `AbsorbsWorkspace`, `AbsorbsSnapshot`,
`IgnoresActive`, `StartsSwitch`), and `SwitchLoads` .. `RecallEnds` the threads it
starts. `ReportIgnored` and `ReportAdopted` are `report_workspace`. `FeedReports` is the
listener's copy of the feed and `FeedSeen` the later look of
`_sync_snapshot_from_device` at that copy, which by then may be out of date;
`UserMoves`, `Reconnect` and `Restart` are the world outside.

`CalmSteps` says when a macro's steps are played on its workspace and snapshot, and
`calm` is what it asks for. Calm ends with

* a lost datagram, or a hand at the mixer (`UserMoves`);
* a workspace that is loaded without a snapshot, by a macro, a click or MQTT: the mixer
  then shows a snapshot nobody has asked for, beside the remembered one (the finding
  `SkipOnlyOnTarget`);
* a title, the slot adopted with it, or a feed that is older than what the mixer shows;
* an MQTT recall that confirms a belief that was not confirmed: the button vouches for
  the snapshot, not for the workspace;
* a macro that finds itself on target, a macro's or a click's load, or an MQTT recall,
  between the sends of somebody's click, when nobody holds the lock for it.

It begins again when a macro loads a workspace and means to recall a snapshot, since from
there its own switch decides. Each of these endings was checked to be needed: leaving it
out makes TLC find a macro on the wrong snapshot. What is left in the calm are macros of
every kind of target but the workspace alone, clicks with a snapshot, MQTT recalls
of a confirmed belief, restarts, reconnects, replays, echoes and timely news, in any
order.

What the model assumes, where the code relies on time or on its environment:

* The 2.5 s cooldown and the 5 s life of a mark outlast the echo they are meant
  for (guards of `CooldownEnds` and `MarkExpires`). `GenuineCommands` would not
  hold of a broker slower than that, and nothing in the code makes up for it.
* A workspace brings a snapshot of its own choosing: `Load` picks any.
* The wait for a workspace is satisfied by any dump (`LoadAnswers`): only a user
  at the mixer can cause one that the load did not. The wait for a snapshot looks
  at that snapshot's own button (`RecallAnswers`).
* The snapshot map relates names and numbers one to one, with the string entries
  of `docs/config.md`, and a workspace in it has a slot. A name it does not have is for a
  macro as good as none (`Targets`); for MQTT and clicks the code returns early, and
  that is left out.
* One report of the feed is on its way at a time, and the title of one heartbeat. (For an entry that is an object, `mqtt_handler.py:198` makes the
  object's text the belief; such maps are outside the model.)
* A read and the writes that follow it without a call that can block are one
  step. In particular the bookkeeping at the end of an MQTT switch (`LoadEnds`,
  `RecallEnds`) is one step; the lock is held in it, but `switch_to`'s tail and the
  feed write the belief without the lock, and their interleaving with single
  assignments is not explored.
* `Suppressing` is "some macro is registered". That the counter behind it is exact
  is `SuppressCountsRuns` of `MacroEngine`.

### DuckEngine

The ticker's place is `pc`: `TickBegins` (`_tick_one`, which takes the last report
for the fader), `LevelUnknown`, `NothingToDuck` or `Audible` (the first half of
`duck_tick`, `Adopts`: envelope, news, base), `NoWrite` or `Record` (the second
half), `Write` (resolve and send, or fail); `Restore` and `RestoreWrites` are
`_restore`, for a duck that is switched off, a macro that is deleted and an engine
that stops; `Ends` is the end of the thread. `KnobWrites` and the `Seeds...` actions
are `knob_set` and `seed`, one action per field of the entry, so that they
interleave with a tick as the threads do. `FaderMoved` is a hand in TotalMix, `Dump`
a report of the fader as it is (settle readback, `/sendall`, re-send ON), `Ingest`
the listener. The envelope is left free (any reduction up to the depth after any
tick), which covers every curve and every key signal.

The engine compares values to tell a person's move from an echo, and it has no
lock. The circumstances in which that fails are named `Mishaps`, and each step that
meets one says so:

| mishap | what goes wrong |
|---|---|
| `late` | a level is written while a report is under way: the echo of an older write is adopted as the base; silence set by hand is overwritten for good |
| `overlap` | `knob_set` during a tick: the tick's write, computed from the old base, can reach the fader last |
| `failed` | a write that is not resolved, raises, or comes after the transport is gone is on record as done |
| `stale` | the duck starts from a report that is older than the fader |
| `unnoticed` | a person's level equals the last report or the last write and is not taken for news |
| `deleted` | the macro is gone, and with it the step to restore through |

The safety properties say what holds as long as none of them has happened (`calm`).
All of them happen in the run, so every action is exercised, and none is listed
without need: leave any one of them out of `calm` and TLC finds `NoSendStuck` or
`BaseIsHuman` violated by it alone. Most ticks meet none:
`late` needs a report to take longer than the rest of the 40 ms to the next tick,
`overlap` a knob move within the fraction of a millisecond a tick lasts.

Levels are coarser than `WRITE_EPS_DB` and `RESTORE_MIN_DB` (0.05 and 0.1 dB), which
the model takes for equality; `EXTERNAL_EPS_DB` is the constant `ExternalEps`.

### KnobStream

`Writes` and `Stores` are the two halves of `knob_set` that decide the order of
things (the datagram to TotalMix, then `knob_values`), then comes the throttle:
`Unthrottled`, `Claims` and the broadcast, or `Throttled` and a trailing timer
(`AlreadyArmed`, `NoneArmed`, `Registers`; `Fires` and `Pops` are the begin of
`_flush`). A broadcast is `Stamps`, `ReadsState`, `Publishes`, `Builds`,
`Broadcasts`: every read of the shared value and every write is a step of its own,
because a caller, a flush, the readback and the watcher run on threads of their own
and take no lock. `ReadbackFires` .. `ReadbackBroadcasts` are `_go`, `WatcherReads` ..
`WatcherPublishes` are `_knob_watch_one`, `Shows` and `Suppresses` the browser with its
echo guard (`app.js`), `Enqueued` the queue between. `MovesFader` is a hand in
TotalMix.

The throttle's clock is one bit, `recent`: the last broadcast is younger than
0.1 s. A timer armed within that time fires after it (`armed`), one armed too late
fires 10 ms later, whenever that is (`late`). A knob on a send (`scope = "mix"`) has no
readback; a knob on a channel has one, whose dump may be lost.

As in `DuckEngine`, circumstances the code does not cope with are named:

| mishap | what goes wrong |
|---|---|
| `overlap` | two threads write the knob or tell of it at once: what was read first arrives last |
| `slow` | a readback fires before the stream it belongs to has been told (it waits 0.4 s): its frame, the only one that clears the echo guard for certain, can fall out of a full queue |
| `hidden` | a fader moved in TotalMix while a write is being told, or to the value that was reported or recorded last: the watcher sees no change, and cards and broker keep the bridge's value |

`mishaps` holds those that have happened, and each property excludes only what it
must. `NeverDropsFinal` stands all three. `FinalValueKept` stands `slow`, since a
readback tells browsers and not the broker; allow `overlap` or `hidden` in it and TLC
finds it violated. `FinalValueShown` excludes all three, and is violated by each alone
(`slow` with a queue of one frame).

Left out of `KnobStream`: a knob that does not resolve, and groups; what is written beside
the value, which is `KnobSection`'s; the 12 ms for which a browser gathers values before it sends; frames
lost with a connection (a browser that reconnects reloads everything and clears its
guard, `app.js:287`). Values are compared for equality, where the code tolerates
0.0005 of travel (echo) and 0.01 (MQTT).

### KnobSection

`mixer` is the mixer: whether the section is on, whether the companion is as pinned, and
the value written last. `seen` is what the listener has of the two, `reports` what is
under way to it, and `bridge` the attributes of the code: `knob_values`, the crossing memo
(`_knob_enable_sent[name:offmin]`), the two limits of 2 s (`[name]`, `[name:pins]`) and
whether a readback timer runs. The point of the module is that the bridge never hears its
own writes: what it decides on is what others have done, and dumps.

A call of `knob_set` is the places `crosses`, `remembers` (`_off_at_min`), `autoEnable`,
`enables` (`_auto_enable`, its look at the feedback and its write), `pins`
(`_assert_pins`) and `value`. `KnobEnable` and `KnobParamSet` are the switch and the
companion on the card, `Turns` a hand in TotalMix. A recall, by a macro, a click or
MQTT, is `Recalls` (the command), `Lands` (it arrives, with a value of its own for
everything), `Looks` and `Reapplies` (`reapply_held_knobs`: the look at `knob_values`,
then memo and limits forgotten and `knob_set` entered).

The properties ask what is true when nobody is in `knob_set` and no recall is being
waited for. What they
exclude is carried by `past`: `own` holds the things that nobody but the knob has touched
since a move that could tell their state. Such a move is one that finds no report and no
readback outstanding and no limit running, or one that crosses the end of the travel,
which asks nobody. So a section that a person switches off while the knob is moved may
stay off until the next move, which is what the limit of 2 s is for.

| mishap | what goes wrong |
|---|---|
| `overlap` | two threads are in `knob_set` at once: memo, switch and value can each be another's |
| `late` | the recall arrives after held knobs have been asserted: the wait for its answer is not insisted on |
| `overtaken` | the knob is moved between the look at its value and the assertion of it |

`PlayedIsOn` and `ParkedIsOff` exclude `overlap`, `HeldValue` all three, and each
exclusion has been checked to be needed; `PinHolds` and `KnowsMixer` hold whatever
happens.

Time is an order: a readback (0.4 s after a move) and the end of a limit (2 s after a
write) come when no report is under way, that is, a report takes less than 0.4 s. Reports
are not lost. The knob is one of a channel: a section of the effects has an address of two
parts, for which no readback is made (`knobs.py:525-527`), and no property of
`KnowsMixer`'s kind holds of it. The value's write and `knob_values` are one step here,
since `KnobStream` has them apart. Companions other than the pinned one, values within
0.02 of the pinned one or within 0.01 of the end, knobs that do not resolve and group
members are left out.

### ClassicAim

The mixer has one selected row, one bank position and one submix, and every classic
address is relative to them. `mixer` is what it is; `state` is the `DeviceState` the
listener has put together from its dumps; `since` stands for the arrival counters: which
kinds of message came since the code last noted one. A channel's name is the set of
hardware channels its strip controls, so a stereo link makes one name of two, and two
layouts show the same channel under two names and at two strips.

A step's place is `pc`. Page 1 (`send`, `mute`): `AimsSend` and `AimsMute` floor the
bank and choose row and submix, `LabelSeen`, `Provokes`, `Candidate`, `Settled` are the
waits of `_resolve_page1_send` up to a match that has stopped streaming;
`WrongLabel`, `NoLabel`, `OtherRow`, `Unsettled`, `NotInBank` are how the waits fail. Page 2 (`detail`,
`enable`, `pulse`): `AimsPage2` floors the mirror and sends the offset, `Confirms`
compares the track name that comes back, `Misaimed` and `Unconfirmed` give up.
`ReadsEnable`, `ReadsFx`, `ButtonRead`, `ButtonUnknown`, `Sets`, `Pressed` are
`_set_button_state` over the edge-toggling client. `StepEnds`, `RowDirty`, `Finally` are
the restores of `run_macro`. `Probes`, `ShowsOutputs`, `ShowsInputs` are the other users
of the lock, `SweepAims` .. `SweepAborts` the part of a sweep that is at the mixer.

`wait_for` and `_handle` are modelled statement by statement: look, register, look
again, sleep, unregister; ingest, copy the waiters, evaluate, wake. A wait may time out
whenever it likes.

| mishap | what goes wrong |
|---|---|
| `lost` | a datagram, either way |
| `early` | a wait runs out while an answer is under way |
| `late` | a read of page 2 or 3 is answered by an earlier dump |
| `moved` | a person moves row, bank, submix or links during a run |
| `blind` | nothing is heard, so the stored address is used as it is |
| `raised` | an exception ends a resolution |

Each has been checked to be needed: allow one without taking it out of `calm` and a
property is violated by it. `ConfirmedWritesLand` needs less than calm: no lost datagram
and no exception misdirects a write on page 2. `WaitMissesNothing` needs nothing.

Left out: the wait of `probe_device` and of the live inputs, which does nothing after
it; the caches of the live names, which only decide that a toggle is not sent; the wait
for a snapshot switch, which is `SwitchBelief`'s; that waits end (they have timeouts).
Names denote channels for good within a run; that a name can pass to another channel is
`ChannelMap`'s subject.

### ChannelMap

`heap` holds the map objects of one run of the program, and `map` is the reference
`self.channel_map`. Whoever has taken the table (`obj`) or the map to be written (`cm`)
keeps that object when the web replaces the reference; `buf` is what stands in a private
temporary file. A channel may show no name, or "n.a." (`NoName`): such an observation
teaches nothing (`Taught`), yet a sweep marks its row as measured all the same, and prunes
the legacy structures on the word of both rows. So "measured" does not mean that every
channel is known; what it does mean is in `MeasuredIsComplete`: every channel was read,
and those that showed a name are known by it. To state that, the record behind `source`
also keeps what the sweep read of the row (`read`), which the code does not keep and no
action looks at. The web (`WebSaves`, `WebCopies`, `WebCopied`, then `WebLoads`,
`WebMigrates`; these two also start the program), the name sync (`HearsName`,
`HearsStereo`, `SyncDrains` .. `SyncPersists`), a run that has confirmed an aim
(`AimConfirms` .. `AimPersists`) and the sweep (`StartSweep` .. `SweepDone`) are the four
threads; `_persist_channel_map_file` (`Locks`, `Dumps`, `DumpRaises`, `WriteFails`,
`Replaces`) is shared by all. `Dumps` mixes old and new rows, because `json.dump` walks a
map that others write. `Crash` ends the program anywhere.

| mishap | what goes wrong |
|---|---|
| `crossed` | a web save comes between another thread's taking the map and its use: the thread puts the old map back; or a sweep gives a table to a map that was loaded and not yet migrated (`Early`), which then is never migrated |
| `behind` | a save of a map older than what the table has learned takes that knowledge away |
| `untabled` | names are drained while the map has no table to learn them |
| `wiped` | a sweep resets a row that was renamed after it was measured: the newer name goes |
| `reused` | a name passes from one channel to another, and aliases only accumulate |
| `unflagged` | something is learned after the first sweep was written, before the map ceases to count as the example: it is not written |
| `halfway` | another thread writes the table while the sweep fills it |
| `failed` | a write fails |
| `torn` | a crash while the example is copied, which is not atomic |

Every property names the mishaps it does not stand, and each such exclusion was checked
to be needed, but two that need a third operation (`torn` of `SavedIsKept`, `wiped` of
`AimsRight`), beyond this run's bound.

Bounds, besides `MaxOps`: one mishap per behaviour, and nothing is begun after it; the
Global remote reports one channel (`Fed`), and values that a later one has overtaken are
not delivered; a sweep measures a row in one step. `WebLoads` is one step for three
assignments of `_load_channel_map`: the file is read, the map is assigned, then
whether it is the example (`channel_map.py:27-29`). Whoever takes the map between the
last two is in `crossed` already, as it is between the load and the migration.

What these exclusions leave uncovered is a good part of three hazards, because the code
does go wrong there: a save in the short window between a thread's taking the map and its
use (`crossed`; the half minute of a sweep is covered), names drained while there is no
table (`untabled`; the mirroring of pairs is covered), and names that pass from one
channel to another (`reused`; pairs that are linked and unlinked are covered).

## 3. Runs

| run | instance | shows |
|---|---|---|
| `macro_engine` | 2 threads; macros in mode queue, restart (debounced, with target), ignore (forced switch); 3 triggers; 1 value per operation | types, `OneRunPerMacro`, `SuppressCountsRuns`, `NoOrphanedTrigger`, `CancelIffReplaced`, `DeviceExclusion`, no deadlock; under fairness `EveryRunEnds`, `QueuedIsServed`; `ImplementsFireModes` |
| `macro_refire_dropped` | 3 threads, 2 macros, 3 triggers | finding: `RefireIsNeverDropped` is violated |
| `switch_belief` | 2 threads, 2 workspaces, 2 snapshots, macros with and without a snapshot or a target, every source, losses, 3 commands | types, `DeviceLockExact`, `GenuineCommands`, `CalmSteps`, `LayoutHeld` |
| `switch_skips_wrongly` | macros alone, 3 of them, no loss | finding: `SkipOnlyOnTarget` is violated |
| `switch_feed_drives` | macros, feed, user | finding: `FeedNeverDrives` is violated |
| `switch_command_dropped` | macros, MQTT commands | finding: `MidMacroCommandWaits` is violated |
| `duck_engine` | levels 0..2, depth 2, every mishap, 3 moves | `NoSendStuck`, `BaseIsHuman`, `ReleaseReturns` |
| `knob_stream` | a browser, MQTT, 2 timers, 2 values, both scopes, queue of 2, 3 moves, readbacks that come early (`slow`) | `NeverDropsFinal`, `FinalValueKept`, `FinalValueShown` |
| `knob_echo_stuck` | a send, 3 moves | finding: `EchoArrives` is violated |
| `knob_section` | a web socket and a recalling thread, 2 positions; a knob with a section switch, with an off end too, with a pinned companion; 2 moves, 2 acts of others, every mishap | `PlayedIsOn`, `ParkedIsOff`, `PinHolds`, `HeldValue`, `KnowsMixer` |
| `classic_aim` | 3 channels, the first two linked or not, 2 submixes, 11 macros of up to 3 steps that cover every kind, present and absent targets; one run, one hand, every mishap | types, `WritesLandOnTarget`, `ConfirmedWritesLand`, `ButtonSet`, `RestsAtHome`, `WaitMissesNothing`, `RefusesOnlyAbsent`, `SweepLearnsTruth` |
| `channel_map` | 2 channels in 2 rows, linked, unlinked, exchanged or one without a name; no file or a half-measured one; 2 operations among saves, sweeps, aims, relinks and crashes; every mishap | `FileWhole`, `SavedIsKept`, `SweepKept`, `RestartChangesNothing`, `NamesLearned`, `AimsRight`, `MeasuredIsComplete` |

**Bounds.** `MaxTriggers` and `MaxCommands` bound the calls from outside in one
behaviour; nothing else is cut off. Two threads let one execute while the other waits
for the device, queues or re-fires; three triggers are a run, its queued successor and
the one that overwrites it. (The safety properties were also checked with three
threads, without the liveness ones, and are proved for any number.) One value per operation
separates "cancelled before", "cancelled after" and "played out". Three commands
in `SwitchBelief` are enough for a macro, a switch and an interference between
them (a restart, a click, a hand, a replay); two workspaces and two snapshots for
"right", "wrong" and "unknown". Three moves of a duck are a move, an echo or an edit
between, and another move; three levels are silence, a ducked and an unducked level,
and the depth reaches silence. Three moves of a knob are a value that is broadcast and two that are
throttled, before and after the timer is armed, by one writer or by two; a queue of two
overflows with three frames under way; the second timer is
the one that is armed while the first is past cancelling. The browsers do not
influence each other but by the values they send, so one that drags and another
writer show what two browsers would. Two moves of a `KnobSection` knob are one to the end and one off it, or two that overlap
with a recall's assertion; two acts of others are a recall and a hand at the switch.
(The conjuncts of its invariants were also checked on all eight kinds of knob.)
Three channels with one link move the third
channel to another strip; one run suffices for
what a run leaves behind, as the next begins wherever a person may also have put the
mixer. Two operations on the channel map are a thread's work and the one it meets. The
proofs remove all these bounds from the
invariants.

**Deadlock** is checked for `MacroEngine`: time and the belief always move. The
other configurations turn it off because a behaviour may really come
to rest: once its commands are spent, no message is under way and all threads are
idle, or once the duck engine has been stopped or a knob has settled, nothing is left to do.

**Symmetry** in `switch_belief` permutes threads, workspaces and snapshots:
they enter the specification only through equality, the run has no liveness
property, and `LayoutHeld` mentions no particular element. `knob_stream` permutes
timers and values for the same reason.

**Fairness** (`FairSpec`, only of `MacroEngine`). Weak fairness for every started
thread, because the operating system runs it and every wait under the lock has a
timeout; weak fairness for the debounce windows, because time passes. No fairness
for triggers, exceptions, commands or belief. A Python lock does not queue its
waiters, so `Acquire` gets no more than weak fairness: that every run ends
nevertheless rests on the finite number of triggers.

## 4. Theorems

Checked by TLAPS, for all values of the constants that satisfy
`ConfigAssumption`, `SwitchAssumption`, `DuckAssumption`, `KnobAssumption`,
`SectionAssumption`, `AimAssumption` or `MapAssumption`. These say that the `CONSTANT`s have their types and that `None` is not a
thread, a workspace, a snapshot, a level, a value, a submix, a map or a name;
`AimAssumption` also that a layout's strips stand side by side, none of them empty, with
every channel in one of them, that the table places a name at one of the name's own
channels, that a step that aims by name has one, and that a sweep is not mixed with steps.
`RecordAssumption` says of the file there is at first, of the uploads and of the example
that this program wrote them when no mishap had happened: what counts as measured is
complete, and who is found at several offsets belongs to the first. Without it nothing
could be said of a map a person has edited; the program itself never gives it up
unnoticed, which is what `AimsRight` and `MeasuredIsComplete` say.

`MacroEngineProofs`
: `Invariance`, `Typing`, `AtMostOneRun`, `SuppressionExact`, `NoTriggerStranded`,
  `CancelMeansReplaced`, `OneDeviceUser`, `Refinement`. The invariants lean on one
  another: a trigger is not stranded because the macro it waits for is registered,
  which says something only if a registered macro has exactly one thread, which is
  also what makes the counter the number of threads. The counter theorem counts a
  finite set that changes by one element per step (`FiniteSetTheorems`). The
  refinement adds what the abstract guard needs: a re-firing thread carries a
  trigger that is neither executing nor pending, since arrival numbers are fresh.

`SwitchBeliefProofs`
: `Invariance`, `Typing`, `LockExact`, `NoFalseCommand`, `StepsOnTarget`,
  `NoSwitchUnderneath`. `GenuineCommands` is not inductive: `MacroEchoCovered` adds
  that a message of a macro is only in the broker while suppression or cooldown
  lasts. `StepsOnTarget` is a theorem about the calm, as section 2 lists it, and says
  nothing of any other time. `CalmSteps` needs what every thread in the middle of its
  sends knows of the device and the belief (`SendersPlaced`), that in the calm nobody is
  beside a click but macros without a target (`ClicksApart`), that a thread has what
  it is about to send (`AskedFits`), and above all `ConfirmedIsTrue`: in the calm a
  confirmed belief is what the device shows, unless somebody is between its sends.
  `NoSwitchUnderneath` is an action
  property: it follows from `DeviceLockExact` and the guards on the lock.

`DuckEngineProofs`
: `Invariance`, `Typing`, `NothingStuck`, `BaseFollows`, `ReleaseIsExact`. The heart is
  `FaderExplained`: in calm, a fader that is not where a person put it was lowered
  from there by the engine, and the entry says from where and by how much. What is
  under way then is the fader as it is (`LatestIsFader`, `PendingIsFader`), so a
  report that is news and not near the last write can only be a person's
  (`NewsIsFader`); and a base that lags behind has the person's level on its way
  (`BaseCatchesUp`).

`KnobStreamProofs`
: `Invariance`, `Typing`, `FinalValueTold`, `OrderInvariance`, `TimeInvariance`,
  `FinalValueInBroker`, `FinalValueOnScreen`. The invariant is `StillToTell`: a value that
  was not told has a thread that has yet to build a frame. A caller who finds a timer
  armed leaves its value to that timer, so a registered timer must not be past
  building (`TrailingIsPending`), although any flush and any caller takes off
  whichever timer is registered. It holds whatever mishaps there are.
  The other two are for any number of browsers, callers and timers and any length of the
  queues. As long as no threads met and no hand was hidden (`Ordered`), what is about to
  be published or sent is of the
  last value, or a thread will read again (`PublishesLast`, `SendsLast`); the value the
  bridge reads is TotalMix's, unless a caller is between its datagram and its store
  (`BridgeLags`); a report that a write has outdated is recorded as pushed before
  everybody is idle (`StaleIsPushed`), so that the watcher pushes only what TotalMix still
  has (`WatcherTells`). So the right value is under way to the broker or has come
  (`StateComes`), however early a readback fires: it changes nothing but the report,
  and that to what TotalMix has. Without mishaps (`Timely`) it also comes as the last frame
  of every queue (`FrameComes`), where dropping the
  oldest frame does no harm. A knob with a readback is shown by a frame that is no echo
  (`ReadbackDue`); a knob without one may leave a browser waiting, which is what the
  exception in `FinalValueShown`, and finding 5, are about.

`KnobSectionProofs`
: `Typing`, `BridgeKnows`, `PinsHold`, `ParksOff`, `PlaysOn`, `HoldsValue`. `ViewInv` says
  that as long as no readback is due, what has been heard and what is under way end with
  what the mixer is (`Agrees`): a write of the bridge's own, which would break this,
  leaves a readback due before its call ends. From it follows `BridgeKnows`, and that a
  move that finds everything told does not see a thing on that is off (`NoTrue`), and
  never comes to until somebody turns it on (`NoTrueKept`). `PinInv`, `OnInv` and
  `OffInv` then follow that thing through the call: while it is not as it should be,
  some thread is at a place from which it will be written, and nothing can stop it
  there. For the switch this needs that the memo says where the value is (`MemoInv`),
  so that leaving the end is a crossing even if the feedback is stale, and that only one
  thread is in `knob_set` (`Alone`). `HeldInv` follows the value from the look at it to
  its assertion.

`ClassicAimProofs`
: `Typing`, `NothingMissed`, `ConfirmedLands`, `ButtonsSet`, `RestPosition`,
  `SweepLearns`. `AimInv` follows the answer to a question: it is under way, or has been
  heard, until the run has taken it (`Staged`, `Pending`), and what a fresh answer says is
  what the mixer still is, since only a mishap moves it in between (`Aimed`,
  `EnableHeard`, `FxHeard`). A calm wait for an answer therefore does not run out
  (`AnswerComes`), and a set button was flipped exactly when it had to be
  (`PressFlips`). `BankHome`, `RowHome`, `DirtyUntilAfter` say where the run still owes a
  restore. The sweep asks the same question again and again; there the argument is the
  order of the answers, old before fresh (`InOrder`, `SweepTold`).

`ClassicStripProofs`
: `WritesLand`, `RefusesAbsent`. On page 1 the mixer is not asked, it is listened to. What
  is under way are dumps, each its values and then its names (`Paired`), of which the last
  is of the mixer as it is (`LastTrue`); once the last one is in, so is what the listener
  has stored of the bank it shows (`HeardTrue`). `StripInv` carries this through the
  waits: a match that has stopped streaming was found in the bank that the mixer shows
  (`StripAimed`, `StripTrue`), and that is where the write acts. A refusal
  comes of a search that found nothing in the bank the mixer shows; on page 1 that bank
  is the first, which shows every strip, as strips stand in order and are no more than the
  channels (`FewStrips`, `HomeShowsAll`); on page 2 the track that answered is that of the
  offset asked for (`TrackAimed`), so a refusal there is the table's.

`ChannelMapProofs`
: `Typing`, `FileIsWhole`, `SavesKept`, `AimsFindTheirs`, `SweptIsKept`,
  `MeasuredComplete`, `AllNamesLearned`, `RestartsSame`. `SaveInv`: nobody holds a map
  while the web replaces it, unless the two have crossed (`OneAtATime`), so whatever is
  about to be written (`ToWrite`) or stands in a temporary file (`Writing`) is of the save
  in use, and so is the file whenever the web is not between its write and its reload
  (`InFile`, `InUse`). It needs `FileIsWhole`, because a torn file is read as an empty
  map. That steps of the table never change which save a map stems from is a lemma on
  the heap (`HeapSteps`).
  `AimsFindTheirs` says that no unrelated strip is accepted where the table says a name
  is; of what a confirmed aim then records it says nothing. It needs that in every map on the heap, in every buffer and in the file a
  name is first found at an offset of its own (`Sound`), through migration, aliases and
  resets, and that what was heard or measured says so too (`HeardSound`, `SeenSound`).
  The other four rest on `Together`: unless a save crosses a thread, every thread works on
  the map in use, its table and walks included, and what is dumped is of that map. Then
  what a sweep has measured is in the table, or in hand while it fills a row (`Kept`);
  what counts as measured was read and has the names that were read, but for the row
  that is being rewritten (`CompleteBut`, `Owed`, `AllComplete`); every reported name is in the table, or in the sync's hands
  (`AllLearned`); and the file has what is in use, or somebody still has to write it
  (`Dirty`, `InStep`), which a restart must not find. These four speak of different
  places: `SweptIsKept` of the map in use and the file, at the moment a sweep is about to
  report that it is done and of no later one; `MeasuredComplete` of the file; `AllNamesLearned`
  of the map in use, once no report is under way; `RestartsSame` of both, when nobody is
  at work.

Every conjunct of the inductive invariants was checked by TLC on the instances
of section 3 before it was proved. The types of `DuckEngine`, `KnobStream`,
`ChannelMap` and `KnobSection` are not checked again in their runs, since `Typing` is
proved for each.

Every invariant that a run checks is also a theorem. Only model-checked: liveness
(`EveryRunEnds`, `QueuedIsServed`) under fairness, which is beyond the prover, and of
course the violations.

## 5. Findings

1. **A re-fired trigger meets the debounce window of its own predecessor**
   (`macros.py:175`), so `queue` and `restart` with `debounce_ms` lose the trigger
   that `docs/config.md:51-52` promises to fire.
2. **A confirmed workspace load confirms a snapshot nobody recalled**: by a macro whose
   snapshot is missing or not in the map (`macros.py:263-282`), or by MQTT
   (`mqtt_handler.py:160`). The next macro skips its switch although
   `macros.py:216-218` calls that what must not happen.
3. **The snapshot feed drives the device** (`switching.py:288`): the publish is not
   marked, returns as a command and recalls the snapshot, which the docstring
   calls belief for display only.
4. **A command that lands while a macro runs is dropped, not delayed**
   (`mqtt_handler.py:227`), unlike what `_run_switch`'s docstring says.
5. **A browser may wait for ever for its echo** (`app.js:173`): when somebody else writes
   the knob in the same throttle window, the trailing flush carries the other value and
   the browser drops it, and every later one of the stream, as behind its own; a knob on a
   send has no readback to end this. The comment, `app.js:163-164`, says the trailing
   broadcast "guarantees the matching echo arrives".
Met while modelling, and part of what `DuckEngine`, `KnobSection`, `ClassicAim` and
`ChannelMap` do, without a run of their own:

* A duck starts from a report that its own bridge has outdated (`duck_engine.py:246`): a
  knob moved before the duck's first tick, or while it was off, is not reported (re-send
  OFF) and not seeded (no entry), so the duck works from and releases to the level
  before, although `duck_engine.py:21` says "the device's fader IS the base until we
  write" (mishap `stale`).
* A recall that turns a held knob's section off may leave it off (`knobs.py:207`, and `264`
  for the companion): held knobs are asserted as soon as the recall has been answered, and
  if the recall's own reports have not come in by then, the feedback still says "on" and
  nothing is written. The comment, `knobs.py:561-565`, says memo and throttles are
  forgotten "so the OFF end / enable / pins are written again, not just the value". (The
  off end is: `ParksOff`.)
* A classic write of an output's volume or pan (row 3) never resolves: its strips are
  filed under `_outputs` (`osc_listener.py:132-133`) and looked up under the current
  submix (`transport.py:305`). `RefusesOnlyAbsent` excepts it.
* An exception inside a resolution leaves the bank scrolled (`macros.py:448-452`; mishap
  `raised`).
* A skipped step (`continue`, `macros.py:465`) leaves the bank scrolled until the next
  step that aims, or the `finally`; a raw step after a step on row 2 or 3 plays on that row.
* A listener that has heard nothing yet lets a write use the stored address unconfirmed
  (mishap `blind`).
* Aliases only accumulate, so after two channels have exchanged names the table accepts
  either name for either channel, although `physical_table.py:59-67` says unrelated strips
  never cross-match (mishap `reused`).
* The web writes the file without `_persist_lock` (`config.py:66-69`): a persist that
  overlaps puts the old map back (mishap `crossed`).
* Names drained while the map has no table are gone (mishap `untabled`), and so is a newer
  name of a row that a sweep resets (`wiped`).
* A sweep marks a row as measured, and prunes the legacy structures, whether or not its
  channels showed a name (`channel_map.py:219-222`, `physical_table.py:74-75`): what the
  legacy structures alone knew of a nameless channel is gone with them.

## 6. Plan

Done: `MacroEngine`, `SwitchBelief`, `DuckEngine`, `KnobStream`, `KnobSection`,
`ClassicAim`, `ChannelMap`. What would come next:

1. The Global path of a step: a name resolved against a cache that a dump renews.
2. An abstract specification of the duck (the fader is the person's level less the
   reduction), and `DuckEngine` shown to implement it in calm; a second send, so that an
   edited target can be asked about.
3. `Agent`: pending values against a refresh of the bindings; running status and 14-bit
   controllers against a reference parser.
4. `MidiOwner`: claims, heartbeats and expiry.
5. `Bridge`: macros, switches, aims and ducks composed on one device lock.

## 7. Not modelled

The MIDI agent (`src/agent`, a program of its own in C) and its platform layers; members of a
knob's group, and knobs that do not resolve; the
Global path of a step (name resolution and the Global dump); ownership of the MIDI bridge
and its time to live; start and stop of the listeners; floating-point conversions
(`global_units.py`, the curves of `operations.py`); strip statistics and levels of the
listener; parsing of titles and of configuration; the transport that is torn down after the ducks
have been restored, and the 1.5 s that `stop_global_osc` waits for them; hot reload of `mappings.json`;
discovery, logging, monitor; the browser but for its knob cards; packaging and tools.
Each is listed in `PROJECT.json` with its reason. Liveness and recursion are out of the
prover's reach and stay with TLC; no module declares a recursive operator.
