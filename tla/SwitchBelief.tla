---------------------------- MODULE SwitchBelief ----------------------------
(***************************************************************************)
(* Who moves the mixer between workspaces and snapshots, and what the      *)
(* bridge believes afterwards: the switch block of run_macro, the          *)
(* click-to-switch of switch_to, MQTT workspace/snapshot commands with the *)
(* echoes and retained replays of the bridge's own publishes, the title    *)
(* report of the agent and the snapshot feed of TotalMix.                  *)
(*                                                                         *)
(* A workspace stands for its slot and name, a snapshot for its number and *)
(* name (the snapshot map relates the two one to one); a number absorbed   *)
(* before its workspace is known is Placeholder(s).  Which macro may run,  *)
(* and its steps, are MacroEngine's subject: here a macro is its target,   *)
(* of which the snapshot, or both parts, may be missing.                   *)
(***************************************************************************)
EXTENDS Naturals, Sequences

CONSTANTS
  Threads,      \* threads of macros, clicks and MQTT switches
  Workspaces,
  Snapshots,
  None,
  Sources,      \* who acts: a subset of AllSources
  Lossy,        \* whether a datagram to the device may be lost
  MaxCommands   \* bound: commands, user actions, restarts in one behaviour

AllSources == {"macro", "click", "mqtt", "agent", "feed", "user", "restart",
               "reconnect"}

ASSUME SwitchAssumption ==
  /\ Sources \subseteq AllSources
  /\ Lossy \in BOOLEAN
  /\ MaxCommands \in Nat
  /\ None \notin Workspaces \cup Snapshots \cup Threads

VARIABLES
  pc,         \* where each thread is
  op,         \* what each thread was asked: target and origin of the request
  reached,    \* whether the thread's last datagram reached the device
  lock,       \* holder of _device_lock, or None
  cooling,    \* less than 2.5 s since _last_macro_end_time
  device,     \* what the mixer shows
  belief,     \* current_workspace, current_snapshot
  confirmed,  \* state_confirmed
  parked,     \* _retained_snapshot_num, or None
  slot,       \* device_snapshot_slot
  reported,   \* name in workspace_report, or None
  marks,      \* _own_retained_republish: per topic a payload, or None
  broker,     \* messages on their way to on_message
  retained,   \* per topic the value the broker retains, or None
  title,      \* workspace in a heartbeat on its way to report_workspace
  heard,      \* the snapshot in the listener's copy of the feed, or None
  commands,   \* commands so far
  calm        \* no mishap since a macro last switched both (see CalmSteps)

threadVars == <<pc, op, reached>>
beliefVars == <<belief, confirmed, parked, slot, reported>>
mqttVars   == <<marks, broker, retained>>
newsVars   == <<title, heard>>
vars == <<threadVars, lock, cooling, device, beliefVars, mqttVars, newsVars,
          commands, calm>>

Topics == {"workspace", "snapshot"}

Placeholder(s) == <<s>>

MacroLocations == {"macroLock", "macroLoaded", "macroRecalled", "macroSteps"}

\* Where a thread holds _device_lock between two of its steps.
MacroHolds == MacroLocations \ {"macroLock"}
HoldsLock  == MacroHolds \cup {"loaded", "recalled"}

MqttLocations == {"loadLock", "loaded", "recallLock", "recalled"}

Locations == MacroLocations \cup MqttLocations \cup
  {"idle", "clickLock", "clickLoaded", "clickWaiting", "clickRecalled"}

\* _suppress_handler: the counter is exact (MacroEngine, SuppressCountsRuns).
Suppressing == \E t \in Threads : pc[t] \in MacroLocations

\* Where a thread has just commanded the device.
JustSent == {"macroLoaded", "macroRecalled", "clickLoaded", "clickRecalled",
             "loaded", "recalled"}

\* Who asked: a source, or one of the bridge's own publishes.
Origins == AllSources \cup {"marked", "replay"}

Devices == [ws : Workspaces, snap : Snapshots]

NoOp == [ws |-> None, snap |-> None, origin |-> None]

-----------------------------------------------------------------------------
Init ==
  /\ pc = [t \in Threads |-> "idle"]
  /\ op = [t \in Threads |-> NoOp]
  /\ reached = [t \in Threads |-> FALSE]
  /\ lock = None
  /\ cooling = FALSE
  /\ device \in Devices
  /\ belief = [ws |-> None, snap |-> None]
  /\ confirmed = FALSE
  /\ parked = None
  /\ slot = None
  /\ reported = None
  /\ marks = [tp \in Topics |-> None]
  /\ broker = <<>>
  /\ retained = [tp \in Topics |-> None]
  /\ title = None
  /\ heard = None
  /\ commands = 0
  /\ calm = TRUE

-----------------------------------------------------------------------------
(* The device, the broker, the lock.                                       *)

\* Between the sends of a click, nobody holds the lock for it.
ClickUnderWay == {"clickLoaded", "clickWaiting", "clickRecalled"}

NoClickBeside(t) == \A u \in Threads \ {t} : pc[u] \notin ClickUnderWay

\* A datagram; the calm is over when it is lost.
Arrives(t, d, calmly) ==
  \/ /\ device' = d
     /\ reached' = [reached EXCEPT ![t] = TRUE]
     /\ calm' = calmly
  \/ /\ Lossy
     /\ reached' = [reached EXCEPT ![t] = FALSE]
     /\ calm' = FALSE
     /\ UNCHANGED device

\* /loadQuickWorkspace: the workspace brings the mixer it was saved with.
Load(t, calmly) ==
  \E s \in Snapshots : Arrives(t, [ws |-> op[t].ws, snap |-> s], calmly)

\* /3/snapshots/<row>/1
Recall(t, calmly) == Arrives(t, [device EXCEPT !.snap = op[t].snap], calmly)

\* _wait_device on /1/labelSubmix: any dump since the command satisfies it, the
\* one caused by a hand in TotalMix too.  No answer in time is a "no".
LoadAnswers(t) == {b \in BOOLEAN : b => reached[t] \/ "user" \in Sources}

\* _wait_device on the recalled snapshot's own button.
RecallAnswers(t) == {b \in BOOLEAN : b => reached[t]}

Message(tp, v, from) == [topic |-> tp, value |-> v, origin |-> from]

\* publish(..., retain=True), as every subscriber sees it, the bridge too.
Publish(tp, v, from) ==
  /\ broker' = Append(broker, Message(tp, v, from))
  /\ retained' = [retained EXCEPT ![tp] = v]

MarkMutant(tp, v) == [any \in Topics |-> v]

\* _mark_own_republish: one mark per topic, the latest.
Mark(tp, v) == [marks EXCEPT ![tp] = v]

PublishMarked(tp, v) ==
  /\ marks' = Mark(tp, v)
  /\ Publish(tp, v, "marked")

Counted(source) ==
  /\ source \in Sources
  /\ commands < MaxCommands
  /\ commands' = commands + 1

Goto(t, from, to) ==
  /\ pc[t] = from
  /\ pc' = [pc EXCEPT ![t] = to]

\* The thread's function returns, and its locals are gone.
Return(t, from) ==
  /\ Goto(t, from, "idle")
  /\ op' = [op EXCEPT ![t] = NoOp]
  /\ reached' = [reached EXCEPT ![t] = FALSE]

TakeLockMutant(t) == lock' = t

TakeLock(t) == lock = None /\ lock' = t

Asked(t, w, s, from) ==
  op' = [op EXCEPT ![t] = [ws |-> w, snap |-> s, origin |-> from]]

-----------------------------------------------------------------------------
(* run_macro's switch block.                                               *)

\* A workspace and a snapshot of it, the workspace alone, or neither: a name
\* the snapshot map does not have is as good as none.
Targets == (Workspaces \X (Snapshots \cup {None})) \cup {<<None, None>>}

Macro(t, target) ==
  /\ Counted("macro")
  /\ Goto(t, "idle", "macroLock")
  /\ Asked(t, target[1], target[2], "macro")
  /\ UNCHANGED <<reached, lock, cooling, device, beliefVars, mqttVars, newsVars,
                 calm>>

OnTargetMutant(t) == confirmed /\ belief.ws = op[t].ws

OnTarget(t) ==
  /\ confirmed
  /\ None \notin {op[t].ws, op[t].snap}
  /\ belief = [ws |-> op[t].ws, snap |-> op[t].snap]

MacroSkips(t) ==
  /\ Goto(t, "macroLock", "macroSteps")
  /\ TakeLock(t)
  /\ OnTarget(t)
  /\ calm' = (calm /\ NoClickBeside(t))
  /\ UNCHANGED <<op, reached, cooling, device, beliefVars, mqttVars, newsVars,
                 commands>>

\* Off target for want of a target: there is nothing to send.
MacroHasNoTarget(t) ==
  /\ Goto(t, "macroLock", "macroSteps")
  /\ TakeLock(t)
  /\ op[t].ws = None
  /\ UNCHANGED <<op, reached, cooling, device, beliefVars, mqttVars, newsVars,
                 commands, calm>>

\* Off target, or with force_switch, which does not look.
MacroLoads(t) ==
  /\ Goto(t, "macroLock", "macroLoaded")
  /\ TakeLock(t)
  /\ op[t].ws # None
  /\ Load(t, op[t].snap # None /\ NoClickBeside(t))
  /\ belief' = [belief EXCEPT !.ws = op[t].ws]
  /\ Publish("workspace", op[t].ws, "macro")
  /\ UNCHANGED <<op, cooling, confirmed, parked, slot, reported, marks, newsVars,
                 commands>>

\* The wait for the workspace ends; the snapshot follows whatever its answer.
MacroRecalls(t) ==
  /\ Goto(t, "macroLoaded", "macroRecalled")
  /\ op[t].snap # None
  /\ confirmed' \in LoadAnswers(t)
  /\ Recall(t, calm)
  /\ belief' = [belief EXCEPT !.snap = op[t].snap]
  /\ Publish("snapshot", op[t].snap, "macro")
  /\ UNCHANGED <<op, lock, cooling, parked, slot, reported, marks, newsVars,
                 commands>>

\* The wait ends, and no snapshot follows: current_snapshot stays as it was,
\* beside a workspace that brought one of its own.
MacroStays(t) ==
  /\ Goto(t, "macroLoaded", "macroSteps")
  /\ op[t].snap = None
  /\ confirmed' \in LoadAnswers(t)
  /\ reached' = [reached EXCEPT ![t] = FALSE]
  /\ UNCHANGED <<op, lock, cooling, device, belief, parked, slot, reported,
                 mqttVars, newsVars, commands, calm>>

MacroConfirms(t) ==
  /\ Goto(t, "macroRecalled", "macroSteps")
  /\ confirmed' \in RecallAnswers(t)
  /\ reached' = [reached EXCEPT ![t] = FALSE]
  /\ UNCHANGED <<op, lock, cooling, device, belief, parked, slot, reported,
                 mqttVars, newsVars, commands, calm>>

CooldownMutant == cooling

\* self._last_macro_end_time = time.time()
Cooldown == TRUE

PublishedAgain(tp, v) == IF v = None THEN <<>> ELSE <<Message(tp, v, "macro")>>

\* The steps are played; what the target names is published once more, the lock
\* is released, and the cooldown starts.
MacroEnds(t) ==
  /\ Return(t, "macroSteps")
  /\ broker' = broker \o PublishedAgain("workspace", op[t].ws)
                      \o PublishedAgain("snapshot", op[t].snap)
  /\ retained' = [tp \in Topics |->
       LET v == IF tp = "workspace" THEN op[t].ws ELSE op[t].snap
       IN  IF v = None THEN retained[tp] ELSE v]
  /\ lock' = None
  /\ cooling' = Cooldown
  /\ UNCHANGED <<device, beliefVars, marks, newsVars, commands, calm>>

\* ws_ss_blocked: off target while another macro is registered.
MacroBlocked(t) ==
  /\ Return(t, "macroLock")
  /\ lock = None
  /\ ~OnTarget(t)
  /\ \E u \in Threads \ {t} : pc[u] \in MacroLocations
  /\ cooling' = Cooldown
  /\ UNCHANGED <<lock, device, beliefVars, mqttVars, newsVars, commands,
                 calm>>

\* 2.5 s have passed: longer than the broker takes to echo a publish.
CooldownEnds ==
  /\ cooling
  /\ \A i \in DOMAIN broker : broker[i].origin \in {"mqtt", "replay"}
  /\ cooling' = FALSE
  /\ UNCHANGED <<threadVars, lock, device, beliefVars, mqttVars, newsVars,
                 commands, calm>>

-----------------------------------------------------------------------------
(* switch_to: the lock is held for each send, and not in between; it leaves *)
(* state_confirmed alone.                                                   *)

\* s = None: the workspace alone.
Click(t, w, s) ==
  /\ Counted("click")
  /\ Goto(t, "idle", "clickLock")
  /\ Asked(t, w, s, "click")
  /\ UNCHANGED <<reached, lock, cooling, device, beliefVars, mqttVars,
                 newsVars, calm>>

ClickLoads(t) ==
  /\ Goto(t, "clickLock", "clickLoaded")
  /\ lock = None
  /\ Load(t, calm /\ op[t].snap # None /\ NoClickBeside(t))
  /\ UNCHANGED <<op, lock, cooling, beliefVars, mqttVars, newsVars,
                 commands>>

ClickBelieves(t) ==
  /\ IF op[t].snap = None
       THEN Return(t, "clickLoaded")
       ELSE /\ Goto(t, "clickLoaded", "clickWaiting")
            /\ reached' = [reached EXCEPT ![t] = FALSE]
            /\ UNCHANGED op
  /\ belief' = [belief EXCEPT !.ws = op[t].ws]
  /\ Publish("workspace", op[t].ws, "click")
  /\ UNCHANGED <<lock, cooling, device, confirmed, parked, slot, reported,
                 marks, newsVars, commands, calm>>

ClickRecalls(t) ==
  /\ Goto(t, "clickWaiting", "clickRecalled")
  /\ lock = None
  /\ Recall(t, calm)
  /\ UNCHANGED <<op, lock, cooling, beliefVars, mqttVars, newsVars,
                 commands>>

ClickEnds(t) ==
  /\ Return(t, "clickRecalled")
  /\ belief' = [belief EXCEPT !.snap = op[t].snap]
  /\ Publish("snapshot", op[t].snap, "click")
  /\ UNCHANGED <<lock, cooling, device, confirmed, parked, slot, reported,
                 marks, newsVars, commands, calm>>

-----------------------------------------------------------------------------
(* on_message: the first message of the broker, in the order of the code's  *)
(* early returns.                                                           *)

Commanded(tp, v) ==
  /\ Counted("mqtt")
  /\ broker' = Append(broker, Message(tp, v, "mqtt"))
  /\ UNCHANGED <<threadVars, lock, cooling, device, beliefVars, marks,
                 retained, newsVars, calm>>

Received == broker # <<>> /\ broker' = Tail(broker)
Msg      == Head(broker)
Replayed == Msg.origin = "replay"
OwnEcho  == ~Replayed /\ marks[Msg.topic] = Msg.value

DropsEcho ==
  /\ Received
  /\ OwnEcho
  /\ marks' = [marks EXCEPT ![Msg.topic] = None]
  /\ UNCHANGED <<threadVars, lock, cooling, device, beliefVars, retained,
                 newsVars, commands, calm>>

Suppresses ==
  /\ Received
  /\ ~OwnEcho
  /\ Suppressing \/ cooling
  /\ UNCHANGED <<threadVars, lock, cooling, device, beliefVars, marks,
                 retained, newsVars, commands, calm>>

Heard == Received /\ ~OwnEcho /\ ~Suppressing /\ ~cooling

AbsorbsWorkspace ==
  /\ Heard
  /\ Replayed
  /\ Msg.topic = "workspace"
  /\ belief' = [ws |-> Msg.value,
                snap |-> IF parked = None THEN belief.snap ELSE parked]
  /\ parked' = None
  /\ confirmed' = FALSE
  /\ UNCHANGED <<threadVars, lock, cooling, device, slot, reported, marks,
                 retained, newsVars, commands, calm>>

AbsorbsSnapshot ==
  /\ Heard
  /\ Replayed
  /\ Msg.topic = "snapshot"
  /\ IF belief.ws = None
       THEN /\ belief' = [belief EXCEPT !.snap = Placeholder(Msg.value)]
            /\ parked' = Msg.value
       ELSE /\ belief' = [belief EXCEPT !.snap = Msg.value]
            /\ UNCHANGED parked
  /\ confirmed' = FALSE
  /\ UNCHANGED <<threadVars, lock, cooling, device, slot, reported, marks,
                 retained, newsVars, commands, calm>>

AlreadyActive == Msg.topic = "workspace" /\ Msg.value = belief.ws /\ confirmed

IgnoresActive ==
  /\ Heard
  /\ ~Replayed
  /\ AlreadyActive
  /\ UNCHANGED <<threadVars, lock, cooling, device, beliefVars, marks,
                 retained, newsVars, commands, calm>>

CommandMutant == ~AlreadyActive

\* Only a live delivery moves the device.
Command == ~Replayed /\ ~AlreadyActive

\* _run_switch: a thread of its own.
StartsSwitch(t) ==
  /\ Heard
  /\ Command
  /\ IF Msg.topic = "workspace"
       THEN /\ Goto(t, "idle", "loadLock")
            /\ Asked(t, Msg.value, None, Msg.origin)
       ELSE /\ Goto(t, "idle", "recallLock")
            /\ Asked(t, None, Msg.value, Msg.origin)
  /\ UNCHANGED <<reached, lock, cooling, device, beliefVars, marks, retained,
                 newsVars, commands, calm>>

SwitchLoads(t) ==
  /\ Goto(t, "loadLock", "loaded")
  /\ TakeLock(t)
  /\ Load(t, FALSE)
  /\ UNCHANGED <<op, cooling, beliefVars, mqttVars, newsVars, commands>>

ReleaseMutant == UNCHANGED lock

Release == lock' = None

\* Refreshes the retained belief, when the device confirmed the switch.
Refreshes(tp, v) ==
  IF confirmed' THEN PublishMarked(tp, v) ELSE UNCHANGED mqttVars

LoadEnds(t) ==
  /\ Return(t, "loaded")
  /\ confirmed' \in LoadAnswers(t)
  /\ belief' = [belief EXCEPT !.ws = op[t].ws]
  /\ Refreshes("workspace", op[t].ws)
  /\ Release
  /\ UNCHANGED <<cooling, device, parked, slot, reported, newsVars, commands,
                 calm>>

SwitchRecalls(t) ==
  /\ Goto(t, "recallLock", "recalled")
  /\ TakeLock(t)
  /\ Recall(t, calm /\ NoClickBeside(t))
  /\ UNCHANGED <<op, cooling, beliefVars, mqttVars, newsVars, commands>>

RecallEnds(t) ==
  /\ Return(t, "recalled")
  /\ confirmed' \in RecallAnswers(t)
  /\ belief' = [belief EXCEPT !.snap = IF belief.ws = None
                                         THEN Placeholder(op[t].snap)
                                         ELSE op[t].snap]
  /\ Refreshes("snapshot", op[t].snap)
  /\ Release
  /\ calm' = (calm /\ (confirmed' => confirmed))
  /\ UNCHANGED <<cooling, device, parked, slot, reported, newsVars, commands>>

\* _own_retained_republish is good for 5 s: longer than an echo takes.
MarkExpires(tp) ==
  /\ marks[tp] # None
  /\ \A i \in DOMAIN broker : broker[i].topic # tp
  /\ marks' = [marks EXCEPT ![tp] = None]
  /\ UNCHANGED <<threadVars, lock, cooling, device, beliefVars, broker,
                 retained, newsVars, commands, calm>>

-----------------------------------------------------------------------------
(* What the bridge hears of the device: the agent's title, the feed.       *)

HeartbeatSent ==
  /\ Counted("agent")
  /\ title = None
  /\ title' = device.ws
  /\ UNCHANGED <<threadVars, lock, cooling, device, beliefVars, mqttVars, heard,
                 calm>>

\* report_workspace: refused by a held lock, a no-op in the steady state.
ReportIgnored ==
  /\ title # None
  /\ lock # None \/ (reported = title /\ belief.ws = title /\ confirmed)
  /\ title' = None
  /\ UNCHANGED <<threadVars, lock, cooling, device, beliefVars, mqttVars, heard,
                 commands, calm>>

ReportAdopted ==
  /\ title # None
  /\ lock = None
  /\ ~(reported = title /\ belief.ws = title /\ confirmed)
  /\ title' = None
  /\ reported' = title
  /\ belief' = [ws |-> title,
                snap |-> IF slot = None THEN belief.snap ELSE slot]
  /\ confirmed' = TRUE
  /\ PublishMarked("workspace", title)
  /\ calm' = (calm /\ title = device.ws /\ slot = device.snap)
  /\ UNCHANGED <<threadVars, lock, cooling, device, parked, slot, heard, commands>>

\* The listener takes in the Global feed; what it takes in may have ceased to hold
\* when it is looked at.  Bound: one report is under way at a time.
FeedReports ==
  /\ Counted("feed")
  /\ heard = None
  /\ heard' = device.snap
  /\ UNCHANGED <<threadVars, lock, cooling, device, beliefVars, mqttVars, title,
                 calm>>

\* _sync_snapshot_from_device, the 1 Hz look at that copy, when the slot, or whether
\* it counts as modified, has changed since the last: an unchanged copy does nothing.
FeedSeen ==
  /\ heard # None
  /\ heard' = None
  /\ slot' = heard
  /\ IF belief.ws # None /\ belief.snap # heard
       THEN /\ belief' = [belief EXCEPT !.snap = heard]
            /\ Publish("snapshot", heard, "feed")
       ELSE UNCHANGED <<belief, broker, retained>>
  /\ calm' = (calm /\ heard = device.snap)
  /\ UNCHANGED <<threadVars, lock, cooling, device, confirmed, parked,
                 reported, marks, title, commands>>

\* Somebody at the mixer.
UserMoves(d) ==
  /\ Counted("user")
  /\ d # device
  /\ device' = d
  /\ calm' = FALSE
  /\ UNCHANGED <<threadVars, lock, cooling, beliefVars, mqttVars, newsVars>>

-----------------------------------------------------------------------------
(* Losing the broker, losing the process.                                  *)

Replay(tp) ==
  IF retained[tp] = None THEN <<>>
                         ELSE <<Message(tp, retained[tp], "replay")>>

\* A new subscription: what was under way is gone, what is retained comes,
\* usually the snapshot first.
Subscribes ==
  broker' \in {Replay("snapshot") \o Replay("workspace"),
               Replay("workspace") \o Replay("snapshot")}

Reconnect ==
  /\ Counted("reconnect")
  /\ Subscribes
  /\ UNCHANGED <<threadVars, lock, cooling, device, beliefVars, marks,
                 retained, newsVars, calm>>

Restart ==
  /\ Counted("restart")
  /\ Subscribes
  /\ pc' = [t \in Threads |-> "idle"]
  /\ op' = [t \in Threads |-> NoOp]
  /\ reached' = [t \in Threads |-> FALSE]
  /\ lock' = None
  /\ cooling' = FALSE
  /\ belief' = [ws |-> None, snap |-> None]
  /\ confirmed' = FALSE
  /\ parked' = None
  /\ slot' = None
  /\ reported' = None
  /\ marks' = [tp \in Topics |-> None]
  /\ heard' = None
  /\ UNCHANGED <<device, retained, title, calm>>

-----------------------------------------------------------------------------
\* Every step of a thread that was started.
Advance(t) ==
  \/ MacroBlocked(t)
  \/ MacroSkips(t)
  \/ MacroHasNoTarget(t)
  \/ MacroLoads(t)
  \/ MacroRecalls(t)
  \/ MacroStays(t)
  \/ MacroConfirms(t)
  \/ MacroEnds(t)
  \/ ClickLoads(t)
  \/ ClickBelieves(t)
  \/ ClickRecalls(t)
  \/ ClickEnds(t)
  \/ SwitchLoads(t)
  \/ LoadEnds(t)
  \/ SwitchRecalls(t)
  \/ RecallEnds(t)

Next ==
  \/ \E t \in Threads, target \in Targets : Macro(t, target)
  \/ \E t \in Threads, w \in Workspaces, s \in Snapshots \cup {None} :
       Click(t, w, s)
  \/ \E t \in Threads : Advance(t) \/ StartsSwitch(t)
  \/ \E w \in Workspaces : Commanded("workspace", w)
  \/ \E s \in Snapshots : Commanded("snapshot", s)
  \/ DropsEcho
  \/ Suppresses
  \/ AbsorbsWorkspace
  \/ AbsorbsSnapshot
  \/ IgnoresActive
  \/ CooldownEnds
  \/ \E tp \in Topics : MarkExpires(tp)
  \/ HeartbeatSent
  \/ ReportIgnored
  \/ ReportAdopted
  \/ FeedReports
  \/ FeedSeen
  \/ \E d \in Devices : UserMoves(d)
  \/ Reconnect
  \/ Restart

Spec == Init /\ [][Next]_vars

-----------------------------------------------------------------------------
(* Properties.                                                             *)

Values(tp) == IF tp = "workspace" THEN Workspaces ELSE Snapshots

Messages ==
  {m \in [topic : Topics, value : Workspaces \cup Snapshots, origin : Origins] :
     m.value \in Values(m.topic)}

\* A payload per topic, or None.
Stores ==
  {f \in [Topics -> Workspaces \cup Snapshots \cup {None}] :
     \A tp \in Topics : f[tp] \in Values(tp) \cup {None}}

Ops == [ws : Workspaces \cup {None}, snap : Snapshots \cup {None},
        origin : Origins \cup {None}]

Beliefs ==
  [ws : Workspaces \cup {None},
   snap : Snapshots \cup {None} \cup {Placeholder(s) : s \in Snapshots}]

\* Every variable keeps its type; a payload stays in its own topic.
TypeOK ==
  /\ pc \in [Threads -> Locations]
  /\ op \in [Threads -> Ops]
  /\ reached \in [Threads -> BOOLEAN]
  /\ lock \in Threads \cup {None}
  /\ cooling \in BOOLEAN
  /\ device \in Devices
  /\ belief \in Beliefs
  /\ confirmed \in BOOLEAN
  /\ parked \in Snapshots \cup {None}
  /\ slot \in Snapshots \cup {None}
  /\ reported \in Workspaces \cup {None}
  /\ broker \in Seq(Messages)
  /\ marks \in Stores
  /\ retained \in Stores
  /\ title \in Workspaces \cup {None}
  /\ heard \in Snapshots \cup {None}
  /\ commands \in 0..MaxCommands
  /\ calm \in BOOLEAN

\* The device lock has the one holder that is inside, and whoever left is out:
\* a confirmed, an unconfirmed and a blocked switch all give it back.
DeviceLockExact ==
  \A t \in Threads : lock = t <=> pc[t] \in HoldsLock

\* #38: "a command landing mid-macro" never switches "the layout underneath its
\* remaining writes": between a macro's own switch and the end of its steps
\* nobody else sends a workspace or a snapshot.
LayoutHeld ==
  [][\A t, u \in Threads :
       t # u /\ pc[t] \in MacroHolds /\ pc'[u] \in JustSent
         => pc'[u] = pc[u]]_vars

\* An MQTT switch was asked for by somebody: the echo of a macro's publish and
\* the replay of a retained value never drive the device.
GenuineCommands ==
  \A t \in Threads :
    pc[t] \in MqttLocations => op[t].origin \notin {"macro", "replay"}

\* A macro with a workspace and a snapshot plays its steps on them, switched to
\* or skipped, whatever the macros, clicks, MQTT recalls, restarts, replays,
\* echoes and timely reports before and in between.  That is, as long as calm
\* lasts: since a macro last loaded a workspace for a snapshot (or since the
\* start), no datagram was lost and nobody touched the mixer, no workspace was
\* loaded without a snapshot, no title, slot or feed was adopted that is older
\* than what the mixer shows, no MQTT recall confirmed a belief that was not
\* confirmed before, and nobody took the lock, or clicked, in the middle of
\* somebody's click.
CalmSteps ==
  \A t \in Threads :
    calm /\ pc[t] = "macroSteps" /\ op[t].snap # None =>
      device = [ws |-> op[t].ws, snap |-> op[t].snap]

\* macros.py: "skipping the switch would leave the device on the wrong
\* snapshot": a macro skips its switch only when the device is on its target.
SkipOnlyOnTarget ==
  [][\A t \in Threads : MacroSkips(t) =>
       device = [ws |-> op[t].ws, snap |-> op[t].snap]]_vars

\* switching.py, _sync_snapshot_from_device: following a snapshot recalled in
\* TotalMix is "belief-for-display only", so it commands nothing.
FeedNeverDrives ==
  \A t \in Threads : pc[t] \in MqttLocations => op[t].origin # "feed"

\* mqtt_handler.py, _run_switch: "a command landing mid-macro waits for the
\* ramp": it is not dropped.
MidMacroCommandWaits ==
  [][Suppresses => Msg.origin # "mqtt"]_vars

=============================================================================
