----------------------------- MODULE KnobStream -----------------------------
(***************************************************************************)
(* One knob of tmosc/core/knobs.py and everybody who shows it: browsers    *)
(* that stream values over their WebSocket, MQTT, the device, a throttle   *)
(* with a trailing flush that decides who is told which value when, the    *)
(* bounded queue of each browser and the echo guard behind it (app.js).    *)
(* Nothing of it is under a lock.                                          *)
(*                                                                         *)
(* Time is a window: it is open while the last broadcast is younger than   *)
(* KNOB_BROADCAST_INTERVAL_S.  Threads that meet, a readback too early and *)
(* a hand on the fader at the wrong time are mishaps: an instance says     *)
(* which may happen, and `mishaps` which have.                             *)
(***************************************************************************)
EXTENDS Naturals, Sequences

CONSTANTS
  Browsers,
  Others,      \* other callers of knob_set: MQTT, a FIRE, held knobs
  Timers,      \* bound: trailing timers at a time
  Values,
  Scopes,      \* what the knob may be: "mix" has no readback, "channel" has
  None,
  QueueMax,    \* WS_QUEUE_MAX
  Mishaps,     \* a subset of AllMishaps
  MaxMoves     \* bound: values sent in one behaviour

AllMishaps ==
  {"overlap",  \* two threads write the knob, or tell of it, at once
   "slow",     \* a readback fires before its knob has settled
   "hidden"}   \* a move in TotalMix, during a write or to a value that was
               \* reported or pushed last

Callers == Browsers \cup Others
Procs   == Callers \cup Timers

ASSUME KnobAssumption ==
  /\ None \notin Values \cup Timers
  /\ Callers \cap Timers = {}
  /\ Scopes \subseteq {"mix", "channel"}
  /\ QueueMax \in Nat \ {0}
  /\ Mishaps \subseteq AllMishaps
  /\ MaxMoves \in Nat

VARIABLES
  scope,
  inbox,      \* values sent to the bridge, not yet read
  pc,         \* where each thread is
  arg,        \* value a caller was asked for
  got,        \* value a thread has read and not yet passed on
  stream,     \* whether a timer was armed by a browser's stream
  device,     \* the knob's target in TotalMix
  report,     \* what the Global listener has heard of it
  knobValue,  \* knob_values
  recent,     \* whether the window is open
  trailing,   \* _knob_trailing_timers
  readback,   \* _knob_readback_timers: whether one is armed
  reader,     \* where the readback that has fired is
  back,       \* value it has read
  pushed,     \* _knob_last_pushed
  watcher,    \* where the device watcher is
  seen,       \* report it has read
  state,      \* retained totalmix/knob/<name>/state
  queue,      \* frames on their way to each browser
  shown,      \* knob_value of each browser's card
  echo,       \* _knobEcho: last value a browser has sent
  moves,
  told,       \* value of the frame that was built last
  mishaps

threads   == <<pc, arg, got, stream>>
totalmix  == <<device, report>>
bridge    == <<knobValue, recent, trailing>>
reading   == <<readback, reader, back>>
watching  == <<pushed, watcher, seen>>
screens   == <<queue, shown, echo>>
vars == <<scope, inbox, threads, totalmix, bridge, reading, watching, state,
          screens, moves, told, mishaps>>

Known == Values \cup {None}

If(kind, happens) == IF happens THEN {kind} ELSE {}

Suffers(kinds) ==
  /\ kinds \subseteq Mishaps
  /\ mishaps' = mishaps \cup kinds

Without(kinds) == mishaps \cap kinds = {}

Goto(p, from, to) ==
  /\ pc[p] = from
  /\ pc' = [pc EXCEPT ![p] = to]

Init ==
  /\ scope \in Scopes
  /\ inbox = [c \in Callers |-> <<>>]
  /\ pc = [p \in Procs |-> "idle"]
  /\ arg = [c \in Callers |-> None]
  /\ got = [p \in Procs |-> None]
  /\ stream = [t \in Timers |-> FALSE]
  /\ device = None
  /\ report = None
  /\ knobValue = None
  /\ recent = FALSE
  /\ trailing = None
  /\ readback = FALSE
  /\ reader = "idle"
  /\ back = None
  /\ pushed = None
  /\ watcher = "idle"
  /\ seen = None
  /\ state = None
  /\ queue = [b \in Browsers |-> <<>>]
  /\ shown = [b \in Browsers |-> None]
  /\ echo = [b \in Browsers |-> None]
  /\ moves = 0
  /\ told = None
  /\ mishaps = {}

-----------------------------------------------------------------------------
(* Values on their way to the bridge, and moves in TotalMix.               *)

Counted == moves < MaxMoves /\ moves' = moves + 1

Sent(c, v) == inbox' = [inbox EXCEPT ![c] = Append(@, v)]

\* knobInput; _flushKnobs, whose 12 ms are left out: the card moves at once.
Drags(b, v) ==
  /\ Counted
  /\ Sent(b, v)
  /\ shown' = [shown EXCEPT ![b] = v]
  /\ echo' = [echo EXCEPT ![b] = v]
  /\ UNCHANGED <<scope, threads, totalmix, bridge, reading, watching, state,
                 queue, told, mishaps>>

Commands(c, v) ==
  /\ Counted
  /\ Sent(c, v)
  /\ UNCHANGED <<scope, threads, totalmix, bridge, reading, watching, state,
                 screens, told, mishaps>>

\* Something the bridge has written is on its way to those who show it.
Busy == readback \/ reader # "idle" \/ \E p \in Procs : pc[p] # "idle"

MovesFader(v) ==
  /\ Counted
  /\ v # device
  /\ device' = v
  /\ report' = v
  /\ Suffers(If("hidden", Busy \/ v \in {report, pushed}))
  /\ UNCHANGED <<scope, inbox, threads, bridge, reading, watching, state,
                 screens, told>>

-----------------------------------------------------------------------------
(* knob_set.                                                               *)

\* TotalMix does not report what the bridge writes.
Writes(c) ==
  /\ inbox[c] # <<>>
  /\ Goto(c, "idle", "store")
  /\ arg' = [arg EXCEPT ![c] = Head(inbox[c])]
  /\ inbox' = [inbox EXCEPT ![c] = Tail(@)]
  /\ device' = Head(inbox[c])
  /\ Suffers(If("overlap", \/ watcher # "idle"
                           \/ \E d \in Callers : pc[d] = "store"))
  /\ UNCHANGED <<scope, got, stream, report, bridge, reading, watching, state,
                 screens, moves, told>>

\* The readback of the settled knob starts anew.
Stores(c) ==
  /\ Goto(c, "store", "check")
  /\ knobValue' = arg[c]
  /\ arg' = [arg EXCEPT ![c] = None]
  /\ readback' = (scope = "channel")
  /\ UNCHANGED <<scope, inbox, got, stream, totalmix, recent, trailing, reader,
                 back, watching, state, screens, moves, told, mishaps>>

\* Mutant: a throttled value is not told.
ThrottledMutant(c) ==
  /\ recent
  /\ Goto(c, "check", "idle")
  /\ UNCHANGED <<scope, inbox, arg, got, stream, totalmix, bridge, reading,
                 watching, state, screens, moves, told, mishaps>>

Throttled(c) ==
  /\ recent
  /\ Goto(c, "check", "arm")
  /\ UNCHANGED <<scope, inbox, arg, got, stream, totalmix, bridge, reading,
                 watching, state, screens, moves, told, mishaps>>

\* "one armed already; it reads live state when it fires"
AlreadyArmed(c) ==
  /\ trailing # None
  /\ Goto(c, "arm", "idle")
  /\ UNCHANGED <<scope, inbox, arg, got, stream, totalmix, bridge, reading,
                 watching, state, screens, moves, told, mishaps>>

NoneArmed(c) ==
  /\ trailing = None
  /\ Goto(c, "arm", "register")
  /\ UNCHANGED <<scope, inbox, arg, got, stream, totalmix, bridge, reading,
                 watching, state, screens, moves, told, mishaps>>

\* After the end of the window the delay is 10 ms.
Registers(c, t) ==
  /\ pc[c] = "register"
  /\ pc[t] = "idle"
  /\ pc' = [pc EXCEPT ![c] = "idle", ![t] = IF recent THEN "armed" ELSE "late"]
  /\ stream' = [stream EXCEPT ![t] = c \in Browsers]
  /\ trailing' = t
  /\ UNCHANGED <<scope, inbox, arg, got, totalmix, knobValue, recent, reading,
                 watching, state, screens, moves, told, mishaps>>

Unthrottled(c) ==
  /\ ~recent
  /\ Goto(c, "check", "claim")
  /\ UNCHANGED <<scope, inbox, arg, got, stream, totalmix, bridge, reading,
                 watching, state, screens, moves, told, mishaps>>

Pending == {"armed", "late"}

\* A timer that has fired is past cancelling.
Claims(c) ==
  /\ pc[c] = "claim"
  /\ pc' = [p \in Procs |->
              IF p = c THEN "stamp"
              ELSE IF p = trailing /\ pc[p] \in Pending THEN "idle"
              ELSE pc[p]]
  /\ trailing' = None
  /\ UNCHANGED <<scope, inbox, arg, got, stream, totalmix, knobValue, recent,
                 reading, watching, state, screens, moves, told, mishaps>>

-----------------------------------------------------------------------------
(* _flush, up to where it does what knob_set does.                         *)

Fires(t) ==
  /\ \/ Goto(t, "armed", "fired") /\ ~recent
     \/ Goto(t, "late", "fired")
  /\ Suffers(If("overlap", watcher # "idle"))
  /\ UNCHANGED <<scope, inbox, arg, got, stream, totalmix, bridge, reading,
                 watching, state, screens, moves, told>>

Pops(t) ==
  /\ Goto(t, "fired", "stamp")
  /\ trailing' = None
  /\ UNCHANGED <<scope, inbox, arg, got, stream, totalmix, knobValue, recent,
                 reading, watching, state, screens, moves, told, mishaps>>

-----------------------------------------------------------------------------
(* The broadcast, by a caller or by a timer.                               *)

InBroadcast == {"readState", "publish", "build", "broadcast"}

\* A timer that is still armed was meant for the end of the last window.
Stamps(p) ==
  /\ pc[p] = "stamp"
  /\ pc' = [q \in Procs |->
              IF q = p THEN "readState"
              ELSE IF pc[q] = "armed" THEN "late" ELSE pc[q]]
  /\ recent' = TRUE
  /\ pushed' = report
  /\ Suffers(If("overlap", \E q \in Procs : pc[q] \in InBroadcast))
  /\ UNCHANGED <<scope, inbox, arg, got, stream, totalmix, knobValue, trailing,
                 reading, watcher, seen, state, screens, moves, told>>

\* _mqtt_knob_state
ReadsState(p) ==
  /\ Goto(p, "readState", "publish")
  /\ got' = [got EXCEPT ![p] = knobValue]
  /\ UNCHANGED <<scope, inbox, arg, stream, totalmix, bridge, reading,
                 watching, state, screens, moves, told, mishaps>>

Publishes(p) ==
  /\ Goto(p, "publish", "build")
  /\ state' = got[p]
  /\ UNCHANGED <<scope, inbox, arg, got, stream, totalmix, bridge, reading,
                 watching, screens, moves, told, mishaps>>

Builds(p) ==
  /\ Goto(p, "build", "broadcast")
  /\ got' = [got EXCEPT ![p] = knobValue]
  /\ told' = knobValue
  /\ UNCHANGED <<scope, inbox, arg, stream, totalmix, bridge, reading,
                 watching, state, screens, moves, mishaps>>

Frame(v, s) == [value |-> v, stream |-> s]

\* Sources "midi", "api" and "ui": a frame of these may be an echo.
Stream(p) == IF p \in Timers THEN stream[p] ELSE p \in Browsers

\* Mutant: a full queue loses the new frame.
EnqueuedMutant(q, f) == IF Len(q) = QueueMax THEN q ELSE Append(q, f)

\* _ws_enqueue: a full queue loses its oldest frame.
Enqueued(q, f) == Append(IF Len(q) = QueueMax THEN Tail(q) ELSE q, f)

ToAll(f) == queue' = [b \in Browsers |-> Enqueued(queue[b], f)]

Broadcasts(p) ==
  /\ Goto(p, "broadcast", "idle")
  /\ ToAll(Frame(got[p], Stream(p)))
  /\ got' = [got EXCEPT ![p] = None]
  /\ UNCHANGED <<scope, inbox, arg, stream, totalmix, bridge, reading,
                 watching, state, shown, echo, moves, told, mishaps>>

WindowCloses ==
  /\ recent
  /\ recent' = FALSE
  /\ UNCHANGED <<scope, inbox, threads, totalmix, knobValue, trailing, reading,
                 watching, state, screens, moves, told, mishaps>>

-----------------------------------------------------------------------------
(* _schedule_knob_readback: _go.                                           *)

\* Four windows after the last value was stored.  The dump it asks for is
\* answered before the frame is built, or lost.  Bound: one at a time.
ReadbackFires ==
  /\ readback
  /\ reader = "idle"
  /\ readback' = FALSE
  /\ reader' = "dumped"
  /\ report' \in {device, report}
  /\ Suffers(If("slow", \/ recent
                        \/ \E p \in Procs : pc[p] \notin {"idle", "store"}))
  /\ UNCHANGED <<scope, inbox, threads, device, bridge, back, watching,
                 state, screens, moves, told>>

ReadbackBuilds ==
  /\ reader = "dumped"
  /\ reader' = "broadcast"
  /\ back' = knobValue
  /\ UNCHANGED <<scope, inbox, threads, totalmix, bridge, readback, watching,
                 state, screens, moves, told, mishaps>>

ReadbackBroadcasts ==
  /\ reader = "broadcast"
  /\ reader' = "idle"
  /\ ToAll(Frame(back, FALSE))
  /\ back' = None
  /\ UNCHANGED <<scope, inbox, threads, totalmix, bridge, readback, watching,
                 state, shown, echo, moves, told, mishaps>>

-----------------------------------------------------------------------------
(* _knob_watch_one, once a second.                                         *)

WatcherReads ==
  /\ watcher = "idle"
  /\ report # pushed
  /\ watcher' = "broadcast"
  /\ pushed' = report
  /\ seen' = report
  /\ Suffers(If("overlap", \E p \in Procs : pc[p] \notin {"idle"} \cup Pending))
  /\ UNCHANGED <<scope, inbox, threads, totalmix, bridge, reading, state,
                 screens, moves, told>>

\* A frame of the device: the card takes its device_value.
WatcherBroadcasts ==
  /\ watcher = "broadcast"
  /\ watcher' = "publish"
  /\ ToAll(Frame(seen, FALSE))
  /\ UNCHANGED <<scope, inbox, threads, totalmix, bridge, reading, pushed, seen,
                 state, shown, echo, moves, told, mishaps>>

\* Mutant: the broker is told the bridge's own value.
WatcherPublishesMutant ==
  /\ watcher = "publish"
  /\ watcher' = "idle"
  /\ state' = knobValue
  /\ seen' = None
  /\ UNCHANGED <<scope, inbox, threads, totalmix, bridge, reading, pushed,
                 screens, moves, told, mishaps>>

\* _mqtt_knob_state, which skips an echo of what it published last.
WatcherPublishes ==
  /\ watcher = "publish"
  /\ watcher' = "idle"
  /\ state' = seen
  /\ seen' = None
  /\ UNCHANGED <<scope, inbox, threads, totalmix, bridge, reading, pushed,
                 screens, moves, told, mishaps>>

-----------------------------------------------------------------------------
(* _onWSMessage, with the echo guard.                                      *)

\* Behind the browser's own stream.
StaleEcho(b, f) == echo[b] # None /\ f.stream /\ f.value # echo[b]

Shows(b) ==
  /\ queue[b] # <<>>
  /\ queue' = [queue EXCEPT ![b] = Tail(@)]
  /\ LET f == Head(queue[b])
     IN  /\ ~StaleEcho(b, f)
         /\ shown' = [shown EXCEPT ![b] = f.value]
         /\ echo' = [echo EXCEPT ![b] = None]
  /\ UNCHANGED <<scope, inbox, threads, totalmix, bridge, reading, watching,
                 state, moves, told, mishaps>>

Suppresses(b) ==
  /\ queue[b] # <<>>
  /\ StaleEcho(b, Head(queue[b]))
  /\ queue' = [queue EXCEPT ![b] = Tail(@)]
  /\ UNCHANGED <<scope, inbox, threads, totalmix, bridge, reading, watching,
                 state, shown, echo, moves, told, mishaps>>

-----------------------------------------------------------------------------
KnobSet(c) ==
  \/ Writes(c)
  \/ Stores(c)
  \/ Throttled(c)
  \/ AlreadyArmed(c)
  \/ NoneArmed(c)
  \/ \E t \in Timers : Registers(c, t)
  \/ Unthrottled(c)
  \/ Claims(c)

Broadcast(p) ==
  \/ Stamps(p)
  \/ ReadsState(p)
  \/ Publishes(p)
  \/ Builds(p)
  \/ Broadcasts(p)

Readback == ReadbackFires \/ ReadbackBuilds \/ ReadbackBroadcasts

Watcher == WatcherReads \/ WatcherBroadcasts \/ WatcherPublishes

Next ==
  \/ \E v \in Values :
       \/ \E b \in Browsers : Drags(b, v)
       \/ \E c \in Others : Commands(c, v)
       \/ MovesFader(v)
  \/ \E c \in Callers : KnobSet(c)
  \/ \E t \in Timers : Fires(t) \/ Pops(t)
  \/ \E p \in Procs : Broadcast(p)
  \/ WindowCloses
  \/ Readback
  \/ Watcher
  \/ \E b \in Browsers : Shows(b) \/ Suppresses(b)

Spec == Init /\ [][Next]_vars

-----------------------------------------------------------------------------
(* Properties.                                                             *)

CallerAt == {"idle", "store", "check", "arm", "register", "claim", "stamp"}
              \cup InBroadcast
TimerAt  == {"idle", "fired", "stamp"} \cup Pending \cup InBroadcast

\* Every variable keeps its type.
TypeOK ==
  /\ scope \in Scopes
  /\ inbox \in [Callers -> Seq(Values)]
  /\ pc \in [Procs -> CallerAt \cup TimerAt]
  /\ \A c \in Callers : pc[c] \in CallerAt
  /\ \A t \in Timers : pc[t] \in TimerAt
  /\ arg \in [Callers -> Known]
  /\ got \in [Procs -> Known]
  /\ stream \in [Timers -> BOOLEAN]
  /\ device \in Known /\ report \in Known
  /\ knobValue \in Known /\ state \in Known /\ told \in Known
  /\ back \in Known /\ pushed \in Known /\ seen \in Known
  /\ recent \in BOOLEAN /\ readback \in BOOLEAN /\ mishaps \subseteq Mishaps
  /\ trailing \in Timers \cup {None}
  /\ reader \in {"idle", "dumped", "broadcast"}
  /\ watcher \in {"idle", "broadcast", "publish"}
  /\ queue \in [Browsers -> Seq([value : Known, stream : BOOLEAN])]
  /\ shown \in [Browsers -> Known] /\ echo \in [Browsers -> Known]
  /\ moves \in 0..MaxMoves

\* "a knob stream must NEVER drop its final value": once no caller and no timer
\* is under way, the last frame was built from the last value; whatever
\* mishaps there were.
NeverDropsFinal ==
  (\A p \in Procs : pc[p] = "idle") => told = knobValue

\* No value is on its way, to or from the bridge.
Settled ==
  /\ \A c \in Callers : inbox[c] = <<>>
  /\ ~Busy
  /\ report = pushed /\ watcher = "idle"
  /\ \A b \in Browsers : queue[b] = <<>>

\* The broker ends with the value TotalMix has, whoever wrote the knob in which
\* order, and however early a readback came.
FinalValueKept ==
  Without({"overlap", "hidden"}) /\ Settled => state = device

\* Without mishaps every browser ends with the value TotalMix has, however far
\* its queue was behind, unless it still waits for the echo of its own.
FinalValueShown ==
  mishaps = {} /\ Settled /\ device # None =>
    \A b \in Browsers : \/ shown[b] = device
                        \/ scope = "mix" /\ echo[b] \notin {None, device}

\* "the server's trailing-edge broadcast guarantees the matching echo arrives".
EchoArrives ==
  Settled => \A b \in Browsers : echo[b] = None

=============================================================================
