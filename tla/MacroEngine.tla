---------------------------- MODULE MacroEngine ----------------------------
(***************************************************************************)
(* The macro engine of tmosc/core/macros.py: run_macro as it is entered    *)
(* concurrently by web requests, MQTT triggers and its own re-fire         *)
(* threads.  A call passes the fire-mode guard (atomic, _macro_lock),      *)
(* waits for the device lock, decides whether the workspace/snapshot must  *)
(* be switched or the run skipped, plays its steps, and cleans up (atomic, *)
(* _macro_lock), possibly spawning one re-fire of a queued trigger.        *)
(*                                                                         *)
(* A trigger's parameter is represented by the trigger's arrival number    *)
(* (1, 2, ...): two triggers are told apart, and the newer one is known.   *)
(***************************************************************************)
EXTENDS Naturals, Sequences, FiniteSets

CONSTANTS
  Threads,      \* threads that may be inside run_macro at the same time
  Macros,       \* macro names of mappings.json
  FireMode,     \* per macro: "ignore", "queue" or "restart"
  Debounced,    \* macros with debounce_ms > 0
  ForceSwitch,  \* macros with force_switch = true
  Target,       \* per macro: its workspace/snapshot pair, or NoTarget
  NoTarget,
  Body,         \* per macro: its steps, each "static" or "operation"
  MaxTicks,     \* values an operation sends before it parks
  MaxTriggers,  \* bound: external triggers in one behaviour
  NoThread

ASSUME ConfigAssumption ==
  /\ FireMode \in [Macros -> {"ignore", "queue", "restart"}]
  /\ Debounced \subseteq Macros
  /\ ForceSwitch \subseteq Macros
  /\ Body \in [Macros -> Seq({"static", "operation"})]
  /\ MaxTicks \in Nat
  /\ MaxTriggers \in Nat
  /\ Macros # {}
  /\ NoThread \notin Threads
  /\ IsFiniteSet(Threads)

VARIABLES
  pc,         \* where each thread is in run_macro
  mac,        \* the macro_name argument of each thread's call
  par,        \* the param argument of each thread's call (arrival number)
  step,       \* index of the step being played
  tick,       \* values sent by the current operation
  cancel,     \* whether the run's threading.Event is set, per run's thread
  running,    \* _running_macros
  eventOf,    \* _cancel_events: the thread that owns the event, or NoThread
  queued,     \* _queued_params: arrival number, or 0 when the key is absent
  suppress,   \* _suppress_count
  device,     \* holder of _device_lock, or NoThread
  window,     \* macros whose debounce window is open (last_trigger is recent)
  current,    \* (current_workspace, current_snapshot) as one belief
  confirmed,  \* state_confirmed
  arrivals,   \* number of external triggers so far
  started     \* per macro, the param of the run registered last (0: none)

callVars   == <<mac, par>>
bodyVars   == <<step, tick>>
macroVars  == <<running, eventOf, queued, suppress>>
beliefVars == <<current, confirmed>>
vars == <<pc, callVars, bodyVars, cancel, macroVars, device, window,
          beliefVars, arrivals, started>>

Locations == {"idle", "refire", "waiting", "decide", "switch", "steps",
              "report", "finally"}

\* Between registration and cleanup: the run counts in _suppress_count.
Registered == {"waiting", "decide", "switch", "steps", "report", "finally"}

\* Inside `with self._device_lock`.
HoldsDevice == {"decide", "switch", "steps", "report"}

Targets == {Target[m] : m \in Macros} \ {NoTarget}

\* The argument of a thread that has not called yet is immaterial.
AnyMacro == CHOOSE m \in Macros : TRUE

-----------------------------------------------------------------------------
Init ==
  /\ pc = [t \in Threads |-> "idle"]
  /\ mac = [t \in Threads |-> AnyMacro]
  /\ par = [t \in Threads |-> 0]
  /\ step = [t \in Threads |-> 1]
  /\ tick = [t \in Threads |-> 0]
  /\ cancel = [t \in Threads |-> FALSE]
  /\ running = {}
  /\ eventOf = [m \in Macros |-> NoThread]
  /\ queued = [m \in Macros |-> 0]
  /\ suppress = 0
  /\ device = NoThread
  /\ window = {}
  /\ current = NoTarget
  /\ confirmed = FALSE
  /\ arrivals = 0
  /\ started = [m \in Macros |-> 0]

-----------------------------------------------------------------------------
(* The fire-mode guard: one critical section of _macro_lock.  An operator   *)
(* named ...Mutant is a mistaken form of the one after it: it takes that    *)
(* one's place to show that a property notices.                             *)

FreeMutant(m) == TRUE

\* No execution of the macro is registered.
Free(m) == m \notin running

FreshEventMutant(t) == cancel

\* cancel_event = threading.Event()
FreshEvent(t) == [cancel EXCEPT ![t] = FALSE]

Dropped(t) ==
  /\ pc' = [pc EXCEPT ![t] = "idle"]
  /\ UNCHANGED <<callVars, bodyVars, cancel, macroVars, device, window,
                 beliefVars, started>>

\* Already running, mode "ignore": the trigger is gone.
Ignore(t, m) ==
  /\ m \in running
  /\ FireMode[m] = "ignore"
  /\ Dropped(t)

\* Already running, mode "queue" or "restart": the param replaces whatever was
\* queued; "restart" also sets the running call's event.
Queue(t, m, n) ==
  /\ m \in running
  /\ FireMode[m] \in {"queue", "restart"}
  /\ queued' = [queued EXCEPT ![m] = n]
  /\ cancel' = IF FireMode[m] = "restart" /\ eventOf[m] # NoThread
                 THEN [cancel EXCEPT ![eventOf[m]] = TRUE]
                 ELSE cancel
  /\ pc' = [pc EXCEPT ![t] = "idle"]
  /\ UNCHANGED <<callVars, bodyVars, running, eventOf, suppress, device,
                 window, beliefVars, started>>

\* Inside the post-completion debounce window: the trigger is gone.
Debounce(t, m) ==
  /\ Free(m)
  /\ m \in window
  /\ Dropped(t)

\* The call becomes the running execution of m, with a fresh event.
Register(t, m, n) ==
  /\ Free(m)
  /\ m \notin window
  /\ suppress' = suppress + 1
  /\ eventOf' = [eventOf EXCEPT ![m] = t]
  /\ cancel' = FreshEvent(t)
  /\ running' = running \cup {m}
  /\ mac' = [mac EXCEPT ![t] = m]
  /\ par' = [par EXCEPT ![t] = n]
  /\ started' = [started EXCEPT ![m] = n]
  /\ pc' = [pc EXCEPT ![t] = "waiting"]
  /\ UNCHANGED <<bodyVars, queued, device, window, beliefVars>>

Guard(t, m, n) ==
  \/ Ignore(t, m)
  \/ Queue(t, m, n)
  \/ Debounce(t, m)
  \/ Register(t, m, n)

\* A web request or an MQTT message starts run_macro(m).  What precedes the
\* guard is local to the thread, so the call and its guard are one step.
Trigger(t, m) ==
  /\ pc[t] = "idle"
  /\ arrivals < MaxTriggers
  /\ arrivals' = arrivals + 1
  /\ Guard(t, m, arrivals + 1)

\* The thread spawned by an earlier run's cleanup reaches the guard.
Refire(t) ==
  /\ pc[t] = "refire"
  /\ Guard(t, mac[t], par[t])
  /\ UNCHANGED arrivals

-----------------------------------------------------------------------------
(* Under the device lock.                                                  *)

DeviceFreeMutant == TRUE

DeviceFree == device = NoThread

Acquire(t) ==
  /\ pc[t] = "waiting"
  /\ DeviceFree
  /\ device' = t
  /\ pc' = [pc EXCEPT ![t] = "decide"]
  /\ UNCHANGED <<callVars, bodyVars, cancel, macroVars, window, beliefVars,
                 arrivals, started>>

AlreadyOnTarget(m) ==
  /\ confirmed
  /\ Target[m] # NoTarget
  /\ current = Target[m]

OtherRunning == Cardinality(running) > 1

Blocked(m) == ~AlreadyOnTarget(m) /\ m \notin ForceSwitch /\ OtherRunning

LeaveMutant(t) ==
  /\ device' = device
  /\ pc' = [pc EXCEPT ![t] = "finally"]

\* Leaving `with self._device_lock` for the finally block.
Leave(t) ==
  /\ device' = NoThread
  /\ pc' = [pc EXCEPT ![t] = "finally"]

\* ws_ss_blocked: the run is skipped before it sends anything.
SkipBlocked(t) ==
  /\ pc[t] = "decide"
  /\ Blocked(mac[t])
  /\ Leave(t)
  /\ UNCHANGED <<callVars, bodyVars, cancel, macroVars, window, beliefVars,
                 arrivals, started>>

\* The belief matches the target and is confirmed: no switch is sent.
SkipSwitch(t) ==
  /\ pc[t] = "decide"
  /\ ~Blocked(mac[t])
  /\ AlreadyOnTarget(mac[t])
  /\ mac[t] \notin ForceSwitch
  /\ pc' = [pc EXCEPT ![t] = "steps"]
  /\ UNCHANGED <<callVars, bodyVars, cancel, macroVars, device, window, beliefVars,
                 arrivals, started>>

\* The workspace and snapshot sends: the belief moves at once, the device is
\* then waited for.  A macro without workspace and snapshot sends nothing.
SendSwitch(t) ==
  /\ pc[t] = "decide"
  /\ ~Blocked(mac[t])
  /\ mac[t] \in ForceSwitch \/ ~AlreadyOnTarget(mac[t])
  /\ current' = IF Target[mac[t]] = NoTarget THEN current ELSE Target[mac[t]]
  /\ pc' = [pc EXCEPT ![t] = "switch"]
  /\ UNCHANGED <<callVars, bodyVars, cancel, macroVars, device, window,
                 confirmed, arrivals, started>>

\* The wait ends: confirmed by feedback, or timed out.
SwitchDone(t) ==
  /\ pc[t] = "switch"
  /\ \/ Target[mac[t]] # NoTarget /\ confirmed' \in BOOLEAN
     \/ Target[mac[t]] = NoTarget /\ UNCHANGED confirmed
  /\ pc' = [pc EXCEPT ![t] = "steps"]
  /\ UNCHANGED <<callVars, bodyVars, cancel, macroVars, device, window, current,
                 arrivals, started>>

AtStep(t, kind) ==
  /\ pc[t] = "steps"
  /\ step[t] \in DOMAIN Body[mac[t]]
  /\ Body[mac[t]][step[t]] = kind

StaticStep(t) ==
  /\ AtStep(t, "static")
  /\ step' = [step EXCEPT ![t] = @ + 1]
  /\ UNCHANGED <<pc, callVars, tick, cancel, macroVars, device, window,
                 beliefVars, arrivals, started>>

ValuesLeftMutant(t) == tick[t] <= MaxTicks

ValuesLeft(t) == tick[t] < MaxTicks

\* One value of a ramp or LFO, sent after the event was read as clear.
OperationTick(t) ==
  /\ AtStep(t, "operation")
  /\ ~cancel[t]
  /\ ValuesLeft(t)
  /\ tick' = [tick EXCEPT ![t] = @ + 1]
  /\ UNCHANGED <<pc, callVars, step, cancel, macroVars, device, window,
                 beliefVars, arrivals, started>>

\* The operation parks: played out, or its event was seen set.
OperationEnd(t) ==
  /\ AtStep(t, "operation")
  /\ cancel[t] \/ ~ValuesLeft(t)
  /\ step' = [step EXCEPT ![t] = @ + 1]
  /\ tick' = [tick EXCEPT ![t] = 0]
  /\ UNCHANGED <<pc, callVars, cancel, macroVars, device, window,
                 beliefVars, arrivals, started>>

StepsDone(t) ==
  /\ pc[t] = "steps"
  /\ step[t] \notin DOMAIN Body[mac[t]]
  /\ pc' = [pc EXCEPT ![t] = "report"]
  /\ UNCHANGED <<callVars, bodyVars, cancel, macroVars, device, window,
                 beliefVars, arrivals, started>>

\* Home Assistant sync, fire record and live state; last_trigger opens the
\* debounce window of the macro.
Report(t) ==
  /\ pc[t] = "report"
  /\ Leave(t)
  /\ window' = IF mac[t] \in Debounced THEN window \cup {mac[t]} ELSE window
  /\ UNCHANGED <<callVars, bodyVars, cancel, macroVars, beliefVars,
                 arrivals, started>>

\* An exception anywhere under the device lock (a send that raises, a macro
\* deleted while it runs) unwinds to the same finally block.
Raise(t) ==
  /\ pc[t] \in HoldsDevice
  /\ Leave(t)
  /\ UNCHANGED <<callVars, bodyVars, cancel, macroVars, window, beliefVars,
                 arrivals, started>>

CountdownMutant == 0

\* max(0, self._suppress_count - 1)
Countdown == IF suppress = 0 THEN 0 ELSE suppress - 1

PoppedMutant(m) == queued

\* self._queued_params.pop(macro_name, None)
Popped(m) == [queued EXCEPT ![m] = 0]

AfterCleanupMutant(m) == "idle"

\* A popped trigger gets a thread of its own, which is represented by the
\* thread that spawned it.
AfterCleanup(m) == IF queued[m] = 0 THEN "idle" ELSE "refire"

\* The finally block: one critical section of _macro_lock, then the re-fire.
Cleanup(t) ==
  LET m == mac[t] IN
  /\ pc[t] = "finally"
  /\ suppress' = Countdown
  /\ eventOf' = [eventOf EXCEPT ![m] = NoThread]
  /\ running' = running \ {m}
  /\ queued' = Popped(m)
  /\ par' = [par EXCEPT ![t] = queued[m]]
  /\ pc' = [pc EXCEPT ![t] = AfterCleanup(m)]
  /\ step' = [step EXCEPT ![t] = 1]
  /\ tick' = [tick EXCEPT ![t] = 0]
  /\ UNCHANGED <<mac, cancel, device, window, beliefVars, arrivals, started>>

-----------------------------------------------------------------------------
(* What happens around the macros.                                         *)

\* debounce_ms has passed since last_trigger.
WindowCloses(m) ==
  /\ m \in window
  /\ window' = window \ {m}
  /\ UNCHANGED <<pc, callVars, bodyVars, cancel, macroVars, device,
                 beliefVars, arrivals, started>>

\* An MQTT workspace/snapshot command switches under the device lock; NoTarget
\* stands for a slot that resolves to no name of mappings.json.
OtherSwitch(g) ==
  /\ DeviceFree
  /\ current' = g
  /\ confirmed' \in BOOLEAN
  /\ UNCHANGED <<pc, callVars, bodyVars, cancel, macroVars, device, window,
                 arrivals, started>>

\* The belief also moves outside the lock: the tail of switch_to, a snapshot
\* recalled in TotalMix, a retained delivery.  The last one unconfirms it.
BeliefMoves(g) ==
  /\ current' = g
  /\ confirmed' \in {confirmed, FALSE}
  /\ UNCHANGED <<pc, callVars, bodyVars, cancel, macroVars, device, window,
                 arrivals, started>>

\* Every step of a call but its entry.
Advance(t) ==
  \/ Refire(t)
  \/ Acquire(t)
  \/ SkipBlocked(t)
  \/ SkipSwitch(t)
  \/ SendSwitch(t)
  \/ SwitchDone(t)
  \/ StaticStep(t)
  \/ OperationTick(t)
  \/ OperationEnd(t)
  \/ StepsDone(t)
  \/ Report(t)
  \/ Raise(t)
  \/ Cleanup(t)

Next ==
  \/ \E t \in Threads, m \in Macros : Trigger(t, m)
  \/ \E t \in Threads : Advance(t)
  \/ \E m \in Macros : WindowCloses(m)
  \/ \E g \in Targets \cup {NoTarget} : OtherSwitch(g) \/ BeliefMoves(g)

Spec == Init /\ [][Next]_vars

\* A started thread is scheduled, and time passes.  Triggers and exceptions
\* owe nothing.  The device lock is only weakly fair: nothing in the code
\* queues its waiters.
Fairness ==
  /\ \A t \in Threads : WF_vars(Advance(t))
  /\ \A m \in Macros : WF_vars(WindowCloses(m))

FairSpec == Spec /\ Fairness

-----------------------------------------------------------------------------
(* Properties.                                                             *)

Active(m) == {t \in Threads : pc[t] \in Registered /\ mac[t] = m}

\* Every variable keeps its type; an operation never overruns its values and
\* only a macro with debounce_ms is ever debounced.
TypeOK ==
  /\ pc \in [Threads -> Locations]
  /\ mac \in [Threads -> Macros]
  /\ par \in [Threads -> Nat]
  /\ step \in [Threads -> Nat]
  /\ tick \in [Threads -> 0..MaxTicks]
  /\ cancel \in [Threads -> BOOLEAN]
  /\ running \in SUBSET Macros
  /\ eventOf \in [Macros -> Threads \cup {NoThread}]
  /\ queued \in [Macros -> Nat]
  /\ suppress \in Nat
  /\ device \in Threads \cup {NoThread}
  /\ window \in SUBSET Debounced
  /\ current \in Targets \cup {NoTarget}
  /\ confirmed \in BOOLEAN
  /\ arrivals \in 0..MaxTriggers
  /\ started \in [Macros -> Nat]

\* A macro has at most one execution at a time, _running_macros names exactly
\* the executing macros, and the registered event belongs to that execution.
OneRunPerMacro ==
  \A m \in Macros :
    /\ m \in running <=> eventOf[m] # NoThread
    /\ \A t \in Threads :
         (pc[t] \in Registered /\ mac[t] = m) <=> eventOf[m] = t

\* _suppress_handler stays true until the LAST concurrent macro is done: the
\* counter is the number of calls between registration and cleanup.
SuppressCountsRuns ==
  suppress = Cardinality({t \in Threads : pc[t] \in Registered})

\* No trigger is parked in _queued_params with nobody left to pop it.
NoOrphanedTrigger ==
  \A m \in Macros : queued[m] # 0 => m \in running

\* An execution that was told to stop has a replacement waiting, and in restart
\* mode a waiting replacement has told its predecessor to stop: an event left
\* over from an earlier execution never cuts a later one short.
CancelIffReplaced ==
  \A t \in Threads : pc[t] \in Registered =>
    (cancel[t] <=> FireMode[mac[t]] = "restart" /\ queued[mac[t]] # 0)

\* Switch and steps of two macros never interleave: the device lock has one
\* holder, and whoever is inside holds it.
DeviceExclusion ==
  \A t \in Threads : pc[t] \in HoldsDevice <=> device = t

\* Every execution ends: nobody waits for the device lock for ever, whatever
\* is cancelled, queued or raised meanwhile.
EveryRunEnds ==
  \A m \in Macros : m \in running ~> m \notin running

\* A queued trigger is executed or replaced by another trigger; it may only be
\* lost to the debounce window.
QueuedIsServed ==
  \A m \in Macros \ Debounced, n \in 1..MaxTriggers :
    queued[m] = n ~> started[m] = n \/ queued[m] \notin {0, n}

\* The engine keeps the promise of FireModes: a macro is executing while it is
\* in _running_macros, a queued param is pending, and a re-fire thread carries
\* a handed-over trigger.
FM == INSTANCE FireModes WITH
  Triggers <- 1..MaxTriggers,
  executing <- [m \in Macros |-> IF m \in running THEN started[m] ELSE 0],
  pending <- queued,
  handed <- [m \in Macros |->
               {par[t] : t \in {u \in Threads : pc[u] = "refire" /\ mac[u] = m}}]

\* Every behaviour of the engine is one of FireModes.
ImplementsFireModes == FM!Spec

\* docs/config.md: "restart: Cancel the running execution immediately, then
\* re-run with the new param" (and "queue: fire once the current run
\* finishes").  A re-fire that reaches the guard is run or queued again.
RefireIsNeverDropped ==
  [][\A t \in Threads :
       pc[t] = "refire" /\ pc'[t] = "idle" => queued'[mac[t]] = par[t]]_vars

=============================================================================
