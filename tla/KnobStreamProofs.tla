-------------------------- MODULE KnobStreamProofs --------------------------
(***************************************************************************)
(* Theorems about KnobStream.  The argument: whoever has stored a value    *)
(* tells it, or leaves it to a timer that will; as long as no threads met  *)
(* and no hand was hidden, what is under way to the broker ends with the   *)
(* value that TotalMix has, or somebody will yet publish that; and without *)
(* mishaps so does what is under way to each browser.                      *)
(***************************************************************************)
EXTENDS KnobStream, SequenceTheorems, TLAPS

\* Where a thread is that will yet build a frame.
Telling == {"check", "arm", "register", "claim", "stamp", "readState", "publish",
            "build", "fired"} \cup Pending

\* A registered timer has yet to take itself off.
TrailingIsPending ==
  trailing # None => pc[trailing] \in Pending \cup {"fired"}

\* A value that was not told has a thread that will.
StillToTell ==
  told # knobValue => \E p \in Procs : pc[p] \in Telling

IInv == TypeOK /\ TrailingIsPending /\ StillToTell

-----------------------------------------------------------------------------
\* The part of TypeOK that says where the threads are.
PcFits ==
  /\ pc \in [Procs -> CallerAt \cup TimerAt]
  /\ \A c \in Callers : pc[c] \in CallerAt
  /\ \A t \in Timers : pc[t] \in TimerAt

LEMMA GotoFits ==
  ASSUME PcFits, NEW p \in Procs, NEW from, NEW to, Goto(p, from, to),
         p \in Callers => to \in CallerAt,
         p \in Timers => to \in TimerAt
  PROVE  PcFits'
<1>1. p \in Callers \/ p \in Timers
  BY DEF Procs
<1> QED
  BY <1>1 DEF PcFits, Goto

Frames == [value : Known, stream : BOOLEAN]

LEMMA FramesFit ==
  ASSUME NEW f \in Frames
  PROVE  f.value \in Known /\ f.stream \in BOOLEAN
BY DEF Frames

\* What is under way gains a frame and loses its oldest one.
LEMMA ToAllFits ==
  ASSUME TypeOK, NEW f \in Frames, ToAll(f)
  PROVE  queue' \in [Browsers -> Seq(Frames)]
<1>1. ASSUME NEW b \in Browsers
      PROVE  Enqueued(queue[b], f) \in Seq(Frames)
  <2>1. queue[b] \in Seq(Frames)
    BY DEF TypeOK, Frames
  <2>2. queue[b] # <<>> => Tail(queue[b]) \in Seq(Frames)
    BY <2>1, HeadTailProperties
  <2>3. Len(queue[b]) = QueueMax => queue[b] # <<>>
    BY <2>1, KnobAssumption, EmptySeq
  <2>4. (IF Len(queue[b]) = QueueMax THEN Tail(queue[b]) ELSE queue[b])
          \in Seq(Frames)
    BY <2>1, <2>2, <2>3
  <2> QED
    BY <2>4, AppendProperties DEF Enqueued
<1> QED
  BY <1>1 DEF ToAll

\* The environment: a value is sent, or the fader moves.
LEMMA ActorsKeepTypes ==
  ASSUME TypeOK, NEW v \in Values,
         \/ \E b \in Browsers : Drags(b, v)
         \/ \E c \in Others : Commands(c, v)
         \/ MovesFader(v)
  PROVE  TypeOK'
<1>1. ASSUME NEW c \in Callers, Sent(c, v)
      PROVE  inbox' \in [Callers -> Seq(Values)]
  <2>1. Append(inbox[c], v) \in Seq(Values)
    BY AppendProperties DEF TypeOK
  <2> QED
    BY <1>1, <2>1 DEF Sent, TypeOK
<1>2. Counted => moves' \in 0..MaxMoves
  BY KnobAssumption DEF Counted, TypeOK
<1>3. v \in Known
  BY DEF Known
<1>4. ASSUME NEW b \in Browsers, Drags(b, v)
      PROVE  TypeOK'
  BY <1>1, <1>2, <1>3, <1>4 DEF Drags, TypeOK, Callers, threads, totalmix,
     bridge, reading, watching
<1>5. ASSUME NEW c \in Others, Commands(c, v)
      PROVE  TypeOK'
  BY <1>1, <1>2, <1>5 DEF Commands, TypeOK, Callers, threads, totalmix,
     bridge, reading, watching, screens
<1>6. ASSUME MovesFader(v)
      PROVE  TypeOK'
  BY <1>2, <1>3, <1>6 DEF MovesFader, TypeOK, threads, bridge, reading,
     watching, screens, Suffers
<1> QED
  BY <1>4, <1>5, <1>6

LEMMA KnobSetKeepsTypes ==
  ASSUME TypeOK, NEW c \in Callers, KnobSet(c)
  PROVE  TypeOK'
<1> USE KnobAssumption
<1>0. c \in Procs /\ c \notin Timers /\ PcFits
  BY DEF Procs, PcFits, TypeOK
<1>1. CASE Writes(c)
  <2>0. PcFits'
    BY <1>0, <1>1, GotoFits DEF Writes, CallerAt
  <2>1. Head(inbox[c]) \in Values /\ Tail(inbox[c]) \in Seq(Values)
    BY <1>1, HeadTailProperties DEF Writes, TypeOK
  <2>2. /\ inbox' \in [Callers -> Seq(Values)]
        /\ arg' \in [Callers -> Known]
        /\ device' \in Known
    BY <1>1, <2>1 DEF Writes, TypeOK, Known
  <2>3. mishaps' \subseteq Mishaps
    BY <1>1 DEF Writes, Suffers, TypeOK
  <2> QED
    BY <1>1, <2>0, <2>2, <2>3 DEF Writes, TypeOK, PcFits, bridge, reading,
       watching, screens
<1>2. CASE Stores(c)
  <2>1. PcFits'
    BY <1>0, <1>2, GotoFits DEF Stores, CallerAt
  <2>2. arg' \in [Callers -> Known] /\ knobValue' \in Known
    BY <1>2 DEF Stores, TypeOK, Known
  <2>3. readback' \in BOOLEAN
    BY <1>2, Zenon DEF Stores
  <2> QED
    BY <1>2, <2>1, <2>2, <2>3 DEF Stores, TypeOK, PcFits, totalmix, watching,
       screens
<1>3. CASE Throttled(c) \/ AlreadyArmed(c) \/ NoneArmed(c) \/ Unthrottled(c)
  <2>1. PcFits'
    BY <1>0, <1>3, GotoFits DEF Throttled, AlreadyArmed, NoneArmed,
       Unthrottled, CallerAt
  <2> QED
    BY <1>3, <2>1 DEF Throttled, AlreadyArmed, NoneArmed, Unthrottled, TypeOK,
       PcFits, totalmix, bridge, reading, watching, screens
<1>4. ASSUME NEW t \in Timers, Registers(c, t)
      PROVE  TypeOK'
  <2>1. t \in Procs /\ t \notin Callers
    BY DEF Procs
  <2>2. "idle" \in CallerAt /\ "armed" \in TimerAt /\ "late" \in TimerAt
    BY DEF CallerAt, TimerAt, Pending
  <2>3. \A p \in Procs : /\ p \in Callers => pc'[p] \in CallerAt
                         /\ p \in Timers => pc'[p] \in TimerAt
    BY <1>0, <1>4, <2>1, <2>2 DEF Registers, PcFits
  <2>4. PcFits'
    <3>1. \A p \in Procs : pc'[p] \in CallerAt \cup TimerAt
      BY <2>3 DEF Procs
    <3>2. pc' = [p \in Procs |-> pc'[p]]
      BY <1>0, <1>4 DEF Registers, PcFits
    <3>3. pc' \in [Procs -> CallerAt \cup TimerAt]
      BY <3>1, <3>2
    <3> QED
      BY <2>3, <3>3 DEF PcFits, Procs
  <2>5. stream' \in [Timers -> BOOLEAN]
    <3>1. CASE c \in Browsers
      <4>1. stream' = [stream EXCEPT ![t] = TRUE]
        BY <1>4, <3>1 DEF Registers
      <4> QED
        BY <4>1 DEF TypeOK
    <3>2. CASE c \notin Browsers
      <4>0. (c \in Browsers) = FALSE
        BY <3>2, SMT
      <4>1. stream' = [stream EXCEPT ![t] = FALSE]
        BY <1>4, <4>0, Zenon DEF Registers
      <4> QED
        BY <4>1 DEF TypeOK
    <3> QED
      BY <3>1, <3>2
  <2> QED
    BY <1>4, <2>4, <2>5 DEF Registers, TypeOK, PcFits, totalmix, reading,
       watching, screens
<1>5. CASE Claims(c)
  <2>1. "stamp" \in CallerAt /\ "idle" \in CallerAt /\ "idle" \in TimerAt
    BY DEF CallerAt, TimerAt
  <2>2. PcFits'
    BY <1>0, <1>5, <2>1 DEF Claims, PcFits, Procs
  <2> QED
    BY <1>5, <2>2 DEF Claims, TypeOK, PcFits, totalmix, reading, watching,
       screens
<1> QED
  BY <1>1, <1>2, <1>3, <1>4, <1>5 DEF KnobSet

LEMMA FlushKeepsTypes ==
  ASSUME TypeOK, NEW t \in Timers, Fires(t) \/ Pops(t)
  PROVE  TypeOK'
<1> USE KnobAssumption
<1>0. t \in Procs /\ t \notin Callers /\ PcFits
  BY DEF Procs, PcFits, TypeOK
<1>1. CASE Fires(t)
  <2>1. PcFits'
    BY <1>0, <1>1, GotoFits DEF Fires, TimerAt
  <2> QED
    BY <1>1, <2>1 DEF Fires, Suffers, TypeOK, PcFits, totalmix, bridge, reading,
       watching, screens
<1>2. CASE Pops(t)
  <2>1. PcFits'
    BY <1>0, <1>2, GotoFits DEF Pops, TimerAt
  <2> QED
    BY <1>2, <2>1 DEF Pops, TypeOK, PcFits, totalmix, reading, watching, screens
<1> QED
  BY <1>1, <1>2

LEMMA StreamIsBoolean ==
  ASSUME TypeOK, NEW p \in Procs
  PROVE  Stream(p) \in BOOLEAN
<1>1. CASE p \in Timers
  <2>1. stream[p] \in BOOLEAN
    BY <1>1 DEF TypeOK
  <2> QED
    BY <1>1, <2>1 DEF Stream
<1>2. CASE p \notin Timers /\ p \in Browsers
  <2>1. Stream(p) = TRUE
    BY <1>2, Zenon DEF Stream
  <2> QED
    BY <2>1
<1>3. CASE p \notin Timers /\ p \notin Browsers
  <2>1. Stream(p) = FALSE
    BY <1>3, SMT DEF Stream
  <2> QED
    BY <2>1
<1> QED
  BY <1>1, <1>2, <1>3

LEMMA BroadcastKeepsTypes ==
  ASSUME TypeOK, NEW p \in Procs, Broadcast(p)
  PROVE  TypeOK'
<1>0. PcFits
  BY DEF PcFits, TypeOK
<1>1. CASE Stamps(p)
  <2>1. "readState" \in CallerAt /\ "readState" \in TimerAt /\ "late" \in TimerAt
    BY DEF CallerAt, TimerAt, InBroadcast, Pending
  <2>2. \A c \in Callers : pc[c] # "armed"
    BY <1>0 DEF PcFits, CallerAt, InBroadcast
  <2>3. PcFits'
    BY <1>0, <1>1, <2>1, <2>2 DEF Stamps, PcFits, Procs
  <2> QED
    BY <1>1, <2>3 DEF Stamps, Suffers, TypeOK, PcFits, totalmix, reading, screens
<1>2. CASE ReadsState(p) \/ Publishes(p) \/ Builds(p)
  <2>1. PcFits'
    BY <1>0, <1>2, GotoFits DEF ReadsState, Publishes, Builds, CallerAt,
       TimerAt, InBroadcast
  <2> QED
    BY <1>2, <2>1 DEF ReadsState, Publishes, Builds, TypeOK, PcFits, totalmix,
       bridge, reading, watching, screens
<1>3. CASE Broadcasts(p)
  <2>0. PcFits'
    BY <1>0, <1>3, GotoFits DEF Broadcasts, CallerAt, TimerAt
  <2>1. Stream(p) \in BOOLEAN
    BY StreamIsBoolean
  <2>2. Frame(got[p], Stream(p)) \in Frames
    BY <2>1 DEF Frame, Frames, TypeOK
  <2>3. queue' \in [Browsers -> Seq(Frames)]
    BY <1>3, <2>2, ToAllFits DEF Broadcasts
  <2>4. got' \in [Procs -> Known]
    BY <1>3 DEF Broadcasts, TypeOK, Known
  <2> QED
    BY <1>3, <2>0, <2>3, <2>4 DEF Broadcasts, TypeOK, PcFits, Frames, totalmix,
       bridge, reading, watching
<1> QED
  BY <1>1, <1>2, <1>3 DEF Broadcast

LEMMA ReadersKeepTypes ==
  ASSUME TypeOK, Readback \/ Watcher \/ WindowCloses
  PROVE  TypeOK'
<1>1. None \in Known
  BY DEF Known
<1>2. CASE WindowCloses
  BY <1>2 DEF WindowCloses, TypeOK, threads, totalmix, reading, watching, screens
<1>3. CASE ReadbackFires \/ ReadbackBuilds
  BY <1>3 DEF ReadbackFires, ReadbackBuilds, Suffers, TypeOK, threads, totalmix,
     bridge, watching, screens
<1>4. CASE ReadbackBroadcasts
  <2>1. Frame(back, FALSE) \in Frames
    BY DEF Frame, Frames, TypeOK
  <2>2. queue' \in [Browsers -> Seq(Frames)]
    BY <1>4, <2>1, ToAllFits DEF ReadbackBroadcasts
  <2> QED
    BY <1>1, <1>4, <2>2 DEF ReadbackBroadcasts, TypeOK, Frames, threads,
       totalmix, bridge, watching
<1>5. CASE WatcherReads \/ WatcherPublishes
  BY <1>1, <1>5 DEF WatcherReads, WatcherPublishes, Suffers, TypeOK, threads,
     totalmix, bridge, reading, screens
<1>6. CASE WatcherBroadcasts
  <2>1. Frame(seen, FALSE) \in Frames
    BY DEF Frame, Frames, TypeOK
  <2>2. queue' \in [Browsers -> Seq(Frames)]
    BY <1>6, <2>1, ToAllFits DEF WatcherBroadcasts
  <2> QED
    BY <1>6, <2>2 DEF WatcherBroadcasts, TypeOK, Frames, threads, totalmix,
       bridge, reading
<1> QED
  BY <1>2, <1>3, <1>4, <1>5, <1>6 DEF Readback, Watcher

LEMMA BrowserKeepsTypes ==
  ASSUME TypeOK, NEW b \in Browsers, Shows(b) \/ Suppresses(b)
  PROVE  TypeOK'
<1>1. Head(queue[b]) \in Frames /\ Tail(queue[b]) \in Seq(Frames)
  BY HeadTailProperties DEF Shows, Suppresses, TypeOK, Frames
<1>2. Head(queue[b]).value \in Known /\ None \in Known
  BY <1>1, FramesFit DEF Known
<1>3. queue' \in [Browsers -> Seq(Frames)]
  BY <1>1 DEF Shows, Suppresses, TypeOK, Frames
<1>4. CASE Shows(b)
  BY <1>2, <1>3, <1>4 DEF Shows, TypeOK, Frames, threads, totalmix, bridge,
     reading, watching
<1>5. CASE Suppresses(b)
  BY <1>3, <1>5 DEF Suppresses, TypeOK, Frames, threads, totalmix, bridge,
     reading, watching
<1> QED
  BY <1>4, <1>5

-----------------------------------------------------------------------------
\* A thread that goes on keeps what it has to do.
LEMMA GotoKeeps ==
  ASSUME IInv, NEW p \in Procs, NEW from, NEW to, Goto(p, from, to),
         from \in Telling => to \in Telling,
         from \in Pending \cup {"fired"} => to \in Pending \cup {"fired"},
         UNCHANGED <<trailing, told, knobValue>>
  PROVE  TrailingIsPending' /\ StillToTell'
<1>1. \A q \in Procs : pc'[q] = IF q = p THEN to ELSE pc[q]
  BY DEF Goto, IInv, TypeOK
<1>2. trailing # None => trailing \in Procs
  BY DEF IInv, TypeOK, Procs
<1>3. TrailingIsPending'
  BY <1>1, <1>2 DEF Goto, IInv, TrailingIsPending
<1>4. StillToTell'
  BY <1>1 DEF Goto, IInv, StillToTell
<1> QED
  BY <1>3, <1>4

\* Who stores a value goes on to tell it; who finds a timer armed leaves it to
\* that timer; who claims the broadcast cancels a timer but tells in its place.
LEMMA KnobSetKeeps ==
  ASSUME IInv, NEW c \in Callers, KnobSet(c)
  PROVE  TrailingIsPending' /\ StillToTell'
<1> USE KnobAssumption DEF IInv, TrailingIsPending, StillToTell, Telling, Pending
<1>0. c \in Procs /\ c \notin Timers
  BY DEF Procs
<1>1. CASE Writes(c)
  BY <1>0, <1>1, GotoKeeps DEF Writes, bridge
<1>2. CASE Stores(c)
  BY <1>0, <1>2 DEF Stores, Goto, TypeOK
<1>3. CASE Throttled(c) \/ NoneArmed(c) \/ Unthrottled(c)
  BY <1>0, <1>3, GotoKeeps DEF Throttled, NoneArmed, Unthrottled, bridge
<1>4. CASE AlreadyArmed(c)
  <2>1. trailing \in Timers /\ trailing \in Procs /\ trailing # c
    BY <1>0, <1>4 DEF AlreadyArmed, TypeOK, Procs
  <2>2. pc'[trailing] = pc[trailing] /\ trailing' = trailing
    BY <1>4, <2>1 DEF AlreadyArmed, Goto, TypeOK, bridge
  <2> QED
    BY <1>4, <2>1, <2>2 DEF AlreadyArmed
<1>5. ASSUME NEW t \in Timers, Registers(c, t)
      PROVE  TrailingIsPending' /\ StillToTell'
  <2>1. t \in Procs /\ t # c
    BY <1>0 DEF Procs
  <2>2. pc'[t] \in Pending /\ trailing' = t
    BY <1>5, <2>1 DEF Registers, TypeOK
  <2> QED
    BY <2>1, <2>2
<1>6. CASE Claims(c)
  BY <1>0, <1>6 DEF Claims
<1> QED
  BY <1>1, <1>2, <1>3, <1>4, <1>5, <1>6 DEF KnobSet

LEMMA FlushKeeps ==
  ASSUME IInv, NEW t \in Timers, Fires(t) \/ Pops(t)
  PROVE  TrailingIsPending' /\ StillToTell'
<1> USE KnobAssumption DEF IInv, TrailingIsPending, StillToTell, Telling, Pending
<1>0. t \in Procs
  BY DEF Procs
<1>1. CASE Fires(t)
  BY <1>0, <1>1, GotoKeeps DEF Fires, bridge
<1>2. CASE Pops(t)
  BY <1>0, <1>2 DEF Pops, Goto, TypeOK
<1> QED
  BY <1>1, <1>2

\* A frame that is built tells the value of that moment.
LEMMA BroadcastKeeps ==
  ASSUME IInv, NEW p \in Procs, Broadcast(p)
  PROVE  TrailingIsPending' /\ StillToTell'
<1> USE KnobAssumption DEF IInv, TrailingIsPending, StillToTell, Telling, Pending
<1>0. trailing # None => trailing \in Procs
  BY DEF TypeOK, Procs
<1>1. CASE Stamps(p)
  BY <1>0, <1>1 DEF Stamps
<1>2. CASE ReadsState(p) \/ Publishes(p)
  BY <1>2, GotoKeeps DEF ReadsState, Publishes, bridge
<1>3. CASE Builds(p)
  BY <1>0, <1>3 DEF Builds, Goto, TypeOK, bridge
<1>4. CASE Broadcasts(p)
  BY <1>4, GotoKeeps DEF Broadcasts, bridge
<1> QED
  BY <1>1, <1>2, <1>3, <1>4 DEF Broadcast

\* The inductive invariant.
THEOREM Invariance == Spec => []IInv
<1>1. ASSUME Init
      PROVE  IInv
  <2>1. None \in Known /\ "idle" \in CallerAt \cap TimerAt
    BY DEF Known, CallerAt, TimerAt
  <2>2. \A S : <<>> \in Seq(S)
    BY EmptySeq
  <2>3. PcFits
    BY <1>1, <2>1 DEF Init, PcFits, Procs
  <2>4. inbox \in [Callers -> Seq(Values)] /\ queue \in [Browsers -> Seq(Frames)]
    BY <1>1, <2>2 DEF Init
  <2>5. /\ arg \in [Callers -> Known] /\ got \in [Procs -> Known]
        /\ shown \in [Browsers -> Known] /\ echo \in [Browsers -> Known]
        /\ stream \in [Timers -> BOOLEAN]
        /\ moves \in 0..MaxMoves
    BY <1>1, <2>1, KnobAssumption DEF Init
  <2>6. TypeOK
    BY <1>1, <2>1, <2>3, <2>4, <2>5 DEF Init, TypeOK, PcFits, Frames
  <2> QED
    BY <1>1, <2>6 DEF Init, IInv, TrailingIsPending, StillToTell
<1>2. ASSUME IInv, [Next]_vars
      PROVE  IInv'
  <2>1. ASSUME NEW v \in Values,
               \/ \E b \in Browsers : Drags(b, v)
               \/ \E c \in Others : Commands(c, v)
               \/ MovesFader(v)
        PROVE  IInv'
    <3>1. TypeOK'
      BY <1>2, <2>1, ActorsKeepTypes DEF IInv
    <3>2. UNCHANGED <<pc, trailing, told, knobValue>>
      BY <2>1 DEF Drags, Commands, MovesFader, threads, bridge
    <3> QED
      BY <1>2, <3>1, <3>2 DEF IInv, TrailingIsPending, StillToTell
  <2>2. ASSUME NEW c \in Callers, KnobSet(c)
        PROVE  IInv'
    BY <1>2, <2>2, KnobSetKeepsTypes, KnobSetKeeps DEF IInv
  <2>3. ASSUME NEW t \in Timers, Fires(t) \/ Pops(t)
        PROVE  IInv'
    BY <1>2, <2>3, FlushKeepsTypes, FlushKeeps DEF IInv
  <2>4. ASSUME NEW p \in Procs, Broadcast(p)
        PROVE  IInv'
    BY <1>2, <2>4, BroadcastKeepsTypes, BroadcastKeeps DEF IInv
  <2>5. CASE Readback \/ Watcher \/ WindowCloses
    <3>1. TypeOK'
      BY <1>2, <2>5, ReadersKeepTypes DEF IInv
    <3>2. UNCHANGED <<pc, trailing, told, knobValue>>
      BY <2>5 DEF Readback, ReadbackFires, ReadbackBuilds, ReadbackBroadcasts,
         Watcher, WatcherReads, WatcherBroadcasts, WatcherPublishes,
         WindowCloses, threads, bridge
    <3> QED
      BY <1>2, <3>1, <3>2 DEF IInv, TrailingIsPending, StillToTell
  <2>6. ASSUME NEW b \in Browsers, Shows(b) \/ Suppresses(b)
        PROVE  IInv'
    <3>1. TypeOK'
      BY <1>2, <2>6, BrowserKeepsTypes DEF IInv
    <3>2. UNCHANGED <<pc, trailing, told, knobValue>>
      BY <2>6 DEF Shows, Suppresses, threads, bridge
    <3> QED
      BY <1>2, <3>1, <3>2 DEF IInv, TrailingIsPending, StillToTell
  <2>7. CASE UNCHANGED vars
    <3>1. /\ UNCHANGED <<scope, inbox, pc, arg, got, stream, device, report>>
          /\ UNCHANGED <<knobValue, recent, trailing, readback, reader, back>>
          /\ UNCHANGED <<pushed, watcher, seen, state, queue, shown, echo>>
          /\ UNCHANGED <<moves, told, mishaps>>
      BY <2>7 DEF vars, threads, totalmix, bridge, reading, watching, screens
    <3>2. TypeOK'
      BY <1>2, <3>1 DEF IInv, TypeOK
    <3>3. TrailingIsPending' /\ StillToTell'
      BY <1>2, <3>1 DEF IInv, TrailingIsPending, StillToTell
    <3> QED
      BY <3>2, <3>3 DEF IInv
  <2> QED
    BY <1>2, <2>1, <2>2, <2>3, <2>4, <2>5, <2>6, <2>7 DEF Next
<1> QED
  BY <1>1, <1>2, PTL DEF Spec

\* Every variable keeps its type.
THEOREM Typing == Spec => []TypeOK
<1>1. IInv => TypeOK
  BY DEF IInv
<1> QED
  BY <1>1, Invariance, PTL

\* "a knob stream must NEVER drop its final value", whatever mishaps there are.
THEOREM FinalValueTold == Spec => []NeverDropsFinal
<1>1. IInv => NeverDropsFinal
  BY DEF IInv, StillToTell, Telling, Pending, NeverDropsFinal
<1> QED
  BY <1>1, Invariance, PTL

-----------------------------------------------------------------------------
(* The last value is the one that is kept and shown.                       *)

\* A thread that will yet stamp a broadcast, read the state, build a frame.
Ahead   == {"store", "check", "arm", "register", "claim", "stamp", "fired"}
             \cup Pending
ToRead  == Ahead \cup {"readState"}
ToBuild == ToRead \cup {"publish", "build"}

Some(places) == \E p \in Procs : pc[p] \in places

\* The report that the watcher will push is what TotalMix has.
News == report = device /\ report # pushed

\* One broadcast at a time.
OneBroadcast ==
  \A p, q \in Procs : pc[p] \in InBroadcast /\ pc[q] \in InBroadcast => p = q

\* What is about to be stored is what was written to TotalMix.
StoresDevice ==
  \A c \in Callers : pc[c] = "store" => arg[c] = device

\* The bridge lags behind TotalMix while a value is written, or while nobody is at
\* work after a hand has moved the fader.
BridgeLags ==
  \/ knobValue = device
  \/ \E c \in Callers : pc[c] = "store"
  \/ ~Busy

\* A report of before the last write is pushed already, or a broadcast will push it.
StaleIsPushed ==
  report = device \/ report = pushed \/ Some(Ahead)

\* The watcher is at work alone.
WatcherAlone ==
  watcher # "idle" => \A p \in Procs : pc[p] \in {"idle"} \cup Pending

WatcherTells ==
  watcher # "idle" => seen = device \/ News \/ Some(Ahead)

\* What is about to be published, or sent, is of the last value, or another will be.
PublishesLast ==
  \A p \in Procs : pc[p] = "publish" => got[p] = device \/ Some(ToRead)

SendsLast ==
  \A p \in Procs : pc[p] = "broadcast" => got[p] = device \/ Some(ToBuild)

StateComes ==
  \/ state = device
  \/ Some(ToRead)
  \/ \E p \in Procs : pc[p] = "publish" /\ got[p] = device
  \/ News
  \/ watcher # "idle" /\ seen = device

\* A knob with a readback is written only while a readback is due.
ReadbackDue ==
  /\ scope = "mix" => ~readback /\ reader = "idle"
  /\ scope = "channel" /\ ~readback =>
       \A p \in Procs : pc[p] \in {"idle", "store"}

ReaderTells ==
  reader = "broadcast" =>
    back = device \/ readback \/ \E c \in Callers : pc[c] = "store"

Last(q) == q[Len(q)]

\* A browser has the last value, or the last frame on its way to it has.
Arrives(b) ==
  \/ /\ queue[b] = <<>>
     /\ shown[b] = device \/ (scope = "mix" /\ echo[b] \notin {None, device})
  \/ /\ queue[b] # <<>>
     /\ Last(queue[b]).value = device
     /\ scope = "channel" => ~Last(queue[b]).stream

FrameComes(b) ==
  \/ device = None
  \/ \E c \in Callers : inbox[c] # <<>>
  \/ Some(ToBuild)
  \/ scope = "mix" /\ \E p \in Procs : pc[p] = "broadcast" /\ got[p] = device
  \/ readback \/ reader = "dumped"
  \/ reader = "broadcast" /\ back = device
  \/ News
  \/ watcher = "broadcast" /\ seen = device
  \/ Arrives(b)

\* In this order the bridge keeps up with TotalMix, however early a readback comes.
Ordered ==
  /\ OneBroadcast
  /\ StoresDevice
  /\ BridgeLags
  /\ StaleIsPushed
  /\ WatcherAlone
  /\ WatcherTells
  /\ PublishesLast
  /\ SendsLast
  /\ StateComes

\* A readback in time is the last that a browser hears.
Timely ==
  /\ ReadbackDue
  /\ ReaderTells
  /\ \A b \in Browsers : FrameComes(b)

OrderInv == Without({"overlap", "hidden"}) => Ordered

TimeInv == mishaps = {} => Timely

-----------------------------------------------------------------------------
(* Who will broadcast.                                                     *)

LEMMA AheadIsAll ==
  ASSUME Some(Ahead)'
  PROVE  Some(ToRead)' /\ Some(ToBuild)'
BY DEF Some, ToRead, ToBuild

\* After a step of a knob_set a broadcast is ahead: its own, or that of the timer
\* which it has armed, or has found armed.
LEMMA KnobSetIsAhead ==
  ASSUME IInv, NEW c \in Callers, KnobSet(c)
  PROVE  Some(Ahead)'
<1> USE DEF Some, Ahead, Pending
<1>0. /\ pc \in [Procs -> CallerAt \cup TimerAt]
      /\ c \in Procs /\ c \notin Timers /\ Timers \subseteq Procs
  BY KnobAssumption DEF IInv, TypeOK, Procs
<1>1. ASSUME NEW from, NEW to \in Ahead, Goto(c, from, to)
      PROVE  Some(Ahead)'
  BY <1>0, <1>1 DEF Goto
<1>2. CASE Writes(c) \/ Stores(c) \/ Throttled(c) \/ NoneArmed(c) \/ Unthrottled(c)
  BY <1>1, <1>2 DEF Writes, Stores, Throttled, NoneArmed, Unthrottled
<1>3. CASE AlreadyArmed(c)
  <2>1. trailing \in Timers /\ pc[trailing] \in Pending \cup {"fired"}
    BY <1>3 DEF AlreadyArmed, IInv, TypeOK, TrailingIsPending
  <2>2. pc'[trailing] = pc[trailing]
    BY <1>0, <1>3, <2>1 DEF AlreadyArmed, Goto
  <2> QED
    BY <1>0, <2>1, <2>2
<1>4. ASSUME NEW t \in Timers, Registers(c, t)
      PROVE  Some(Ahead)'
  <2>1. pc'[t] \in Pending
    BY <1>0, <1>4 DEF Registers
  <2> QED
    BY <1>0, <2>1
<1>5. CASE Claims(c)
  <2>1. pc'[c] = "stamp"
    BY <1>0, <1>5 DEF Claims
  <2> QED
    BY <1>0, <2>1
<1> QED
  BY <1>2, <1>3, <1>4, <1>5 DEF KnobSet

LEMMA FlushIsAhead ==
  ASSUME IInv, NEW t \in Timers, Fires(t) \/ Pops(t)
  PROVE  Some(Ahead)'
<1>1. pc \in [Procs -> CallerAt \cup TimerAt] /\ t \in Procs
  BY DEF IInv, TypeOK, Procs
<1>2. pc'[t] \in {"fired", "stamp"}
  BY <1>1 DEF Fires, Pops, Goto
<1> QED
  BY <1>1, <1>2 DEF Some, Ahead

-----------------------------------------------------------------------------
(* The bridge keeps up with TotalMix.                                      *)

Orderly == Without({"overlap", "hidden"})

\* A mishap is not forgotten.
LEMMA MishapsStay ==
  ASSUME [Next]_vars
  PROVE  mishaps \subseteq mishaps'
BY DEF vars, Next, Drags, Commands, MovesFader, KnobSet, Writes, Stores, Throttled,
   AlreadyArmed, NoneArmed, Registers, Unthrottled, Claims, Fires, Pops,
   Broadcast, Stamps, ReadsState, Publishes, Builds, Broadcasts, WindowCloses,
   Readback, ReadbackFires, ReadbackBuilds, ReadbackBroadcasts, Watcher,
   WatcherReads, WatcherBroadcasts, WatcherPublishes, Shows, Suppresses, Suffers

\* What is on its way to the bridge, and what the browsers do, does not matter.
LEMMA OthersOrdered ==
  ASSUME Ordered,
         UNCHANGED <<threads, totalmix, bridge, reading, watching, state>>
  PROVE  Ordered'
BY DEF Ordered, OneBroadcast, StoresDevice, BridgeLags, StaleIsPushed,
   WatcherAlone, WatcherTells, PublishesLast, SendsLast, StateComes, Some, News,
   Busy, threads, totalmix, bridge, reading, watching

LEMMA FaderOrdered ==
  ASSUME IInv, Ordered, Orderly', NEW v \in Values, MovesFader(v)
  PROVE  Ordered'
<1>1. ~Busy /\ v \notin {report, pushed}
  BY Zenon DEF MovesFader, Suffers, If, Orderly, Without
<1>2. News'
  BY <1>1 DEF MovesFader, News, watching
<1>3. (\A p \in Procs : pc'[p] = "idle") /\ ~Busy'
  BY <1>1 DEF MovesFader, Busy, threads, reading
<1>4. /\ OneBroadcast' /\ StoresDevice' /\ BridgeLags'
      /\ WatcherAlone' /\ PublishesLast' /\ SendsLast'
  BY <1>3 DEF OneBroadcast, StoresDevice, BridgeLags, WatcherAlone, PublishesLast,
     SendsLast, InBroadcast, Procs
<1>5. StaleIsPushed' /\ WatcherTells' /\ StateComes'
  BY <1>2 DEF StaleIsPushed, WatcherTells, StateComes, News
<1> QED
  BY <1>4, <1>5 DEF Ordered

LEMMA KnobSetOrdered ==
  ASSUME IInv, Ordered, Orderly', NEW c \in Callers, KnobSet(c)
  PROVE  Ordered'
<1>0. /\ pc \in [Procs -> CallerAt \cup TimerAt]
      /\ c \in Procs /\ c \notin Timers
      /\ Callers \subseteq Procs /\ Timers \subseteq Procs
      /\ Callers \cap Timers = {}
      /\ \A t \in Timers : pc[t] \in TimerAt
      /\ arg \in [Callers -> Known]
  BY KnobAssumption DEF IInv, TypeOK, Procs
<1>1. Some(Ahead)' /\ Some(ToRead)' /\ Some(ToBuild)'
  BY KnobSetIsAhead, AheadIsAll
<1>2. PublishesLast' /\ SendsLast' /\ StateComes'
  BY <1>1 DEF PublishesLast, SendsLast, StateComes
<1>3. watching' = watching
  BY DEF KnobSet, Writes, Stores, Throttled, AlreadyArmed, NoneArmed,
     Unthrottled, Claims, Registers
<1>4. watcher' = "idle"
  <2>1. CASE Writes(c)
    <3>1. watcher = "idle"
      BY <2>1, Zenon DEF Writes, Suffers, If, Orderly, Without
    <3> QED
      BY <1>3, <3>1 DEF watching
  <2>2. CASE ~Writes(c)
    <3>1. pc[c] \in {"store", "check", "arm", "register", "claim"}
      BY <2>2 DEF KnobSet, Stores, Throttled, AlreadyArmed, NoneArmed,
         Unthrottled, Claims, Registers, Goto
    <3> QED
      BY <1>0, <1>3, <3>1 DEF Ordered, WatcherAlone, Pending, watching
  <2> QED
    BY <2>1, <2>2
<1>5. StaleIsPushed' /\ WatcherTells' /\ WatcherAlone'
  BY <1>1, <1>4 DEF StaleIsPushed, WatcherTells, WatcherAlone
<1>6. CASE Writes(c)
  <2>1. \A d \in Callers : pc[d] # "store"
    BY <1>6, Zenon DEF Writes, Suffers, If, Orderly, Without
  <2>2. pc' = [pc EXCEPT ![c] = "store"] /\ device' = arg'[c] /\ pc[c] = "idle"
    BY <1>0, <1>6 DEF Writes, Goto
  <2>3. OneBroadcast'
    BY <1>0, <2>2 DEF Ordered, OneBroadcast, InBroadcast
  <2>4. StoresDevice' /\ BridgeLags'
    BY <1>0, <2>1, <2>2 DEF StoresDevice, BridgeLags
  <2> QED
    BY <1>2, <1>5, <2>3, <2>4 DEF Ordered
<1>7. CASE Stores(c)
  <2>1. pc' = [pc EXCEPT ![c] = "check"] /\ pc[c] = "store"
    BY <1>0, <1>7 DEF Stores, Goto
  <2>2. knobValue' = device' /\ device' = device
    BY <1>7, <2>1 DEF Stores, totalmix, Ordered, StoresDevice
  <2>3. OneBroadcast'
    BY <1>0, <2>1 DEF Ordered, OneBroadcast, InBroadcast
  <2>4. StoresDevice' /\ BridgeLags'
    BY <1>0, <1>7, <2>1, <2>2 DEF Stores, Ordered, StoresDevice, BridgeLags
  <2> QED
    BY <1>2, <1>5, <2>3, <2>4 DEF Ordered
<1>8. CASE \/ Throttled(c) \/ AlreadyArmed(c) \/ NoneArmed(c) \/ Unthrottled(c)
           \/ Claims(c) \/ \E t \in Timers : Registers(c, t)
  <2>1. /\ UNCHANGED <<arg, totalmix, knobValue>>
        /\ pc[c] \in {"check", "arm", "register", "claim"}
    BY <1>8 DEF Throttled, AlreadyArmed, NoneArmed, Unthrottled, Claims,
       Registers, Goto, bridge
  <2>2. /\ \A p \in Procs : pc'[p] \in InBroadcast \cup {"store"}
                              => pc'[p] = pc[p]
        /\ \A d \in Callers : pc[d] = "store" => pc'[d] = "store"
    <3>1. CASE Throttled(c) \/ AlreadyArmed(c) \/ NoneArmed(c) \/ Unthrottled(c)
      BY <1>0, <3>1 DEF Throttled, AlreadyArmed, NoneArmed, Unthrottled, Goto,
         InBroadcast
    <3>2. CASE Claims(c)
      BY <1>0, <3>2 DEF Claims, InBroadcast, Pending
    <3>3. ASSUME NEW t \in Timers, Registers(c, t)
          PROVE  /\ \A p \in Procs : pc'[p] \in InBroadcast \cup {"store"}
                                       => pc'[p] = pc[p]
                 /\ \A d \in Callers : pc[d] = "store" => pc'[d] = "store"
      BY <1>0, <3>3 DEF Registers, InBroadcast
    <3> QED
      BY <1>8, <3>1, <3>2, <3>3
  <2>3. OneBroadcast'
    BY <2>2 DEF Ordered, OneBroadcast
  <2>4. StoresDevice'
    BY <1>0, <2>1, <2>2 DEF Ordered, StoresDevice, totalmix
  <2>5. BridgeLags'
    BY <1>0, <2>1, <2>2 DEF Ordered, BridgeLags, Busy, totalmix
  <2> QED
    BY <1>2, <1>5, <2>3, <2>4, <2>5 DEF Ordered
<1> QED
  BY <1>6, <1>7, <1>8 DEF KnobSet

LEMMA FlushOrdered ==
  ASSUME IInv, Ordered, Orderly', NEW t \in Timers, Fires(t) \/ Pops(t)
  PROVE  Ordered'
<1>0. /\ pc \in [Procs -> CallerAt \cup TimerAt]
      /\ t \in Procs /\ t \notin Callers
      /\ Callers \subseteq Procs
  BY KnobAssumption DEF IInv, TypeOK, Procs
<1>1. /\ UNCHANGED <<arg, totalmix, knobValue, watching>>
      /\ pc[t] \in {"armed", "late", "fired"}
  BY DEF Fires, Pops, Goto, bridge
<1>2. watcher = "idle"
  <2>1. CASE Fires(t)
    BY <2>1, Zenon DEF Fires, Suffers, If, Orderly, Without
  <2>2. CASE Pops(t)
    BY <1>0, <2>2 DEF Pops, Goto, Ordered, WatcherAlone, Pending
  <2> QED
    BY <2>1, <2>2
<1>3. /\ \A p \in Procs : p # t => pc'[p] = pc[p]
      /\ pc'[t] \in {"fired", "stamp"}
  BY <1>0 DEF Fires, Pops, Goto
<1>4. Some(Ahead)' /\ Some(ToRead)' /\ Some(ToBuild)'
  BY FlushIsAhead, AheadIsAll
<1>5. OneBroadcast'
  BY <1>3 DEF Ordered, OneBroadcast, InBroadcast
<1>6. StoresDevice' /\ BridgeLags'
  BY <1>0, <1>1, <1>3 DEF Ordered, StoresDevice, BridgeLags, Busy, totalmix
<1>7. StaleIsPushed' /\ WatcherTells' /\ WatcherAlone'
  BY <1>1, <1>2, <1>4 DEF StaleIsPushed, WatcherTells, WatcherAlone, watching
<1>8. PublishesLast' /\ SendsLast' /\ StateComes'
  BY <1>4 DEF PublishesLast, SendsLast, StateComes
<1> QED
  BY <1>5, <1>6, <1>7, <1>8 DEF Ordered

LEMMA BroadcastOrdered ==
  ASSUME IInv, Ordered, Orderly', NEW p \in Procs, Broadcast(p)
  PROVE  Ordered'
<1>0. /\ pc \in [Procs -> CallerAt \cup TimerAt]
      /\ Callers \subseteq Procs
      /\ got \in [Procs -> Known]
  BY KnobAssumption DEF IInv, TypeOK, Procs
<1>1. /\ UNCHANGED <<arg, totalmix, knobValue, watcher, seen>>
      /\ pc[p] \in {"stamp"} \cup InBroadcast
  BY <1>0 DEF Broadcast, Stamps, ReadsState, Publishes, Builds, Broadcasts, Goto,
     InBroadcast, bridge, watching
<1>2. watcher = "idle"
  BY <1>0, <1>1 DEF Ordered, WatcherAlone, Pending, InBroadcast
<1>3. knobValue = device \/ \E c \in Callers : pc[c] = "store"
  BY <1>1 DEF Ordered, BridgeLags, Busy, InBroadcast
<1>4. WatcherTells' /\ WatcherAlone'
  BY <1>1, <1>2 DEF WatcherTells, WatcherAlone
<1>5. CASE Stamps(p)
  <2>1. \A q \in Procs : pc[q] \notin InBroadcast
    BY <1>5, Zenon DEF Stamps, Suffers, If, Orderly, Without
  <2>2. /\ \A q \in Procs : pc'[q] = IF q = p THEN "readState"
                                     ELSE IF pc[q] = "armed" THEN "late" ELSE pc[q]
        /\ pc[p] = "stamp"
    BY <1>5 DEF Stamps
  <2>3. Some(ToRead)' /\ Some(ToBuild)'
    BY <2>2 DEF Some, ToRead, ToBuild
  <2>4. OneBroadcast'
    BY <2>1, <2>2 DEF OneBroadcast, InBroadcast
  <2>5. StoresDevice' /\ BridgeLags'
    BY <1>0, <1>1, <1>3, <2>2 DEF Ordered, StoresDevice, BridgeLags, totalmix
  <2>6. StaleIsPushed'
    BY <1>1, <1>5 DEF Stamps, StaleIsPushed, totalmix
  <2>7. PublishesLast' /\ SendsLast' /\ StateComes'
    BY <2>3 DEF PublishesLast, SendsLast, StateComes
  <2> QED
    BY <1>4, <2>4, <2>5, <2>6, <2>7 DEF Ordered
<1>6. CASE ReadsState(p) \/ Publishes(p) \/ Builds(p) \/ Broadcasts(p)
  <2>1. /\ \A q \in Procs : q # p => pc'[q] = pc[q] /\ got'[q] = got[q]
        /\ pc[p] \in InBroadcast /\ pc'[p] \in InBroadcast \cup {"idle"}
        /\ pushed' = pushed
    BY <1>0, <1>6 DEF ReadsState, Publishes, Builds, Broadcasts, Goto, InBroadcast,
       watching
  <2>2. \A q \in Procs : q # p => pc[q] \notin InBroadcast
    BY <2>1 DEF Ordered, OneBroadcast
  <2>3. OneBroadcast'
    BY <2>1, <2>2 DEF OneBroadcast
  <2>4. StoresDevice' /\ BridgeLags'
    BY <1>0, <1>1, <1>3, <2>1 DEF Ordered, StoresDevice, BridgeLags, InBroadcast,
       totalmix
  <2>5. /\ Some(Ahead) => Some(Ahead)'
        /\ \A c \in Callers : pc[c] = "store" => Some(Ahead)'
    BY <1>0, <2>1 DEF Some, Ahead, Pending, InBroadcast
  <2>6. StaleIsPushed'
    BY <1>1, <2>1, <2>5 DEF Ordered, StaleIsPushed, totalmix
  <2>7. Some(Ahead)' => Some(ToRead)' /\ Some(ToBuild)'
    BY DEF Some, ToRead, ToBuild
  <2>8. knobValue = device \/ Some(Ahead)'
    BY <1>3, <2>5
  <2>9. CASE ReadsState(p)
    <3>1. pc[p] = "readState" /\ pc'[p] = "publish" /\ got'[p] = knobValue
      BY <1>0, <2>9 DEF ReadsState, Goto
    <3>2. Some(ToBuild)'
      BY <3>1 DEF Some, ToBuild
    <3>3. PublishesLast'
      BY <1>1, <2>1, <2>2, <2>7, <2>8, <3>1 DEF PublishesLast, InBroadcast, totalmix
    <3>4. StateComes'
      BY <1>1, <2>7, <2>8, <3>1 DEF StateComes, totalmix
    <3> QED
      BY <1>4, <2>3, <2>4, <2>6, <3>2, <3>3, <3>4 DEF Ordered, SendsLast
  <2>10. CASE Publishes(p)
    <3>1. pc[p] = "publish" /\ pc'[p] = "build" /\ state' = got[p]
      BY <1>0, <2>10 DEF Publishes, Goto
    <3>2. Some(ToBuild)'
      BY <3>1 DEF Some, ToBuild
    <3>3. Some(ToRead) => Some(ToRead)'
      BY <2>1, <3>1 DEF Some, ToRead, Ahead, Pending
    <3>4. PublishesLast'
      BY <2>1, <2>2, <3>1 DEF PublishesLast, InBroadcast
    <3>5. StateComes'
      BY <1>1, <3>1, <3>3 DEF Ordered, PublishesLast, StateComes, totalmix
    <3> QED
      BY <1>4, <2>3, <2>4, <2>6, <3>2, <3>4, <3>5 DEF Ordered, SendsLast
  <2>11. CASE Builds(p)
    <3>1. pc[p] = "build" /\ pc'[p] = "broadcast" /\ got'[p] = knobValue
      BY <1>0, <2>11 DEF Builds, Goto
    <3>2. Some(ToRead) => Some(ToRead)'
      BY <2>1, <3>1 DEF Some, ToRead, Ahead, Pending
    <3>3. PublishesLast'
      BY <2>1, <2>2, <3>1 DEF PublishesLast, InBroadcast
    <3>4. StateComes'
      BY <1>1, <1>2, <2>1, <2>2, <2>11, <3>1, <3>2
      DEF Ordered, Builds, StateComes, News, InBroadcast, totalmix
    <3>5. SendsLast'
      BY <1>1, <2>1, <2>2, <2>7, <2>8, <3>1 DEF SendsLast, InBroadcast, totalmix
    <3> QED
      BY <1>4, <2>3, <2>4, <2>6, <3>3, <3>4, <3>5 DEF Ordered
  <2>12. CASE Broadcasts(p)
    <3>1. pc[p] = "broadcast" /\ pc'[p] = "idle"
      BY <1>0, <2>12 DEF Broadcasts, Goto
    <3>2. Some(ToRead) => Some(ToRead)'
      BY <2>1, <3>1 DEF Some, ToRead, Ahead, Pending
    <3>3. PublishesLast' /\ SendsLast'
      BY <2>1, <2>2, <3>1 DEF PublishesLast, SendsLast, InBroadcast
    <3>4. StateComes'
      BY <1>1, <1>2, <2>1, <2>2, <2>12, <3>1, <3>2
      DEF Ordered, Broadcasts, StateComes, News, InBroadcast, totalmix
    <3> QED
      BY <1>4, <2>3, <2>4, <2>6, <3>3, <3>4 DEF Ordered
  <2> QED
    BY <1>6, <2>9, <2>10, <2>11, <2>12
<1> QED
  BY <1>5, <1>6 DEF Broadcast

\* A readback may bring the report that is due; it writes nothing else.
LEMMA ReadbackOrdered ==
  ASSUME IInv, Ordered, Readback \/ WindowCloses
  PROVE  Ordered'
<1>1. /\ UNCHANGED <<pc, arg, got, device, knobValue>>
      /\ UNCHANGED <<pushed, watcher, seen, state>>
      /\ report' \in {device, report}
  BY DEF Readback, ReadbackFires, ReadbackBuilds, ReadbackBroadcasts, WindowCloses,
     threads, totalmix, bridge, watching
<1>2. OneBroadcast' /\ StoresDevice' /\ WatcherAlone'
  BY <1>1 DEF Ordered, OneBroadcast, StoresDevice, WatcherAlone
<1>3. \A S : Some(S)' = Some(S)
  BY <1>1 DEF Some
<1>4. PublishesLast' /\ SendsLast'
  BY <1>1, <1>3 DEF Ordered, PublishesLast, SendsLast
<1>5. News => News'
  BY <1>1 DEF News
<1>6. StaleIsPushed' /\ WatcherTells' /\ StateComes'
  BY <1>1, <1>3, <1>5 DEF Ordered, StaleIsPushed, WatcherTells, StateComes
<1>7. BridgeLags'
  <2>1. CASE WindowCloses
    BY <1>1, <2>1 DEF WindowCloses, reading, Ordered, BridgeLags, Busy
  <2>2. CASE Readback
    BY <1>1, <2>2 DEF Readback, ReadbackFires, ReadbackBuilds, ReadbackBroadcasts,
       Ordered, BridgeLags, Busy
  <2> QED
    BY <2>1, <2>2
<1> QED
  BY <1>2, <1>4, <1>6, <1>7 DEF Ordered

LEMMA WatcherOrdered ==
  ASSUME IInv, Ordered, Orderly', Watcher
  PROVE  Ordered'
<1>1. UNCHANGED <<pc, arg, got, device, report, knobValue, readback, reader>>
  BY DEF Watcher, WatcherReads, WatcherBroadcasts, WatcherPublishes, threads,
     totalmix, bridge, reading
<1>2. /\ OneBroadcast' /\ StoresDevice' /\ BridgeLags'
      /\ PublishesLast' /\ SendsLast'
  BY <1>1 DEF Ordered, OneBroadcast, StoresDevice, BridgeLags, Busy, PublishesLast,
     SendsLast, Some
<1>3. \A S : Some(S)' = Some(S)
  BY <1>1 DEF Some
<1>4. Some(Ahead) => Some(ToRead)
  BY DEF Some, ToRead
<1>5. CASE WatcherReads
  <2>1. \A p \in Procs : pc[p] \in {"idle"} \cup Pending
    BY <1>5, Zenon DEF WatcherReads, Suffers, If, Orderly, Without
  <2>2. /\ watcher' = "broadcast" /\ pushed' = report' /\ seen' = report'
        /\ watcher = "idle" /\ report # pushed /\ state' = state
    BY <1>1, <1>5 DEF WatcherReads
  <2>3. StaleIsPushed' /\ WatcherAlone'
    BY <1>1, <2>1, <2>2 DEF StaleIsPushed, WatcherAlone
  <2>4. WatcherTells'
    BY <1>1, <1>3, <2>2 DEF Ordered, StaleIsPushed, WatcherTells
  <2>5. StateComes'
    BY <1>1, <1>3, <2>2 DEF Ordered, StateComes, News
  <2> QED
    BY <1>2, <2>3, <2>4, <2>5 DEF Ordered
<1>6. CASE WatcherBroadcasts \/ WatcherPublishes
  <2>1. /\ watcher # "idle" /\ watcher' \in {"publish", "idle"} /\ pushed' = pushed
        /\ watcher' # "idle" => seen' = seen /\ state' = state
        /\ watcher' = "idle" => state' = seen
    BY <1>6 DEF WatcherBroadcasts, WatcherPublishes
  <2>2. News' = News
    BY <1>1, <2>1 DEF News
  <2>3. StaleIsPushed' /\ WatcherAlone' /\ WatcherTells'
    BY <1>1, <1>3, <2>1, <2>2 DEF Ordered, StaleIsPushed, WatcherAlone, WatcherTells
  <2>4. CASE seen = device
    BY <1>1, <1>2, <2>1, <2>3, <2>4 DEF StateComes, Ordered
  <2>5. CASE News \/ Some(Ahead)
    BY <1>2, <1>3, <1>4, <2>2, <2>3, <2>5 DEF StateComes, Ordered
  <2> QED
    BY <2>1, <2>4, <2>5 DEF Ordered, WatcherTells
<1> QED
  BY <1>5, <1>6 DEF Watcher

\* The bridge keeps up, as long as threads did not meet and no hand was hidden.
THEOREM OrderInvariance == Spec => []OrderInv
<1>1. Init => OrderInv
  <2> SUFFICES ASSUME Init
               PROVE  Ordered
    BY DEF OrderInv
  <2>1. \A p \in Procs : pc[p] = "idle"
    BY DEF Init
  <2>2. \A c \in Callers : pc[c] = "idle"
    BY <2>1 DEF Procs
  <2> QED
    BY <2>1, <2>2 DEF Init, Ordered, OneBroadcast, StoresDevice, BridgeLags,
       StaleIsPushed, WatcherAlone, WatcherTells, PublishesLast, SendsLast,
       StateComes, InBroadcast
<1>2. IInv /\ OrderInv /\ [Next]_vars => OrderInv'
  <2> SUFFICES ASSUME IInv, OrderInv, [Next]_vars, Orderly'
               PROVE  Ordered'
    BY DEF OrderInv, Orderly
  <2>1. Ordered
    BY MishapsStay DEF OrderInv, Orderly, Without
  <2>2. CASE UNCHANGED vars
    BY <2>1, <2>2, OthersOrdered DEF vars
  <2>3. ASSUME NEW v \in Values,
               \/ \E b \in Browsers : Drags(b, v)
               \/ \E c \in Others : Commands(c, v)
               \/ MovesFader(v)
        PROVE  Ordered'
    <3>1. CASE \/ \E b \in Browsers : Drags(b, v)
               \/ \E c \in Others : Commands(c, v)
      BY <2>1, <3>1, OthersOrdered DEF Drags, Commands
    <3> QED
      BY <2>1, <2>3, <3>1, FaderOrdered
  <2>4. ASSUME NEW b \in Browsers, Shows(b) \/ Suppresses(b)
        PROVE  Ordered'
    BY <2>1, <2>4, OthersOrdered DEF Shows, Suppresses
  <2> QED
    BY <2>1, <2>2, <2>3, <2>4, KnobSetOrdered, FlushOrdered, BroadcastOrdered,
       ReadbackOrdered, WatcherOrdered DEF Next
<1> QED
  BY <1>1, <1>2, Invariance, PTL DEF Spec

-----------------------------------------------------------------------------
\* What goes to all browsers is the last on its way to each.
LEMMA LastToAll ==
  ASSUME TypeOK, NEW f \in Frames, ToAll(f)
  PROVE  \A b \in Browsers : queue'[b] # <<>> /\ Last(queue'[b]) = f
<1> TAKE b \in Browsers
<1>1. queue[b] \in Seq(Frames)
  BY DEF TypeOK, Frames
<1>2. Len(queue[b]) = QueueMax => queue[b] # <<>>
  BY <1>1, KnobAssumption, EmptySeq
<1> DEFINE s == IF Len(queue[b]) = QueueMax THEN Tail(queue[b]) ELSE queue[b]
<1>3. s \in Seq(Frames)
  BY <1>1, <1>2, HeadTailProperties
<1>4. queue'[b] = Append(s, f)
  BY DEF ToAll, Enqueued
<1>5. Len(Append(s, f)) = Len(s) + 1 /\ Append(s, f)[Len(s) + 1] = f
  BY <1>3, AppendProperties
<1>6. Append(s, f) # <<>>
  BY <1>3, AppendProperties
<1> QED
  BY <1>4, <1>5, <1>6 DEF Last

LEMMA AllArrive ==
  ASSUME TypeOK, NEW v \in Known, NEW st \in BOOLEAN, ToAll(Frame(v, st)),
         v = device', scope' = "channel" => ~st
  PROVE  \A b \in Browsers : Arrives(b)'
<1>1. Frame(v, st) \in Frames
  BY DEF Frame, Frames
<1>2. \A b \in Browsers : queue'[b] # <<>> /\ Last(queue'[b]) = Frame(v, st)
  BY <1>1, LastToAll
<1>3. Frame(v, st).value = v /\ Frame(v, st).stream = st
  BY DEF Frame
<1> QED
  BY <1>2, <1>3 DEF Arrives, Last

-----------------------------------------------------------------------------
(* The browsers keep up with the bridge.                                   *)

\* What is on its way to the bridge, or in a browser, does not touch the readback.
LEMMA OthersTimely ==
  ASSUME Timely, \A b \in Browsers : FrameComes(b)',
         UNCHANGED <<scope, threads, totalmix, reading>>
  PROVE  Timely'
BY DEF Timely, ReadbackDue, ReaderTells, threads, totalmix, reading

LEMMA SentTimely ==
  ASSUME IInv, Timely, NEW c \in Callers, NEW v \in Values, Sent(c, v),
         UNCHANGED <<scope, threads, totalmix, reading>>
  PROVE  Timely'
<1>1. inbox[c] \in Seq(Values)
  BY DEF IInv, TypeOK
<1>2. inbox'[c] = Append(inbox[c], v)
  BY DEF Sent, IInv, TypeOK
<1>3. inbox'[c] # <<>>
  BY <1>1, <1>2, AppendProperties
<1>4. \A b \in Browsers : FrameComes(b)'
  BY <1>3 DEF FrameComes
<1> QED
  BY <1>4, OthersTimely

LEMMA FaderTimely ==
  ASSUME IInv, mishaps' = {}, NEW v \in Values, MovesFader(v)
  PROVE  Timely'
<1>1. ~Busy /\ v \notin {report, pushed}
  BY Zenon DEF MovesFader, Suffers, If
<1>2. News'
  BY <1>1 DEF MovesFader, News, watching
<1>3. (\A p \in Procs : pc'[p] = "idle") /\ ~readback' /\ reader' = "idle"
  BY <1>1 DEF MovesFader, Busy, threads, reading
<1> QED
  BY <1>2, <1>3 DEF Timely, ReadbackDue, ReaderTells, FrameComes

LEMMA KnobSetTimely ==
  ASSUME IInv, Timely, NEW c \in Callers, KnobSet(c)
  PROVE  Timely'
<1>0. /\ pc \in [Procs -> CallerAt \cup TimerAt]
      /\ c \in Procs /\ Callers \subseteq Procs /\ Timers \subseteq Procs
      /\ Callers \cap Timers = {}
      /\ scope \in {"mix", "channel"}
  BY KnobAssumption DEF IInv, TypeOK, Procs
<1>1. \A b \in Browsers : FrameComes(b)'
  BY KnobSetIsAhead, AheadIsAll DEF FrameComes
<1>2. CASE Writes(c)
  <2>1. pc' = [pc EXCEPT ![c] = "store"] /\ UNCHANGED <<scope, reading>>
    BY <1>0, <1>2 DEF Writes, Goto
  <2>2. ReadbackDue'
    BY <1>0, <2>1 DEF Timely, ReadbackDue, reading
  <2>3. ReaderTells'
    BY <1>0, <2>1 DEF ReaderTells
  <2> QED
    BY <1>1, <2>2, <2>3 DEF Timely
<1>3. CASE Stores(c)
  <2>1. scope' = scope /\ reader' = reader /\ (readback' <=> scope = "channel")
    BY <1>3, Zenon DEF Stores
  <2>2. ReadbackDue' /\ ReaderTells'
    BY <1>0, <2>1 DEF Timely, ReadbackDue, ReaderTells
  <2> QED
    BY <1>1, <2>2 DEF Timely
<1>4. CASE \/ Throttled(c) \/ AlreadyArmed(c) \/ NoneArmed(c) \/ Unthrottled(c)
           \/ Claims(c) \/ \E t \in Timers : Registers(c, t)
  <2>1. /\ UNCHANGED <<scope, totalmix, reading>>
        /\ pc[c] \in {"check", "arm", "register", "claim"}
    BY <1>4 DEF Throttled, AlreadyArmed, NoneArmed, Unthrottled, Claims,
       Registers, Goto, bridge
  <2>2. scope = "channel" => readback
    BY <1>0, <2>1 DEF Timely, ReadbackDue
  <2>3. \A d \in Callers : pc[d] = "store" => pc'[d] = "store"
    <3>1. CASE Throttled(c) \/ AlreadyArmed(c) \/ NoneArmed(c) \/ Unthrottled(c)
      BY <1>0, <3>1 DEF Throttled, AlreadyArmed, NoneArmed, Unthrottled, Goto
    <3>2. CASE Claims(c)
      BY <1>0, <3>2 DEF Claims, Pending
    <3>3. ASSUME NEW t \in Timers, Registers(c, t)
          PROVE  \A d \in Callers : pc[d] = "store" => pc'[d] = "store"
      BY <1>0, <3>3 DEF Registers
    <3> QED
      BY <1>4, <3>1, <3>2, <3>3
  <2>4. ReadbackDue'
    BY <1>0, <2>1, <2>2 DEF Timely, ReadbackDue, reading
  <2>5. ReaderTells'
    BY <2>1, <2>3 DEF Timely, ReaderTells, totalmix, reading
  <2> QED
    BY <1>1, <2>4, <2>5 DEF Timely
<1> QED
  BY <1>2, <1>3, <1>4 DEF KnobSet

LEMMA FlushTimely ==
  ASSUME IInv, Timely, NEW t \in Timers, Fires(t) \/ Pops(t)
  PROVE  Timely'
<1>0. /\ pc \in [Procs -> CallerAt \cup TimerAt]
      /\ t \in Procs /\ t \notin Callers
      /\ scope \in {"mix", "channel"}
  BY KnobAssumption DEF IInv, TypeOK, Procs
<1>1. /\ UNCHANGED <<scope, totalmix, reading>>
      /\ pc[t] \in {"armed", "late", "fired"}
  BY DEF Fires, Pops, Goto, bridge
<1>2. \A p \in Procs : p # t => pc'[p] = pc[p]
  BY <1>0 DEF Fires, Pops, Goto
<1>3. ReadbackDue'
  BY <1>0, <1>1 DEF Timely, ReadbackDue, reading
<1>4. ReaderTells'
  BY <1>0, <1>1, <1>2 DEF Timely, ReaderTells, totalmix, reading, Procs
<1>5. \A b \in Browsers : FrameComes(b)'
  BY FlushIsAhead, AheadIsAll DEF FrameComes
<1> QED
  BY <1>3, <1>4, <1>5 DEF Timely

\* The frame that is sent is of the last value, and it reaches every browser; or
\* another is ahead, or a readback is.
LEMMA BroadcastTimely ==
  ASSUME IInv, Ordered, Timely, NEW p \in Procs, Broadcast(p)
  PROVE  Timely'
<1>0. /\ pc \in [Procs -> CallerAt \cup TimerAt]
      /\ Callers \subseteq Procs
      /\ got \in [Procs -> Known] /\ device \in Known
      /\ scope \in {"mix", "channel"}
  BY KnobAssumption DEF IInv, TypeOK, Procs
<1>1. /\ UNCHANGED <<scope, totalmix, reading>>
      /\ pc[p] \in {"stamp"} \cup InBroadcast
  BY <1>0 DEF Broadcast, Stamps, ReadsState, Publishes, Builds, Broadcasts, Goto,
     InBroadcast, bridge, watching
<1>2. scope = "channel" => readback
  BY <1>0, <1>1 DEF Timely, ReadbackDue, InBroadcast
<1>3. ReadbackDue'
  BY <1>0, <1>1, <1>2 DEF Timely, ReadbackDue, reading
<1>4. \A c \in Callers : pc[c] = "store" => pc'[c] = "store"
  BY <1>0 DEF Broadcast, Stamps, ReadsState, Publishes, Builds, Broadcasts, Goto
<1>5. ReaderTells'
  BY <1>1, <1>4 DEF Timely, ReaderTells, totalmix, reading
<1>6. ASSUME pc'[p] \in ToBuild
      PROVE  \A b \in Browsers : FrameComes(b)'
  BY <1>6 DEF Some, FrameComes
<1>7. CASE Stamps(p) \/ ReadsState(p) \/ Publishes(p)
  <2>1. pc'[p] \in ToBuild
    BY <1>0, <1>7 DEF Stamps, ReadsState, Publishes, Goto, ToBuild, ToRead
  <2> QED
    BY <1>3, <1>5, <1>6, <2>1 DEF Timely
<1>8. CASE Builds(p)
  <2>1. pc[p] = "build" /\ pc'[p] = "broadcast" /\ got'[p] = knobValue
    BY <1>0, <1>8 DEF Builds, Goto
  <2>2. CASE knobValue = device
    <3>1. \A b \in Browsers : FrameComes(b)'
      BY <1>0, <1>1, <1>2, <2>1, <2>2 DEF FrameComes, totalmix, reading
    <3> QED
      BY <1>3, <1>5, <3>1 DEF Timely
  <2>3. CASE knobValue # device
    <3>1. \E c \in Callers : pc[c] = "store"
      BY <2>1, <2>3 DEF Ordered, BridgeLags, Busy
    <3>2. Some(Ahead)'
      BY <1>0, <1>4, <3>1 DEF Some, Ahead
    <3> QED
      BY <1>3, <1>5, <3>2, AheadIsAll DEF FrameComes, Timely
  <2> QED
    BY <1>3, <1>5, <2>2, <2>3 DEF Timely
<1>9. CASE Broadcasts(p)
  <2>1. /\ pc[p] = "broadcast" /\ \A q \in Procs : q # p => pc'[q] = pc[q]
    BY <1>0, <1>9 DEF Broadcasts, Goto
  <2>2. Some(ToBuild) => Some(ToBuild)'
    BY <2>1 DEF Some, ToBuild, ToRead, Ahead, Pending
  <2>3. \A b \in Browsers : FrameComes(b)'
    <3>1. CASE scope = "channel"
      BY <1>1, <1>2, <3>1 DEF FrameComes, reading
    <3>2. CASE scope = "mix" /\ got[p] = device
      <4>1. Stream(p) \in BOOLEAN
        BY StreamIsBoolean DEF IInv
      <4>2. ToAll(Frame(got[p], Stream(p))) /\ device' = got[p] /\ scope' = "mix"
        BY <1>1, <1>9, <3>2 DEF Broadcasts, totalmix
      <4> QED
        BY <1>0, <4>1, <4>2, AllArrive DEF FrameComes, IInv
    <3>3. CASE got[p] # device
      BY <2>1, <2>2, <3>3 DEF Ordered, SendsLast, FrameComes
    <3> QED
      BY <1>0, <3>1, <3>2, <3>3
  <2> QED
    BY <1>3, <1>5, <2>3 DEF Timely
<1> QED
  BY <1>7, <1>8, <1>9 DEF Broadcast

LEMMA ReadbackTimely ==
  ASSUME IInv, Ordered, Timely, mishaps' = {}, Readback \/ WindowCloses
  PROVE  Timely'
<1>0. /\ scope \in {"mix", "channel"} /\ Callers \subseteq Procs
      /\ device \in Known /\ back \in Known
  BY KnobAssumption DEF IInv, TypeOK, Procs
<1>1. /\ UNCHANGED <<scope, inbox, pc, got, device, knobValue>>
      /\ UNCHANGED <<pushed, watcher, seen>>
      /\ report' \in {device, report}
  BY DEF Readback, ReadbackFires, ReadbackBuilds, ReadbackBroadcasts, WindowCloses,
     threads, totalmix, bridge, watching
<1>2. \A S : Some(S)' = Some(S)
  BY <1>1 DEF Some
<1>3. \A c \in Callers : pc[c] = "store" => Some(ToBuild)
  BY <1>0 DEF Some, ToBuild, ToRead, Ahead
<1>4. CASE WindowCloses
  <2>1. UNCHANGED <<threads, totalmix, reading, watching, screens>>
    BY <1>4 DEF WindowCloses
  <2>2. \A b \in Browsers : FrameComes(b)'
    BY <1>1, <2>1 DEF Timely, FrameComes, Some, News, Arrives, totalmix, reading,
       screens, Last
  <2> QED
    BY <1>1, <2>1, <2>2, OthersTimely
<1>5. CASE Readback
  <2>1. knobValue = device \/ \E c \in Callers : pc[c] = "store"
    BY <1>5 DEF Readback, ReadbackFires, ReadbackBuilds, ReadbackBroadcasts, Ordered,
       BridgeLags, Busy
  <2>2. CASE ReadbackFires
    <3>1. \A p \in Procs : pc[p] \in {"idle", "store"}
      BY <2>2, Zenon DEF ReadbackFires, Suffers, If
    <3>2. ReadbackDue'
      BY <1>0, <1>1, <2>2, <3>1 DEF Timely, ReadbackDue, ReadbackFires
    <3>3. ReaderTells' /\ \A b \in Browsers : FrameComes(b)'
      BY <2>2 DEF ReadbackFires, ReaderTells, FrameComes
    <3> QED
      BY <3>2, <3>3 DEF Timely
  <2>3. CASE ReadbackBuilds
    <3>1. scope = "channel"
      BY <1>0, <2>3 DEF ReadbackBuilds, Timely, ReadbackDue
    <3>2. ReadbackDue' /\ ReaderTells'
      BY <1>1, <2>1, <2>3, <3>1 DEF ReadbackBuilds, Timely, ReadbackDue, ReaderTells
    <3>3. \A b \in Browsers : FrameComes(b)'
      BY <1>1, <1>2, <1>3, <2>1, <2>3 DEF ReadbackBuilds, FrameComes
    <3> QED
      BY <3>2, <3>3 DEF Timely
  <2>4. CASE ReadbackBroadcasts
    <3>1. ReadbackDue' /\ ReaderTells'
      BY <1>0, <1>1, <2>4 DEF ReadbackBroadcasts, Timely, ReadbackDue, ReaderTells
    <3>2. \A b \in Browsers : FrameComes(b)'
      <4>1. CASE back = device
        <5>1. ToAll(Frame(back, FALSE)) /\ back = device'
          BY <1>1, <2>4, <4>1 DEF ReadbackBroadcasts
        <5> QED
          BY <1>0, <5>1, AllArrive DEF FrameComes, IInv
      <4>2. CASE readback
        BY <2>4, <4>2 DEF ReadbackBroadcasts, FrameComes
      <4>3. CASE \E c \in Callers : pc[c] = "store"
        BY <1>2, <1>3, <4>3 DEF FrameComes
      <4> QED
        BY <2>4, <4>1, <4>2, <4>3 DEF ReadbackBroadcasts, Timely, ReaderTells
    <3> QED
      BY <3>1, <3>2 DEF Timely
  <2> QED
    BY <1>5, <2>2, <2>3, <2>4 DEF Readback
<1> QED
  BY <1>4, <1>5

LEMMA WatcherTimely ==
  ASSUME IInv, Ordered, Timely, Watcher
  PROVE  Timely'
<1>0. report \in Known /\ seen \in Known
  BY DEF IInv, TypeOK
<1>1. UNCHANGED <<scope, inbox, threads, totalmix, reading>>
  BY DEF Watcher, WatcherReads, WatcherBroadcasts, WatcherPublishes
<1>2. /\ UNCHANGED <<scope, inbox, pc, got, device, report, readback, reader, back>>
      /\ \A S : Some(S)' = Some(S)
  BY <1>1 DEF threads, totalmix, reading, Some
<1>3. \A b \in Browsers : FrameComes(b)'
  <2>1. CASE WatcherReads
    <3>1. watcher' = "broadcast" /\ seen' = report /\ watcher = "idle"
      BY <2>1 DEF WatcherReads
    <3>2. UNCHANGED <<queue, shown, echo>>
      BY <2>1 DEF WatcherReads, screens
    <3> QED
      BY <1>2, <3>1, <3>2 DEF Timely, FrameComes, News, Arrives, Last
  <2>2. CASE WatcherBroadcasts
    <3>1. watcher = "broadcast" /\ pushed' = pushed
      BY <2>2 DEF WatcherBroadcasts
    <3>2. CASE seen = device
      <4>1. ToAll(Frame(seen, FALSE)) /\ seen = device'
        BY <1>2, <2>2, <3>2 DEF WatcherBroadcasts
      <4> QED
        BY <1>0, <4>1, AllArrive DEF FrameComes, IInv
    <3>3. CASE News \/ Some(Ahead)
      <4>1. Some(Ahead) => Some(ToBuild)
        BY DEF Some, ToBuild, ToRead
      <4> QED
        BY <1>2, <3>1, <3>3, <4>1 DEF FrameComes, News
    <3> QED
      BY <3>1, <3>2, <3>3 DEF Ordered, WatcherTells
  <2>3. CASE WatcherPublishes
    <3>1. watcher = "publish" /\ UNCHANGED <<pushed, queue, shown, echo>>
      BY <2>3 DEF WatcherPublishes, screens
    <3> QED
      BY <1>2, <3>1 DEF Timely, FrameComes, News, Arrives, Last
  <2> QED
    BY <2>1, <2>2, <2>3 DEF Watcher
<1> QED
  BY <1>1, <1>3, OthersTimely

LEMMA LastOfTail ==
  ASSUME NEW q \in Seq(Frames), q # <<>>
  PROVE  /\ Tail(q) = <<>> => Head(q) = Last(q)
         /\ Tail(q) # <<>> => Last(Tail(q)) = Last(q)
<1>1. /\ Len(q) \in Nat \ {0}
      /\ Tail(q) \in Seq(Frames) /\ Len(Tail(q)) = Len(q) - 1
      /\ \A i \in 1..Len(Tail(q)) : Tail(q)[i] = q[i + 1]
      /\ Head(q) = q[1]
  BY EmptySeq, HeadTailProperties
<1>2. Tail(q) = <<>> <=> Len(q) = 1
  BY <1>1, EmptySeq
<1>3. CASE Len(q) = 1
  BY <1>1, <1>2, <1>3 DEF Last
<1>4. CASE Len(q) # 1
  <2>1. Len(q) - 1 \in 1..Len(Tail(q)) /\ Len(q) - 1 + 1 = Len(q)
    BY <1>1, <1>4
  <2>2. Tail(q)[Len(q) - 1] = q[Len(q)]
    BY <1>1, <2>1
  <2> QED
    BY <1>1, <1>2, <1>4, <2>2 DEF Last
<1> QED
  BY <1>3, <1>4

\* The last frame stays the last until it is taken, and is then shown, or is behind
\* a value that the browser itself has sent.
LEMMA BrowserTimely ==
  ASSUME IInv, Timely, NEW b \in Browsers, Shows(b) \/ Suppresses(b)
  PROVE  Timely'
<1>1. /\ UNCHANGED <<scope, inbox, threads, totalmix, bridge, reading, watching>>
      /\ queue[b] # <<>>
      /\ queue' = [queue EXCEPT ![b] = Tail(@)]
  BY DEF Shows, Suppresses
<1>2. /\ queue \in [Browsers -> Seq(Frames)]
      /\ shown \in [Browsers -> Known] /\ echo \in [Browsers -> Known]
      /\ scope \in {"mix", "channel"}
  BY KnobAssumption DEF IInv, TypeOK, Frames
<1>3. \A d \in Browsers : d # b => /\ queue'[d] = queue[d] /\ shown'[d] = shown[d]
                                   /\ echo'[d] = echo[d]
  BY <1>2 DEF Shows, Suppresses
<1>4. \A d \in Browsers \ {b} : Arrives(d) => Arrives(d)'
  BY <1>1, <1>3 DEF Arrives, totalmix, Last
<1>5. Arrives(b) => Arrives(b)'
  <2> SUFFICES ASSUME Arrives(b)
               PROVE  Arrives(b)'
    OBVIOUS
  <2>1. queue[b] \in Seq(Frames) /\ queue'[b] = Tail(queue[b])
    BY <1>1, <1>2
  <2>2. /\ Last(queue[b]).value = device
        /\ scope = "channel" => ~Last(queue[b]).stream
    BY <1>1 DEF Arrives
  <2>3. device' = device /\ scope' = scope
    BY <1>1 DEF totalmix
  <2>4. CASE Tail(queue[b]) = <<>>
    <3>1. Head(queue[b]) = Last(queue[b])
      BY <1>1, <2>1, <2>4, LastOfTail
    <3>2. CASE Shows(b)
      <4>1. shown'[b] = device'
        BY <1>2, <2>2, <2>3, <3>1, <3>2 DEF Shows
      <4> QED
        BY <2>1, <2>4, <4>1 DEF Arrives
    <3>3. CASE Suppresses(b)
      <4>1. /\ echo[b] # None /\ Head(queue[b]).stream /\ device # echo[b]
            /\ echo' = echo
        BY <2>2, <3>1, <3>3 DEF Suppresses, StaleEcho
      <4>2. scope' = "mix" /\ echo'[b] \notin {None, device'}
        BY <1>2, <2>2, <2>3, <3>1, <4>1
      <4> QED
        BY <2>1, <2>4, <4>2 DEF Arrives
    <3> QED
      BY <3>2, <3>3
  <2>5. CASE Tail(queue[b]) # <<>>
    <3>1. Last(Tail(queue[b])) = Last(queue[b])
      BY <1>1, <2>1, <2>5, LastOfTail
    <3>2. queue'[b] # <<>> /\ Last(queue'[b]) = Last(queue[b])
      BY <2>1, <2>5, <3>1
    <3> QED
      BY <2>2, <2>3, <3>2 DEF Arrives, Last
  <2> QED
    BY <2>4, <2>5
<1>6. \A d \in Browsers : Arrives(d) => Arrives(d)'
  BY <1>4, <1>5
<1>7. \A d \in Browsers : FrameComes(d)'
  BY <1>1, <1>6 DEF Timely, FrameComes, Some, News, threads, totalmix, bridge,
     reading, watching
<1> QED
  BY <1>1, <1>7, OthersTimely

\* Without mishaps the browsers keep up too.
THEOREM TimeInvariance == Spec => []TimeInv
<1>1. Init => TimeInv
  BY DEF Init, TimeInv, Timely, ReadbackDue, ReaderTells, FrameComes
<1>2. IInv /\ OrderInv /\ TimeInv /\ [Next]_vars => TimeInv'
  <2> SUFFICES ASSUME IInv, OrderInv, TimeInv, [Next]_vars, mishaps' = {}
               PROVE  Timely'
    BY DEF TimeInv
  <2>1. mishaps = {}
    BY MishapsStay
  <2>2. Ordered /\ Timely
    BY <2>1 DEF OrderInv, TimeInv, Without
  <2>3. CASE UNCHANGED vars
    <3>1. UNCHANGED <<scope, inbox, threads, totalmix, reading, watching, screens>>
      BY <2>3 DEF vars
    <3>2. \A b \in Browsers : FrameComes(b)'
      BY <2>2, <3>1 DEF Timely, FrameComes, Arrives, Some, News, threads, totalmix,
         reading, watching, screens, Last
    <3> QED
      BY <2>2, <3>1, <3>2, OthersTimely
  <2>4. ASSUME NEW v \in Values,
               \/ \E b \in Browsers : Drags(b, v)
               \/ \E c \in Others : Commands(c, v)
               \/ MovesFader(v)
        PROVE  Timely'
    <3>1. CASE \E b \in Browsers : Drags(b, v)
      BY <2>2, <3>1, SentTimely DEF Drags, Callers
    <3>2. CASE \E c \in Others : Commands(c, v)
      BY <2>2, <3>2, SentTimely DEF Commands, Callers
    <3> QED
      BY <2>4, <3>1, <3>2, FaderTimely
  <2> QED
    BY <2>2, <2>3, <2>4, KnobSetTimely, FlushTimely, BroadcastTimely, ReadbackTimely,
       WatcherTimely, BrowserTimely DEF Next
<1> QED
  BY <1>1, <1>2, Invariance, OrderInvariance, PTL DEF Spec

\* The broker ends with the value TotalMix has, whoever wrote the knob in which
\* order, and however early a readback came: the retained state is the last
\* knob_set's, or the watcher's.
THEOREM FinalValueInBroker == Spec => []FinalValueKept
<1>1. OrderInv => FinalValueKept
  <2> SUFFICES ASSUME Ordered, Settled
               PROVE  state = device
    BY DEF OrderInv, FinalValueKept
  <2>1. StateComes /\ \A p \in Procs : pc[p] = "idle"
    BY DEF Ordered, Settled, Busy
  <2>2. report = pushed /\ watcher = "idle"
    BY DEF Settled
  <2> QED
    BY <2>1, <2>2 DEF StateComes, Some, News, ToRead, Ahead, Pending
<1> QED
  BY <1>1, OrderInvariance, PTL

\* Without mishaps every browser ends with the value TotalMix has, however short its
\* queue and however many others stream, unless it waits for the echo of its own.
THEOREM FinalValueOnScreen == Spec => []FinalValueShown
<1>1. TimeInv => FinalValueShown
  <2> SUFFICES ASSUME Timely, Settled, device # None, NEW b \in Browsers
               PROVE  \/ shown[b] = device
                      \/ scope = "mix" /\ echo[b] \notin {None, device}
    BY DEF TimeInv, FinalValueShown
  <2>1. FrameComes(b) /\ \A p \in Procs : pc[p] = "idle"
    BY DEF Timely, Settled, Busy
  <2>2. report = pushed /\ watcher = "idle" /\ ~readback /\ reader = "idle"
    BY DEF Settled, Busy
  <2>3. queue[b] = <<>> /\ \A c \in Callers : inbox[c] = <<>>
    BY DEF Settled
  <2>4. Arrives(b)
    BY <2>1, <2>2, <2>3
    DEF FrameComes, Some, News, ToBuild, ToRead, Ahead, Pending
  <2> QED
    BY <2>3, <2>4 DEF Arrives
<1> QED
  BY <1>1, TimeInvariance, PTL

=============================================================================
