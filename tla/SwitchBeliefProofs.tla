------------------------- MODULE SwitchBeliefProofs -------------------------
(***************************************************************************)
(* What SwitchBelief's runs check on two threads, proved for any number of *)
(* threads, workspaces, snapshots and commands.                            *)
(***************************************************************************)
EXTENDS SwitchBelief, SequenceTheorems, TLAPS

ClickLocations == {"clickLock"} \cup ClickUnderWay

\* A thread on its way to a send knows what to send, and a macro has no snapshot
\* without its workspace.
AskedFits ==
  \A t \in Threads :
    /\ pc[t] \in {"macroLoaded", "macroRecalled", "loadLock", "loaded"}
                 \cup ClickLocations
         => op[t].ws \in Workspaces
    /\ pc[t] \in {"macroRecalled", "clickWaiting", "clickRecalled", "recallLock",
                  "recalled"}
         => op[t].snap \in Snapshots
    /\ pc[t] \in MacroLocations /\ op[t].ws = None => op[t].snap = None

\* An echo of a macro's publish is only ever under way while it is suppressed.
MacroEchoCovered ==
  (\E i \in DOMAIN broker : broker[i].origin = "macro")
    => Suppressing \/ cooling

\* A click in the calm has nobody beside it but macros without a target.
ClicksApart ==
  calm => \A t, u \in Threads :
    pc[t] \in ClickUnderWay /\ t # u =>
      /\ pc[u] \notin ClickUnderWay
      /\ pc[u] \in HoldsLock => pc[u] = "macroSteps" /\ op[u].snap = None

\* What a thread in the middle of its sends knows of device and belief.
Placed(t) ==
  /\ pc[t] = "macroLoaded" =>
       op[t].snap # None /\ device.ws = op[t].ws /\ belief.ws = op[t].ws
  /\ pc[t] = "macroRecalled" =>
       device = [ws |-> op[t].ws, snap |-> op[t].snap] /\ belief = device
  /\ pc[t] = "clickLoaded" => op[t].snap # None /\ device.ws = op[t].ws
  /\ pc[t] \in {"clickWaiting", "clickRecalled"} =>
       device.ws = op[t].ws /\ (confirmed => belief.ws = op[t].ws)
  /\ pc[t] \in {"clickRecalled", "recalled"} => device.snap = op[t].snap
  /\ pc[t] = "recalled" => (confirmed => belief.ws = device.ws)
  /\ pc[t] # "loaded"

SendersPlaced == calm => \A t \in Threads : Placed(t)

\* Where the belief may lag behind what the thread itself has sent.
Between == {"macroLoaded", "recalled"} \cup ClickUnderWay

\* At any other time a confirmed belief is what the device shows.
ConfirmedIsTrue ==
  calm /\ confirmed /\ (\A t \in Threads : pc[t] \notin Between) =>
    belief = device

IInv ==
  /\ TypeOK
  /\ DeviceLockExact
  /\ GenuineCommands
  /\ AskedFits
  /\ MacroEchoCovered
  /\ ClicksApart
  /\ SendersPlaced
  /\ CalmSteps
  /\ ConfirmedIsTrue

-----------------------------------------------------------------------------
(* The broker as a sequence.                                               *)

LEMMA TailOf ==
  ASSUME NEW S, NEW q \in Seq(S), q # <<>>
  PROVE  /\ Head(q) \in S
         /\ Head(q) = q[1]
         /\ 1 \in DOMAIN q
         /\ Tail(q) \in Seq(S)
         /\ \A i \in DOMAIN Tail(q) : \E j \in DOMAIN q : Tail(q)[i] = q[j]
<1>1. /\ Len(q) \in Nat \ {0}
      /\ DOMAIN q = 1..Len(q)
  BY EmptySeq, LenProperties
<1>2. /\ Tail(q) \in Seq(S)
      /\ Len(Tail(q)) = Len(q) - 1
      /\ \A i \in 1..Len(Tail(q)) : Tail(q)[i] = q[i + 1]
  BY HeadTailProperties
<1>3. DOMAIN Tail(q) = 1..Len(Tail(q))
  BY <1>2, LenProperties
<1>4. Head(q) \in S /\ Head(q) = q[1]
  BY HeadTailProperties
<1>5. \A i \in DOMAIN Tail(q) : Tail(q)[i] = q[i + 1] /\ i + 1 \in DOMAIN q
  BY <1>1, <1>2, <1>3
<1> QED
  BY <1>1, <1>2, <1>4, <1>5

LEMMA AppendOf ==
  ASSUME NEW S, NEW q \in Seq(S), NEW e \in S
  PROVE  /\ Append(q, e) \in Seq(S)
         /\ \A i \in DOMAIN Append(q, e) :
              Append(q, e)[i] = e \/ \E j \in DOMAIN q : Append(q, e)[i] = q[j]
<1>1. /\ Append(q, e) \in Seq(S)
      /\ Len(Append(q, e)) = Len(q) + 1
      /\ \A i \in 1..Len(q) : Append(q, e)[i] = q[i]
      /\ Append(q, e)[Len(q) + 1] = e
  BY AppendProperties
<1>2. /\ DOMAIN q = 1..Len(q)
      /\ Len(q) \in Nat
      /\ DOMAIN Append(q, e) = 1..Len(Append(q, e))
  BY <1>1, LenProperties
<1>3. \A i \in DOMAIN Append(q, e) : i \in DOMAIN q \/ i = Len(q) + 1
  BY <1>1, <1>2
<1> QED
  BY <1>1, <1>2, <1>3

LEMMA ConcatOf ==
  ASSUME NEW S, NEW q \in Seq(S), NEW r \in Seq(S)
  PROVE  /\ q \o r \in Seq(S)
         /\ \A i \in DOMAIN (q \o r) :
              \/ \E j \in DOMAIN q : (q \o r)[i] = q[j]
              \/ \E j \in DOMAIN r : (q \o r)[i] = r[j]
<1>1. /\ q \o r \in Seq(S)
      /\ Len(q \o r) = Len(q) + Len(r)
      /\ \A i \in 1..Len(q \o r) :
           (q \o r)[i] = IF i <= Len(q) THEN q[i] ELSE r[i - Len(q)]
  BY ConcatProperties
<1>2. /\ DOMAIN q = 1..Len(q) /\ Len(q) \in Nat
      /\ DOMAIN r = 1..Len(r) /\ Len(r) \in Nat
      /\ DOMAIN (q \o r) = 1..Len(q \o r)
  BY <1>1, LenProperties
<1>3. ASSUME NEW i \in DOMAIN (q \o r)
      PROVE  \/ \E j \in DOMAIN q : (q \o r)[i] = q[j]
             \/ \E j \in DOMAIN r : (q \o r)[i] = r[j]
  <2>1. CASE i <= Len(q)
    BY <1>1, <1>2, <2>1
  <2>2. CASE ~(i <= Len(q))
    <3>1. i - Len(q) \in DOMAIN r
      BY <1>1, <1>2, <2>2
    <3> QED
      BY <1>1, <1>2, <2>2, <3>1
  <2> QED
    BY <2>1, <2>2
<1> QED
  BY <1>1, <1>3

-----------------------------------------------------------------------------
(* Types.                                                                  *)

LEMMA StoreType ==
  ASSUME NEW f \in Stores, NEW tp \in Topics, NEW v \in Values(tp) \cup {None}
  PROVE  [f EXCEPT ![tp] = v] \in Stores
BY DEF Stores, Values, Topics

LEMMA MessageType ==
  ASSUME NEW tp \in Topics, NEW v \in Values(tp), NEW from \in Origins
  PROVE  /\ Message(tp, v, from) \in Messages
         /\ Message(tp, v, from).origin = from
BY DEF Message, Messages, Values, Topics

LEMMA FirstMessage ==
  ASSUME TypeOK, Received
  PROVE  /\ Msg \in Messages
         /\ Msg.topic \in Topics
         /\ Msg.value \in Values(Msg.topic)
         /\ Msg.origin \in Origins
         /\ 1 \in DOMAIN broker /\ Msg = broker[1]
         /\ broker' \in Seq(Messages)
         /\ \A i \in DOMAIN broker' : \E j \in DOMAIN broker : broker'[i] = broker[j]
<1>1. broker \in Seq(Messages) /\ broker # <<>> /\ broker' = Tail(broker)
  BY DEF TypeOK, Received
<1>2. Msg \in Messages /\ Msg = broker[1] /\ 1 \in DOMAIN broker
  BY <1>1, TailOf DEF Msg
<1>3. /\ broker' \in Seq(Messages)
      /\ \A i \in DOMAIN broker' : \E j \in DOMAIN broker : broker'[i] = broker[j]
  BY <1>1, TailOf
<1> QED
  BY <1>2, <1>3 DEF Messages

LEMMA Replays ==
  ASSUME TypeOK, NEW tp \in Topics
  PROVE  /\ Replay(tp) \in Seq(Messages)
         /\ \A i \in DOMAIN Replay(tp) : Replay(tp)[i].origin = "replay"
<1>1. retained[tp] \in Values(tp) \cup {None}
  BY DEF TypeOK, Stores
<1>2. CASE retained[tp] = None
  BY <1>2 DEF Replay
<1>3. CASE retained[tp] # None
  <2>1. "replay" \in Origins
    BY DEF Origins
  <2>2. /\ Message(tp, retained[tp], "replay") \in Messages
        /\ Message(tp, retained[tp], "replay").origin = "replay"
    BY <1>1, <1>3, <2>1, MessageType
  <2> QED
    BY <1>3, <2>2 DEF Replay
<1> QED
  BY <1>2, <1>3

LEMMA Subscription ==
  ASSUME TypeOK, Subscribes
  PROVE  /\ broker' \in Seq(Messages)
         /\ \A i \in DOMAIN broker' : broker'[i].origin = "replay"
<1>1. "snapshot" \in Topics /\ "workspace" \in Topics
  BY DEF Topics
<1>2. ASSUME NEW a \in Topics, NEW b \in Topics
      PROVE  /\ Replay(a) \o Replay(b) \in Seq(Messages)
             /\ \A i \in DOMAIN (Replay(a) \o Replay(b)) :
                  (Replay(a) \o Replay(b))[i].origin = "replay"
  <2>1. /\ Replay(a) \in Seq(Messages) /\ Replay(b) \in Seq(Messages)
        /\ \A i \in DOMAIN Replay(a) : Replay(a)[i].origin = "replay"
        /\ \A i \in DOMAIN Replay(b) : Replay(b)[i].origin = "replay"
    BY Replays
  <2> QED
    BY <2>1, ConcatOf
<1> QED
  BY <1>1, <1>2 DEF Subscribes

LEMMA ArrivesType ==
  ASSUME TypeOK, NEW t \in Threads, NEW d \in Devices, NEW c \in BOOLEAN,
         Arrives(t, d, c)
  PROVE  /\ device' \in Devices
         /\ reached' \in [Threads -> BOOLEAN]
         /\ calm' \in BOOLEAN
BY DEF TypeOK, Arrives

LEMMA LoadType ==
  ASSUME TypeOK, NEW t \in Threads, op[t].ws \in Workspaces, NEW c \in BOOLEAN,
         Load(t, c)
  PROVE  /\ device' \in Devices
         /\ reached' \in [Threads -> BOOLEAN]
         /\ calm' \in BOOLEAN
<1>1. PICK s \in Snapshots : Arrives(t, [ws |-> op[t].ws, snap |-> s], c)
  BY DEF Load
<1>2. [ws |-> op[t].ws, snap |-> s] \in Devices
  BY DEF Devices
<1> QED
  BY <1>1, <1>2, ArrivesType

LEMMA RecallType ==
  ASSUME TypeOK, NEW t \in Threads, op[t].snap \in Snapshots, NEW c \in BOOLEAN,
         Recall(t, c)
  PROVE  /\ device' \in Devices
         /\ reached' \in [Threads -> BOOLEAN]
         /\ calm' \in BOOLEAN
<1>1. [device EXCEPT !.snap = op[t].snap] \in Devices
  BY DEF Devices, TypeOK
<1> QED
  BY <1>1, ArrivesType DEF Recall

LEMMA PublishType ==
  ASSUME TypeOK, NEW tp \in Topics, NEW v \in Values(tp), NEW from \in Origins,
         Publish(tp, v, from)
  PROVE  /\ broker' \in Seq(Messages)
         /\ retained' \in Stores
         /\ \A i \in DOMAIN broker' :
              broker'[i].origin = from \/ \E j \in DOMAIN broker : broker'[i] = broker[j]
<1>1. Message(tp, v, from) \in Messages /\ Message(tp, v, from).origin = from
  BY MessageType
<1>2. broker \in Seq(Messages) /\ retained \in Stores
  BY DEF TypeOK
<1>3. retained' \in Stores
  BY <1>2, StoreType DEF Publish
<1> QED
  BY <1>1, <1>2, <1>3, AppendOf DEF Publish

LEMMA PublishedType ==
  ASSUME NEW tp \in Topics, NEW v \in Values(tp) \cup {None}
  PROVE  PublishedAgain(tp, v) \in Seq(Messages)
<1>1. CASE v = None
  BY <1>1 DEF PublishedAgain
<1>2. CASE v # None
  <2>1. "macro" \in Origins
    BY DEF Origins, AllSources
  <2>2. Message(tp, v, "macro") \in Messages
    BY <1>2, <2>1, MessageType
  <2> QED
    BY <1>2, <2>2 DEF PublishedAgain
<1> QED
  BY <1>1, <1>2

LEMMA GotoType ==
  ASSUME TypeOK, NEW t \in Threads, NEW from, NEW to \in Locations,
         Goto(t, from, to)
  PROVE  /\ pc' \in [Threads -> Locations]
         /\ pc[t] = from
         /\ pc'[t] = to
         /\ \A u \in Threads \ {t} : pc'[u] = pc[u]
BY DEF TypeOK, Goto

LEMMA ReturnType ==
  ASSUME TypeOK, NEW t \in Threads, NEW from, Return(t, from)
  PROVE  /\ pc' \in [Threads -> Locations]
         /\ pc[t] = from
         /\ pc'[t] = "idle"
         /\ op' \in [Threads -> Ops]
         /\ reached' \in [Threads -> BOOLEAN]
         /\ \A u \in Threads \ {t} : pc'[u] = pc[u] /\ op'[u] = op[u]
<1>1. "idle" \in Locations
  BY DEF Locations
<1>2. NoOp \in Ops
  BY DEF NoOp, Ops
<1> QED
  BY <1>1, <1>2, GotoType DEF TypeOK, Return

LEMMA AskedType ==
  ASSUME TypeOK, NEW t \in Threads, NEW w \in Workspaces \cup {None},
         NEW s \in Snapshots \cup {None}, NEW from \in Origins,
         Asked(t, w, s, from)
  PROVE  /\ op' \in [Threads -> Ops]
         /\ op'[t] = [ws |-> w, snap |-> s, origin |-> from]
         /\ \A u \in Threads \ {t} : op'[u] = op[u]
<1>1. [ws |-> w, snap |-> s, origin |-> from] \in Ops
  BY DEF Ops
<1> QED
  BY <1>1 DEF TypeOK, Asked

LEMMA MarkedType ==
  ASSUME TypeOK, NEW tp \in Topics, NEW v \in Values(tp), PublishMarked(tp, v)
  PROVE  /\ broker' \in Seq(Messages)
         /\ retained' \in Stores
         /\ marks' \in Stores
         /\ \A i \in DOMAIN broker' :
              broker'[i].origin = "marked" \/
              \E j \in DOMAIN broker : broker'[i] = broker[j]
<1>1. "marked" \in Origins
  BY DEF Origins
<1>2. Publish(tp, v, "marked") /\ marks' = [marks EXCEPT ![tp] = v]
  BY DEF PublishMarked, Mark
<1>3. marks' \in Stores
  BY <1>2, StoreType DEF TypeOK
<1> QED
  BY <1>1, <1>2, <1>3, PublishType

LEMMA RefreshType ==
  ASSUME TypeOK, NEW tp \in Topics, NEW v \in Values(tp), Refreshes(tp, v)
  PROVE  /\ broker' \in Seq(Messages)
         /\ retained' \in Stores
         /\ marks' \in Stores
         /\ \A i \in DOMAIN broker' :
              broker'[i].origin = "marked" \/
              \E j \in DOMAIN broker : broker'[i] = broker[j]
<1>1. CASE confirmed'
  BY <1>1, MarkedType DEF Refreshes
<1>2. CASE ~confirmed'
  BY <1>2 DEF Refreshes, TypeOK, mqttVars
<1> QED
  BY <1>1, <1>2

\* The steps of a thread keep the types.
LEMMA ThreadTypes ==
  ASSUME SwitchAssumption, TypeOK, AskedFits, NEW t \in Threads, Advance(t)
  PROVE  TypeOK'
<1> USE DEF vars, threadVars, beliefVars, mqttVars, newsVars
<1>1. /\ {"macroLock", "macroLoaded", "macroRecalled", "macroSteps",
          "clickLock", "clickLoaded", "clickWaiting", "clickRecalled",
          "loadLock", "loaded", "recallLock", "recalled", "idle"}
           \subseteq Locations
      /\ {"macro", "click", "feed", "marked"} \subseteq Origins
      /\ "workspace" \in Topics /\ "snapshot" \in Topics
      /\ Values("workspace") = Workspaces
      /\ Values("snapshot") = Snapshots
  BY DEF Locations, MacroLocations, MqttLocations, Origins, AllSources, Topics, Values
<1>2. CASE MacroBlocked(t)
  <2>1. Return(t, "macroLock")
    BY <1>2 DEF MacroBlocked
  <2> QED
    BY <1>2, <2>1, ReturnType DEF MacroBlocked, TypeOK, Cooldown
<1>3. CASE MacroSkips(t) \/ MacroHasNoTarget(t)
  <2>1. Goto(t, "macroLock", "macroSteps")
    BY <1>3 DEF MacroSkips, MacroHasNoTarget
  <2>2. calm' \in BOOLEAN
    BY <1>3 DEF MacroSkips, MacroHasNoTarget, TypeOK
  <2> QED
    BY <1>1, <1>3, <2>1, <2>2, GotoType
    DEF MacroSkips, MacroHasNoTarget, TypeOK, TakeLock
<1>4. CASE MacroLoads(t)
  <2> DEFINE c == op[t].snap # None /\ NoClickBeside(t)
  <2>1. /\ Goto(t, "macroLock", "macroLoaded")
        /\ Load(t, c)
        /\ Publish("workspace", op[t].ws, "macro")
    BY <1>4 DEF MacroLoads
  <2>2. op[t].ws \in Workspaces
    BY <1>4 DEF MacroLoads, TypeOK, Ops
  <2>3. broker' \in Seq(Messages) /\ retained' \in Stores
    BY <1>1, <2>1, <2>2, PublishType
  <2>4. belief' \in Beliefs
    BY <1>4, <2>2 DEF MacroLoads, TypeOK, Beliefs
  <2>5. c \in BOOLEAN
    OBVIOUS
  <2> HIDE DEF c
  <2>6. device' \in Devices /\ reached' \in [Threads -> BOOLEAN] /\ calm' \in BOOLEAN
    BY <2>1, <2>2, <2>5, LoadType
  <2> QED
    BY <1>1, <1>4, <2>1, <2>3, <2>4, <2>6, GotoType
    DEF MacroLoads, TypeOK, TakeLock
<1>5. CASE MacroRecalls(t)
  <2>1. /\ Goto(t, "macroLoaded", "macroRecalled")
        /\ Recall(t, calm)
        /\ Publish("snapshot", op[t].snap, "macro")
        /\ calm \in BOOLEAN
    BY <1>5 DEF MacroRecalls, TypeOK
  <2>2. op[t].snap \in Snapshots
    BY <1>5 DEF MacroRecalls, TypeOK, Ops
  <2>3. broker' \in Seq(Messages) /\ retained' \in Stores
    BY <1>1, <2>1, <2>2, PublishType
  <2>4. belief' \in Beliefs
    BY <1>5, <2>2 DEF MacroRecalls, TypeOK, Beliefs
  <2>5. confirmed' \in BOOLEAN
    BY <1>5 DEF MacroRecalls, LoadAnswers
  <2> QED
    BY <1>1, <1>5, <2>1, <2>2, <2>3, <2>4, <2>5, GotoType, RecallType
    DEF MacroRecalls, TypeOK
<1>6. CASE MacroConfirms(t) \/ MacroStays(t)
  <2>1. PICK from : Goto(t, from, "macroSteps")
    BY <1>6 DEF MacroConfirms, MacroStays
  <2>2. confirmed' \in BOOLEAN
    BY <1>6 DEF MacroConfirms, RecallAnswers, MacroStays, LoadAnswers
  <2>3. pc' \in [Threads -> Locations]
    BY <1>1, <2>1, GotoType
  <2>4. reached' \in [Threads -> BOOLEAN]
    BY <1>6 DEF MacroConfirms, MacroStays, TypeOK
  <2>5. UNCHANGED <<op, lock, cooling, device, belief, parked, slot, reported,
                    mqttVars, newsVars, commands, calm>>
    BY <1>6 DEF MacroConfirms, MacroStays
  <2> QED
    BY <2>2, <2>3, <2>4, <2>5 DEF TypeOK
<1>7. CASE MacroEnds(t)
  <2>1. Return(t, "macroSteps")
    BY <1>7 DEF MacroEnds
  <2>2. op[t].ws \in Workspaces \cup {None} /\ op[t].snap \in Snapshots \cup {None}
    BY DEF TypeOK, Ops
  <2>3. broker' \in Seq(Messages)
    <3>1. /\ PublishedAgain("workspace", op[t].ws) \in Seq(Messages)
          /\ PublishedAgain("snapshot", op[t].snap) \in Seq(Messages)
      BY <1>1, <2>2, PublishedType
    <3> QED
      BY <1>7, <3>1, ConcatOf DEF MacroEnds, TypeOK
  <2>4. retained' \in Stores
    BY <1>7, <2>2 DEF MacroEnds, TypeOK, Stores, Values, Topics
  <2> QED
    BY <1>7, <2>1, <2>3, <2>4, ReturnType DEF MacroEnds, TypeOK, Cooldown
<1>8. CASE ClickLoads(t)
  <2> DEFINE c == calm /\ op[t].snap # None /\ NoClickBeside(t)
  <2>1. Goto(t, "clickLock", "clickLoaded") /\ Load(t, c)
    BY <1>8 DEF ClickLoads
  <2>2. op[t].ws \in Workspaces
    BY <2>1 DEF AskedFits, Goto, ClickLocations
  <2>3. c \in BOOLEAN
    BY DEF TypeOK
  <2> HIDE DEF c
  <2>4. device' \in Devices /\ reached' \in [Threads -> BOOLEAN] /\ calm' \in BOOLEAN
    BY <2>1, <2>2, <2>3, LoadType
  <2> QED
    BY <1>1, <1>8, <2>1, <2>4, GotoType DEF ClickLoads, TypeOK
<1>9. CASE ClickBelieves(t)
  <2>1. /\ Publish("workspace", op[t].ws, "click")
        /\ pc[t] = "clickLoaded"
    BY <1>9 DEF ClickBelieves, Return, Goto
  <2>2. op[t].ws \in Workspaces
    BY <2>1 DEF AskedFits, ClickLocations, ClickUnderWay
  <2>3. broker' \in Seq(Messages) /\ retained' \in Stores
    BY <1>1, <2>1, <2>2, PublishType
  <2>4. belief' \in Beliefs
    BY <1>9, <2>2 DEF ClickBelieves, TypeOK, Beliefs
  <2>5. /\ pc' \in [Threads -> Locations]
        /\ op' \in [Threads -> Ops]
        /\ reached' \in [Threads -> BOOLEAN]
    <3>1. CASE op[t].snap = None
      BY <1>9, <3>1, ReturnType DEF ClickBelieves
    <3>2. CASE op[t].snap # None
      <4>1. /\ Goto(t, "clickLoaded", "clickWaiting")
            /\ reached' = [reached EXCEPT ![t] = FALSE]
            /\ op' = op
        BY <1>9, <3>2 DEF ClickBelieves
      <4> QED
        BY <1>1, <4>1, GotoType DEF TypeOK
    <3> QED
      BY <3>1, <3>2
  <2> QED
    BY <1>9, <2>3, <2>4, <2>5 DEF ClickBelieves, TypeOK
<1>10. CASE ClickRecalls(t)
  <2>1. Goto(t, "clickWaiting", "clickRecalled") /\ Recall(t, calm) /\ calm \in BOOLEAN
    BY <1>10 DEF ClickRecalls, TypeOK
  <2>2. op[t].snap \in Snapshots
    BY <2>1 DEF AskedFits, Goto
  <2> QED
    BY <1>1, <1>10, <2>1, <2>2, GotoType, RecallType DEF ClickRecalls, TypeOK
<1>11. CASE ClickEnds(t)
  <2>1. /\ Publish("snapshot", op[t].snap, "click")
        /\ Return(t, "clickRecalled")
    BY <1>11 DEF ClickEnds
  <2>2. op[t].snap \in Snapshots
    BY <2>1 DEF AskedFits, Return, Goto
  <2>3. broker' \in Seq(Messages) /\ retained' \in Stores
    BY <1>1, <2>1, <2>2, PublishType
  <2>4. belief' \in Beliefs
    BY <1>11, <2>2 DEF ClickEnds, TypeOK, Beliefs
  <2> QED
    BY <1>11, <2>1, <2>3, <2>4, ReturnType DEF ClickEnds, TypeOK
<1>12. CASE SwitchLoads(t)
  <2>1. Goto(t, "loadLock", "loaded") /\ Load(t, FALSE)
    BY <1>12 DEF SwitchLoads
  <2>2. op[t].ws \in Workspaces
    BY <2>1 DEF AskedFits, Goto
  <2> QED
    BY <1>1, <1>12, <2>1, <2>2, GotoType, LoadType DEF SwitchLoads, TypeOK, TakeLock
<1>13. CASE LoadEnds(t)
  <2>1. Return(t, "loaded") /\ Refreshes("workspace", op[t].ws)
    BY <1>13 DEF LoadEnds
  <2>2. op[t].ws \in Workspaces
    BY <2>1 DEF AskedFits, Return, Goto
  <2>3. broker' \in Seq(Messages) /\ retained' \in Stores /\ marks' \in Stores
    BY <1>1, <2>1, <2>2, RefreshType
  <2>4. belief' \in Beliefs /\ confirmed' \in BOOLEAN
    BY <1>13, <2>2 DEF LoadEnds, TypeOK, Beliefs, LoadAnswers
  <2> QED
    BY <1>13, <2>1, <2>3, <2>4, ReturnType DEF LoadEnds, TypeOK, Release
<1>14. CASE SwitchRecalls(t)
  <2> DEFINE c == calm /\ NoClickBeside(t)
  <2>1. Goto(t, "recallLock", "recalled") /\ Recall(t, c)
    BY <1>14 DEF SwitchRecalls
  <2>2. op[t].snap \in Snapshots
    BY <2>1 DEF AskedFits, Goto
  <2>3. c \in BOOLEAN
    BY DEF TypeOK
  <2> HIDE DEF c
  <2>4. device' \in Devices /\ reached' \in [Threads -> BOOLEAN] /\ calm' \in BOOLEAN
    BY <2>1, <2>2, <2>3, RecallType
  <2> QED
    BY <1>1, <1>14, <2>1, <2>4, GotoType DEF SwitchRecalls, TypeOK, TakeLock
<1>15. CASE RecallEnds(t)
  <2>1. Return(t, "recalled") /\ Refreshes("snapshot", op[t].snap)
    BY <1>15 DEF RecallEnds
  <2>2. op[t].snap \in Snapshots
    BY <2>1 DEF AskedFits, Return, Goto
  <2>3. broker' \in Seq(Messages) /\ retained' \in Stores /\ marks' \in Stores
    BY <1>1, <2>1, <2>2, RefreshType
  <2>4. belief' \in Beliefs /\ confirmed' \in BOOLEAN
    BY <1>15, <2>2 DEF RecallEnds, TypeOK, Beliefs, RecallAnswers
  <2> QED
    BY <1>15, <2>1, <2>3, <2>4, ReturnType DEF RecallEnds, TypeOK, Release
<1> QED
  BY <1>2, <1>3, <1>4, <1>5, <1>6, <1>7, <1>8, <1>9,
     <1>10, <1>11, <1>12, <1>13, <1>14, <1>15 DEF Advance

\* So do the messages, the reports, and whatever happens around the bridge.
LEMMA TypesKept ==
  ASSUME SwitchAssumption, TypeOK, AskedFits, [Next]_vars
  PROVE  TypeOK'
<1> USE DEF threadVars, beliefVars, mqttVars, newsVars
<1>1. /\ {"macroLock", "clickLock", "loadLock", "recallLock", "idle"}
           \subseteq Locations
      /\ {"macro", "click", "feed", "marked", "mqtt"} \subseteq Origins
      /\ "workspace" \in Topics /\ "snapshot" \in Topics
      /\ Values("workspace") = Workspaces
      /\ Values("snapshot") = Snapshots
  BY DEF Locations, MacroLocations, MqttLocations, Origins, AllSources, Topics,
     Values
<1>2. ASSUME NEW source, Counted(source)
      PROVE  commands' \in 0..MaxCommands
  BY <1>2 DEF Counted, TypeOK, SwitchAssumption
<1>3. CASE UNCHANGED vars
  BY <1>3 DEF vars, TypeOK
<1>4. ASSUME NEW t \in Threads, NEW target \in Targets, Macro(t, target)
      PROVE  TypeOK'
  <2>1. /\ Goto(t, "idle", "macroLock")
        /\ Asked(t, target[1], target[2], "macro")
        /\ Counted("macro")
        /\ target[1] \in Workspaces \cup {None} /\ target[2] \in Snapshots \cup {None}
    BY <1>4 DEF Macro, Targets
  <2>2. pc' \in [Threads -> Locations] /\ op' \in [Threads -> Ops]
    BY <1>1, <2>1, GotoType, AskedType
  <2> QED
    BY <1>2, <1>4, <2>1, <2>2 DEF Macro, TypeOK
<1>5. ASSUME NEW t \in Threads, NEW w \in Workspaces,
             NEW s \in Snapshots \cup {None}, Click(t, w, s)
      PROVE  TypeOK'
  <2>1. /\ Goto(t, "idle", "clickLock")
        /\ Asked(t, w, s, "click")
        /\ Counted("click")
    BY <1>5 DEF Click
  <2>2. pc' \in [Threads -> Locations] /\ op' \in [Threads -> Ops]
    BY <1>1, <2>1, GotoType, AskedType
  <2> QED
    BY <1>2, <1>5, <2>1, <2>2 DEF Click, TypeOK
<1>6. ASSUME NEW t \in Threads, StartsSwitch(t)
      PROVE  TypeOK'
  <2>1. Received
    BY <1>6 DEF StartsSwitch, Heard
  <2>2. /\ Msg.topic \in Topics
        /\ Msg.value \in Values(Msg.topic)
        /\ Msg.origin \in Origins
        /\ broker' \in Seq(Messages)
    BY <2>1, FirstMessage
  <2>3. CASE Msg.topic = "workspace"
    <3>1. /\ Goto(t, "idle", "loadLock")
          /\ Asked(t, Msg.value, None, Msg.origin)
      BY <1>6, <2>3 DEF StartsSwitch
    <3>2. pc' \in [Threads -> Locations] /\ op' \in [Threads -> Ops]
      BY <1>1, <2>2, <2>3, <3>1, GotoType, AskedType
    <3> QED
      BY <1>6, <2>2, <3>2 DEF StartsSwitch, TypeOK
  <2>4. CASE Msg.topic # "workspace"
    <3>1. /\ Goto(t, "idle", "recallLock")
          /\ Asked(t, None, Msg.value, Msg.origin)
      BY <1>6, <2>4 DEF StartsSwitch
    <3>2. Msg.value \in Snapshots
      BY <2>2, <2>4 DEF Values
    <3>3. pc' \in [Threads -> Locations] /\ op' \in [Threads -> Ops]
      BY <1>1, <2>2, <3>1, <3>2, GotoType, AskedType
    <3> QED
      BY <1>6, <2>2, <3>3 DEF StartsSwitch, TypeOK
  <2> QED
    BY <2>3, <2>4
<1>7. ASSUME NEW tp \in Topics, NEW v \in Values(tp), Commanded(tp, v)
      PROVE  TypeOK'
  <2>1. Message(tp, v, "mqtt") \in Messages
    BY <1>1, MessageType
  <2>2. broker' \in Seq(Messages)
    BY <1>7, <2>1, AppendOf DEF Commanded, TypeOK
  <2>3. Counted("mqtt")
    BY <1>7 DEF Commanded
  <2> QED
    BY <1>2, <1>7, <2>2, <2>3 DEF Commanded, TypeOK
<1>8. CASE DropsEcho
  <2>1. Received /\ marks' = [marks EXCEPT ![Msg.topic] = None]
    BY <1>8 DEF DropsEcho
  <2>2. broker' \in Seq(Messages) /\ marks' \in Stores
    BY <2>1, FirstMessage, StoreType DEF TypeOK
  <2> QED
    BY <1>8, <2>2 DEF DropsEcho, TypeOK
<1>9. CASE Suppresses
  <2>1. broker' \in Seq(Messages)
    BY <1>9, FirstMessage DEF Suppresses
  <2> QED
    BY <1>9, <2>1 DEF Suppresses, TypeOK
<1>10. CASE AbsorbsWorkspace
  <2>1. Received /\ Msg.topic = "workspace"
    BY <1>10 DEF AbsorbsWorkspace, Heard
  <2>2. broker' \in Seq(Messages) /\ Msg.value \in Workspaces
    BY <1>1, <2>1, FirstMessage
  <2>3. belief' \in Beliefs
    BY <1>10, <2>2 DEF AbsorbsWorkspace, TypeOK, Beliefs
  <2> QED
    BY <1>10, <2>2, <2>3 DEF AbsorbsWorkspace, TypeOK
<1>11. CASE AbsorbsSnapshot
  <2>1. Received /\ Msg.topic = "snapshot"
    BY <1>11 DEF AbsorbsSnapshot, Heard
  <2>2. broker' \in Seq(Messages) /\ Msg.value \in Snapshots
    BY <1>1, <2>1, FirstMessage
  <2>3. belief' \in Beliefs
    BY <1>11, <2>2 DEF AbsorbsSnapshot, TypeOK, Beliefs
  <2>4. parked' \in Snapshots \cup {None}
    BY <1>11, <2>2 DEF AbsorbsSnapshot, TypeOK
  <2> QED
    BY <1>11, <2>2, <2>3, <2>4 DEF AbsorbsSnapshot, TypeOK
<1>12. CASE IgnoresActive
  <2>1. broker' \in Seq(Messages)
    BY <1>12, FirstMessage DEF IgnoresActive, Heard
  <2> QED
    BY <1>12, <2>1 DEF IgnoresActive, TypeOK
<1>13. CASE CooldownEnds
  BY <1>13 DEF CooldownEnds, TypeOK
<1>14. ASSUME NEW tp \in Topics, MarkExpires(tp)
       PROVE  TypeOK'
  <2>1. marks' \in Stores
    BY <1>14, StoreType DEF MarkExpires, TypeOK
  <2> QED
    BY <1>14, <2>1 DEF MarkExpires, TypeOK
<1>15. CASE HeartbeatSent
  <2>1. title' \in Workspaces \cup {None} /\ Counted("agent")
    BY <1>15 DEF HeartbeatSent, TypeOK, Devices
  <2> QED
    BY <1>2, <1>15, <2>1 DEF HeartbeatSent, TypeOK
<1>16. CASE ReportIgnored
  BY <1>16 DEF ReportIgnored, TypeOK
<1>17. CASE ReportAdopted
  <2>1. PublishMarked("workspace", title) /\ title \in Workspaces
    BY <1>17 DEF ReportAdopted, TypeOK
  <2>2. broker' \in Seq(Messages) /\ retained' \in Stores /\ marks' \in Stores
    BY <1>1, <2>1, MarkedType
  <2>3. belief' \in Beliefs
    BY <1>17, <2>1 DEF ReportAdopted, TypeOK, Beliefs
  <2> QED
    BY <1>17, <2>1, <2>2, <2>3 DEF ReportAdopted, TypeOK
<1>18. CASE FeedSeen
  <2>1. heard \in Snapshots
    BY <1>18 DEF FeedSeen, TypeOK
  <2>2. belief' \in Beliefs /\ calm' \in BOOLEAN
    BY <1>18, <2>1 DEF FeedSeen, TypeOK, Beliefs
  <2>3. broker' \in Seq(Messages) /\ retained' \in Stores
    <3>1. CASE Publish("snapshot", heard, "feed")
      BY <1>1, <2>1, <3>1, PublishType
    <3>2. CASE UNCHANGED <<broker, retained>>
      BY <3>2 DEF TypeOK
    <3> QED
      BY <1>18, <3>1, <3>2 DEF FeedSeen
  <2> QED
    BY <1>18, <2>1, <2>2, <2>3 DEF FeedSeen, TypeOK
<1>23. CASE FeedReports
  <2>1. heard' \in Snapshots \cup {None} /\ Counted("feed")
    BY <1>23 DEF FeedReports, TypeOK, Devices
  <2> QED
    BY <1>2, <1>23, <2>1 DEF FeedReports, TypeOK
<1>19. ASSUME NEW d \in Devices, UserMoves(d)
       PROVE  TypeOK'
  BY <1>2, <1>19 DEF UserMoves, TypeOK
<1>20. CASE Reconnect
  <2>1. broker' \in Seq(Messages) /\ Counted("reconnect")
    BY <1>20, Subscription DEF Reconnect
  <2> QED
    BY <1>2, <1>20, <2>1 DEF Reconnect, TypeOK
<1>21. CASE Restart
  <2>1. broker' \in Seq(Messages) /\ Counted("restart")
    BY <1>21, Subscription DEF Restart
  <2>2. /\ pc' \in [Threads -> Locations]
        /\ op' \in [Threads -> Ops]
        /\ marks' \in Stores
        /\ belief' \in Beliefs
    BY <1>1, <1>21 DEF Restart, NoOp, Ops, Stores, Beliefs, Values
  <2> QED
    BY <1>2, <1>21, <2>1, <2>2 DEF Restart, TypeOK
<1>22. ASSUME NEW t \in Threads, Advance(t)
       PROVE  TypeOK'
  BY <1>22, ThreadTypes
<1> QED
  BY <1>1, <1>3, <1>4, <1>5, <1>6, <1>7, <1>8, <1>9, <1>10, <1>11, <1>12, <1>13,
     <1>14, <1>15, <1>16, <1>17, <1>18, <1>19, <1>20, <1>21, <1>22,
     <1>23 DEF Next

-----------------------------------------------------------------------------
(* What a step of the bridge can change.                                   *)

\* Everything that is not a thread's own step.
Around ==
  \/ \E w \in Workspaces : Commanded("workspace", w)
  \/ \E s \in Snapshots : Commanded("snapshot", s)
  \/ DropsEcho
  \/ Suppresses
  \/ AbsorbsWorkspace
  \/ AbsorbsSnapshot
  \/ IgnoresActive
  \/ CooldownEnds
  \/ \E tp \in Topics : MarkExpires(tp)
  \/ HeartbeatSent
  \/ ReportIgnored
  \/ ReportAdopted
  \/ FeedReports
  \/ FeedSeen
  \/ \E d \in Devices : UserMoves(d)
  \/ Reconnect
  \/ UNCHANGED vars

LEMMA StepKinds ==
  ASSUME [Next]_vars
  PROVE  \/ \E t \in Threads, target \in Targets : Macro(t, target)
         \/ \E t \in Threads, w \in Workspaces, s \in Snapshots \cup {None} :
              Click(t, w, s)
         \/ \E t \in Threads : StartsSwitch(t)
         \/ \E t \in Threads : Advance(t)
         \/ Restart
         \/ Around
BY DEF Next, Around

LEMMA AroundLeavesThreads ==
  ASSUME Around
  PROVE  pc' = pc /\ op' = op /\ lock' = lock
<1> USE DEF threadVars
<1>1. CASE \E w \in Workspaces : Commanded("workspace", w)
  BY <1>1 DEF Commanded
<1>2. CASE \E s \in Snapshots : Commanded("snapshot", s)
  BY <1>2 DEF Commanded
<1>3. CASE DropsEcho \/ Suppresses \/ AbsorbsWorkspace \/ AbsorbsSnapshot \/ IgnoresActive
  BY <1>3 DEF DropsEcho, Suppresses, AbsorbsWorkspace, AbsorbsSnapshot, IgnoresActive
<1>4. CASE CooldownEnds \/ \E tp \in Topics : MarkExpires(tp)
  BY <1>4 DEF CooldownEnds, MarkExpires
<1>5. CASE HeartbeatSent \/ ReportIgnored \/ ReportAdopted \/ FeedReports \/ FeedSeen
           \/ Reconnect
  BY <1>5 DEF HeartbeatSent, ReportIgnored, ReportAdopted, FeedReports, FeedSeen,
              Reconnect
<1>6. CASE \E d \in Devices : UserMoves(d)
  BY <1>6 DEF UserMoves
<1>7. CASE UNCHANGED vars
  BY <1>7 DEF vars
<1> QED
  BY <1>1, <1>2, <1>3, <1>4, <1>5, <1>6, <1>7 DEF Around

\* A thread's step moves that thread alone, along one of these edges.
Edges ==
  {<<"macroLock", "idle">>, <<"macroLock", "macroSteps">>,
   <<"macroLock", "macroLoaded">>, <<"macroLoaded", "macroRecalled">>,
   <<"macroLoaded", "macroSteps">>,
   <<"macroRecalled", "macroSteps">>, <<"macroSteps", "idle">>,
   <<"clickLock", "clickLoaded">>, <<"clickLoaded", "idle">>,
   <<"clickLoaded", "clickWaiting">>, <<"clickWaiting", "clickRecalled">>,
   <<"clickRecalled", "idle">>, <<"loadLock", "loaded">>, <<"loaded", "idle">>,
   <<"recallLock", "recalled">>, <<"recalled", "idle">>}

LEMMA AdvanceMoves ==
  ASSUME TypeOK, NEW t \in Threads, Advance(t)
  PROVE  /\ <<pc[t], pc'[t]>> \in Edges
         /\ \A u \in Threads \ {t} : pc'[u] = pc[u] /\ op'[u] = op[u]
         /\ pc'[t] = "idle" \/ op'[t] = op[t]
         /\ pc'[t] \in {"clickWaiting", "macroRecalled"} => op[t].snap # None
         /\ pc'[t] = "macroLoaded" => op[t].ws # None
<1> DEFINE Moves(from, to) ==
      /\ pc[t] = from
      /\ pc'[t] = to
      /\ \A u \in Threads \ {t} : pc'[u] = pc[u] /\ op'[u] = op[u]
      /\ to = "idle" \/ op' = op
<1>1. ASSUME NEW from, Return(t, from)
      PROVE  Moves(from, "idle")
  BY <1>1, ReturnType
<1>2. ASSUME NEW from, NEW to, Goto(t, from, to), op' = op
      PROVE  Moves(from, to)
  BY <1>2 DEF Goto, TypeOK
<1> HIDE DEF Moves
<1>3. MacroBlocked(t) => Moves("macroLock", "idle")
  BY <1>1 DEF MacroBlocked
<1>4. MacroSkips(t) \/ MacroHasNoTarget(t) => Moves("macroLock", "macroSteps")
  BY <1>2 DEF MacroSkips, MacroHasNoTarget
<1>5. MacroLoads(t) => Moves("macroLock", "macroLoaded") /\ op[t].ws # None
  BY <1>2 DEF MacroLoads
<1>6. MacroRecalls(t) => Moves("macroLoaded", "macroRecalled") /\ op[t].snap # None
  BY <1>2 DEF MacroRecalls
<1>19. MacroStays(t) => Moves("macroLoaded", "macroSteps")
  BY <1>2 DEF MacroStays
<1>7. MacroConfirms(t) => Moves("macroRecalled", "macroSteps")
  BY <1>2 DEF MacroConfirms
<1>8. MacroEnds(t) => Moves("macroSteps", "idle")
  BY <1>1 DEF MacroEnds
<1>9. ClickLoads(t) => Moves("clickLock", "clickLoaded")
  BY <1>2 DEF ClickLoads
<1>10. ClickBelieves(t) =>
         \/ Moves("clickLoaded", "idle")
         \/ Moves("clickLoaded", "clickWaiting") /\ op[t].snap # None
  BY <1>1, <1>2 DEF ClickBelieves
<1>11. ClickRecalls(t) => Moves("clickWaiting", "clickRecalled")
  BY <1>2 DEF ClickRecalls
<1>12. ClickEnds(t) => Moves("clickRecalled", "idle")
  BY <1>1 DEF ClickEnds
<1>13. SwitchLoads(t) => Moves("loadLock", "loaded")
  BY <1>2 DEF SwitchLoads
<1>14. LoadEnds(t) => Moves("loaded", "idle")
  BY <1>1 DEF LoadEnds
<1>15. SwitchRecalls(t) => Moves("recallLock", "recalled")
  BY <1>2 DEF SwitchRecalls
<1>16. RecallEnds(t) => Moves("recalled", "idle")
  BY <1>1 DEF RecallEnds
<1>17. \E e \in Edges :
         /\ Moves(e[1], e[2])
         /\ e[2] \in {"clickWaiting", "macroRecalled"} => op[t].snap # None
         /\ e[2] = "macroLoaded" => op[t].ws # None
  BY <1>3, <1>4, <1>5, <1>6, <1>7, <1>8, <1>9, <1>10, <1>11, <1>12, <1>13,
     <1>14, <1>15, <1>16, <1>19 DEF Advance, Edges
<1>18. ASSUME NEW e \in Edges
       PROVE  e = <<e[1], e[2]>>
  BY DEF Edges
<1> QED
  BY <1>17, <1>18 DEF Moves, Edges

LEMMA Starts ==
  ASSUME TypeOK, NEW t \in Threads,
         \/ \E target \in Targets : Macro(t, target)
         \/ \E w \in Workspaces, s \in Snapshots \cup {None} : Click(t, w, s)
         \/ StartsSwitch(t)
  PROVE  /\ pc[t] = "idle"
         /\ pc'[t] \in {"macroLock", "clickLock", "loadLock", "recallLock"}
         /\ \A u \in Threads \ {t} : pc'[u] = pc[u] /\ op'[u] = op[u]
         /\ pc'[t] \in {"clickLock", "loadLock"} => op'[t].ws \in Workspaces
         /\ pc'[t] = "recallLock" => op'[t].snap \in Snapshots
         /\ pc'[t] = "macroLock" /\ op'[t].ws = None => op'[t].snap = None
         /\ pc'[t] \in MqttLocations =>
              /\ StartsSwitch(t)
              /\ op'[t].origin = Msg.origin
         /\ lock' = lock /\ device' = device /\ belief' = belief
         /\ confirmed' = confirmed /\ calm' = calm /\ cooling' = cooling
<1> USE DEF beliefVars
<1>1. {"macroLock", "clickLock", "loadLock", "recallLock"} \subseteq Locations
  BY DEF Locations, MacroLocations, MqttLocations
<1>2. "macro" \in Origins /\ "click" \in Origins
  BY DEF Origins, AllSources
<1>3. ASSUME NEW target \in Targets, Macro(t, target)
      PROVE  /\ pc[t] = "idle"
             /\ pc'[t] = "macroLock"
             /\ op'[t] = [ws |-> target[1], snap |-> target[2], origin |-> "macro"]
             /\ \A u \in Threads \ {t} : pc'[u] = pc[u] /\ op'[u] = op[u]
             /\ lock' = lock /\ device' = device /\ belief' = belief
             /\ confirmed' = confirmed /\ calm' = calm /\ cooling' = cooling
  <2>1. /\ Goto(t, "idle", "macroLock") /\ Asked(t, target[1], target[2], "macro")
        /\ target[1] \in Workspaces \cup {None} /\ target[2] \in Snapshots \cup {None}
    BY <1>3 DEF Macro, Targets
  <2>2. /\ lock' = lock /\ device' = device /\ belief' = belief
        /\ confirmed' = confirmed /\ calm' = calm /\ cooling' = cooling
    BY <1>3 DEF Macro
  <2> QED
    BY <1>1, <1>2, <2>1, <2>2, GotoType, AskedType
<1>4. ASSUME NEW w \in Workspaces, NEW s \in Snapshots \cup {None}, Click(t, w, s)
      PROVE  /\ pc[t] = "idle"
             /\ pc'[t] = "clickLock"
             /\ op'[t] = [ws |-> w, snap |-> s, origin |-> "click"]
             /\ \A u \in Threads \ {t} : pc'[u] = pc[u] /\ op'[u] = op[u]
             /\ lock' = lock /\ device' = device /\ belief' = belief
             /\ confirmed' = confirmed /\ calm' = calm /\ cooling' = cooling
  <2>1. Goto(t, "idle", "clickLock") /\ Asked(t, w, s, "click")
    BY <1>4 DEF Click
  <2>2. /\ lock' = lock /\ device' = device /\ belief' = belief
        /\ confirmed' = confirmed /\ calm' = calm /\ cooling' = cooling
    BY <1>4 DEF Click
  <2> QED
    BY <1>1, <1>2, <2>1, <2>2, GotoType, AskedType
<1>5. ASSUME StartsSwitch(t)
      PROVE  /\ pc[t] = "idle"
             /\ \/ /\ pc'[t] = "loadLock"
                   /\ Msg.value \in Workspaces
                   /\ op'[t] = [ws |-> Msg.value, snap |-> None, origin |-> Msg.origin]
                \/ /\ pc'[t] = "recallLock"
                   /\ Msg.value \in Snapshots
                   /\ op'[t] = [ws |-> None, snap |-> Msg.value, origin |-> Msg.origin]
             /\ \A u \in Threads \ {t} : pc'[u] = pc[u] /\ op'[u] = op[u]
             /\ lock' = lock /\ device' = device /\ belief' = belief
             /\ confirmed' = confirmed /\ calm' = calm /\ cooling' = cooling
  <2>1. Received
    BY <1>5 DEF StartsSwitch, Heard
  <2>2. Msg.value \in Values(Msg.topic) /\ Msg.origin \in Origins
    BY <2>1, FirstMessage
  <2>3. /\ lock' = lock /\ device' = device /\ belief' = belief
        /\ confirmed' = confirmed /\ calm' = calm /\ cooling' = cooling
    BY <1>5 DEF StartsSwitch
  <2>4. CASE Msg.topic = "workspace"
    <3>1. /\ Goto(t, "idle", "loadLock")
          /\ Asked(t, Msg.value, None, Msg.origin)
      BY <1>5, <2>4 DEF StartsSwitch
    <3>2. Msg.value \in Workspaces
      BY <2>2, <2>4 DEF Values
    <3> QED
      BY <1>1, <2>2, <2>3, <3>1, <3>2, GotoType, AskedType
  <2>5. CASE Msg.topic # "workspace"
    <3>1. /\ Goto(t, "idle", "recallLock")
          /\ Asked(t, None, Msg.value, Msg.origin)
      BY <1>5, <2>5 DEF StartsSwitch
    <3>2. Msg.value \in Snapshots
      BY <2>2, <2>5 DEF Values
    <3> QED
      BY <1>1, <2>2, <2>3, <3>1, <3>2, GotoType, AskedType
  <2> QED
    BY <2>4, <2>5
<1>6. CASE \E target \in Targets : Macro(t, target)
  <2>1. PICK target \in Targets : Macro(t, target)
    BY <1>6
  <2>2. /\ op'[t] = [ws |-> target[1], snap |-> target[2], origin |-> "macro"]
        /\ target[1] = None => target[2] = None
    BY <1>3, <2>1, SwitchAssumption DEF Targets, SwitchAssumption
  <2>3. /\ pc[t] = "idle" /\ pc'[t] = "macroLock"
        /\ \A u \in Threads \ {t} : pc'[u] = pc[u] /\ op'[u] = op[u]
        /\ lock' = lock /\ device' = device /\ belief' = belief
        /\ confirmed' = confirmed /\ calm' = calm /\ cooling' = cooling
    BY <1>3, <2>1
  <2> QED
    BY <2>2, <2>3 DEF MqttLocations
<1>7. CASE \E w \in Workspaces, s \in Snapshots \cup {None} : Click(t, w, s)
  <2>1. PICK w \in Workspaces, s \in Snapshots \cup {None} : Click(t, w, s)
    BY <1>7
  <2>2. op'[t] = [ws |-> w, snap |-> s, origin |-> "click"]
    BY <1>4, <2>1
  <2>3. /\ pc[t] = "idle" /\ pc'[t] = "clickLock"
        /\ \A u \in Threads \ {t} : pc'[u] = pc[u] /\ op'[u] = op[u]
        /\ lock' = lock /\ device' = device /\ belief' = belief
        /\ confirmed' = confirmed /\ calm' = calm /\ cooling' = cooling
    BY <1>4, <2>1
  <2> QED
    BY <2>2, <2>3 DEF MqttLocations
<1>8. CASE StartsSwitch(t)
  BY <1>5, <1>8
<1> QED
  BY <1>6, <1>7, <1>8

LEMMA AskedFitsKept ==
  ASSUME TypeOK, AskedFits, [Next]_vars
  PROVE  AskedFits'
<1> USE DEF MacroLocations, ClickLocations, ClickUnderWay
<1>1. ASSUME NEW t \in Threads,
             \/ \E target \in Targets : Macro(t, target)
             \/ \E w \in Workspaces, s \in Snapshots \cup {None} : Click(t, w, s)
             \/ StartsSwitch(t)
      PROVE  AskedFits'
  BY <1>1, Starts DEF AskedFits
<1>2. ASSUME NEW t \in Threads, Advance(t)
      PROVE  AskedFits'
  <2>1. /\ <<pc[t], pc'[t]>> \in Edges
        /\ \A u \in Threads \ {t} : pc'[u] = pc[u] /\ op'[u] = op[u]
        /\ pc'[t] = "idle" \/ op'[t] = op[t]
        /\ pc'[t] \in {"clickWaiting", "macroRecalled"} => op[t].snap # None
        /\ pc'[t] = "macroLoaded" => op[t].ws # None
    BY <1>2, AdvanceMoves
  <2>2. op[t].snap \in Snapshots \cup {None} /\ op[t].ws \in Workspaces \cup {None}
    BY DEF TypeOK, Ops
  <2> QED
    BY <2>1, <2>2 DEF AskedFits, Edges
<1>3. CASE Restart
  BY <1>3 DEF Restart, AskedFits
<1>4. CASE Around
  BY <1>4, AroundLeavesThreads DEF AskedFits
<1> QED
  BY <1>1, <1>2, <1>3, <1>4, StepKinds

-----------------------------------------------------------------------------
(* The device lock.                                                        *)

LEMMA AdvanceLocks ==
  ASSUME TypeOK, NEW t \in Threads, Advance(t)
  PROVE  /\ pc[t] \in HoldsLock /\ pc'[t] \in HoldsLock => lock' = lock
         /\ pc[t] \in HoldsLock /\ pc'[t] \notin HoldsLock => lock' = None
         /\ pc[t] \notin HoldsLock /\ pc'[t] \in HoldsLock => lock = None /\ lock' = t
         /\ pc[t] \notin HoldsLock /\ pc'[t] \notin HoldsLock => lock' = lock
<1> USE DEF HoldsLock, MacroHolds, MacroLocations, TakeLock, Release, Goto, Return,
            TypeOK
<1>1. CASE MacroBlocked(t)
  BY <1>1 DEF MacroBlocked
<1>2. CASE MacroSkips(t) \/ MacroHasNoTarget(t)
  BY <1>2 DEF MacroSkips, MacroHasNoTarget
<1>3. CASE MacroLoads(t)
  BY <1>3 DEF MacroLoads
<1>4. CASE MacroRecalls(t)
  BY <1>4 DEF MacroRecalls
<1>5. CASE MacroConfirms(t) \/ MacroStays(t)
  BY <1>5 DEF MacroConfirms, MacroStays
<1>6. CASE MacroEnds(t)
  BY <1>6 DEF MacroEnds
<1>7. CASE ClickLoads(t)
  BY <1>7 DEF ClickLoads
<1>8. CASE ClickBelieves(t)
  BY <1>8 DEF ClickBelieves
<1>9. CASE ClickRecalls(t)
  BY <1>9 DEF ClickRecalls
<1>10. CASE ClickEnds(t)
  BY <1>10 DEF ClickEnds
<1>11. CASE SwitchLoads(t)
  BY <1>11 DEF SwitchLoads
<1>12. CASE LoadEnds(t)
  BY <1>12 DEF LoadEnds
<1>13. CASE SwitchRecalls(t)
  BY <1>13 DEF SwitchRecalls
<1>14. CASE RecallEnds(t)
  BY <1>14 DEF RecallEnds
<1> QED
  BY <1>1, <1>2, <1>3, <1>4, <1>5, <1>6, <1>7, <1>8, <1>9, <1>10, <1>11, <1>12,
     <1>13, <1>14 DEF Advance

\* A click sends with nobody inside the lock.
LEMMA ClickSends ==
  ASSUME TypeOK, NEW t \in Threads, Advance(t),
         pc'[t] \in {"clickLoaded", "clickRecalled"}
  PROVE  lock = None
<1> USE DEF Goto, Return, TypeOK
<1>1. /\ ~MacroBlocked(t) /\ ~MacroSkips(t) /\ ~MacroHasNoTarget(t)
      /\ ~MacroLoads(t) /\ ~MacroRecalls(t) /\ ~MacroStays(t)
  BY DEF MacroBlocked, MacroSkips, MacroHasNoTarget, MacroLoads, MacroRecalls,
         MacroStays
<1>2. ~MacroConfirms(t) /\ ~MacroEnds(t) /\ ~ClickBelieves(t) /\ ~ClickEnds(t)
  BY DEF MacroConfirms, MacroEnds, ClickBelieves, ClickEnds
<1>3. ~SwitchLoads(t) /\ ~LoadEnds(t) /\ ~SwitchRecalls(t) /\ ~RecallEnds(t)
  BY DEF SwitchLoads, LoadEnds, SwitchRecalls, RecallEnds
<1> QED
  BY <1>1, <1>2, <1>3 DEF Advance, ClickLoads, ClickRecalls

LEMMA LockKept ==
  ASSUME SwitchAssumption, TypeOK, DeviceLockExact, [Next]_vars
  PROVE  DeviceLockExact'
<1> USE DEF HoldsLock, MacroHolds, MacroLocations
<1>1. ASSUME NEW t \in Threads,
             \/ \E target \in Targets : Macro(t, target)
             \/ \E w \in Workspaces, s \in Snapshots \cup {None} : Click(t, w, s)
             \/ StartsSwitch(t)
      PROVE  DeviceLockExact'
  BY <1>1, Starts DEF DeviceLockExact
<1>2. ASSUME NEW t \in Threads, Advance(t)
      PROVE  DeviceLockExact'
  <2>1. /\ pc[t] \in HoldsLock /\ pc'[t] \in HoldsLock => lock' = lock
        /\ pc[t] \in HoldsLock /\ pc'[t] \notin HoldsLock => lock' = None
        /\ pc[t] \notin HoldsLock /\ pc'[t] \in HoldsLock => lock = None /\ lock' = t
        /\ pc[t] \notin HoldsLock /\ pc'[t] \notin HoldsLock => lock' = lock
    BY <1>2, AdvanceLocks
  <2>2. \A u \in Threads \ {t} : pc'[u] = pc[u]
    BY <1>2, AdvanceMoves
  <2>3. None \notin Threads
    BY DEF SwitchAssumption
  <2> HIDE DEF HoldsLock
  <2> QED
    BY <2>1, <2>2, <2>3 DEF DeviceLockExact
<1>3. CASE Restart
  BY <1>3 DEF Restart, DeviceLockExact, SwitchAssumption
<1>4. CASE Around
  BY <1>4, AroundLeavesThreads DEF DeviceLockExact
<1> QED
  BY <1>1, <1>2, <1>3, <1>4, StepKinds

-----------------------------------------------------------------------------
(* Echoes and commands.                                                    *)

LEMMA CommandsKept ==
  ASSUME TypeOK, GenuineCommands, MacroEchoCovered, [Next]_vars
  PROVE  GenuineCommands'
<1> USE DEF MqttLocations
<1>1. ASSUME NEW t \in Threads,
             \/ \E target \in Targets : Macro(t, target)
             \/ \E w \in Workspaces, s \in Snapshots \cup {None} : Click(t, w, s)
             \/ StartsSwitch(t)
      PROVE  GenuineCommands'
  <2>1. /\ \A u \in Threads \ {t} : pc'[u] = pc[u] /\ op'[u] = op[u]
        /\ pc'[t] \in MqttLocations =>
             /\ StartsSwitch(t)
             /\ op'[t].origin = Msg.origin
    BY <1>1, Starts
  <2>2. ASSUME StartsSwitch(t)
        PROVE  Msg.origin \notin {"macro", "replay"}
    <3>1. Heard /\ Command
      BY <2>2 DEF StartsSwitch
    <3>2. Received /\ ~Suppressing /\ ~cooling /\ Msg.origin # "replay"
      BY <3>1 DEF Heard, Command, Replayed
    <3>3. 1 \in DOMAIN broker /\ Msg = broker[1]
      BY <3>2, FirstMessage
    <3> QED
      BY <3>2, <3>3 DEF MacroEchoCovered
  <2> QED
    BY <2>1, <2>2 DEF GenuineCommands
<1>2. ASSUME NEW t \in Threads, Advance(t)
      PROVE  GenuineCommands'
  BY <1>2, AdvanceMoves DEF GenuineCommands, Edges
<1>3. CASE Restart
  BY <1>3 DEF Restart, GenuineCommands
<1>4. CASE Around
  BY <1>4, AroundLeavesThreads DEF GenuineCommands
<1> QED
  BY <1>1, <1>2, <1>3, <1>4, StepKinds

\* Nothing that macros publish joins the broker.
NoNewEcho ==
  \A i \in DOMAIN broker' :
    broker'[i].origin = "macro" => \E j \in DOMAIN broker : broker[j].origin = "macro"

LEMMA EchoStaysCovered ==
  ASSUME MacroEchoCovered, NoNewEcho, Suppressing => Suppressing', cooling' = cooling
  PROVE  MacroEchoCovered'
BY DEF MacroEchoCovered, NoNewEcho

LEMMA AdvanceEchoes ==
  ASSUME TypeOK, AskedFits, MacroEchoCovered, NEW t \in Threads, Advance(t)
  PROVE  MacroEchoCovered'
<1> USE DEF MacroLocations
<1>1. /\ {"click", "marked"} \subseteq Origins
      /\ "workspace" \in Topics /\ "snapshot" \in Topics
      /\ Values("workspace") = Workspaces
      /\ Values("snapshot") = Snapshots
  BY DEF Origins, AllSources, Topics, Values
<1>2. ASSUME NEW from, NEW to \in MacroLocations, Goto(t, from, to)
      PROVE  MacroEchoCovered'
  BY <1>2, GotoType DEF MacroEchoCovered, Suppressing, Locations
<1>3. CASE MacroBlocked(t) \/ MacroEnds(t)
  BY <1>3 DEF MacroBlocked, MacroEnds, Cooldown, MacroEchoCovered
<1>4. CASE \/ MacroSkips(t) \/ MacroHasNoTarget(t) \/ MacroLoads(t)
           \/ MacroRecalls(t) \/ MacroStays(t) \/ MacroConfirms(t)
  BY <1>2, <1>4 DEF MacroSkips, MacroHasNoTarget, MacroLoads, MacroRecalls,
                    MacroStays, MacroConfirms
<1>5. pc[t] \notin MacroLocations => (Suppressing => Suppressing')
  BY AdvanceMoves DEF Suppressing
<1>6. CASE ClickLoads(t) \/ ClickRecalls(t) \/ SwitchLoads(t) \/ SwitchRecalls(t)
  <2>1. /\ broker' = broker /\ cooling' = cooling
        /\ pc[t] \notin MacroLocations
    BY <1>6 DEF ClickLoads, ClickRecalls, SwitchLoads, SwitchRecalls, mqttVars, Goto
  <2> QED
    BY <1>5, <2>1, EchoStaysCovered DEF NoNewEcho
<1>7. CASE ClickBelieves(t)
  <2>1. /\ Publish("workspace", op[t].ws, "click") /\ cooling' = cooling
        /\ pc[t] = "clickLoaded"
    BY <1>7 DEF ClickBelieves, Goto, Return
  <2>2. op[t].ws \in Workspaces
    BY <2>1 DEF AskedFits, ClickLocations, ClickUnderWay
  <2>3. NoNewEcho
    BY <1>1, <2>1, <2>2, PublishType DEF NoNewEcho
  <2> QED
    BY <1>5, <2>1, <2>3, EchoStaysCovered
<1>8. CASE ClickEnds(t)
  <2>1. /\ Publish("snapshot", op[t].snap, "click") /\ cooling' = cooling
        /\ pc[t] = "clickRecalled"
    BY <1>8 DEF ClickEnds, Goto, Return
  <2>2. op[t].snap \in Snapshots
    BY <2>1 DEF AskedFits
  <2>3. NoNewEcho
    BY <1>1, <2>1, <2>2, PublishType DEF NoNewEcho
  <2> QED
    BY <1>5, <2>1, <2>3, EchoStaysCovered
<1>9. CASE LoadEnds(t)
  <2>1. /\ Refreshes("workspace", op[t].ws) /\ cooling' = cooling
        /\ pc[t] = "loaded"
    BY <1>9 DEF LoadEnds, Goto, Return
  <2>2. op[t].ws \in Workspaces
    BY <2>1 DEF AskedFits
  <2>3. NoNewEcho
    BY <1>1, <2>1, <2>2, RefreshType DEF NoNewEcho
  <2> QED
    BY <1>5, <2>1, <2>3, EchoStaysCovered
<1>10. CASE RecallEnds(t)
  <2>1. /\ Refreshes("snapshot", op[t].snap) /\ cooling' = cooling
        /\ pc[t] = "recalled"
    BY <1>10 DEF RecallEnds, Goto, Return
  <2>2. op[t].snap \in Snapshots
    BY <2>1 DEF AskedFits
  <2>3. NoNewEcho
    BY <1>1, <2>1, <2>2, RefreshType DEF NoNewEcho
  <2> QED
    BY <1>5, <2>1, <2>3, EchoStaysCovered
<1> QED
  BY <1>3, <1>4, <1>6, <1>7, <1>8, <1>9, <1>10 DEF Advance

LEMMA AroundEchoes ==
  ASSUME TypeOK, MacroEchoCovered, Around
  PROVE  MacroEchoCovered'
<1> USE DEF mqttVars
<1>1. Suppressing => Suppressing'
  BY AroundLeavesThreads DEF Suppressing
<1>2. /\ {"feed", "mqtt", "marked"} \subseteq Origins
      /\ "workspace" \in Topics /\ "snapshot" \in Topics
      /\ Values("workspace") = Workspaces
      /\ Values("snapshot") = Snapshots
  BY DEF Origins, AllSources, Topics, Values
<1>3. CASE CooldownEnds
  <2>1. /\ \A i \in DOMAIN broker : broker[i].origin \in {"mqtt", "replay"}
        /\ broker' = broker
    BY <1>3 DEF CooldownEnds
  <2> QED
    BY <2>1 DEF MacroEchoCovered
<1>4. ASSUME NEW tp \in Topics, NEW v \in Values(tp), Commanded(tp, v)
      PROVE  MacroEchoCovered'
  <2>1. /\ Message(tp, v, "mqtt") \in Messages
        /\ Message(tp, v, "mqtt").origin = "mqtt"
    BY <1>2, MessageType
  <2>2. /\ broker' = Append(broker, Message(tp, v, "mqtt"))
        /\ cooling' = cooling
    BY <1>4 DEF Commanded
  <2>3. NoNewEcho
    BY <2>1, <2>2, AppendOf DEF NoNewEcho, TypeOK
  <2> QED
    BY <1>1, <2>2, <2>3, EchoStaysCovered
<1>5. CASE DropsEcho \/ Suppresses \/ AbsorbsWorkspace \/ AbsorbsSnapshot \/ IgnoresActive
  <2>1. Received /\ cooling' = cooling
    BY <1>5 DEF DropsEcho, Suppresses, AbsorbsWorkspace, AbsorbsSnapshot,
                IgnoresActive, Heard
  <2>2. NoNewEcho
    BY <2>1, FirstMessage DEF NoNewEcho
  <2> QED
    BY <1>1, <2>1, <2>2, EchoStaysCovered
<1>6. ASSUME broker' = broker, cooling' = cooling
      PROVE  MacroEchoCovered'
  BY <1>1, <1>6, EchoStaysCovered DEF NoNewEcho
<1>7. ASSUME NEW tp \in Topics, MarkExpires(tp)
      PROVE  MacroEchoCovered'
  BY <1>6, <1>7 DEF MarkExpires
<1>8. CASE HeartbeatSent \/ ReportIgnored \/ FeedReports \/ UNCHANGED vars
  BY <1>6, <1>8 DEF HeartbeatSent, ReportIgnored, FeedReports, vars
<1>9. ASSUME NEW d \in Devices, UserMoves(d)
      PROVE  MacroEchoCovered'
  BY <1>6, <1>9 DEF UserMoves
<1>10. CASE ReportAdopted
  <2>1. PublishMarked("workspace", title) /\ title \in Workspaces /\ cooling' = cooling
    BY <1>10 DEF ReportAdopted, TypeOK
  <2>2. NoNewEcho
    BY <1>2, <2>1, MarkedType DEF NoNewEcho
  <2> QED
    BY <1>1, <2>1, <2>2, EchoStaysCovered
<1>11. CASE FeedSeen
  <2>1. /\ cooling' = cooling
        /\ \/ Publish("snapshot", heard, "feed")
           \/ broker' = broker
    BY <1>11 DEF FeedSeen
  <2>2. heard \in Snapshots
    BY <1>11 DEF FeedSeen, TypeOK
  <2>3. CASE Publish("snapshot", heard, "feed")
    <3>1. NoNewEcho
      BY <1>2, <2>2, <2>3, PublishType DEF NoNewEcho
    <3> QED
      BY <1>1, <2>1, <3>1, EchoStaysCovered
  <2>4. CASE broker' = broker
    BY <1>6, <2>1, <2>4
  <2> QED
    BY <2>1, <2>3, <2>4
<1>12. CASE Reconnect
  BY <1>12, Subscription DEF Reconnect, MacroEchoCovered
<1> QED
  BY <1>2, <1>3, <1>4, <1>5, <1>7, <1>8, <1>9, <1>10, <1>11, <1>12 DEF Around

LEMMA EchoesKept ==
  ASSUME TypeOK, AskedFits, MacroEchoCovered, [Next]_vars
  PROVE  MacroEchoCovered'
<1>1. ASSUME NEW t \in Threads,
             \/ \E target \in Targets : Macro(t, target)
             \/ \E w \in Workspaces, s \in Snapshots \cup {None} : Click(t, w, s)
             \/ StartsSwitch(t)
      PROVE  MacroEchoCovered'
  <2>1. /\ pc[t] = "idle" /\ cooling' = cooling
        /\ \A u \in Threads \ {t} : pc'[u] = pc[u]
    BY <1>1, Starts
  <2>2. Suppressing => Suppressing'
    BY <2>1 DEF Suppressing, MacroLocations
  <2>3. NoNewEcho
    <3>1. broker' = broker => NoNewEcho
      BY DEF NoNewEcho
    <3>2. ASSUME NEW target \in Targets, Macro(t, target)
          PROVE  broker' = broker
      BY <3>2 DEF Macro, mqttVars
    <3>3. ASSUME NEW w \in Workspaces, NEW s \in Snapshots \cup {None}, Click(t, w, s)
          PROVE  broker' = broker
      BY <3>3 DEF Click, mqttVars
    <3>4. CASE StartsSwitch(t)
      BY <3>4, FirstMessage DEF StartsSwitch, Heard, NoNewEcho
    <3> QED
      BY <1>1, <3>1, <3>2, <3>3, <3>4
  <2> QED
    BY <2>1, <2>2, <2>3, EchoStaysCovered
<1>2. ASSUME NEW t \in Threads, Advance(t)
      PROVE  MacroEchoCovered'
  BY <1>2, AdvanceEchoes
<1>3. CASE Restart
  BY <1>3, Subscription DEF Restart, MacroEchoCovered
<1>4. CASE Around
  BY <1>4, AroundEchoes
<1> QED
  BY <1>1, <1>2, <1>3, <1>4, StepKinds

-----------------------------------------------------------------------------
(* While the calm lasts.                                                   *)

LEMMA Reaches ==
  ASSUME NEW t \in Threads, NEW d, NEW c, Arrives(t, d, c), calm'
  PROVE  c /\ device' = d
BY DEF Arrives

\* The four facts about device and belief, while the calm lasts.
CalmFacts ==
  /\ ClicksApart
  /\ SendersPlaced
  /\ CalmSteps
  /\ ConfirmedIsTrue

\* Neither clicking nor in the middle of a switch.
Aside(u) ==
  /\ pc[u] \notin ClickUnderWay
  /\ pc[u] \in HoldsLock => pc[u] = "macroSteps" /\ op[u].snap = None

\* Whoever has the lock for a switch, or is clicking, has the device to itself.
LEMMA OthersAside ==
  ASSUME SwitchAssumption, DeviceLockExact, ClicksApart, NEW t \in Threads,
         \/ lock = None /\ NoClickBeside(t)
         \/ calm /\ pc[t] \in HoldsLock /\ ~Aside(t)
         \/ calm /\ pc[t] \in ClickUnderWay
  PROVE  \A u \in Threads \ {t} : Aside(u)
<1> USE DEF Aside
<1>1. CASE lock = None /\ NoClickBeside(t)
  BY <1>1 DEF DeviceLockExact, SwitchAssumption, NoClickBeside
<1>2. CASE calm /\ pc[t] \in HoldsLock /\ ~Aside(t)
  <2>1. \A u \in Threads \ {t} : pc[u] \notin HoldsLock
    BY <1>2 DEF DeviceLockExact
  <2>2. \A u \in Threads \ {t} : pc[u] \notin ClickUnderWay
    BY <1>2 DEF ClicksApart
  <2> QED
    BY <2>1, <2>2
<1>3. CASE calm /\ pc[t] \in ClickUnderWay
  BY <1>3 DEF ClicksApart
<1> QED
  BY <1>1, <1>2, <1>3

\* Then only its own place, and the belief, are to be looked at.
LEMMA AloneKept ==
  ASSUME NEW t \in Threads,
         \A u \in Threads \ {t} : Aside(u) /\ pc'[u] = pc[u] /\ op'[u] = op[u],
         Placed(t)',
         pc'[t] = "macroSteps" /\ op'[t].snap # None =>
           device' = [ws |-> op'[t].ws, snap |-> op'[t].snap],
         confirmed' /\ pc'[t] \notin Between => belief' = device'
  PROVE  CalmFacts'
<1>1. \A u \in Threads \ {t} : pc'[u] \notin ClickUnderWay
  BY DEF Aside
<1>2. \A u \in Threads \ {t} :
        pc'[u] \in HoldsLock => pc'[u] = "macroSteps" /\ op'[u].snap = None
  BY DEF Aside
<1>3. ClicksApart'
  BY <1>1, <1>2 DEF ClicksApart
<1>4. \A u \in Threads \ {t} : Placed(u)'
  BY <1>1, <1>2 DEF Placed, ClickUnderWay, HoldsLock, MacroHolds, MacroLocations
<1>5. SendersPlaced'
  BY <1>4 DEF SendersPlaced
<1>6. CalmSteps'
  BY <1>2 DEF CalmSteps, HoldsLock, MacroHolds, MacroLocations
<1>7. ConfirmedIsTrue'
  BY DEF ConfirmedIsTrue
<1> QED
  BY <1>3, <1>5, <1>6, <1>7 DEF CalmFacts

\* A thread that comes or goes without a word to the device disturbs nobody.
LEMMA QuietKept ==
  ASSUME CalmFacts, NEW t \in Threads, calm' = calm,
         \A u \in Threads \ {t} : pc'[u] = pc[u] /\ op'[u] = op[u],
         device' = device, belief' = belief, confirmed' = confirmed,
         pc[t] \notin Between,
         \/ pc'[t] \notin HoldsLock \cup ClickUnderWay
         \/ pc'[t] = "macroSteps" /\ op'[t].snap = None
  PROVE  CalmFacts'
<1>1. Aside(t)' /\ pc'[t] \notin Between
  BY DEF Aside, HoldsLock, MacroHolds, MacroLocations, ClickUnderWay, Between
<1>2. ClicksApart'
  BY <1>1 DEF CalmFacts, ClicksApart, Aside
<1>3. Placed(t)'
  BY DEF Placed, HoldsLock, MacroHolds, MacroLocations, ClickUnderWay
<1>4. SendersPlaced'
  BY <1>3 DEF CalmFacts, SendersPlaced, Placed
<1>5. CalmSteps'
  BY DEF CalmFacts, CalmSteps, HoldsLock, MacroHolds, MacroLocations
<1>6. ConfirmedIsTrue'
  BY <1>1 DEF CalmFacts, ConfirmedIsTrue
<1> QED
  BY <1>2, <1>4, <1>5, <1>6 DEF CalmFacts

LEMMA MacroStepCalm ==
  ASSUME SwitchAssumption, TypeOK, AskedFits, DeviceLockExact, CalmFacts,
         NEW t \in Threads, calm',
         \/ MacroBlocked(t) \/ MacroSkips(t) \/ MacroHasNoTarget(t) \/ MacroLoads(t)
         \/ MacroRecalls(t) \/ MacroStays(t) \/ MacroConfirms(t) \/ MacroEnds(t)
  PROVE  CalmFacts'
<1> USE DEF beliefVars
<1>1. /\ {"macroLoaded", "macroRecalled", "macroSteps", "idle"} \subseteq Locations
      /\ "macroSteps" \in HoldsLock /\ "macroLoaded" \in HoldsLock
      /\ "macroRecalled" \in HoldsLock /\ "macroLock" \in MacroLocations
      /\ "macroLock" \notin HoldsLock \cup ClickUnderWay
      /\ "idle" \notin HoldsLock \cup ClickUnderWay
      /\ "macroLock" \notin Between /\ "macroSteps" \notin Between
  BY DEF Locations, HoldsLock, MacroHolds, MacroLocations, ClickUnderWay, Between
<1>2. ClicksApart /\ (calm => Placed(t))
  BY DEF CalmFacts, SendersPlaced
<1>3. CASE MacroBlocked(t)
  <2>1. /\ Return(t, "macroLock")
        /\ device' = device /\ belief' = belief /\ confirmed' = confirmed
        /\ calm' = calm
    BY <1>3 DEF MacroBlocked
  <2>2. /\ pc[t] = "macroLock" /\ pc'[t] = "idle"
        /\ \A u \in Threads \ {t} : pc'[u] = pc[u] /\ op'[u] = op[u]
    BY <2>1, ReturnType
  <2> QED
    BY <1>1, <2>1, <2>2, QuietKept
<1>4. CASE MacroSkips(t)
  <2>1. /\ Goto(t, "macroLock", "macroSteps") /\ op' = op
        /\ lock = None /\ confirmed /\ calm /\ NoClickBeside(t)
        /\ belief = [ws |-> op[t].ws, snap |-> op[t].snap]
        /\ device' = device /\ belief' = belief
    BY <1>4 DEF MacroSkips, TakeLock, OnTarget
  <2>2. /\ pc[t] = "macroLock" /\ pc'[t] = "macroSteps"
        /\ \A u \in Threads \ {t} : pc'[u] = pc[u]
    BY <1>1, <2>1, GotoType
  <2>3. \A u \in Threads \ {t} : Aside(u)
    BY <1>2, <2>1, OthersAside
  <2>4. \A u \in Threads : pc[u] \notin Between
    BY <1>1, <2>2, <2>3
    DEF Aside, Between, HoldsLock, MacroHolds, MacroLocations
  <2>5. belief = device
    BY <2>1, <2>4 DEF CalmFacts, ConfirmedIsTrue
  <2>6. Placed(t)'
    BY <2>2 DEF Placed
  <2> QED
    BY <2>1, <2>2, <2>3, <2>5, <2>6, AloneKept
<1>5. CASE MacroHasNoTarget(t)
  <2>1. /\ Goto(t, "macroLock", "macroSteps") /\ op' = op
        /\ op[t].ws = None /\ calm' = calm
        /\ device' = device /\ belief' = belief /\ confirmed' = confirmed
    BY <1>5 DEF MacroHasNoTarget
  <2>2. /\ pc[t] = "macroLock" /\ pc'[t] = "macroSteps"
        /\ \A u \in Threads \ {t} : pc'[u] = pc[u]
    BY <1>1, <2>1, GotoType
  <2>3. op[t].snap = None
    BY <1>1, <2>1, <2>2 DEF AskedFits
  <2> QED
    BY <1>1, <2>1, <2>2, <2>3, QuietKept
<1>6. CASE MacroLoads(t)
  <2>1. /\ Goto(t, "macroLock", "macroLoaded") /\ op' = op
        /\ lock = None /\ Load(t, op[t].snap # None /\ NoClickBeside(t))
        /\ belief' = [belief EXCEPT !.ws = op[t].ws]
    BY <1>6 DEF MacroLoads, TakeLock
  <2>2. /\ pc'[t] = "macroLoaded"
        /\ \A u \in Threads \ {t} : pc'[u] = pc[u]
    BY <1>1, <2>1, GotoType
  <2>3. /\ op[t].snap # None /\ NoClickBeside(t)
        /\ device'.ws = op[t].ws
    <3> DEFINE c == op[t].snap # None /\ NoClickBeside(t)
    <3>1. PICK s \in Snapshots : Arrives(t, [ws |-> op[t].ws, snap |-> s], c)
      BY <2>1 DEF Load
    <3> HIDE DEF c
    <3>2. c /\ device' = [ws |-> op[t].ws, snap |-> s]
      BY <3>1, Reaches
    <3> QED
      BY <3>2 DEF c
  <2>4. \A u \in Threads \ {t} : Aside(u)
    BY <1>2, <2>1, <2>3, OthersAside
  <2>5. belief'.ws = op[t].ws
    BY <2>1 DEF TypeOK, Beliefs
  <2>6. Placed(t)'
    BY <2>1, <2>2, <2>3, <2>5 DEF Placed
  <2> QED
    BY <2>1, <2>2, <2>4, <2>6, AloneKept DEF Between
<1>7. CASE MacroRecalls(t)
  <2>1. /\ Goto(t, "macroLoaded", "macroRecalled") /\ op' = op
        /\ Recall(t, calm)
        /\ belief' = [belief EXCEPT !.snap = op[t].snap]
    BY <1>7 DEF MacroRecalls
  <2>2. /\ pc[t] = "macroLoaded" /\ pc'[t] = "macroRecalled"
        /\ \A u \in Threads \ {t} : pc'[u] = pc[u]
    BY <1>1, <2>1, GotoType
  <2>3. calm /\ device' = [device EXCEPT !.snap = op[t].snap]
    BY <2>1, Reaches DEF Recall
  <2>4. device.ws = op[t].ws /\ belief.ws = op[t].ws
    BY <1>2, <2>2, <2>3 DEF Placed
  <2>5. /\ device' = [ws |-> op[t].ws, snap |-> op[t].snap]
        /\ belief' = [ws |-> op[t].ws, snap |-> op[t].snap]
    BY <2>1, <2>3, <2>4 DEF TypeOK, Devices, Beliefs
  <2>6. \A u \in Threads \ {t} : Aside(u)
    BY <1>1, <1>2, <2>2, <2>3, OthersAside DEF Aside
  <2>7. Placed(t)'
    BY <2>1, <2>2, <2>5 DEF Placed
  <2> QED
    BY <2>1, <2>2, <2>5, <2>6, <2>7, AloneKept
<1>8. CASE MacroStays(t)
  <2>1. pc[t] = "macroLoaded" /\ op[t].snap = None /\ calm
    BY <1>8 DEF MacroStays, Goto
  <2> QED
    BY <1>2, <2>1 DEF Placed
<1>9. CASE MacroConfirms(t)
  <2>1. /\ Goto(t, "macroRecalled", "macroSteps") /\ op' = op /\ calm
        /\ device' = device /\ belief' = belief
    BY <1>9 DEF MacroConfirms
  <2>2. /\ pc[t] = "macroRecalled" /\ pc'[t] = "macroSteps"
        /\ \A u \in Threads \ {t} : pc'[u] = pc[u]
    BY <1>1, <2>1, GotoType
  <2>3. device = [ws |-> op[t].ws, snap |-> op[t].snap] /\ belief = device
    BY <1>2, <2>1, <2>2 DEF Placed
  <2>4. \A u \in Threads \ {t} : Aside(u)
    BY <1>1, <1>2, <2>1, <2>2, OthersAside DEF Aside
  <2>5. Placed(t)'
    BY <2>2 DEF Placed
  <2> QED
    BY <2>1, <2>2, <2>3, <2>4, <2>5, AloneKept
<1>10. CASE MacroEnds(t)
  <2>1. /\ Return(t, "macroSteps") /\ calm' = calm
        /\ device' = device /\ belief' = belief /\ confirmed' = confirmed
    BY <1>10 DEF MacroEnds
  <2>2. /\ pc[t] = "macroSteps" /\ pc'[t] = "idle"
        /\ \A u \in Threads \ {t} : pc'[u] = pc[u] /\ op'[u] = op[u]
    BY <2>1, ReturnType
  <2> QED
    BY <1>1, <2>1, <2>2, QuietKept
<1> QED
  BY <1>3, <1>4, <1>5, <1>6, <1>7, <1>8, <1>9, <1>10

LEMMA ClickStepCalm ==
  ASSUME SwitchAssumption, TypeOK, DeviceLockExact, CalmFacts,
         NEW t \in Threads, calm',
         \/ ClickLoads(t) \/ ClickBelieves(t) \/ ClickRecalls(t) \/ ClickEnds(t)
  PROVE  CalmFacts'
<1> USE DEF beliefVars
<1>1. /\ {"clickLoaded", "clickWaiting", "clickRecalled", "idle"} \subseteq Locations
      /\ {"clickLoaded", "clickWaiting", "clickRecalled"} \subseteq ClickUnderWay
      /\ ClickUnderWay \subseteq Between
  BY DEF Locations, ClickUnderWay, Between
<1>2. ClicksApart /\ (calm => Placed(t))
  BY DEF CalmFacts, SendersPlaced
<1>3. CASE ClickLoads(t)
  <2>1. /\ Goto(t, "clickLock", "clickLoaded") /\ op' = op /\ lock = None
        /\ Load(t, calm /\ op[t].snap # None /\ NoClickBeside(t))
    BY <1>3 DEF ClickLoads
  <2>2. /\ pc'[t] = "clickLoaded"
        /\ \A u \in Threads \ {t} : pc'[u] = pc[u]
    BY <1>1, <2>1, GotoType
  <2>3. op[t].snap # None /\ NoClickBeside(t) /\ device'.ws = op[t].ws
    <3> DEFINE c == calm /\ op[t].snap # None /\ NoClickBeside(t)
    <3>1. PICK s \in Snapshots : Arrives(t, [ws |-> op[t].ws, snap |-> s], c)
      BY <2>1 DEF Load
    <3> HIDE DEF c
    <3>2. c /\ device' = [ws |-> op[t].ws, snap |-> s]
      BY <3>1, Reaches
    <3> QED
      BY <3>2 DEF c
  <2>4. \A u \in Threads \ {t} : Aside(u)
    BY <1>2, <2>1, <2>3, OthersAside
  <2>5. Placed(t)'
    BY <2>1, <2>2, <2>3 DEF Placed
  <2> QED
    BY <1>1, <2>1, <2>2, <2>4, <2>5, AloneKept
<1>4. CASE ClickBelieves(t)
  <2>1. /\ pc[t] = "clickLoaded" /\ calm
        /\ device' = device
        /\ belief' = [belief EXCEPT !.ws = op[t].ws]
    BY <1>4 DEF ClickBelieves, Goto, Return
  <2>2. op[t].snap # None /\ device.ws = op[t].ws
    BY <1>2, <2>1 DEF Placed
  <2>3. Goto(t, "clickLoaded", "clickWaiting") /\ op' = op
    BY <1>4, <2>2 DEF ClickBelieves
  <2>4. /\ pc'[t] = "clickWaiting"
        /\ \A u \in Threads \ {t} : pc'[u] = pc[u]
    BY <1>1, <2>3, GotoType
  <2>5. \A u \in Threads \ {t} : Aside(u)
    BY <1>1, <1>2, <2>1, OthersAside
  <2>6. belief'.ws = op[t].ws
    BY <2>1 DEF TypeOK, Beliefs
  <2>7. Placed(t)'
    BY <2>1, <2>2, <2>3, <2>4, <2>6 DEF Placed
  <2> QED
    BY <1>1, <2>3, <2>4, <2>5, <2>7, AloneKept
<1>5. CASE ClickRecalls(t)
  <2>1. /\ Goto(t, "clickWaiting", "clickRecalled") /\ op' = op
        /\ Recall(t, calm)
        /\ belief' = belief /\ confirmed' = confirmed
    BY <1>5 DEF ClickRecalls
  <2>2. /\ pc[t] = "clickWaiting" /\ pc'[t] = "clickRecalled"
        /\ \A u \in Threads \ {t} : pc'[u] = pc[u]
    BY <1>1, <2>1, GotoType
  <2>3. calm /\ device' = [device EXCEPT !.snap = op[t].snap]
    BY <2>1, Reaches DEF Recall
  <2>4. device.ws = op[t].ws /\ (confirmed => belief.ws = op[t].ws)
    BY <1>2, <2>2, <2>3 DEF Placed
  <2>5. device'.ws = op[t].ws /\ device'.snap = op[t].snap
    BY <2>3, <2>4 DEF TypeOK, Devices
  <2>6. \A u \in Threads \ {t} : Aside(u)
    BY <1>1, <1>2, <2>2, <2>3, OthersAside
  <2>7. Placed(t)'
    BY <2>1, <2>2, <2>4, <2>5 DEF Placed
  <2> QED
    BY <1>1, <2>1, <2>2, <2>6, <2>7, AloneKept
<1>6. CASE ClickEnds(t)
  <2>1. /\ Return(t, "clickRecalled") /\ calm
        /\ device' = device /\ confirmed' = confirmed
        /\ belief' = [belief EXCEPT !.snap = op[t].snap]
    BY <1>6 DEF ClickEnds
  <2>2. /\ pc[t] = "clickRecalled" /\ pc'[t] = "idle"
        /\ \A u \in Threads \ {t} : pc'[u] = pc[u] /\ op'[u] = op[u]
    BY <2>1, ReturnType
  <2>3. /\ device.ws = op[t].ws /\ device.snap = op[t].snap
        /\ confirmed => belief.ws = op[t].ws
    BY <1>2, <2>1, <2>2 DEF Placed
  <2>4. confirmed' => belief' = device'
    BY <2>1, <2>3 DEF TypeOK, Devices, Beliefs
  <2>5. \A u \in Threads \ {t} : Aside(u)
    BY <1>1, <1>2, <2>1, <2>2, OthersAside
  <2>6. Placed(t)'
    BY <2>2 DEF Placed
  <2> QED
    BY <2>2, <2>4, <2>5, <2>6, AloneKept
<1> QED
  BY <1>3, <1>4, <1>5, <1>6

LEMMA SwitchStepCalm ==
  ASSUME SwitchAssumption, TypeOK, DeviceLockExact, CalmFacts,
         NEW t \in Threads, calm',
         \/ SwitchLoads(t) \/ LoadEnds(t) \/ SwitchRecalls(t) \/ RecallEnds(t)
  PROVE  CalmFacts'
<1> USE DEF beliefVars
<1>1. /\ "recalled" \in Locations /\ "recalled" \in HoldsLock
      /\ "recallLock" \notin Between /\ "recalled" \in Between
  BY DEF Locations, MqttLocations, HoldsLock, Between, ClickUnderWay
<1>2. ClicksApart /\ (calm => Placed(t))
  BY DEF CalmFacts, SendersPlaced
<1>3. CASE SwitchLoads(t)
  <2>1. Load(t, FALSE)
    BY <1>3 DEF SwitchLoads
  <2> QED
    BY <2>1, Reaches DEF Load
<1>4. CASE LoadEnds(t)
  <2>1. pc[t] = "loaded" /\ calm
    BY <1>4 DEF LoadEnds, Return, Goto
  <2> QED
    BY <1>2, <2>1 DEF Placed
<1>5. CASE SwitchRecalls(t)
  <2>1. /\ Goto(t, "recallLock", "recalled") /\ op' = op /\ lock = None
        /\ Recall(t, calm /\ NoClickBeside(t))
        /\ belief' = belief /\ confirmed' = confirmed
    BY <1>5 DEF SwitchRecalls, TakeLock
  <2>2. /\ pc[t] = "recallLock" /\ pc'[t] = "recalled"
        /\ \A u \in Threads \ {t} : pc'[u] = pc[u]
    BY <1>1, <2>1, GotoType
  <2>3. /\ calm /\ NoClickBeside(t)
        /\ device' = [device EXCEPT !.snap = op[t].snap]
    BY <2>1, Reaches DEF Recall
  <2>4. \A u \in Threads \ {t} : Aside(u)
    BY <1>2, <2>1, <2>3, OthersAside
  <2>5. \A u \in Threads : pc[u] \notin Between
    BY <1>1, <2>2, <2>4
    DEF Aside, Between, HoldsLock, MacroHolds, MacroLocations
  <2>6. confirmed => belief = device
    BY <2>3, <2>5 DEF CalmFacts, ConfirmedIsTrue
  <2>7. device'.ws = device.ws /\ device'.snap = op[t].snap
    BY <2>3 DEF TypeOK, Devices
  <2>8. Placed(t)'
    BY <2>1, <2>2, <2>6, <2>7 DEF Placed
  <2> QED
    BY <1>1, <2>1, <2>2, <2>4, <2>8, AloneKept
<1>6. CASE RecallEnds(t)
  <2>1. /\ Return(t, "recalled") /\ calm /\ (confirmed' => confirmed)
        /\ device' = device
        /\ belief' = [belief EXCEPT !.snap = IF belief.ws = None
                                               THEN Placeholder(op[t].snap)
                                               ELSE op[t].snap]
    BY <1>6 DEF RecallEnds
  <2>2. /\ pc[t] = "recalled" /\ pc'[t] = "idle"
        /\ \A u \in Threads \ {t} : pc'[u] = pc[u] /\ op'[u] = op[u]
    BY <2>1, ReturnType
  <2>3. device.snap = op[t].snap /\ (confirmed => belief.ws = device.ws)
    BY <1>2, <2>1, <2>2 DEF Placed
  <2>4. device.ws # None
    BY SwitchAssumption DEF TypeOK, Devices, SwitchAssumption
  <2>5. confirmed' => belief' = device'
    <3>1. SUFFICES ASSUME confirmed'
                   PROVE  belief' = device
      BY <2>1
    <3>2. belief.ws = device.ws
      BY <2>1, <2>3, <3>1
    <3>3. belief' = [belief EXCEPT !.snap = op[t].snap]
      BY <2>1, <2>4, <3>2
    <3> QED
      BY <2>3, <3>2, <3>3 DEF TypeOK, Devices, Beliefs
  <2>6. \A u \in Threads \ {t} : Aside(u)
    BY <1>1, <1>2, <2>1, <2>2, OthersAside DEF Aside
  <2>7. Placed(t)'
    BY <2>2 DEF Placed
  <2> QED
    BY <2>2, <2>5, <2>6, <2>7, AloneKept
<1> QED
  BY <1>3, <1>4, <1>5, <1>6

\* What the rest may do without ending the calm.
LEMMA AroundInCalm ==
  ASSUME TypeOK, Around, calm'
  PROVE  /\ calm
         /\ device' = device
         /\ \/ belief' = belief /\ confirmed' = confirmed
            \/ ~confirmed' /\ Heard
            \/ lock = None /\ belief' = device
            \/ /\ confirmed' = confirmed
               /\ belief' = [belief EXCEPT !.snap = device.snap]
<1> USE DEF beliefVars
<1>1. CASE \E w \in Workspaces : Commanded("workspace", w)
  BY <1>1 DEF Commanded
<1>2. CASE \E s \in Snapshots : Commanded("snapshot", s)
  BY <1>2 DEF Commanded
<1>3. CASE DropsEcho \/ Suppresses \/ IgnoresActive
  BY <1>3 DEF DropsEcho, Suppresses, IgnoresActive
<1>4. CASE AbsorbsWorkspace \/ AbsorbsSnapshot
  BY <1>4 DEF AbsorbsWorkspace, AbsorbsSnapshot
<1>5. CASE CooldownEnds \/ \E tp \in Topics : MarkExpires(tp)
  BY <1>5 DEF CooldownEnds, MarkExpires
<1>6. CASE HeartbeatSent \/ ReportIgnored \/ FeedReports \/ Reconnect
  BY <1>6 DEF HeartbeatSent, ReportIgnored, FeedReports, Reconnect
<1>7. CASE ReportAdopted
  <2>1. /\ calm /\ title = device.ws /\ slot = device.snap /\ lock = None
        /\ device' = device
        /\ belief' = [ws |-> title, snap |-> IF slot = None THEN belief.snap ELSE slot]
    BY <1>7 DEF ReportAdopted
  <2>2. slot # None
    BY <2>1, SwitchAssumption DEF TypeOK, Devices, SwitchAssumption
  <2>3. belief' = [ws |-> device.ws, snap |-> device.snap]
    BY <2>1, <2>2
  <2> QED
    BY <2>1, <2>3 DEF TypeOK, Devices
<1>8. CASE FeedSeen
  BY <1>8 DEF FeedSeen
<1>9. CASE \E d \in Devices : UserMoves(d)
  BY <1>9 DEF UserMoves
<1>10. CASE UNCHANGED vars
  BY <1>10 DEF vars
<1> QED
  BY <1>1, <1>2, <1>3, <1>4, <1>5, <1>6, <1>7, <1>8, <1>9, <1>10 DEF Around

LEMMA AroundCalm ==
  ASSUME SwitchAssumption, TypeOK, DeviceLockExact, CalmFacts, Around, calm'
  PROVE  CalmFacts'
<1>1. calm /\ device' = device /\ pc' = pc /\ op' = op
  BY AroundInCalm, AroundLeavesThreads
<1>2. ClicksApart' /\ CalmSteps'
  BY <1>1 DEF CalmFacts, ClicksApart, CalmSteps
<1>3. \A t \in Threads : Placed(t)
  BY <1>1 DEF CalmFacts, SendersPlaced
<1>4. CASE belief' = belief /\ confirmed' = confirmed
  BY <1>1, <1>2, <1>3, <1>4 DEF CalmFacts, SendersPlaced, Placed, ConfirmedIsTrue
<1>5. CASE ~confirmed' /\ Heard
  <2>1. \A t \in Threads : pc[t] \notin MacroLocations
    BY <1>5 DEF Heard, Suppressing
  <2>2. \A t \in Threads : Placed(t)'
    BY <1>1, <1>3, <1>5, <2>1 DEF Placed, MacroLocations
  <2> QED
    BY <1>2, <1>5, <2>2 DEF CalmFacts, SendersPlaced, ConfirmedIsTrue
<1>6. CASE lock = None /\ belief' = device
  <2>1. \A t \in Threads : pc[t] \notin HoldsLock
    BY <1>6 DEF DeviceLockExact, SwitchAssumption
  <2>2. \A t \in Threads : Placed(t)'
    BY <1>1, <1>3, <1>6, <2>1 DEF Placed, HoldsLock, MacroHolds, MacroLocations
  <2> QED
    BY <1>1, <1>2, <1>6, <2>2 DEF CalmFacts, SendersPlaced, ConfirmedIsTrue
<1>7. CASE confirmed' = confirmed /\ belief' = [belief EXCEPT !.snap = device.snap]
  <2>1. belief'.ws = belief.ws /\ (belief = device => belief' = device)
    BY <1>7 DEF TypeOK, Beliefs
  <2>2. \A t \in Threads : Placed(t)'
    BY <1>1, <1>3, <1>7, <2>1 DEF Placed
  <2>3. ConfirmedIsTrue'
    BY <1>1, <1>7, <2>1 DEF CalmFacts, ConfirmedIsTrue
  <2> QED
    BY <1>2, <2>2, <2>3 DEF CalmFacts, SendersPlaced
<1> QED
  BY <1>4, <1>5, <1>6, <1>7, AroundInCalm

LEMMA CalmFactsKept ==
  ASSUME SwitchAssumption, TypeOK, AskedFits, DeviceLockExact, CalmFacts, [Next]_vars
  PROVE  CalmFacts'
<1>1. ASSUME ~calm'
      PROVE  CalmFacts'
  BY <1>1 DEF CalmFacts, ClicksApart, SendersPlaced, CalmSteps, ConfirmedIsTrue
<1>2. ASSUME NEW t \in Threads,
             \/ \E target \in Targets : Macro(t, target)
             \/ \E w \in Workspaces, s \in Snapshots \cup {None} : Click(t, w, s)
             \/ StartsSwitch(t)
      PROVE  CalmFacts'
  <2>1. /\ pc[t] = "idle"
        /\ pc'[t] \in {"macroLock", "clickLock", "loadLock", "recallLock"}
        /\ \A u \in Threads \ {t} : pc'[u] = pc[u] /\ op'[u] = op[u]
        /\ device' = device /\ belief' = belief
        /\ confirmed' = confirmed /\ calm' = calm
    BY <1>2, Starts
  <2>2. /\ pc[t] \notin Between
        /\ pc'[t] \notin HoldsLock \cup ClickUnderWay
    BY <2>1 DEF Between, ClickUnderWay, HoldsLock, MacroHolds, MacroLocations
  <2> QED
    BY <2>1, <2>2, QuietKept
<1>3. ASSUME NEW t \in Threads, Advance(t), calm'
      PROVE  CalmFacts'
  BY <1>3, MacroStepCalm, ClickStepCalm, SwitchStepCalm DEF Advance
<1>4. CASE Restart
  BY <1>4 DEF Restart, CalmFacts, ClicksApart, SendersPlaced, Placed, CalmSteps,
              ConfirmedIsTrue, ClickUnderWay
<1>5. ASSUME Around, calm'
      PROVE  CalmFacts'
  BY <1>5, AroundCalm
<1> QED
  BY <1>1, <1>2, <1>3, <1>4, <1>5, StepKinds

-----------------------------------------------------------------------------
(* The theorems.                                                           *)

LEMMA Initially ==
  ASSUME SwitchAssumption, Init
  PROVE  IInv
<1> USE DEF Init
<1>1. TypeOK
  <2>1. "idle" \in Locations /\ NoOp \in Ops
    BY DEF Locations, NoOp, Ops
  <2>2. /\ broker \in Seq(Messages)
        /\ marks \in Stores /\ retained \in Stores
        /\ belief \in Beliefs
    BY DEF Stores, Beliefs
  <2>3. commands \in 0..MaxCommands
    BY DEF SwitchAssumption
  <2>4. pc \in [Threads -> Locations] /\ op \in [Threads -> Ops]
    BY <2>1
  <2> QED
    BY <2>2, <2>3, <2>4 DEF TypeOK
<1>2. AskedFits /\ GenuineCommands
  BY DEF AskedFits, GenuineCommands, MacroLocations, ClickLocations, ClickUnderWay,
         MqttLocations
<1>3. DeviceLockExact
  BY DEF DeviceLockExact, HoldsLock, MacroHolds, MacroLocations, SwitchAssumption
<1>4. MacroEchoCovered
  BY DEF MacroEchoCovered
<1>5. ClicksApart /\ SendersPlaced /\ CalmSteps /\ ConfirmedIsTrue
  BY DEF ClicksApart, SendersPlaced, Placed, ClickUnderWay, CalmSteps, ConfirmedIsTrue
<1> QED
  BY <1>1, <1>2, <1>3, <1>4, <1>5 DEF IInv

\* The strengthened invariant is inductive: the types, the lock, what an echo of a
\* macro can meet, and, while calm lasts, that a belief that is confirmed, and nobody
\* is about to correct, is what the mixer shows (ConfirmedIsTrue), that whoever is
\* under way to a target has the mixer where its place says (SendersPlaced), and that
\* a click has nobody else beside it (ClicksApart).
THEOREM Invariance == Spec => []IInv
<1>1. Init => IInv
  BY SwitchAssumption, Initially
<1>2. IInv /\ [Next]_vars => IInv'
  <2>1. SUFFICES ASSUME IInv, [Next]_vars
                 PROVE  IInv'
    OBVIOUS
  <2>2. /\ TypeOK /\ AskedFits /\ DeviceLockExact /\ GenuineCommands
        /\ MacroEchoCovered
        /\ CalmFacts
    BY <2>1 DEF IInv, CalmFacts
  <2>3. TypeOK' /\ AskedFits'
    BY <2>1, <2>2, SwitchAssumption, TypesKept, AskedFitsKept
  <2>4. DeviceLockExact' /\ GenuineCommands'
    BY <2>1, <2>2, SwitchAssumption, LockKept, CommandsKept
  <2>5. MacroEchoCovered'
    BY <2>1, <2>2, EchoesKept
  <2>6. CalmFacts'
    BY <2>1, <2>2, SwitchAssumption, CalmFactsKept
  <2> QED
    BY <2>3, <2>4, <2>5, <2>6 DEF IInv, CalmFacts
<1> QED
  BY <1>1, <1>2, PTL DEF Spec

\* Types hold for any number of threads, workspaces, snapshots and commands.
THEOREM Typing == Spec => []TypeOK
<1>1. IInv => TypeOK
  BY DEF IInv
<1> QED
  BY <1>1, Invariance, PTL

\* _device_lock is held by the one thread that is inside it, and by nobody
\* once that thread has left.
THEOREM LockExact == Spec => []DeviceLockExact
<1>1. IInv => DeviceLockExact
  BY DEF IInv
<1> QED
  BY <1>1, Invariance, PTL

\* No echo of a macro's publish and no retained replay starts an MQTT switch.
THEOREM NoFalseCommand == Spec => []GenuineCommands
<1>1. IInv => GenuineCommands
  BY DEF IInv
<1> QED
  BY <1>1, Invariance, PTL

\* As long as calm lasts, a macro that has a workspace and a snapshot plays its steps
\* on them, for any number of threads, and whatever macros (also those without a
\* snapshot of their own that send nothing), clicks, MQTT recalls, restarts and
\* reports come before and in between.  A workspace loaded without a snapshot, a lost
\* datagram, a hand at the mixer, a report that is late, an MQTT recall that confirms
\* an unconfirmed belief and a click that is not alone end the calm, until a macro
\* loads a workspace for a snapshot again.
THEOREM StepsOnTarget == Spec => []CalmSteps
<1>1. IInv => CalmSteps
  BY DEF IInv
<1> QED
  BY <1>1, Invariance, PTL

\* While a macro is inside its switch or its steps, nobody else sends a
\* workspace or a snapshot to the device.
THEOREM NoSwitchUnderneath == Spec => LayoutHeld
<1> DEFINE Held == \A t, u \in Threads :
             t # u /\ pc[t] \in MacroHolds /\ pc'[u] \in JustSent => pc'[u] = pc[u]
<1>1. IInv /\ [Next]_vars => [Held]_vars
  <2>1. SUFFICES ASSUME IInv, [Next]_vars,
                        NEW t \in Threads, NEW u \in Threads,
                        t # u, pc[t] \in MacroHolds, pc'[u] \in JustSent
                 PROVE  pc'[u] = pc[u]
    BY DEF Held
  <2>2. TypeOK /\ DeviceLockExact
    BY <2>1 DEF IInv
  <2>3. lock = t /\ pc[u] \notin HoldsLock /\ lock # None
    BY <2>1, <2>2, SwitchAssumption DEF DeviceLockExact, HoldsLock, SwitchAssumption
  <2>4. ASSUME NEW v \in Threads,
               \/ \E target \in Targets : Macro(v, target)
               \/ \E w \in Workspaces, s \in Snapshots \cup {None} : Click(v, w, s)
               \/ StartsSwitch(v)
        PROVE  pc'[u] = pc[u]
    BY <2>1, <2>2, <2>4, Starts DEF JustSent
  <2>5. ASSUME NEW v \in Threads, Advance(v)
        PROVE  pc'[u] = pc[u]
    <3>1. CASE v # u
      BY <2>2, <2>5, <3>1, AdvanceMoves
    <3>2. CASE v = u
      <4>1. pc'[u] \in {"clickLoaded", "clickRecalled"}
        <5>1. pc'[u] \notin HoldsLock
          BY <2>2, <2>3, <2>5, <3>2, AdvanceLocks
        <5> QED
          BY <2>1, <5>1 DEF JustSent, HoldsLock, MacroHolds, MacroLocations
      <4> QED
        BY <2>2, <2>3, <2>5, <3>2, <4>1, ClickSends
    <3> QED
      BY <3>1, <3>2
  <2>6. CASE Restart
    BY <2>1, <2>6 DEF Restart, JustSent
  <2>7. CASE Around
    BY <2>7, AroundLeavesThreads
  <2> QED
    BY <2>1, <2>4, <2>5, <2>6, <2>7, StepKinds
<1> QED
  BY <1>1, Invariance, PTL DEF Spec, LayoutHeld

=============================================================================
