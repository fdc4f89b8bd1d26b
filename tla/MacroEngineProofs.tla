------------------------- MODULE MacroEngineProofs -------------------------
(***************************************************************************)
(* Proofs about MacroEngine, for every set of threads and macros and every *)
(* configuration of the macros.                                            *)
(***************************************************************************)
EXTENDS MacroEngine, FiniteSetTheorems, TLAPS

\* The calls that count in _suppress_count.
Counted == {t \in Threads : pc[t] \in Registered}

\* A re-fire thread carries the trigger that was popped for it.
RefireHasParam == \A t \in Threads : pc[t] = "refire" => par[t] # 0

\* The inductive invariant.  The bookkeeping invariants lean on one another:
\* a cancelled run is replaced because its event is the registered one
\* (OneRunPerMacro); a new run is uncancelled and unreplaced because nothing
\* was queued while nobody ran (NoOrphanedTrigger).
IInv ==
  /\ TypeOK
  /\ OneRunPerMacro
  /\ SuppressCountsRuns
  /\ NoOrphanedTrigger
  /\ CancelIffReplaced
  /\ DeviceExclusion
  /\ RefireHasParam

-----------------------------------------------------------------------------

\* What the types depend on.
LEMMA Bounds ==
  /\ MaxTicks \in Nat
  /\ MaxTriggers \in Nat
  /\ NoThread \notin Threads
  /\ Macros # {}
BY ConfigAssumption

\* The initial states satisfy the invariant: nobody is registered.
LEMMA InitInv == Init => IInv
<1> SUFFICES ASSUME Init PROVE IInv
  OBVIOUS
<1>1. TypeOK
  <2>1. AnyMacro \in Macros
    BY Bounds DEF AnyMacro
  <2>2. 0 \in 0..MaxTicks /\ 0 \in 0..MaxTriggers /\ 0 \in Nat /\ 1 \in Nat
    BY Bounds
  <2>3. pc \in [Threads -> Locations] /\ mac \in [Threads -> Macros]
    BY <2>1 DEF Init, Locations
  <2>4. /\ par \in [Threads -> Nat]
        /\ step \in [Threads -> Nat]
        /\ tick \in [Threads -> 0..MaxTicks]
        /\ cancel \in [Threads -> BOOLEAN]
        /\ eventOf \in [Macros -> Threads \cup {NoThread}]
        /\ queued \in [Macros -> Nat]
        /\ started \in [Macros -> Nat]
    BY <2>2 DEF Init
  <2> QED
    BY <2>2, <2>3, <2>4 DEF Init, TypeOK
<1>2. /\ OneRunPerMacro /\ NoOrphanedTrigger /\ CancelIffReplaced
      /\ DeviceExclusion /\ RefireHasParam
  BY Bounds DEF Init, OneRunPerMacro, NoOrphanedTrigger, CancelIffReplaced,
                DeviceExclusion, RefireHasParam, Registered, HoldsDevice
<1>3. SuppressCountsRuns
  <2>1. {t \in Threads : pc[t] \in Registered} = {}
    BY DEF Init, Registered
  <2> QED
    BY <2>1, FS_EmptySet DEF Init, SuppressCountsRuns
<1> QED
  BY <1>1, <1>2, <1>3 DEF IInv

\* Every action keeps the types.
LEMMA TypeStep == TypeOK /\ [Next]_vars => TypeOK'
<1> SUFFICES ASSUME TypeOK, [Next]_vars PROVE TypeOK'
  OBVIOUS
<1> USE Bounds DEF TypeOK, Locations, callVars, bodyVars,
                             macroVars, beliefVars
<1>1. ASSUME NEW t \in Threads, NEW m \in Macros, NEW n \in Nat,
             Guard(t, m, n), arrivals' \in 0..MaxTriggers
      PROVE TypeOK'
  <2>1. CASE Ignore(t, m)
    BY <1>1, <2>1 DEF Ignore, Dropped
  <2>2. CASE Queue(t, m, n)
    BY <1>1, <2>2 DEF Queue
  <2>3. CASE Debounce(t, m)
    BY <1>1, <2>3 DEF Debounce, Dropped
  <2>4. CASE Register(t, m, n)
    BY <1>1, <2>4 DEF Register, FreshEvent
  <2> QED
    BY <1>1, <2>1, <2>2, <2>3, <2>4 DEF Guard
<1>2. ASSUME NEW t \in Threads, NEW m \in Macros, Trigger(t, m)
      PROVE TypeOK'
  BY <1>1, <1>2 DEF Trigger
<1>3. ASSUME NEW t \in Threads, Refire(t)
      PROVE TypeOK'
  BY <1>1, <1>3 DEF Refire
<1>4. ASSUME NEW t \in Threads, Acquire(t)
      PROVE TypeOK'
  BY <1>4 DEF Acquire
<1>5. ASSUME NEW t \in Threads, SkipBlocked(t) \/ Raise(t)
      PROVE TypeOK'
  BY <1>5 DEF SkipBlocked, Raise, Leave
<1>6. ASSUME NEW t \in Threads, SkipSwitch(t) \/ SwitchDone(t) \/ StepsDone(t)
      PROVE TypeOK'
  BY <1>6 DEF SkipSwitch, SwitchDone, StepsDone
<1>7. ASSUME NEW t \in Threads, SendSwitch(t)
      PROVE TypeOK'
  BY <1>7 DEF SendSwitch, Targets
<1>8. ASSUME NEW t \in Threads, StaticStep(t)
      PROVE TypeOK'
  BY <1>8 DEF StaticStep
<1>9. ASSUME NEW t \in Threads, OperationTick(t)
      PROVE TypeOK'
  BY <1>9 DEF OperationTick, ValuesLeft
<1>10. ASSUME NEW t \in Threads, OperationEnd(t)
      PROVE TypeOK'
  BY <1>10 DEF OperationEnd
<1>11. ASSUME NEW t \in Threads, Report(t)
      PROVE TypeOK'
  BY <1>11 DEF Report, Leave
<1>12. ASSUME NEW t \in Threads, Cleanup(t)
      PROVE TypeOK'
  BY <1>12 DEF Cleanup, Countdown, Popped, AfterCleanup
<1>13. ASSUME NEW m \in Macros, WindowCloses(m)
      PROVE TypeOK'
  BY <1>13 DEF WindowCloses
<1>14. ASSUME NEW g \in Targets \cup {NoTarget},
              OtherSwitch(g) \/ BeliefMoves(g)
      PROVE TypeOK'
  BY <1>14 DEF OtherSwitch, BeliefMoves
<1>15. CASE UNCHANGED vars
  BY <1>15 DEF vars
<1> QED
  BY <1>2, <1>3, <1>4, <1>5, <1>6, <1>7, <1>8, <1>9, <1>10, <1>11, <1>12,
     <1>13, <1>14, <1>15 DEF Next, Advance

-----------------------------------------------------------------------------
(* Locations of a call that is registered, and steps that stay there.      *)

\* A step inside the device section that neither leaves it nor touches the
\* bookkeeping of _macro_lock keeps the control invariants.
LEMMA InsideStep ==
  ASSUME IInv, TypeOK',
         NEW t \in Threads, NEW l \in HoldsDevice,
         pc[t] \in HoldsDevice, pc' = [pc EXCEPT ![t] = l],
         UNCHANGED <<callVars, cancel, macroVars, device>>
  PROVE  IInv'
<1> USE DEF callVars, macroVars
<1>1. \A u \in Threads : /\ pc'[u] \in Registered <=> pc[u] \in Registered
                         /\ pc'[u] \in HoldsDevice <=> pc[u] \in HoldsDevice
  BY DEF IInv, TypeOK, HoldsDevice, Registered
<1>2. OneRunPerMacro' /\ NoOrphanedTrigger' /\ CancelIffReplaced' /\ DeviceExclusion'
  BY <1>1 DEF IInv, OneRunPerMacro, NoOrphanedTrigger, CancelIffReplaced,
              DeviceExclusion
<1>3. RefireHasParam'
  BY DEF IInv, TypeOK, RefireHasParam, HoldsDevice
<1>4. SuppressCountsRuns'
  <2>1. {u \in Threads : pc'[u] \in Registered} = {u \in Threads : pc[u] \in Registered}
    BY <1>1
  <2> QED
    BY <2>1 DEF IInv, SuppressCountsRuns
<1> QED
  BY <1>2, <1>3, <1>4 DEF IInv

\* Entering or leaving the device section keeps them, when the lock's holder
\* changes with the location.
LEMMA BoundaryStep ==
  ASSUME IInv, TypeOK',
         NEW t \in Threads, NEW l,
         \/ pc[t] = "waiting" /\ device = NoThread /\ l = "decide" /\ device' = t
         \/ pc[t] \in HoldsDevice /\ l = "finally" /\ device' = NoThread,
         pc' = [pc EXCEPT ![t] = l],
         UNCHANGED <<callVars, cancel, macroVars>>
  PROVE  IInv'
<1> USE DEF callVars, macroVars
<1>1. \A u \in Threads : pc'[u] \in Registered <=> pc[u] \in Registered
  BY DEF IInv, TypeOK, HoldsDevice, Registered
<1>2. OneRunPerMacro' /\ NoOrphanedTrigger' /\ CancelIffReplaced'
  BY <1>1 DEF IInv, OneRunPerMacro, NoOrphanedTrigger, CancelIffReplaced
<1>3. DeviceExclusion'
  BY Bounds DEF IInv, TypeOK, DeviceExclusion, HoldsDevice
<1>4. SuppressCountsRuns'
  <2>1. {u \in Threads : pc'[u] \in Registered} = {u \in Threads : pc[u] \in Registered}
    BY <1>1
  <2> QED
    BY <2>1 DEF IInv, SuppressCountsRuns
<1>5. RefireHasParam'
  BY DEF IInv, TypeOK, RefireHasParam
<1> QED
  BY <1>2, <1>3, <1>4, <1>5 DEF IInv

\* The guard: a thread outside (idle or a re-fire) drops its trigger, parks it
\* behind the running execution, or becomes the execution.
LEMMA GuardStep ==
  ASSUME IInv, TypeOK',
         NEW t \in Threads, NEW m \in Macros, NEW n \in Nat \ {0},
         pc[t] \in {"idle", "refire"}, Guard(t, m, n)
  PROVE  IInv'
<1>1. pc[t] \notin Registered /\ pc[t] \notin HoldsDevice
  BY DEF Registered, HoldsDevice
<1>2. RefireHasParam'
  BY DEF IInv, TypeOK, RefireHasParam, Guard, Ignore, Queue, Debounce, Register,
         Dropped, callVars
<1>3. CASE Ignore(t, m) \/ Debounce(t, m)
  <2> USE DEF Ignore, Debounce, Dropped, callVars, macroVars
  <2>1. \A u \in Threads : /\ pc'[u] \in Registered <=> pc[u] \in Registered
                           /\ pc'[u] \in HoldsDevice <=> pc[u] \in HoldsDevice
    BY <1>1, <1>3 DEF IInv, TypeOK, HoldsDevice, Registered
  <2>2. OneRunPerMacro' /\ NoOrphanedTrigger' /\ CancelIffReplaced' /\ DeviceExclusion'
    BY <1>3, <2>1 DEF IInv, OneRunPerMacro, NoOrphanedTrigger, CancelIffReplaced,
                      DeviceExclusion
  <2>3. {u \in Threads : pc'[u] \in Registered} = {u \in Threads : pc[u] \in Registered}
    BY <2>1
  <2> QED
    BY <1>3, <1>2, <2>2, <2>3 DEF IInv, SuppressCountsRuns
<1>4. CASE Queue(t, m, n)
  <2> USE DEF Queue, callVars
  <2>1. \A u \in Threads : /\ pc'[u] \in Registered <=> pc[u] \in Registered
                           /\ pc'[u] \in HoldsDevice <=> pc[u] \in HoldsDevice
    BY <1>1, <1>4 DEF IInv, TypeOK, HoldsDevice, Registered
  <2>2. OneRunPerMacro' /\ NoOrphanedTrigger' /\ DeviceExclusion'
    BY <1>4, <2>1 DEF IInv, TypeOK, OneRunPerMacro, NoOrphanedTrigger, DeviceExclusion
  <2>3. CancelIffReplaced'
    <3> SUFFICES ASSUME NEW u \in Threads, pc'[u] \in Registered
                 PROVE  (cancel'[u] <=> FireMode[mac'[u]] = "restart"
                                        /\ queued'[mac'[u]] # 0)
      BY DEF CancelIffReplaced
    <3>1. pc[u] \in Registered /\ mac'[u] = mac[u] /\ mac[u] \in Macros
      BY <1>4, <2>1 DEF IInv, TypeOK
    <3>2. eventOf[m] \in Threads
      BY <1>4 DEF IInv, TypeOK, OneRunPerMacro
    <3>3. CASE mac[u] = m
      <4>1. eventOf[m] = u
        BY <3>1, <3>3 DEF IInv, OneRunPerMacro
      <4>2. queued'[m] = n /\ n # 0
        BY <1>4 DEF IInv, TypeOK
      <4>3. cancel'[u] <=> FireMode[m] = "restart" \/ cancel[u]
        BY <1>4, <3>2, <4>1, Bounds DEF IInv, TypeOK
      <4> QED
        BY <3>1, <3>3, <4>2, <4>3 DEF IInv, CancelIffReplaced
    <3>4. CASE mac[u] # m
      <4>1. eventOf[m] # u
        BY <3>1, <3>4 DEF IInv, OneRunPerMacro
      <4>2. queued'[mac[u]] = queued[mac[u]] /\ cancel'[u] = cancel[u]
        BY <1>4, <3>1, <3>4, <4>1 DEF IInv, TypeOK
      <4> QED
        BY <3>1, <4>2 DEF IInv, CancelIffReplaced
    <3> QED
      BY <3>3, <3>4
  <2>4. {u \in Threads : pc'[u] \in Registered} = {u \in Threads : pc[u] \in Registered}
    BY <2>1
  <2> QED
    BY <1>4, <1>2, <2>2, <2>3, <2>4 DEF IInv, SuppressCountsRuns
<1>5. CASE Register(t, m, n)
  <2> USE DEF Register, Free, FreshEvent
  <2>1. /\ pc'[t] = "waiting" /\ mac'[t] = m /\ ~cancel'[t]
        /\ \A u \in Threads \ {t} : /\ pc'[u] = pc[u]
                                    /\ mac'[u] = mac[u]
                                    /\ cancel'[u] = cancel[u]
    BY <1>5 DEF IInv, TypeOK
  <2>2. eventOf[m] = NoThread /\ queued[m] = 0
    BY <1>5 DEF IInv, OneRunPerMacro, NoOrphanedTrigger
  <2>3. \A u \in Threads \ {t} : pc[u] \in Registered => mac[u] # m
    BY <2>2, Bounds DEF IInv, OneRunPerMacro
  <2>4. OneRunPerMacro'
    <3> SUFFICES ASSUME NEW k \in Macros
                 PROVE  /\ k \in running' <=> eventOf'[k] # NoThread
                        /\ \A u \in Threads :
                             (pc'[u] \in Registered /\ mac'[u] = k) <=> eventOf'[k] = u
      BY DEF OneRunPerMacro
    <3>1. CASE k = m
      BY <1>5, <2>1, <2>3, <3>1, Bounds DEF IInv, TypeOK, Registered
    <3>2. CASE k # m
      BY <1>1, <1>5, <2>1, <3>2, Bounds DEF IInv, TypeOK, OneRunPerMacro
    <3> QED
      BY <3>1, <3>2
  <2>5. NoOrphanedTrigger'
    BY <1>5, <2>2 DEF IInv, NoOrphanedTrigger
  <2>6. CancelIffReplaced'
    BY <1>5, <2>1, <2>2, <2>3 DEF IInv, CancelIffReplaced
  <2>7. DeviceExclusion'
    BY <1>1, <1>5, <2>1 DEF IInv, DeviceExclusion, HoldsDevice
  <2>8. SuppressCountsRuns'
    <3>1. Counted' = Counted \cup {t} /\ t \notin Counted
      BY <1>1, <2>1 DEF Counted, Registered
    <3>2. IsFiniteSet(Counted)
      BY ConfigAssumption, FS_Subset DEF Counted
    <3>3. Cardinality(Counted') = Cardinality(Counted) + 1
      BY <3>1, <3>2, FS_AddElement
    <3> QED
      BY <1>5, <3>3 DEF IInv, SuppressCountsRuns, Counted
  <2> QED
    BY <1>2, <2>4, <2>5, <2>6, <2>7, <2>8 DEF IInv
<1> QED
  BY <1>3, <1>4, <1>5 DEF Guard

\* Cleanup: the execution and everything registered for it go together.
LEMMA CleanupStep ==
  ASSUME IInv, TypeOK', NEW t \in Threads, Cleanup(t)
  PROVE  IInv'
<1> DEFINE m == mac[t]
<1> USE DEF Cleanup, Popped, AfterCleanup
<1>1. m \in Macros /\ pc[t] = "finally"
  BY DEF IInv, TypeOK
<1>2. eventOf[m] = t
  BY <1>1 DEF IInv, OneRunPerMacro, Registered
<1>3. /\ pc'[t] \in {"idle", "refire"}
      /\ \A u \in Threads \ {t} : pc'[u] = pc[u]
      /\ mac' = mac /\ cancel' = cancel /\ device' = device
  BY DEF IInv, TypeOK
<1>4. \A u \in Threads \ {t} : pc[u] \in Registered => mac[u] # m
  BY <1>1, <1>2 DEF IInv, OneRunPerMacro
<1>5. OneRunPerMacro'
  <2> SUFFICES ASSUME NEW k \in Macros
               PROVE  /\ k \in running' <=> eventOf'[k] # NoThread
                      /\ \A u \in Threads :
                           (pc'[u] \in Registered /\ mac'[u] = k) <=> eventOf'[k] = u
    BY DEF OneRunPerMacro
  <2>1. CASE k = m
    BY <1>1, <1>3, <1>4, <2>1, Bounds DEF IInv, TypeOK, Registered
  <2>2. CASE k # m
    BY <1>1, <1>3, <2>2 DEF IInv, TypeOK, OneRunPerMacro, Registered
  <2> QED
    BY <2>1, <2>2
<1>6. NoOrphanedTrigger'
  BY <1>1 DEF IInv, TypeOK, NoOrphanedTrigger
<1>7. CancelIffReplaced'
  BY <1>1, <1>3, <1>4 DEF IInv, TypeOK, CancelIffReplaced, Registered
<1>8. DeviceExclusion'
  BY <1>1, <1>3 DEF IInv, DeviceExclusion, HoldsDevice
<1>9. SuppressCountsRuns'
  <2>1. Counted' = Counted \ {t} /\ t \in Counted
    BY <1>1, <1>3 DEF Counted, Registered
  <2>2. IsFiniteSet(Counted)
    BY ConfigAssumption, FS_Subset DEF Counted
  <2>3. Cardinality(Counted') = Cardinality(Counted) - 1 /\ Cardinality(Counted) \in Nat
    BY <2>1, <2>2, FS_RemoveElement, FS_CardinalityType
  <2>4. Cardinality(Counted) # 0
    BY <2>1, <2>2, FS_EmptySet
  <2> QED
    BY <2>3, <2>4 DEF IInv, SuppressCountsRuns, Counted, Countdown
<1>10. RefireHasParam'
  BY <1>1, <1>3 DEF IInv, TypeOK, RefireHasParam
<1> QED
  BY <1>5, <1>6, <1>7, <1>8, <1>9, <1>10 DEF IInv

-----------------------------------------------------------------------------

\* Every step keeps the invariant.
LEMMA NextInv == IInv /\ [Next]_vars => IInv'
<1> SUFFICES ASSUME IInv, [Next]_vars PROVE IInv'
  OBVIOUS
<1>0. TypeOK'
  BY TypeStep DEF IInv
<1>1. ASSUME NEW t \in Threads, NEW m \in Macros, Trigger(t, m)
      PROVE IInv'
  <2>1. arrivals + 1 \in Nat \ {0}
    BY DEF IInv, TypeOK
  <2> QED
    BY <1>0, <1>1, <2>1, GuardStep DEF Trigger
<1>2. ASSUME NEW t \in Threads, Refire(t)
      PROVE IInv'
  <2>1. mac[t] \in Macros /\ par[t] \in Nat \ {0}
    BY <1>2 DEF IInv, TypeOK, RefireHasParam, Refire
  <2> QED
    BY <1>0, <1>2, <2>1, GuardStep DEF Refire
<1>3. ASSUME NEW t \in Threads, Acquire(t)
      PROVE IInv'
  BY <1>0, <1>3, BoundaryStep DEF Acquire, DeviceFree
<1>4. ASSUME NEW t \in Threads, SkipBlocked(t) \/ Raise(t) \/ Report(t)
      PROVE IInv'
  BY <1>0, <1>4, BoundaryStep DEF SkipBlocked, Raise, Report, Leave, HoldsDevice
<1>5. ASSUME NEW t \in Threads,
             SkipSwitch(t) \/ SendSwitch(t) \/ SwitchDone(t) \/ StepsDone(t)
      PROVE IInv'
  BY <1>0, <1>5, InsideStep DEF SkipSwitch, SendSwitch, SwitchDone, StepsDone, HoldsDevice
<1>6. ASSUME NEW t \in Threads,
             StaticStep(t) \/ OperationTick(t) \/ OperationEnd(t)
      PROVE IInv'
  <2>1. pc[t] = "steps" /\ pc' = [pc EXCEPT ![t] = "steps"]
    BY <1>6 DEF StaticStep, OperationTick, OperationEnd, AtStep, IInv, TypeOK
  <2> QED
    BY <1>0, <1>6, <2>1, InsideStep
    DEF StaticStep, OperationTick, OperationEnd, HoldsDevice
<1>7. ASSUME NEW t \in Threads, Cleanup(t)
      PROVE IInv'
  BY <1>0, <1>7, CleanupStep
<1>8. CASE \/ \E m \in Macros : WindowCloses(m)
           \/ \E g \in Targets \cup {NoTarget} : OtherSwitch(g) \/ BeliefMoves(g)
           \/ UNCHANGED vars
  <2>1. UNCHANGED <<pc, callVars, cancel, macroVars, device>>
    BY <1>8 DEF WindowCloses, OtherSwitch, BeliefMoves, vars
  <2> QED
    BY <1>0, <2>1
    DEF callVars, macroVars, IInv, OneRunPerMacro, SuppressCountsRuns,
        NoOrphanedTrigger, CancelIffReplaced, DeviceExclusion, RefireHasParam
<1> QED
  BY <1>1, <1>2, <1>3, <1>4, <1>5, <1>6, <1>7, <1>8 DEF Next, Advance

\* The invariant holds in every reachable state.
THEOREM Invariance == Spec => []IInv
BY InitInv, NextInv, PTL DEF Spec

\* Every variable of the engine keeps its type.
THEOREM Typing == Spec => []TypeOK
BY Invariance, PTL DEF IInv

\* At most one execution per macro, whatever the interleaving of web, MQTT and
\* re-fire threads at the guard.
THEOREM AtMostOneRun == Spec => []OneRunPerMacro
BY Invariance, PTL DEF IInv

\* The suppression counter is exact: it is zero only when no macro executes.
THEOREM SuppressionExact == Spec => []SuppressCountsRuns
BY Invariance, PTL DEF IInv

\* No queued trigger is ever stranded.
THEOREM NoTriggerStranded == Spec => []NoOrphanedTrigger
BY Invariance, PTL DEF IInv

\* A cancelled execution always has its replacement waiting.
THEOREM CancelMeansReplaced == Spec => []CancelIffReplaced
BY Invariance, PTL DEF IInv

\* The device section is exclusive.
THEOREM OneDeviceUser == Spec => []DeviceExclusion
BY Invariance, PTL DEF IInv

-----------------------------------------------------------------------------
(* The engine implements FireModes.                                        *)

\* Triggers keep their identity: what is queued or on its way back in was
\* once a trigger, and is not also on its way in another thread.
Distinct ==
  /\ \A m \in Macros : queued[m] <= arrivals /\ started[m] <= arrivals
  /\ \A m \in running : started[m] # 0
  /\ \A t \in Threads : pc[t] = "refire" =>
       /\ par[t] <= arrivals
       /\ par[t] # queued[mac[t]]
       /\ mac[t] \in running => par[t] # started[mac[t]]
       /\ \A u \in Threads \ {t} :
            pc[u] = "refire" /\ mac[u] = mac[t] => par[u] # par[t]
  /\ \A m \in running : queued[m] # started[m]

\* Steps that leave triggers, executions and re-fires as they are.
LEMMA DistinctUnchanged ==
  ASSUME Distinct, TypeOK, TypeOK',
         UNCHANGED <<mac, par, running, queued, started, arrivals>>,
         \A t \in Threads : pc'[t] = "refire" <=> pc[t] = "refire"
  PROVE  Distinct'
BY DEF Distinct, TypeOK

\* A trigger at the guard, fresh or handed over, is distinct from all others.
LEMMA DistinctGuard ==
  ASSUME Distinct, IInv, TypeOK', NEW t \in Threads, NEW m \in Macros, NEW n \in Nat,
         pc[t] \in {"idle", "refire"}, Guard(t, m, n),
         n # 0, n <= arrivals', arrivals <= arrivals',
         queued[m] # n, m \in running => started[m] # n,
         \A u \in Threads \ {t} : pc[u] = "refire" /\ mac[u] = m => par[u] # n
  PROVE  Distinct'
<1>1. CASE Ignore(t, m) \/ Debounce(t, m)
  BY <1>1 DEF Ignore, Debounce, Dropped, callVars, macroVars, Distinct, IInv, TypeOK
<1>2. CASE Queue(t, m, n)
  BY <1>2 DEF Queue, callVars, Distinct, IInv, TypeOK
<1>3. CASE Register(t, m, n)
  <2>1. queued[m] = 0
    BY <1>3 DEF Register, Free, IInv, NoOrphanedTrigger
  <2> QED
    BY <1>3, <2>1 DEF Register, Distinct, IInv, TypeOK, RefireHasParam
<1> QED
  BY <1>1, <1>2, <1>3 DEF Guard

\* Every step keeps triggers distinct.
LEMMA DistinctNext == IInv /\ Distinct /\ [Next]_vars => Distinct'
<1> SUFFICES ASSUME IInv, Distinct, [Next]_vars PROVE Distinct'
  OBVIOUS
<1>0. TypeOK /\ TypeOK'
  BY TypeStep DEF IInv
<1>1. ASSUME NEW t \in Threads, NEW m \in Macros, Trigger(t, m)
      PROVE Distinct'
  <2> DEFINE n == arrivals + 1
  <2>1. pc[t] = "idle" /\ Guard(t, m, n) /\ arrivals' = n
    BY <1>1 DEF Trigger
  <2>2. arrivals \in Nat /\ n \in Nat /\ n # 0 /\ arrivals <= n
    BY <1>0 DEF TypeOK
  <2>3. queued[m] # n /\ (m \in running => started[m] # n)
    BY <1>0, <2>2 DEF Distinct, TypeOK
  <2>4. \A u \in Threads \ {t} : pc[u] = "refire" /\ mac[u] = m => par[u] # n
    BY <1>0, <2>2 DEF Distinct, TypeOK
  <2> HIDE DEF n
  <2> QED
    BY <1>0, <2>1, <2>2, <2>3, <2>4, DistinctGuard
<1>2. ASSUME NEW t \in Threads, Refire(t)
      PROVE Distinct'
  <2>1. /\ mac[t] \in Macros /\ par[t] \in Nat
        /\ par[t] # 0 /\ par[t] <= arrivals /\ arrivals <= arrivals
        /\ queued[mac[t]] # par[t]
        /\ mac[t] \in running => started[mac[t]] # par[t]
        /\ \A u \in Threads \ {t} : pc[u] = "refire" /\ mac[u] = mac[t] => par[u] # par[t]
    BY <1>0, <1>2 DEF Refire, Distinct, TypeOK, IInv, RefireHasParam
  <2> QED
    BY <1>0, <1>2, <2>1, DistinctGuard DEF Refire
<1>3. ASSUME NEW t \in Threads, Cleanup(t)
      PROVE Distinct'
  <2> DEFINE m == mac[t]
  <2>1. /\ m \in Macros /\ queued[m] \in Nat /\ queued[m] <= arrivals
        /\ running' = running \ {m} /\ started' = started /\ arrivals' = arrivals
        /\ queued' = [queued EXCEPT ![m] = 0] /\ mac' = mac
        /\ par' = [par EXCEPT ![t] = queued[m]]
        /\ pc'[t] = "refire" => queued[m] # 0
        /\ \A u \in Threads \ {t} : pc'[u] = pc[u] /\ par'[u] = par[u]
        /\ par'[t] = queued[m]
    BY <1>0, <1>3 DEF Cleanup, Popped, AfterCleanup, Distinct, TypeOK
  <2>2. \A u \in Threads \ {t} : pc[u] = "refire" /\ mac[u] = m =>
            par[u] # queued[m] /\ par[u] # 0
    BY <2>1 DEF Distinct, IInv, RefireHasParam
  <2>3. /\ \A k \in Macros : queued'[k] <= arrivals' /\ started'[k] <= arrivals'
        /\ \A k \in running' : started'[k] # 0 /\ queued'[k] # started'[k]
    BY <1>0, <2>1 DEF Distinct, TypeOK
  <2>4. ASSUME NEW u \in Threads, pc'[u] = "refire"
        PROVE  /\ par'[u] <= arrivals'
               /\ par'[u] # queued'[mac'[u]]
               /\ mac'[u] \in running' => par'[u] # started'[mac'[u]]
               /\ \A w \in Threads \ {u} :
                    pc'[w] = "refire" /\ mac'[w] = mac'[u] => par'[w] # par'[u]
    <3>1. CASE u = t
      BY <1>0, <2>1, <2>2, <2>4, <3>1 DEF TypeOK
    <3>2. CASE u # t
      <4>1. pc[u] = "refire" /\ par'[u] = par[u] /\ mac[u] \in Macros
        BY <1>0, <2>1, <2>4, <3>2 DEF TypeOK
      <4>2. par[u] <= arrivals /\ par[u] # 0
        BY <4>1 DEF Distinct, IInv, RefireHasParam
      <4>3. par[u] # queued'[mac[u]]
        BY <1>0, <2>1, <4>1, <4>2 DEF Distinct, TypeOK
      <4>4. mac[u] \in running' => par[u] # started[mac[u]]
        BY <2>1, <4>1 DEF Distinct
      <4>5. \A w \in Threads \ {u} :
              pc'[w] = "refire" /\ mac[w] = mac[u] => par'[w] # par[u]
        BY <2>1, <2>2, <4>1 DEF Distinct
      <4> QED
        BY <2>1, <4>1, <4>2, <4>3, <4>4, <4>5
    <3> QED
      BY <3>1, <3>2
  <2> QED
    BY <2>3, <2>4 DEF Distinct
<1>4. ASSUME NEW t \in Threads,
             \/ Acquire(t) \/ SkipBlocked(t) \/ SkipSwitch(t) \/ SendSwitch(t)
             \/ SwitchDone(t) \/ StepsDone(t) \/ Report(t) \/ Raise(t)
      PROVE Distinct'
  BY <1>0, <1>4, DistinctUnchanged
  DEF Acquire, SkipBlocked, SkipSwitch, SendSwitch, SwitchDone, StepsDone, Report,
      Raise, Leave, HoldsDevice, callVars, macroVars, TypeOK
<1>5. ASSUME NEW t \in Threads,
             StaticStep(t) \/ OperationTick(t) \/ OperationEnd(t)
      PROVE Distinct'
  BY <1>0, <1>5, DistinctUnchanged
  DEF StaticStep, OperationTick, OperationEnd, callVars, macroVars
<1>6. CASE \/ \E m \in Macros : WindowCloses(m)
           \/ \E g \in Targets \cup {NoTarget} : OtherSwitch(g) \/ BeliefMoves(g)
           \/ UNCHANGED vars
  BY <1>0, <1>6, DistinctUnchanged
  DEF WindowCloses, OtherSwitch, BeliefMoves, vars, callVars, macroVars
<1> QED
  BY <1>1, <1>2, <1>3, <1>4, <1>5, <1>6 DEF Next, Advance

-----------------------------------------------------------------------------
(* The refinement, step by step.                                           *)

\* A step that leaves executions, queue and re-fires alone stutters.
LEMMA StutterUnchanged ==
  ASSUME UNCHANGED <<mac, par, running, queued, started>>,
         \A t \in Threads : pc'[t] = "refire" <=> pc[t] = "refire"
  PROVE  UNCHANGED FM!vars
BY DEF FM!vars

\* What the guard does to a trigger is what FireModes allows.
LEMMA GuardRefines ==
  ASSUME IInv, Distinct, TypeOK', NEW t \in Threads, NEW m \in Macros, NEW n \in Nat,
         Guard(t, m, n)
  PROVE  FM!Offer(m, n)
<1> DEFINE e == [k \in Macros |-> IF k \in running THEN started[k] ELSE 0]
<1>1. /\ m \in running => e[m] # 0
      /\ m \notin running => e[m] = 0
  BY DEF Distinct
<1>2. CASE Ignore(t, m)
  <2>1. e' = e /\ queued' = queued
    BY <1>2 DEF Ignore, Dropped, macroVars
  <2> QED
    BY <1>1, <1>2, <2>1 DEF Ignore, FM!Offer, FM!Lose
<1>3. CASE Queue(t, m, n)
  <2>1. e' = e /\ queued' = [queued EXCEPT ![m] = n]
    BY <1>3 DEF Queue
  <2> QED
    BY <1>1, <1>3, <2>1 DEF Queue, FM!Offer, FM!Park
<1>4. CASE Debounce(t, m)
  <2>1. e' = e /\ queued' = queued /\ m \in Debounced
    BY <1>4 DEF Debounce, Dropped, macroVars, IInv, TypeOK
  <2> QED
    BY <1>1, <1>4, <2>1 DEF Debounce, Free, FM!Offer, FM!Lose
<1>5. CASE Register(t, m, n)
  <2>1. /\ running' = running \cup {m} /\ started' = [started EXCEPT ![m] = n]
        /\ queued' = queued /\ started \in [Macros -> Nat]
    BY <1>5 DEF Register, IInv, TypeOK
  <2>2. \A k \in Macros : e'[k] = IF k = m THEN n ELSE e[k]
    BY <2>1
  <2>3. e' = [e EXCEPT ![m] = n]
    BY <2>2
  <2> QED
    BY <1>1, <1>5, <2>1, <2>3 DEF Register, Free, FM!Offer, FM!Start
<1> QED
  BY <1>2, <1>3, <1>4, <1>5 DEF Guard

\* A fresh trigger at the guard arrives in FireModes.
LEMMA TriggerRefines ==
  ASSUME IInv, Distinct, TypeOK', NEW t \in Threads, NEW m \in Macros, Trigger(t, m)
  PROVE  FM!Next
<1> DEFINE n == arrivals + 1
           e == [k \in Macros |-> IF k \in running THEN started[k] ELSE 0]
           h == [k \in Macros |->
                   {par[u] : u \in {w \in Threads : pc[w] = "refire" /\ mac[w] = k}}]
<1>1. pc[t] = "idle" /\ Guard(t, m, n)
  BY DEF Trigger
<1>2. n \in 1..MaxTriggers /\ n # 0
  BY Bounds DEF Trigger, IInv, TypeOK
<1>3. n \notin h[m] \cup {e[m], queued[m]}
  BY <1>2 DEF Distinct, IInv, TypeOK
<1>4. h' = h
  <2>1. \A u \in Threads : (pc'[u] = "refire" <=> pc[u] = "refire")
    BY <1>1 DEF Guard, Ignore, Queue, Debounce, Register, Dropped, IInv, TypeOK
  <2>2. \A u \in Threads : pc[u] = "refire" => mac'[u] = mac[u] /\ par'[u] = par[u]
    BY <1>1 DEF Guard, Ignore, Queue, Debounce, Register, Dropped, callVars, IInv, TypeOK
  <2> QED
    BY <2>1, <2>2
<1>5. FM!Offer(m, n)
  BY <1>1, <1>2, GuardRefines
<1> QED
  BY <1>2, <1>3, <1>4, <1>5 DEF FM!Next, FM!Arrive

\* A re-fire thread at the guard returns its trigger.
LEMMA RefireRefines ==
  ASSUME IInv, Distinct, TypeOK', NEW t \in Threads, Refire(t)
  PROVE  FM!Next
<1>0. PICK m \in Macros, n \in Nat : m = mac[t] /\ n = par[t]
  BY DEF IInv, TypeOK
<1> DEFINE h == [k \in Macros |->
              {par[u] : u \in {w \in Threads : pc[w] = "refire" /\ mac[w] = k}}]
<1>1. pc[t] = "refire" /\ Guard(t, m, n)
  BY <1>0 DEF Refire
<1>2. n \in h[m]
  BY <1>0, <1>1
<1>3. /\ pc'[t] # "refire"
      /\ \A u \in Threads \ {t} : pc'[u] = pc[u] /\ mac'[u] = mac[u] /\ par'[u] = par[u]
  BY <1>1 DEF Guard, Ignore, Queue, Debounce, Register, Dropped, callVars, IInv, TypeOK
<1>4. \A u \in Threads \ {t} : pc[u] = "refire" /\ mac[u] = m => par[u] # n
  BY <1>0, <1>1 DEF Distinct
<1>5. h' = [h EXCEPT ![m] = @ \ {n}]
  <2>1. ASSUME NEW k \in Macros
        PROVE  h'[k] = IF k = m THEN h[m] \ {n} ELSE h[k]
    <3>1. CASE k = m
      BY <1>0, <1>3, <1>4, <3>1
    <3>2. CASE k # m
      BY <1>0, <1>3, <3>2
    <3> QED
      BY <3>1, <3>2
  <2> QED
    BY <1>1, <2>1
<1>6. FM!Offer(m, n)
  BY <1>1, GuardRefines
<1> QED
  BY <1>1, <1>2, <1>5, <1>6 DEF FM!Next, FM!Return

\* Cleanup finishes the execution and hands its pending trigger over.
LEMMA CleanupRefines ==
  ASSUME IInv, Distinct, TypeOK', NEW t \in Threads, Cleanup(t)
  PROVE  FM!Next
<1> DEFINE m == mac[t]
           e == [k \in Macros |-> IF k \in running THEN started[k] ELSE 0]
           h == [k \in Macros |->
                   {par[u] : u \in {w \in Threads : pc[w] = "refire" /\ mac[w] = k}}]
<1>1. m \in Macros /\ m \in running /\ pc[t] = "finally"
  BY Bounds DEF Cleanup, IInv, TypeOK, OneRunPerMacro, Registered
<1>2. e[m] # 0
  BY <1>1 DEF Distinct
<1>3. e' = [e EXCEPT ![m] = 0] /\ queued' = [queued EXCEPT ![m] = 0]
  BY <1>1 DEF Cleanup, Popped
<1>4. /\ pc'[t] = "refire" <=> queued[m] # 0
      /\ mac' = mac /\ par'[t] = queued[m]
      /\ \A u \in Threads \ {t} : pc'[u] = pc[u] /\ par'[u] = par[u]
  BY DEF Cleanup, AfterCleanup, IInv, TypeOK
<1>5. h' = [h EXCEPT ![m] = @ \cup ({queued[m]} \ {0})]
  <2>1. ASSUME NEW k \in Macros
        PROVE  h'[k] = IF k = m THEN h[m] \cup ({queued[m]} \ {0}) ELSE h[k]
    <3>1. CASE k = m
      BY <1>1, <1>4, <3>1
    <3>2. CASE k # m
      BY <1>1, <1>4, <3>2
    <3> QED
      BY <3>1, <3>2
  <2> QED
    BY <1>1, <2>1
<1> QED
  BY <1>1, <1>2, <1>3, <1>5 DEF FM!Next, FM!Finish

\* The engine implements FireModes: threads, locks, switches, exceptions and
\* debouncing never break the promise made to a macro's callers.
THEOREM Refinement == Spec => ImplementsFireModes
<1>1. Init => FM!Init
  BY DEF Init, FM!Init
<1>2. Init => Distinct
  BY Bounds DEF Init, Distinct
<1>3. IInv /\ Distinct /\ [Next]_vars => [FM!Next]_(FM!vars)
  <2> SUFFICES ASSUME IInv, Distinct, [Next]_vars PROVE [FM!Next]_(FM!vars)
    OBVIOUS
  <2>0. TypeOK /\ TypeOK'
    BY TypeStep DEF IInv
  <2>1. ASSUME NEW t \in Threads, NEW m \in Macros, Trigger(t, m)
        PROVE  FM!Next
    BY <2>0, <2>1, TriggerRefines
  <2>2. ASSUME NEW t \in Threads, Refire(t)
        PROVE  FM!Next
    BY <2>0, <2>2, RefireRefines
  <2>3. ASSUME NEW t \in Threads, Cleanup(t)
        PROVE  FM!Next
    BY <2>0, <2>3, CleanupRefines
  <2>4. ASSUME NEW t \in Threads,
               \/ Acquire(t) \/ SkipBlocked(t) \/ SkipSwitch(t) \/ SendSwitch(t)
               \/ SwitchDone(t) \/ StepsDone(t) \/ Report(t) \/ Raise(t)
        PROVE  UNCHANGED FM!vars
    BY <2>0, <2>4, StutterUnchanged
    DEF Acquire, SkipBlocked, SkipSwitch, SendSwitch, SwitchDone, StepsDone, Report,
        Raise, Leave, HoldsDevice, callVars, macroVars, TypeOK
  <2>5. ASSUME NEW t \in Threads,
               StaticStep(t) \/ OperationTick(t) \/ OperationEnd(t)
        PROVE  UNCHANGED FM!vars
    BY <2>5, StutterUnchanged
    DEF StaticStep, OperationTick, OperationEnd, callVars, macroVars
  <2>6. CASE \/ \E m \in Macros : WindowCloses(m)
             \/ \E g \in Targets \cup {NoTarget} : OtherSwitch(g) \/ BeliefMoves(g)
             \/ UNCHANGED vars
    <3>1. UNCHANGED FM!vars
      BY <2>6, StutterUnchanged
      DEF WindowCloses, OtherSwitch, BeliefMoves, vars, callVars, macroVars
    <3> QED
      BY <3>1
  <2> QED
    BY <2>1, <2>2, <2>3, <2>4, <2>5, <2>6 DEF Next, Advance
<1>4. IInv /\ Distinct /\ [Next]_vars => Distinct'
  BY DistinctNext
<1> QED
  BY <1>1, <1>2, <1>3, <1>4, Invariance, PTL DEF Spec, ImplementsFireModes, FM!Spec

=============================================================================
