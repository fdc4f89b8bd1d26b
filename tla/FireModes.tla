----------------------------- MODULE FireModes -----------------------------
(***************************************************************************)
(* What run_macro promises the callers of a macro (docs/config.md,         *)
(* "fire_mode"), without threads, locks, switches or steps: at most one    *)
(* execution per macro, at most one trigger pending behind it, and a       *)
(* pending trigger handed over exactly when the execution ends.            *)
(***************************************************************************)
EXTENDS Naturals

CONSTANTS
  Triggers,   \* triggers, told apart by a positive number
  Macros,
  FireMode,   \* per macro: "ignore", "queue" or "restart"
  Debounced   \* macros with debounce_ms > 0

VARIABLES
  executing,  \* per macro: the trigger being executed, or 0
  pending,    \* per macro: the trigger that waits for it to end, or 0
  handed      \* per macro: triggers that waited and are on their way back in

vars == <<executing, pending, handed>>

Init ==
  /\ executing = [m \in Macros |-> 0]
  /\ pending = [m \in Macros |-> 0]
  /\ handed = [m \in Macros |-> {}]

Start(m, p) ==
  /\ executing[m] = 0
  /\ executing' = [executing EXCEPT ![m] = p]
  /\ UNCHANGED pending

Park(m, p) ==
  /\ executing[m] # 0
  /\ FireMode[m] \in {"queue", "restart"}
  /\ pending' = [pending EXCEPT ![m] = p]
  /\ UNCHANGED executing

Lose(m) ==
  /\ \/ executing[m] # 0 /\ FireMode[m] = "ignore"
     \/ executing[m] = 0 /\ m \in Debounced
  /\ UNCHANGED <<executing, pending>>

Offer(m, p) == Start(m, p) \/ Park(m, p) \/ Lose(m)

\* A trigger nobody has seen before.
Arrive(m, p) ==
  /\ p \notin handed[m] \cup {executing[m], pending[m]}
  /\ Offer(m, p)
  /\ UNCHANGED handed

\* A handed-over trigger comes back in.
Return(m, p) ==
  /\ p \in handed[m]
  /\ Offer(m, p)
  /\ handed' = [handed EXCEPT ![m] = @ \ {p}]

\* The execution ends, and hands the pending trigger over.
Finish(m) ==
  /\ executing[m] # 0
  /\ executing' = [executing EXCEPT ![m] = 0]
  /\ pending' = [pending EXCEPT ![m] = 0]
  /\ handed' = [handed EXCEPT ![m] = @ \cup ({pending[m]} \ {0})]

Next ==
  \E m \in Macros :
    \/ \E p \in Triggers : Arrive(m, p)
    \/ \E p \in handed[m] : Return(m, p)
    \/ Finish(m)

Spec == Init /\ [][Next]_vars

=============================================================================
