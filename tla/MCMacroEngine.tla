--------------------------- MODULE MCMacroEngine ---------------------------
(***************************************************************************)
(* Instances of MacroEngine for TLC.                                       *)
(***************************************************************************)
EXTENDS MacroEngine, TLC
LOCAL INSTANCE Functions

CONSTANTS q, r, g, A, B

\* A queue-mode macro without a target, a restart-mode macro with a workspace
\* and snapshot, and an ignore-mode macro whose target is another one.
MCFireMode == Restrict(q :> "queue" @@ r :> "restart" @@ g :> "ignore", Macros)

MCTarget == Restrict(q :> NoTarget @@ r :> A @@ g :> B, Macros)

MCBody ==
  Restrict(q :> <<"operation">> @@ r :> <<"operation">>
             @@ g :> <<"static">>, Macros)

=============================================================================
