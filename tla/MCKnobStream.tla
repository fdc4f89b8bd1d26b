---------------------------- MODULE MCKnobStream ----------------------------
(* Model-checking instance of KnobStream.  Timers and values are            *)
(* interchangeable.                                                        *)
EXTENDS KnobStream, TLC

Symmetry == Permutations(Timers) \cup Permutations(Values)

=============================================================================
