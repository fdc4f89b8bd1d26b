--------------------------- MODULE MCKnobSection ---------------------------
(***************************************************************************)
(* An instance of KnobSection for TLC: a web socket and a thread that      *)
(* recalls snapshots, on each kind of knob.                                *)
(***************************************************************************)
EXTENDS KnobSection

Kind(auto, offEnd, pinned) == [auto |-> auto, offEnd |-> offEnd, pinned |-> pinned]

MCKnobs ==
  {Kind(TRUE, FALSE, FALSE), Kind(TRUE, TRUE, FALSE),
   Kind(FALSE, FALSE, TRUE)}
=============================================================================
