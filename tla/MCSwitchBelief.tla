--------------------------- MODULE MCSwitchBelief ---------------------------
(***************************************************************************)
(* Instances of SwitchBelief for TLC.                                      *)
(***************************************************************************)
EXTENDS SwitchBelief, TLC

Symmetry ==
  Permutations(Threads) \cup Permutations(Workspaces) \cup Permutations(Snapshots)

=============================================================================
