------------------------------ MODULE MCZones ------------------------------
(* Symmetry for the runs of Zones.                                         *)
EXTENDS SyncHistory, TLC

Symmetric == Permutations(Requests) \cup Permutations(ZoneIds) \cup Permutations(Groups)
=============================================================================
