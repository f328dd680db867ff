--------------------------- MODULE MCLaunchLedger ---------------------------
(* LaunchLedger on small instances. *)
EXTENDS LaunchLedger, TLC

Symmetry == Permutations(Users) \cup Permutations(Launches)
=============================================================================
