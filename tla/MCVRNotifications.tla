-------------------------- MODULE MCVRNotifications --------------------------
(* Small instances of VRNotifications. *)
EXTENDS VRNotifications, TLC

Symmetry == Permutations(Identifiers)

=============================================================================
