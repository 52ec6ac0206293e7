----------------------------- MODULE MCOverlay -----------------------------
(* Small instances of Overlay. *)
EXTENDS Overlay, TLC

=============================================================================
