----------------------------- MODULE MCFadeTabs -----------------------------
(* FadeTabs has no parameters. *)
EXTENDS FadeTabs, TLC

=============================================================================
