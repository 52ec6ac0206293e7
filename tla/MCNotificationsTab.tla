------------------------- MODULE MCNotificationsTab -------------------------
(* Small instances of NotificationsTab. *)
EXTENDS NotificationsTab, TLC

=============================================================================
