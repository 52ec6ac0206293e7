------------------------------ MODULE MCSMSTab ------------------------------
(* Small instances of SMSTab. *)
EXTENDS SMSTab, TLC

=============================================================================
