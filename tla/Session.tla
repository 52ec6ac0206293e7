------------------------------ MODULE Session ------------------------------
(***************************************************************************)
(* What the server promises to the rest of the application: at any time at *)
(* most one phone holds the session, the application learns of it with a   *)
(* delay (the one second of Server::ClientHandshakePending), and it learns *)
(* of the end of the session in the very step that ends it.                *)
(***************************************************************************)
CONSTANTS
    Phones,  \* everything that may hold the session
    None     \* nobody holds it

VARIABLES
    holder,    \* the phone that holds the session, or None
    announced  \* whether the application was told of a session

sessionVars == <<holder, announced>>

Init ==
    /\ holder = None
    /\ announced = FALSE

(* A phone gets the free session; the application does not know yet. *)
Grant(p) ==
    /\ holder = None
    /\ holder' = p
    /\ announced' = FALSE

(* The application is told that there is a session. *)
Announce ==
    /\ holder # None
    /\ announced' = TRUE
    /\ UNCHANGED holder

(* The session ends, whatever the reason, and the application is told at once. *)
End ==
    /\ holder # None
    /\ holder' = None
    /\ announced' = FALSE

Next == (\E p \in Phones : Grant(p)) \/ Announce \/ End

SafeSpec == Init /\ [][Next]_sessionVars

Spec == SafeSpec /\ WF_sessionVars(Announce)

=============================================================================
