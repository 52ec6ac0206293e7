----------------------------- MODULE MainWidget -----------------------------
(***************************************************************************)
(* MainWidget as its tabs see it: the state of the server, whether the     *)
(* phone with the session can be talked to, and the current tab.  Module   *)
(* Application shows that the server drives it this way.                   *)
(***************************************************************************)

VARIABLES
    m_serverState,  \* MainWidget::m_serverState
    link,           \* the session's socket: "none" (no session), "open" or "closing"
    m_currentTab    \* MainWidget::m_currentTab

appVars == <<m_serverState, link, m_currentTab>>

ServerStates == {"STOPPED", "STARTED", "CONNECTED"}
Tabs == {"NOTIFICATIONS", "SMS", "DEVICE", "SETTINGS"}

AppTypeOK ==
    /\ m_serverState \in ServerStates
    /\ link \in {"none", "open", "closing"}
    /\ m_currentTab \in Tabs

(* After SetupTabs and the first UpdateServerState of SetupServer. *)
AppInit ==
    /\ m_serverState = "STOPPED"
    /\ link = "none"
    /\ m_currentTab = "SETTINGS"

StartServer ==
    /\ m_serverState = "STOPPED"
    /\ m_serverState' = "STARTED"
    /\ UNCHANGED <<link, m_currentTab>>

StopServer ==
    /\ m_serverState # "STOPPED"
    /\ m_serverState' = "STOPPED"
    /\ link' = "none"
    /\ UNCHANGED m_currentTab

(* A phone gets the session; for a second only the server knows. *)
SessionGranted ==
    /\ m_serverState = "STARTED"
    /\ link = "none"
    /\ link' = "open"
    /\ UNCHANGED <<m_serverState, m_currentTab>>

(* ServerStateChanged(true). *)
SessionAnnounced ==
    /\ link # "none"
    /\ m_serverState' = "CONNECTED"
    /\ UNCHANGED <<link, m_currentTab>>

(* The session is kicked, and its socket still has bytes to write. *)
SessionCloses ==
    /\ link = "open"
    /\ link' = "closing"
    /\ UNCHANGED <<m_serverState, m_currentTab>>

(* ServerStateChanged(false). *)
SessionEnds ==
    /\ link # "none"
    /\ link' = "none"
    /\ m_serverState' = "STARTED"
    /\ UNCHANGED m_currentTab

(* Mutant: a value that is no tab is taken all the same. *)
UncheckedSwitchTab(tab) ==
    /\ tab # m_currentTab
    /\ m_currentTab' \in {tab, "NONE"}
    /\ UNCHANGED <<m_serverState, link>>

(* SwitchTab, by a button, when the overlay is shown or a notification opened. *)
SwitchTab(tab) ==
    /\ tab # m_currentTab
    /\ m_currentTab' = tab
    /\ UNCHANGED <<m_serverState, link>>

AppNext ==
    \/ StartServer \/ StopServer
    \/ SessionGranted \/ SessionAnnounced \/ SessionCloses \/ SessionEnds
    \/ \E tab \in Tabs : SwitchTab(tab)

AppSpec == AppInit /\ [][AppNext]_appVars

=============================================================================
