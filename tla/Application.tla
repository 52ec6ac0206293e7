---------------------------- MODULE Application ----------------------------
(***************************************************************************)
(* The server under its user interface: what MainWidget makes of the       *)
(* signals of Server, what it copies of the session into its tabs, and the *)
(* promise that the tabs are modelled against.                             *)
(***************************************************************************)
EXTENDS Server

VARIABLES
    told,    \* what the tabs were told of a phone: the labels of DeviceTabWidget, the
             \* m_featureEnabled of the other two
    renewed  \* history: the session repeated its handshake after it was announced

appVars == <<told, renewed>>

(* UpdateServerState, driven by StartServer, StopServer and ServerStateChanged. *)
ServerStateShown ==
    IF process # "running" \/ ~listening THEN "STOPPED"
    ELSE IF connected THEN "CONNECTED" ELSE "STARTED"

(* What a message to the session meets. *)
SessionLink ==
    IF m_client = None THEN "none"
    ELSE IF m_client \in Open THEN "open" ELSE "closing"

(* What UpdateServerState reads from GetClient(). *)
Shown(phone) ==
    IF phone = None THEN [phone |-> None, features |-> NoFeatures, address |-> NullAddr]
    ELSE [phone |-> phone, features |-> features[phone], address |-> addr[phone]]

(* Mutant: the tabs are filled when the session is given, a second early. *)
FillTabsEarly ==
    IF m_client' # m_client /\ m_client' # None
    THEN told' = Shown(m_client)' ELSE UNCHANGED told

(* UpdateServerState fills the tabs when the state becomes CONNECTED, and only then. *)
FillTabs ==
    IF ServerStateShown # "CONNECTED" /\ ServerStateShown' = "CONNECTED"
    THEN told' = Shown(m_client)' ELSE UNCHANGED told

Renew ==
    renewed' = (m_client' = m_client /\ (renewed \/ (connected /\ m_client # None
                                                       /\ features'[m_client] # features[m_client])))

AppNext == Next /\ FillTabs /\ Renew

AppInit == Init /\ told = Shown(None) /\ renewed = FALSE

AppSpec == AppInit /\ [][AppNext]_<<vars, appVars>>

-----------------------------------------------------------------------------
(* While the state is CONNECTED, the tabs show the phone that has the session: its *)
(* own address, until it is closing, and the features of its last handshake before *)
(* the announcement.  A later handshake is not shown.                              *)
TabsShowSession ==
    ServerStateShown = "CONNECTED"
      => /\ told.phone = m_client
         /\ told.features = features[m_client] \/ renewed
         /\ told.address = addr[m_client] \/ m_client \notin Open

App == INSTANCE MainWidget WITH m_serverState <- ServerStateShown,
                                link <- SessionLink,
                                m_currentTab <- "SETTINGS"

(* The server and the application around it behave as the tabs expect: a session *)
(* starts while the state is STARTED, is announced while there is one, closes    *)
(* before it ends but never comes back, and its end is a change of the state.    *)
ImplementsMainWidget == App!AppSpec

=============================================================================
