-------------------------- MODULE NotificationsTab --------------------------
(***************************************************************************)
(* NotificationsTabWidget with the phone at the other end of the session:  *)
(* the tab asks for the list of notifications, and the phone sends each    *)
(* change of it.  Both directions of a TCP connection keep their order.    *)
(***************************************************************************)
EXTENDS MainWidget, Naturals, Sequences, FiniteSets, SequencesExt

CONSTANTS
    Keys,      \* notification keys
    MaxQueue,  \* bound: messages of the phone on their way, and requests to it
    MaxLoads   \* bound: pending LOAD_DELAY singleShots

ASSUME BoundsArePositive == MaxQueue \in Nat \ {0} /\ MaxLoads \in Nat \ {0}

VARIABLES
    m_featureEnabled,
    m_contentLoaded,
    m_contentEmpty,
    items,          \* keys of the NotificationWidgets in contentScrollLayout, top first
    shown,          \* what UpdateLayout last made visible
    retryTimer,     \* m_retryTimer is active
    loads,          \* pending singleShots of LoadContent
    posted,         \* notifications on the phone
    asked,          \* list requests on their way to the phone
    toApp           \* messages on their way from the phone

tabVars == <<m_featureEnabled, m_contentLoaded, m_contentEmpty, items, shown, retryTimer, loads>>
phoneVars == <<posted, asked, toApp>>
vars == <<appVars, tabVars, phoneVars>>

Messages ==
    [type : {"received", "removed"}, key : Keys] \cup [type : {"list"}, keys : SUBSET Keys]

TypeOK ==
    /\ AppTypeOK
    /\ m_featureEnabled \in BOOLEAN
    /\ m_contentLoaded \in BOOLEAN
    /\ m_contentEmpty \in BOOLEAN
    /\ items \in Seq(Keys)
    /\ shown \in {"stopped", "started", "disabled", "loading", "empty", "content"}
    /\ retryTimer \in BOOLEAN
    /\ loads \in 0..MaxLoads
    /\ posted \in SUBSET Keys
    /\ asked \in 0..MaxQueue
    /\ toApp \in Seq(Messages) /\ Len(toApp) <= MaxQueue

-----------------------------------------------------------------------------
(* UpdateLayout's choice. *)
Layout(state, enabled, loaded, empty) ==
    CASE state = "STOPPED" -> "stopped"
      [] state = "STARTED" -> "started"
      [] state = "CONNECTED" /\ ~enabled -> "disabled"
      [] state = "CONNECTED" /\ enabled /\ ~loaded -> "loading"
      [] state = "CONNECTED" /\ enabled /\ loaded /\ empty -> "empty"
      [] OTHER -> "content"

UpdateLayout == shown' = Layout(m_serverState', m_featureEnabled', m_contentLoaded', m_contentEmpty')

ClearContent ==
    /\ items' = <<>>
    /\ m_contentLoaded' = FALSE
    /\ m_contentEmpty' = TRUE

LoadLater ==
    /\ loads < MaxLoads
    /\ loads' = loads + 1

Init ==
    /\ AppInit
    /\ m_featureEnabled = FALSE
    /\ m_contentLoaded = FALSE
    /\ m_contentEmpty = TRUE
    /\ items = <<>>
    /\ shown = "stopped"
    /\ retryTimer = FALSE
    /\ loads = 0
    /\ posted = {}
    /\ asked = 0
    /\ toApp = <<>>

-----------------------------------------------------------------------------
(* Mutant: what an earlier session left stays until the list comes. *)
KeepingServerStateChanged ==
    /\ m_serverState' # m_serverState
    /\ m_featureEnabled' \in (IF m_serverState' = "CONNECTED" THEN BOOLEAN ELSE {m_featureEnabled})
    /\ UNCHANGED <<items, m_contentLoaded, m_contentEmpty>>
    /\ UpdateLayout
    /\ IF m_serverState' = "CONNECTED" /\ m_currentTab = "NOTIFICATIONS"
       THEN LoadLater ELSE UNCHANGED loads
    /\ UNCHANGED retryTimer

(* SetFeatureEnabled, if a session was announced, and ServerStateChanged. *)
ServerStateChanged ==
    /\ m_serverState' # m_serverState
    /\ m_featureEnabled' \in (IF m_serverState' = "CONNECTED" THEN BOOLEAN ELSE {m_featureEnabled})
    /\ ClearContent
    /\ UpdateLayout
    /\ IF m_serverState' = "CONNECTED" /\ m_currentTab = "NOTIFICATIONS"
       THEN LoadLater ELSE UNCHANGED loads
    /\ UNCHANGED retryTimer

(* Mutant: coming back to the tab loads nothing. *)
LazyCurrentTabChanged ==
    /\ m_currentTab' # m_currentTab
    /\ UNCHANGED tabVars

CurrentTabChanged ==
    /\ m_currentTab' # m_currentTab
    /\ IF m_serverState = "CONNECTED" /\ m_currentTab' = "NOTIFICATIONS"
       THEN LoadLater ELSE UNCHANGED loads
    /\ UNCHANGED <<m_featureEnabled, m_contentLoaded, m_contentEmpty, items, shown, retryTimer>>

(* What is on its way is lost with the connection. *)
ChannelFollows ==
    /\ UNCHANGED posted
    /\ IF link' = "open" THEN UNCHANGED <<asked, toApp>> ELSE asked' = 0 /\ toApp' = <<>>

AppChanges ==
    /\ AppNext
    /\ \/ ServerStateChanged
       \/ CurrentTabChanged
       \/ UNCHANGED <<m_serverState, m_currentTab, tabVars>>
    /\ ChannelFollows

-----------------------------------------------------------------------------
(* LoadContent's condition. *)
Loadable ==
    /\ ~m_contentLoaded
    /\ m_currentTab = "NOTIFICATIONS"
    /\ m_serverState = "CONNECTED"

(* ListNotifications reaches the phone only through an open socket. *)
Ask == IF link = "open" THEN asked < MaxQueue /\ asked' = asked + 1 ELSE UNCHANGED asked

(* Mutant: the retry timer is not started again. *)
LoadContentOnce ==
    /\ retryTimer' = FALSE
    /\ IF Loadable THEN Ask ELSE UNCHANGED asked
    /\ UNCHANGED <<appVars, m_featureEnabled, m_contentLoaded, m_contentEmpty, items, shown,
                   posted, toApp>>

LoadContent ==
    /\ retryTimer' = Loadable
    /\ IF Loadable THEN Ask ELSE UNCHANGED asked
    /\ UNCHANGED <<appVars, m_featureEnabled, m_contentLoaded, m_contentEmpty, items, shown,
                   posted, toApp>>

LoadTimer ==
    /\ loads > 0
    /\ loads' = loads - 1
    /\ LoadContent

RetryTimer ==
    /\ retryTimer
    /\ LoadContent
    /\ UNCHANGED loads

(* The refresh button; it is there only while the content is. *)
Refresh ==
    /\ shown = "content"
    /\ ClearContent
    /\ UNCHANGED <<appVars, m_featureEnabled, retryTimer, phoneVars>>
    /\ UpdateLayout
    /\ LoadLater

-----------------------------------------------------------------------------
(* Mutant: a notification that changed is added once more. *)
InsertAgain(key) == <<key>> \o items

(* InsertNotification(notification): an update replaces what was there. *)
InsertNotification(key) == <<key>> \o RemoveFirst(items, key)

NotificationReceived(key) ==
    /\ items' = InsertNotification(key)
    /\ m_contentEmpty' = FALSE
    /\ UNCHANGED <<m_featureEnabled, m_contentLoaded, retryTimer, loads>>
    /\ IF m_contentEmpty THEN UpdateLayout ELSE UNCHANGED shown

(* Mutant: the last notification leaves an empty page. *)
NotificationRemovedQuietly(key) ==
    /\ items' = RemoveFirst(items, key)
    /\ m_contentEmpty' = (m_contentEmpty \/ items' = <<>>)
    /\ UNCHANGED <<m_featureEnabled, m_contentLoaded, retryTimer, loads, shown>>

(* Mutant: the count of the layout is compared without its spacer. *)
NotificationRemovedOffByOne(key) ==
    /\ items' = RemoveFirst(items, key)
    /\ UNCHANGED <<m_featureEnabled, m_contentLoaded, m_contentEmpty, retryTimer, loads, shown>>

NotificationRemoved(key) ==
    /\ items' = RemoveFirst(items, key)
    /\ m_contentEmpty' = (m_contentEmpty \/ items' = <<>>)
    /\ UNCHANGED <<m_featureEnabled, m_contentLoaded, retryTimer, loads>>
    /\ IF items' = <<>> THEN UpdateLayout ELSE UNCHANGED shown

(* NotificationList: an answer that comes when the content is there is dropped. *)
NotificationList(keys) ==
    /\ retryTimer' = FALSE
    /\ IF m_contentLoaded
       THEN UNCHANGED <<m_featureEnabled, m_contentLoaded, m_contentEmpty, items, shown, loads>>
       ELSE /\ items' = SetToSeq(keys)
            /\ m_contentEmpty' = (keys = {})
            /\ m_contentLoaded' = TRUE
            /\ UNCHANGED <<m_featureEnabled, loads>>
            /\ UpdateLayout

(* The oldest message of the phone arrives. *)
Deliver ==
    /\ toApp # <<>>
    /\ toApp' = Tail(toApp)
    /\ UNCHANGED <<appVars, posted, asked>>
    /\ LET message == Head(toApp) IN
         \/ message.type = "received" /\ NotificationReceived(message.key)
         \/ message.type = "removed" /\ NotificationRemoved(message.key)
         \/ message.type = "list" /\ NotificationList(message.keys)

-----------------------------------------------------------------------------
(* The phone tells of each change if it can. *)
PhoneSends(message) ==
    IF link = "open" THEN Len(toApp) < MaxQueue /\ toApp' = Append(toApp, message)
    ELSE UNCHANGED toApp

PhonePosts(key) ==
    /\ posted' = posted \cup {key}
    /\ PhoneSends([type |-> "received", key |-> key])
    /\ UNCHANGED <<appVars, tabVars, asked>>

PhoneRemoves(key) ==
    /\ key \in posted
    /\ posted' = posted \ {key}
    /\ PhoneSends([type |-> "removed", key |-> key])
    /\ UNCHANGED <<appVars, tabVars, asked>>

PhoneAnswers ==
    /\ asked > 0
    /\ asked' = asked - 1
    /\ PhoneSends([type |-> "list", keys |-> posted])
    /\ UNCHANGED <<appVars, tabVars, posted>>

Next ==
    \/ AppChanges
    \/ LoadTimer \/ RetryTimer \/ Refresh
    \/ Deliver
    \/ \E key \in Keys : PhonePosts(key) \/ PhoneRemoves(key)
    \/ PhoneAnswers

(* Timers fire, messages arrive and the phone answers what it is asked. *)
Fairness == WF_vars(LoadTimer) /\ SF_vars(Deliver) /\ SF_vars(PhoneAnswers)

Spec == Init /\ [][Next]_vars /\ Fairness

-----------------------------------------------------------------------------
(* The keys shown once the messages after the n-th have come, if "keys" are shown *)
(* before: the last message about a key decides, if there is one.                 *)
IsAbout(message, key) == message.type # "list" /\ message.key = key
Untold(messages, n, key) == \A i \in DOMAIN messages : i > n => ~IsAbout(messages[i], key)
Arriving(messages, n, key) ==
    \E i \in DOMAIN messages :
      /\ i > n
      /\ messages[i].type = "received" /\ messages[i].key = key
      /\ Untold(messages, i, key)
After(keys, messages, n) ==
    {key \in Keys : Arriving(messages, n, key) \/ (key \in keys /\ Untold(messages, n, key))}

(* Once loaded, the tab is the phone's list as of the last message that came: no *)
(* refresh, second answer or early event leaves a notification behind or out.    *)
InSync == m_contentLoaded /\ link = "open" => After(ToSet(items), toApp, 0) = posted

(* No notification is shown twice, and the page is empty exactly when it says so. *)
ShownOnce ==
    /\ \A i, j \in DOMAIN items : items[i] = items[j] => i = j
    /\ m_contentEmpty <=> items = <<>>

(* What is visible is what the state calls for: no handler forgets UpdateLayout. *)
LayoutIsCurrent ==
    shown = Layout(m_serverState, m_featureEnabled, m_contentLoaded, m_contentEmpty)

(* While the tab waits for its content, something is due that asks for it. *)
LoadUnderway == Loadable => loads > 0 \/ retryTimer

(* The tab is loaded in the end, unless it is left or the session is over. *)
LoadsInTheEnd == Loadable /\ link = "open" ~> ~Loadable \/ link # "open"

=============================================================================
