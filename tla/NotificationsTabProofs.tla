------------------------ MODULE NotificationsTabProofs ------------------------
(***************************************************************************)
(* Theorems about NotificationsTab for every set of keys and every bound.  *)
(***************************************************************************)
EXTENDS NotificationsTab, ListLemmas

-----------------------------------------------------------------------------
(* What AppNext does to the three variables of MainWidget, as far as the tab cares: *)
(* a session opens only in the state STARTED, and one event changes one of them.    *)
LEMMA AppMoves ==
  ASSUME AppTypeOK, AppNext
  PROVE  /\ AppTypeOK'
         /\ m_serverState' # m_serverState => m_currentTab' = m_currentTab
         /\ link # "open" /\ link' = "open" => m_serverState = "STARTED"
BY DEF AppTypeOK, ServerStates, AppNext, StartServer, StopServer, SessionGranted,
       SessionAnnounced, SessionCloses, SessionEnds, SwitchTab

(* The two parts of TypeOK that are not MainWidget's.  The keys the phone speaks of   *)
(* are finitely many at any time, so that the list it sends can be put into widgets.  *)
TabTypeOK ==
  /\ m_featureEnabled \in BOOLEAN
  /\ m_contentLoaded \in BOOLEAN
  /\ m_contentEmpty \in BOOLEAN
  /\ items \in Seq(Keys)
  /\ shown \in {"stopped", "started", "disabled", "loading", "empty", "content"}
  /\ retryTimer \in BOOLEAN
  /\ loads \in 0..MaxLoads
PhoneTypeOK ==
  /\ posted \in SUBSET Keys
  /\ asked \in 0..MaxQueue
  /\ toApp \in Seq(Messages) /\ Len(toApp) <= MaxQueue
Finite ==
  /\ IsFiniteSet(posted)
  /\ \A i \in DOMAIN toApp : toApp[i].type = "list" => IsFiniteSet(toApp[i].keys)

(* TypeOK is the three together. *)
LEMMA TypeOKSplit ==
  /\ TypeOK <=> AppTypeOK /\ TabTypeOK /\ PhoneTypeOK
  /\ TypeOK' <=> AppTypeOK' /\ TabTypeOK' /\ PhoneTypeOK'
BY DEF TypeOK, TabTypeOK, PhoneTypeOK

(* A message on its way is of one of three kinds. *)
LEMMA MessageKinds ==
  ASSUME NEW m \in Messages
  PROVE  \/ m.type = "received" /\ m.key \in Keys
         \/ m.type = "removed" /\ m.key \in Keys
         \/ m.type = "list" /\ m.keys \in SUBSET Keys
BY DEF Messages

(* And these are the messages of each kind. *)
LEMMA MessagesType ==
  /\ \A key \in Keys : [type |-> "received", key |-> key] \in Messages
  /\ \A key \in Keys : [type |-> "removed", key |-> key] \in Messages
  /\ \A keys \in SUBSET Keys : [type |-> "list", keys |-> keys] \in Messages
BY DEF Messages

(* UpdateLayout shows one of the six pages. *)
LEMMA LayoutType ==
  ASSUME NEW s, NEW enabled, NEW loaded, NEW empty
  PROVE  Layout(s, enabled, loaded, empty)
           \in {"stopped", "started", "disabled", "loading", "empty", "content"}
BY DEF Layout

(* What the phone sends joins the queue, if the connection is open. *)
LEMMA PhoneSendsType ==
  ASSUME PhoneTypeOK, Finite, NEW m \in Messages, PhoneSends(m),
         m.type = "list" => IsFiniteSet(m.keys),
         posted' \in SUBSET Keys, IsFiniteSet(posted'), asked' \in 0..MaxQueue
  PROVE  PhoneTypeOK' /\ Finite'
<1>1. CASE toApp' = toApp
  BY <1>1 DEF PhoneTypeOK, Finite
<1>2. CASE Len(toApp) < MaxQueue /\ toApp' = Append(toApp, m)
  <2>1. MaxQueue \in Nat
    BY BoundsArePositive
  <2> QED
    BY <1>2, <2>1, JoinsQueue DEF PhoneTypeOK, Finite
<1> QED
  BY <1>1, <1>2 DEF PhoneSends

(* The oldest message is of its kind, and the others move up. *)
LEMMA DeliverType ==
  ASSUME PhoneTypeOK, Finite, toApp # <<>>, toApp' = Tail(toApp), UNCHANGED <<posted, asked>>
  PROVE  /\ Head(toApp) \in Messages
         /\ Head(toApp).type = "list" => IsFiniteSet(Head(toApp).keys)
         /\ PhoneTypeOK' /\ Finite'
<1>1. MaxQueue \in Nat
  BY BoundsArePositive
<1> QED
  BY <1>1, LeavesQueue DEF PhoneTypeOK, Finite

(* A notification is put on top of the page. *)
LEMMA ReceivedType ==
  ASSUME TabTypeOK, NEW key \in Keys, NotificationReceived(key)
  PROVE  TabTypeOK'
<1>1. items' \in Seq(Keys)
  BY RemoveFirstType, PrependToInjective DEF TabTypeOK, NotificationReceived, InsertNotification
<1> QED
  BY <1>1, LayoutType DEF TabTypeOK, NotificationReceived, UpdateLayout

(* A notification is taken out of it. *)
LEMMA RemovedType ==
  ASSUME TabTypeOK, NEW key \in Keys, NotificationRemoved(key)
  PROVE  TabTypeOK'
<1>1. items' \in Seq(Keys)
  BY RemoveFirstType DEF TabTypeOK, NotificationRemoved
<1>2. m_contentEmpty' \in BOOLEAN
  BY DEF NotificationRemoved
<1> QED
  BY <1>1, <1>2, LayoutType DEF TabTypeOK, NotificationRemoved, UpdateLayout

(* The page is filled with a list. *)
LEMMA ListType ==
  ASSUME TabTypeOK, NEW keys \in SUBSET Keys, IsFiniteSet(keys), NotificationList(keys)
  PROVE  TabTypeOK'
<1>1. items' \in Seq(Keys)
  <2>1. SetToSeq(keys) \in Seq(keys)
    BY SetToSeqProperties
  <2>2. SetToSeq(keys) \in Seq(Keys)
    BY <2>1, SeqDef
  <2> QED
    BY <2>2 DEF TabTypeOK, NotificationList
<1>2. m_contentEmpty' \in BOOLEAN
  BY DEF NotificationList, TabTypeOK
<1>3. shown' \in {"stopped", "started", "disabled", "loading", "empty", "content"}
  <2>1. CASE m_contentLoaded
    BY <2>1 DEF TabTypeOK, NotificationList
  <2>2. CASE ~m_contentLoaded
    BY <2>2, LayoutType, Zenon DEF NotificationList, UpdateLayout
  <2> QED
    BY <2>1, <2>2
<1>4. m_contentLoaded' \in BOOLEAN /\ retryTimer' \in BOOLEAN
  BY DEF TabTypeOK, NotificationList
<1> QED
  BY <1>1, <1>2, <1>3, <1>4 DEF TabTypeOK, NotificationList

(* The signals of MainWidget. *)
LEMMA AppChangesType ==
  ASSUME TypeOK, Finite, AppChanges
  PROVE  TypeOK' /\ Finite'
<1> USE TypeOKSplit
<1>0. MaxQueue \in Nat /\ MaxLoads \in Nat
  BY BoundsArePositive
<1>1. AppTypeOK'
  BY AppMoves DEF AppChanges
<1>2. PhoneTypeOK' /\ Finite'
  <2>1. posted' = posted
    BY DEF AppChanges, ChannelFollows
  <2>2. CASE UNCHANGED <<asked, toApp>>
    BY <2>1, <2>2 DEF PhoneTypeOK, Finite
  <2>3. CASE asked' = 0 /\ toApp' = <<>>
    <3>1. toApp' \in Seq(Messages) /\ Len(toApp') = 0 /\ DOMAIN toApp' = {}
      BY <2>3, EmptySeq
    <3> QED
      BY <1>0, <2>1, <2>3, <3>1 DEF PhoneTypeOK, Finite
  <2> QED
    BY <2>2, <2>3 DEF AppChanges, ChannelFollows
<1>3. CASE ServerStateChanged
  <2>1. m_featureEnabled' \in BOOLEAN
    BY <1>3 DEF ServerStateChanged, TabTypeOK
  <2>2. loads' \in 0..MaxLoads
    BY <1>0, <1>3 DEF ServerStateChanged, LoadLater, TabTypeOK
  <2>3. /\ items' \in Seq(Keys) /\ m_contentLoaded' \in BOOLEAN /\ m_contentEmpty' \in BOOLEAN
        /\ retryTimer' \in BOOLEAN
    BY <1>3, EmptySeq DEF ServerStateChanged, ClearContent, TabTypeOK
  <2>4. shown' \in {"stopped", "started", "disabled", "loading", "empty", "content"}
    BY <1>3, LayoutType DEF ServerStateChanged, UpdateLayout
  <2> QED
    BY <1>1, <1>2, <2>1, <2>2, <2>3, <2>4 DEF TabTypeOK
<1>4. CASE CurrentTabChanged
  BY <1>0, <1>1, <1>2, <1>4 DEF CurrentTabChanged, LoadLater, TabTypeOK
<1>5. CASE UNCHANGED tabVars
  BY <1>1, <1>2, <1>5 DEF tabVars, TabTypeOK
<1> QED
  BY <1>3, <1>4, <1>5 DEF AppChanges

(* The types, with the finiteness they need, are kept by every step. *)
LEMMA NextType == TypeOK /\ Finite /\ [Next]_vars => TypeOK' /\ Finite'
<1> SUFFICES ASSUME TypeOK, Finite, [Next]_vars PROVE TypeOK' /\ Finite'
  OBVIOUS
<1> USE TypeOKSplit
<1>0. MaxQueue \in Nat /\ MaxLoads \in Nat
  BY BoundsArePositive
<1>1. CASE AppChanges
  BY <1>1, AppChangesType
<1>2. CASE LoadTimer \/ RetryTimer
  <2>1. AppTypeOK' /\ Finite'
    BY <1>2 DEF LoadTimer, RetryTimer, LoadContent, appVars, AppTypeOK, Finite
  <2>2. asked' \in 0..MaxQueue
    BY <1>0, <1>2 DEF LoadTimer, RetryTimer, LoadContent, Ask, PhoneTypeOK
  <2>3. retryTimer' \in BOOLEAN
    BY <1>2 DEF LoadTimer, RetryTimer, LoadContent, Loadable
  <2>4. loads' \in 0..MaxLoads
    BY <1>0, <1>2 DEF LoadTimer, RetryTimer, TabTypeOK
  <2> QED
    BY <1>2, <2>1, <2>2, <2>3, <2>4 DEF LoadTimer, RetryTimer, LoadContent, PhoneTypeOK, TabTypeOK
<1>3. CASE Refresh
  <2>1. items' \in Seq(Keys) /\ m_contentLoaded' \in BOOLEAN /\ m_contentEmpty' \in BOOLEAN
    BY <1>3, EmptySeq DEF Refresh, ClearContent
  <2>2. shown' \in {"stopped", "started", "disabled", "loading", "empty", "content"}
    BY <1>3, LayoutType DEF Refresh, UpdateLayout
  <2>3. loads' \in 0..MaxLoads
    BY <1>0, <1>3 DEF Refresh, LoadLater, TabTypeOK
  <2> QED
    BY <1>3, <2>1, <2>2, <2>3
       DEF Refresh, TabTypeOK, PhoneTypeOK, AppTypeOK, appVars, phoneVars, Finite
<1>4. CASE Deliver
  <2>1. /\ Head(toApp) \in Messages
        /\ Head(toApp).type = "list" => IsFiniteSet(Head(toApp).keys)
        /\ PhoneTypeOK' /\ Finite'
    BY <1>4, DeliverType DEF Deliver
  <2>2. AppTypeOK'
    BY <1>4 DEF Deliver, AppTypeOK, appVars
  <2>3. PICK m \in Messages : m = Head(toApp)
    BY <2>1
  <2>4. TabTypeOK'
    BY <1>4, <2>1, <2>3, MessageKinds, ReceivedType, RemovedType, ListType DEF Deliver
  <2> QED
    BY <2>1, <2>2, <2>4
<1>5. ASSUME NEW key \in Keys, PhonePosts(key) \/ PhoneRemoves(key) PROVE TypeOK' /\ Finite'
  <2>1. PICK m \in Messages : m.type # "list" /\ PhoneSends(m)
    BY <1>5, MessagesType DEF PhonePosts, PhoneRemoves
  <2>2. posted' \in SUBSET Keys /\ IsFiniteSet(posted') /\ asked' \in 0..MaxQueue
    BY <1>5, FS_AddElement, FS_RemoveElement DEF PhonePosts, PhoneRemoves, PhoneTypeOK, Finite
  <2>3. PhoneTypeOK' /\ Finite'
    BY <2>1, <2>2, PhoneSendsType
  <2> QED
    BY <1>5, <2>3 DEF PhonePosts, PhoneRemoves, TabTypeOK, AppTypeOK, appVars, tabVars
<1>6. CASE PhoneAnswers
  <2>1. PICK m \in Messages : m.type = "list" /\ m.keys = posted /\ PhoneSends(m)
    BY <1>6, MessagesType DEF PhoneAnswers, PhoneTypeOK
  <2>2. posted' = posted /\ asked' \in 0..MaxQueue
    BY <1>0, <1>6 DEF PhoneAnswers, PhoneTypeOK
  <2>3. PhoneTypeOK' /\ Finite'
    BY <2>1, <2>2, PhoneSendsType DEF PhoneTypeOK, Finite
  <2> QED
    BY <1>6, <2>3 DEF PhoneAnswers, TabTypeOK, AppTypeOK, appVars, tabVars
<1>7. CASE UNCHANGED vars
  BY <1>7 DEF vars, appVars, tabVars, phoneVars, TabTypeOK, PhoneTypeOK, AppTypeOK, Finite
<1> QED
  BY <1>1, <1>2, <1>3, <1>4, <1>5, <1>6, <1>7 DEF Next

(* Every reachable state is made of values of the right kind; the queues and the *)
(* pending timers stay within their bounds.                                      *)
THEOREM TypesAreKept == Spec => [](TypeOK /\ Finite)
<1>1. Init => TypeOK /\ Finite
  <2> SUFFICES ASSUME Init PROVE TypeOK /\ Finite
    OBVIOUS
  <2>1. items \in Seq(Keys) /\ toApp \in Seq(Messages) /\ Len(toApp) = 0 /\ DOMAIN toApp = {}
    BY EmptySeq DEF Init
  <2>2. MaxQueue \in Nat /\ MaxLoads \in Nat
    BY BoundsArePositive
  <2>3. Finite
    BY <2>1, FS_EmptySet DEF Init, Finite
  <2>4. AppTypeOK
    BY DEF Init, AppInit, AppTypeOK, ServerStates, Tabs
  <2>5. TabTypeOK
    <3>1. m_featureEnabled \in BOOLEAN /\ m_contentLoaded \in BOOLEAN /\ m_contentEmpty \in BOOLEAN
      BY DEF Init
    <3>2. retryTimer \in BOOLEAN
      BY DEF Init
    <3>3. loads \in 0..MaxLoads
      BY <2>2 DEF Init
    <3>4. shown \in {"stopped", "started", "disabled", "loading", "empty", "content"}
      BY DEF Init
    <3> QED
      BY <2>1, <3>1, <3>2, <3>3, <3>4 DEF TabTypeOK
  <2>6. PhoneTypeOK
    BY <2>1, <2>2 DEF Init, PhoneTypeOK
  <2> QED
    BY <2>3, <2>4, <2>5, <2>6, TypeOKSplit
<1>2. TypeOK /\ Finite /\ [Next]_vars => (TypeOK /\ Finite)'
  BY NextType
<1> QED
  BY <1>1, <1>2, PTL DEF Spec

-----------------------------------------------------------------------------
(* ShownOnce, step by step.  It depends on the page alone. *)
LEMMA NextOnce == TypeOK /\ Finite /\ ShownOnce /\ [Next]_vars => ShownOnce'
<1> SUFFICES ASSUME TypeOK, Finite, ShownOnce, [Next]_vars PROVE ShownOnce'
  OBVIOUS
<1>0. /\ ShownOnce <=> IsInjective(items) /\ (m_contentEmpty <=> items = <<>>)
      /\ ShownOnce' <=> IsInjective(items') /\ (m_contentEmpty' <=> items' = <<>>)
      /\ items \in Seq(Keys)
  BY DEF ShownOnce, IsInjective, TypeOK
<1>1. CASE UNCHANGED <<items, m_contentEmpty>>
  BY <1>1 DEF ShownOnce
<1>2. CASE ClearContent
  BY <1>0, <1>2 DEF ClearContent, IsInjective
<1>3. ASSUME NEW key \in Keys, NotificationReceived(key) PROVE ShownOnce'
  <2>1. /\ RemoveFirst(items, key) \in Seq(Keys) /\ IsInjective(RemoveFirst(items, key))
        /\ key \notin ToSet(RemoveFirst(items, key))
    BY <1>0, RemoveFirstType, RemoveFirstInjective
  <2>2. IsInjective(items') /\ items' # <<>>
    BY <1>3, <2>1, PrependToInjective DEF NotificationReceived, InsertNotification
  <2> QED
    BY <1>0, <1>3, <2>2 DEF NotificationReceived
<1>4. ASSUME NEW key \in Keys, NotificationRemoved(key) PROVE ShownOnce'
  <2>1. IsInjective(items')
    BY <1>0, <1>4, RemoveFirstInjective DEF NotificationRemoved
  <2>2. items = <<>> => items' = <<>>
    BY <1>4, RemoveFirstOfEmpty DEF NotificationRemoved
  <2> QED
    BY <1>0, <1>4, <2>1, <2>2 DEF NotificationRemoved
<1>5. ASSUME NEW keys \in SUBSET Keys, IsFiniteSet(keys), NotificationList(keys),
             ~m_contentLoaded
      PROVE  ShownOnce'
  <2>1. items' = SetToSeq(keys) /\ m_contentEmpty' = (keys = {})
    BY <1>5 DEF NotificationList
  <2>2. IsInjective(items') /\ ToSet(items') = keys /\ items' \in Seq(keys)
    BY <1>5, <2>1, SetToSeqProperties
  <2>3. items' = <<>> <=> keys = {}
    BY <2>2, LenProperties, EmptySeq DEF ToSet
  <2> QED
    BY <1>0, <2>1, <2>2, <2>3
<1>6. CASE Deliver
  <2>1. /\ Head(toApp) \in Messages
        /\ Head(toApp).type = "list" => IsFiniteSet(Head(toApp).keys)
    BY <1>6, DeliverType, TypeOKSplit DEF Deliver
  <2>2. PICK m \in Messages : m = Head(toApp)
    BY <2>1
  <2>3. CASE m.type = "list" /\ NotificationList(m.keys) /\ m_contentLoaded
    BY <1>1, <2>3 DEF NotificationList
  <2> QED
    BY <1>3, <1>4, <1>5, <1>6, <2>1, <2>2, <2>3, MessageKinds DEF Deliver
<1> QED
  BY <1>1, <1>2, <1>6
     DEF Next, AppChanges, ServerStateChanged, CurrentTabChanged, LoadTimer, RetryTimer,
         LoadContent, Refresh, PhonePosts, PhoneRemoves, PhoneAnswers, vars, tabVars

(* Whatever events, lists and refreshes come in whatever order: no notification has two *)
(* widgets, and the page is empty exactly when it says so.                              *)
THEOREM NothingShownTwice == Spec => []ShownOnce
<1>1. Init => ShownOnce
  BY DEF Init, ShownOnce
<1>2. TypeOK /\ Finite /\ ShownOnce /\ [Next]_vars => ShownOnce'
  BY NextOnce
<1> QED
  BY <1>1, <1>2, TypesAreKept, PTL DEF Spec

-----------------------------------------------------------------------------
(* What is visible, step by step: UpdateLayout is called wherever one of the four things *)
(* it looks at changes, and where it is not called none of them does.                    *)
LEMMA NextLayout == TypeOK /\ LayoutIsCurrent /\ [Next]_vars => LayoutIsCurrent'
<1> SUFFICES ASSUME TypeOK, LayoutIsCurrent, [Next]_vars PROVE LayoutIsCurrent'
  OBVIOUS
<1>1. CASE UpdateLayout
  BY <1>1 DEF UpdateLayout, LayoutIsCurrent
<1>2. CASE UNCHANGED <<m_serverState, m_featureEnabled, m_contentLoaded, m_contentEmpty, shown>>
  BY <1>2 DEF LayoutIsCurrent
<1>3. CASE AppChanges
  <2>1. m_serverState' # m_serverState => m_currentTab' = m_currentTab
    BY <1>3, AppMoves DEF AppChanges, TypeOK
  <2> QED
    BY <1>1, <1>2, <1>3, <2>1
       DEF AppChanges, ServerStateChanged, CurrentTabChanged, tabVars
<1>4. CASE Deliver
  <2>1. m_serverState' = m_serverState /\ m_contentEmpty \in BOOLEAN
    BY <1>4 DEF Deliver, appVars, TypeOK
  <2>2. ASSUME NEW key, NotificationReceived(key) PROVE LayoutIsCurrent'
    BY <1>1, <1>2, <2>1, <2>2 DEF NotificationReceived
  <2>3. ASSUME NEW key, NotificationRemoved(key) PROVE LayoutIsCurrent'
    <3>1. items' # <<>> => m_contentEmpty' = m_contentEmpty
      BY <2>1, <2>3 DEF NotificationRemoved
    <3> QED
      BY <1>1, <1>2, <2>1, <2>3, <3>1 DEF NotificationRemoved
  <2>4. ASSUME NEW keys, NotificationList(keys) PROVE LayoutIsCurrent'
    BY <1>1, <1>2, <2>1, <2>4 DEF NotificationList
  <2> QED
    BY <1>4, <2>2, <2>3, <2>4 DEF Deliver
<1> QED
  BY <1>1, <1>2, <1>3, <1>4
     DEF Next, LoadTimer, RetryTimer, LoadContent, Refresh, PhonePosts, PhoneRemoves,
         PhoneAnswers, vars, appVars, tabVars

(* What the tab shows is at any time what its state calls for. *)
THEOREM LayoutIsKeptCurrent == Spec => []LayoutIsCurrent
<1>1. Init => LayoutIsCurrent
  BY DEF Init, AppInit, LayoutIsCurrent, Layout
<1>2. TypeOK /\ LayoutIsCurrent /\ [Next]_vars => LayoutIsCurrent'
  BY NextLayout
<1> QED
  BY <1>1, <1>2, TypesAreKept, PTL DEF Spec

-----------------------------------------------------------------------------
(* What asks for the content, step by step. *)
LEMMA NextLoad == TypeOK /\ LoadUnderway /\ [Next]_vars => LoadUnderway'
<1> SUFFICES ASSUME TypeOK, LoadUnderway, [Next]_vars, Loadable'
             PROVE  loads' > 0 \/ retryTimer'
  BY DEF LoadUnderway
<1>0. loads \in Nat /\ loads + 1 > 0
  BY BoundsArePositive DEF TypeOK
<1>1. CASE LoadLater
  BY <1>0, <1>1 DEF LoadLater
<1>2. CASE UNCHANGED <<m_contentLoaded, m_currentTab, m_serverState, loads, retryTimer>>
  BY <1>2 DEF LoadUnderway, Loadable
<1>3. CASE AppChanges
  <2>1. m_serverState' # m_serverState => m_currentTab' = m_currentTab
    BY <1>3, AppMoves DEF AppChanges, TypeOK
  <2> QED
    BY <1>1, <1>2, <1>3, <2>1
       DEF AppChanges, ServerStateChanged, CurrentTabChanged, Loadable, tabVars
<1>4. CASE LoadTimer \/ RetryTimer
  <2>1. Loadable
    <3>1. UNCHANGED <<appVars, m_contentLoaded>>
      BY <1>4 DEF LoadTimer, RetryTimer, LoadContent
    <3> QED
      BY <3>1 DEF Loadable, appVars
  <2>2. retryTimer' = Loadable
    BY <1>4 DEF LoadTimer, RetryTimer, LoadContent
  <2> QED
    BY <2>1, <2>2, Zenon
<1>5. CASE Deliver
  <2>1. ~m_contentLoaded'
    BY DEF Loadable
  <2> QED
    BY <1>2, <1>5, <2>1
       DEF Deliver, NotificationReceived, NotificationRemoved, NotificationList, appVars
<1> QED
  BY <1>1, <1>2, <1>3, <1>4, <1>5
     DEF Next, Refresh, PhonePosts, PhoneRemoves, PhoneAnswers, vars, appVars, tabVars

(* While the tab waits for its content something is due that asks for it, whatever *)
(* tab switches, refreshes and sessions came between.                              *)
THEOREM LoadIsUnderway == Spec => []LoadUnderway
<1>1. Init => LoadUnderway
  BY DEF Init, AppInit, LoadUnderway, Loadable
<1>2. TypeOK /\ LoadUnderway /\ [Next]_vars => LoadUnderway'
  BY NextLoad
<1> QED
  BY <1>1, <1>2, TypesAreKept, PTL DEF Spec

-----------------------------------------------------------------------------
(* The messages on their way.  One more message at the end decides about its key. *)
LEMMA UntoldAppend ==
  ASSUME NEW q \in Seq(Messages), NEW m \in Messages, NEW key \in Keys
  PROVE  /\ \A n \in 0..Len(q) :
              Untold(Append(q, m), n, key) <=> Untold(q, n, key) /\ ~IsAbout(m, key)
         /\ Untold(q, Len(q), key)
BY JoinsQueue DEF Untold

(* So a key is arriving if this message says so, or it is silent and one before it did. *)
LEMMA ArrivingAppend ==
  ASSUME NEW q \in Seq(Messages), NEW m \in Messages, NEW key \in Keys, NEW n \in 0..Len(q)
  PROVE  Arriving(Append(q, m), n, key)
           <=> (m.type = "received" /\ m.key = key) \/ (Arriving(q, n, key) /\ ~IsAbout(m, key))
<1> DEFINE r == Append(q, m)
<1>1. /\ Len(q) \in Nat /\ r[Len(q) + 1] = m
      /\ DOMAIN q = 1..Len(q) /\ DOMAIN r = 1..(Len(q) + 1)
      /\ \A i \in DOMAIN q : i < Len(q) + 1 /\ r[i] = q[i]
      /\ DOMAIN r = DOMAIN q \cup {Len(q) + 1}
  BY JoinsQueue
<1>2. \A i \in DOMAIN q : i \in 0..Len(q)
  BY <1>1
<1>3. Untold(r, Len(q) + 1, key)
  BY <1>1 DEF Untold
<1>4. \A i \in DOMAIN q : Untold(r, i, key) <=> Untold(q, i, key) /\ ~IsAbout(m, key)
  BY <1>2, UntoldAppend
<1> HIDE DEF r
<1>5. Len(q) + 1 > n
  BY <1>1
<1>6. Arriving(r, n, key)
        <=> \/ m.type = "received" /\ m.key = key
            \/ \E i \in DOMAIN q : /\ i > n /\ q[i].type = "received" /\ q[i].key = key
                                   /\ Untold(r, i, key)
  BY <1>1, <1>3, <1>5 DEF Arriving
<1> QED
  BY <1>4, <1>6 DEF Arriving, r

(* What the phone says last is what the tab will show. *)
LEMMA AfterAppend ==
  ASSUME NEW q \in Seq(Messages), NEW m \in Messages, NEW n \in 0..Len(q), NEW keys
  PROVE  /\ m.type = "received" => After(keys, Append(q, m), n) = After(keys, q, n) \cup {m.key}
         /\ m.type = "removed" => After(keys, Append(q, m), n) = After(keys, q, n) \ {m.key}
         /\ m.type = "list" => After(keys, Append(q, m), n) = After(keys, q, n)
<1>1. \A key \in Keys :
        /\ Untold(Append(q, m), n, key) <=> Untold(q, n, key) /\ ~IsAbout(m, key)
        /\ Arriving(Append(q, m), n, key)
             <=> \/ m.type = "received" /\ m.key = key
                 \/ Arriving(q, n, key) /\ ~IsAbout(m, key)
  BY UntoldAppend, ArrivingAppend
<1>2. m.type \in {"received", "removed"} => m.key \in Keys
  BY MessageKinds
<1>3. CASE m.type = "received"
  BY <1>1, <1>2, <1>3 DEF After, IsAbout
<1>4. CASE m.type = "removed"
  BY <1>1, <1>2, <1>4 DEF After, IsAbout
<1>5. CASE m.type = "list"
  BY <1>1, <1>5 DEF After, IsAbout
<1> QED
  BY <1>3, <1>4, <1>5

(* After the last message nothing changes any more. *)
LEMMA AfterAll ==
  ASSUME NEW q \in Seq(Messages), NEW keys \in SUBSET Keys
  PROVE  After(keys, q, Len(q)) = keys
<1>1. Len(q) \in Nat /\ DOMAIN q = 1..Len(q)
  BY LenProperties
<1>2. \A key : ~Arriving(q, Len(q), key) /\ Untold(q, Len(q), key)
  BY <1>1 DEF Arriving, Untold
<1> QED
  BY <1>2 DEF After

(* When the first message has come, the others are one place further. *)
LEMMA AfterTail ==
  ASSUME NEW q \in Seq(Messages), q # <<>>, NEW n \in Nat, NEW keys
  PROVE  After(keys, Tail(q), n) = After(keys, q, n + 1)
<1> DEFINE t == Tail(q)
<1>1. /\ DOMAIN q = 1..Len(q) /\ DOMAIN t = 1..(Len(q) - 1) /\ Len(q) \in Nat \ {0}
      /\ \A i \in DOMAIN t : i + 1 \in DOMAIN q /\ t[i] = q[i + 1]
      /\ \A i \in DOMAIN q : i = 1 \/ (i - 1 \in DOMAIN t /\ t[i - 1] = q[i])
  BY LeavesQueue
<1> HIDE DEF t
<1>2. ASSUME NEW key, NEW k \in Nat PROVE Untold(t, k, key) <=> Untold(q, k + 1, key)
  <2>1. ASSUME Untold(t, k, key), NEW i \in DOMAIN q, i > k + 1 PROVE ~IsAbout(q[i], key)
    <3>1. i # 1 /\ i - 1 > k
      BY <1>1, <2>1
    <3> QED
      BY <1>1, <2>1, <3>1 DEF Untold
  <2>2. ASSUME Untold(q, k + 1, key), NEW i \in DOMAIN t, i > k PROVE ~IsAbout(t[i], key)
    <3>1. i + 1 > k + 1
      BY <1>1, <2>2
    <3> QED
      BY <1>1, <2>2, <3>1 DEF Untold
  <2> QED
    BY <2>1, <2>2 DEF Untold
<1>3. ASSUME NEW key PROVE Arriving(t, n, key) <=> Arriving(q, n + 1, key)
  <2>1. ASSUME NEW i \in DOMAIN t, i > n, t[i].type = "received", t[i].key = key,
               Untold(t, i, key)
        PROVE  Arriving(q, n + 1, key)
    <3>1. i \in Nat /\ i + 1 \in DOMAIN q /\ i + 1 > n + 1 /\ t[i] = q[i + 1]
      BY <1>1, <2>1
    <3>2. Untold(q, i + 1, key)
      BY <1>2, <2>1, <3>1
    <3> QED
      BY <2>1, <3>1, <3>2 DEF Arriving
  <2>2. ASSUME NEW i \in DOMAIN q, i > n + 1, q[i].type = "received", q[i].key = key,
               Untold(q, i, key)
        PROVE  Arriving(t, n, key)
    <3>1. i - 1 \in Nat /\ i - 1 \in DOMAIN t /\ i - 1 > n /\ t[i - 1] = q[i] /\ (i - 1) + 1 = i
      BY <1>1, <2>2
    <3>2. Untold(t, i - 1, key)
      BY <1>2, <2>2, <3>1
    <3> QED
      BY <2>2, <3>1, <3>2 DEF Arriving
  <2> QED
    BY <2>1, <2>2 DEF Arriving
<1> QED
  BY <1>2, <1>3 DEF After, t

(* What the first message does to the page it has announced before. *)
LEMMA AfterHead ==
  ASSUME NEW q \in Seq(Messages), q # <<>>, NEW keys
  PROVE  /\ q[1].type = "received" => After(keys \cup {q[1].key}, q, 1) = After(keys, q, 0)
         /\ q[1].type = "removed" => After(keys \ {q[1].key}, q, 1) = After(keys, q, 0)
         /\ q[1].type = "list" => After(keys, q, 1) = After(keys, q, 0)
<1>1. DOMAIN q = 1..Len(q) /\ 1 \in DOMAIN q
  BY LeavesQueue
<1>2. ASSUME NEW key PROVE Untold(q, 0, key) <=> Untold(q, 1, key) /\ ~IsAbout(q[1], key)
  BY <1>1 DEF Untold
<1>3. ASSUME NEW key
      PROVE  Arriving(q, 0, key)
               <=> \/ q[1].type = "received" /\ q[1].key = key /\ Untold(q, 1, key)
                   \/ Arriving(q, 1, key)
  BY <1>1 DEF Arriving
<1>4. ASSUME NEW key, Arriving(q, 1, key) PROVE ~Untold(q, 1, key)
  BY <1>4 DEF Arriving, Untold, IsAbout
<1>5. CASE q[1].type = "received"
  BY <1>2, <1>3, <1>5 DEF After, IsAbout
<1>6. CASE q[1].type = "removed"
  BY <1>2, <1>3, <1>6 DEF After, IsAbout
<1>7. CASE q[1].type = "list"
  BY <1>2, <1>3, <1>7 DEF After, IsAbout
<1> QED
  BY <1>5, <1>6, <1>7

-----------------------------------------------------------------------------
(* The invariant behind InSync.  A list on its way is as good as one that has come: with *)
(* the messages behind it, it gives what is on the phone.  Lists are asked for, and      *)
(* taken, only in an announced session, and the connection carries nothing unless it is  *)
(* open; so no list of an earlier session reaches the page.                              *)
ListsInSync ==
  \A i \in DOMAIN toApp : toApp[i].type = "list" => After(toApp[i].keys, toApp, i) = posted
ListDue == asked > 0 \/ \E i \in DOMAIN toApp : toApp[i].type = "list"
LoadNeedsSession == m_contentLoaded \/ ListDue => m_serverState = "CONNECTED"
ClosedCarriesNothing == link # "open" => asked = 0 /\ toApp = <<>>
SyncInv == InSync /\ ListsInSync /\ LoadNeedsSession /\ ClosedCarriesNothing

(* A step that leaves the connection, the phone and the page alone. *)
LEMMA SyncUntouched ==
  ASSUME SyncInv,
         UNCHANGED <<m_contentLoaded, m_serverState, link, items, posted, asked, toApp>>
  PROVE  SyncInv'
BY DEF SyncInv, InSync, ListsInSync, LoadNeedsSession, ListDue, ClosedCarriesNothing

(* The page is cleared: until the list comes nothing is claimed of it. *)
LEMMA SyncCleared ==
  ASSUME SyncInv, ~m_contentLoaded', UNCHANGED <<m_serverState, link, posted, asked, toApp>>
  PROVE  SyncInv'
BY DEF SyncInv, InSync, ListsInSync, LoadNeedsSession, ListDue, ClosedCarriesNothing

(* The phone sends what it did, or its list. *)
LEMMA SyncSends ==
  ASSUME TypeOK, SyncInv, NEW m \in Messages, PhoneSends(m),
         UNCHANGED <<m_contentLoaded, m_serverState, link, items>>,
         m.type = "received" => posted' = posted \cup {m.key},
         m.type = "removed" => posted' = posted \ {m.key},
         m.type = "list" => posted' = posted /\ m.keys = posted /\ asked > 0,
         asked' = asked \/ (asked > 0 /\ asked' = asked - 1)
  PROVE  SyncInv'
<1> USE DEF SyncInv
<1>1. asked \in Nat /\ toApp \in Seq(Messages)
  BY DEF TypeOK
<1>2. CASE link # "open"
  <2>1. asked' = 0 /\ toApp' = <<>>
    BY <1>2 DEF ClosedCarriesNothing, PhoneSends
  <2>2. DOMAIN toApp' = {}
    BY <2>1, EmptySeq
  <2> QED
    BY <1>2, <2>1, <2>2
       DEF InSync, ListsInSync, LoadNeedsSession, ListDue, ClosedCarriesNothing
<1>3. CASE link = "open"
  <2>1. toApp' = Append(toApp, m)
    BY <1>3 DEF PhoneSends
  <2>2. /\ Len(toApp) \in Nat /\ DOMAIN toApp = 1..Len(toApp)
        /\ toApp' \in Seq(Messages) /\ Len(toApp') = Len(toApp) + 1
        /\ DOMAIN toApp' = DOMAIN toApp \cup {Len(toApp) + 1}
        /\ \A i \in DOMAIN toApp : toApp'[i] = toApp[i]
        /\ toApp'[Len(toApp) + 1] = m
    BY <1>1, <2>1, JoinsQueue
  <2>3. ASSUME NEW n \in 0..Len(toApp), NEW keys, After(keys, toApp, n) = posted
        PROVE  After(keys, toApp', n) = posted'
    <3>1. /\ m.type = "received" => After(keys, toApp', n) = posted \cup {m.key}
          /\ m.type = "removed" => After(keys, toApp', n) = posted \ {m.key}
          /\ m.type = "list" => After(keys, toApp', n) = posted
      BY <1>1, <2>1, <2>3, AfterAppend
    <3> QED
      BY <3>1, MessageKinds
  <2>4. InSync'
    <3>1. 0 \in 0..Len(toApp)
      BY <2>2
    <3> QED
      BY <1>3, <2>3, <3>1 DEF InSync
  <2>5. ListsInSync'
    <3> SUFFICES ASSUME NEW i \in DOMAIN toApp', toApp'[i].type = "list"
                 PROVE  After(toApp'[i].keys, toApp', i) = posted'
      BY DEF ListsInSync
    <3>1. CASE i \in DOMAIN toApp
      <4>1. i \in 0..Len(toApp)
        BY <2>2, <3>1
      <4> QED
        BY <2>2, <2>3, <3>1, <4>1 DEF ListsInSync
    <3>2. CASE i = Len(toApp) + 1
      <4>1. m.keys = posted /\ posted' = posted /\ posted \in SUBSET Keys
        BY <2>2, <3>2 DEF TypeOK
      <4> QED
        BY <2>2, <3>2, <4>1, AfterAll
    <3> QED
      BY <2>2, <3>1, <3>2
  <2>6. LoadNeedsSession'
    <3>1. asked' > 0 => asked > 0
      BY <1>1
    <3>2. (\E i \in DOMAIN toApp' : toApp'[i].type = "list")
             => asked > 0 \/ \E i \in DOMAIN toApp : toApp[i].type = "list"
      BY <2>2
    <3> QED
      BY <3>1, <3>2 DEF LoadNeedsSession, ListDue
  <2> QED
    BY <1>3, <2>4, <2>5, <2>6 DEF ClosedCarriesNothing
<1> QED
  BY <1>2, <1>3

(* What a message makes of the page. *)
LEMMA PageFollows ==
  ASSUME TypeOK, ShownOnce, NEW key \in Keys
  PROVE  /\ NotificationReceived(key) => ToSet(items') = ToSet(items) \cup {key}
         /\ NotificationRemoved(key) => ToSet(items') = ToSet(items) \ {key}
<1>1. items \in Seq(Keys) /\ IsInjective(items)
  BY DEF TypeOK, ShownOnce, IsInjective
<1>2. RemoveFirst(items, key) \in Seq(Keys) /\ ToSet(RemoveFirst(items, key)) = ToSet(items) \ {key}
  BY <1>1, RemoveFirstType, RemoveFirstInjective
<1>3. ASSUME NotificationReceived(key) PROVE ToSet(items') = ToSet(items) \cup {key}
  BY <1>2, <1>3, PrependToInjective DEF NotificationReceived, InsertNotification
<1> QED
  BY <1>2, <1>3 DEF NotificationRemoved

(* The oldest message comes: an event changes the page as it was counted on, a list *)
(* is taken only if the page waits for one.                                         *)
LEMMA SyncDelivers ==
  ASSUME TypeOK, Finite, ShownOnce, SyncInv, Deliver
  PROVE  SyncInv'
<1> USE DEF SyncInv
<1>1. /\ toApp # <<>> /\ toApp' = Tail(toApp) /\ toApp \in Seq(Messages)
      /\ UNCHANGED <<m_serverState, link, posted, asked>>
  BY DEF Deliver, appVars, TypeOK
<1>2. /\ Head(toApp) \in Messages /\ Head(toApp) = toApp[1] /\ 1 \in DOMAIN toApp
      /\ DOMAIN toApp' \subseteq Nat
      /\ \A i \in DOMAIN toApp' : i + 1 \in DOMAIN toApp /\ toApp'[i] = toApp[i + 1]
  BY <1>1, LeavesQueue
<1>3. link = "open"
  BY <1>1 DEF ClosedCarriesNothing
<1>4. ListsInSync'
  <2> SUFFICES ASSUME NEW i \in DOMAIN toApp', toApp'[i].type = "list"
               PROVE  After(toApp'[i].keys, toApp', i) = posted'
    BY DEF ListsInSync
  <2>1. After(toApp'[i].keys, toApp', i) = After(toApp'[i].keys, toApp, i + 1)
    BY <1>1, <1>2, AfterTail
  <2> QED
    BY <1>1, <1>2, <2>1 DEF ListsInSync
<1>5. ASSUME NEW keys PROVE After(keys, toApp', 0) = After(keys, toApp, 1)
  BY <1>1, AfterTail
<1>6. InSync' /\ (m_contentLoaded' => m_contentLoaded \/ Head(toApp).type = "list")
  <2>1. CASE Head(toApp).type = "received" /\ NotificationReceived(Head(toApp).key)
    <3>1. ToSet(items') = ToSet(items) \cup {toApp[1].key} /\ m_contentLoaded' = m_contentLoaded
      BY <1>2, <2>1, PageFollows, MessageKinds DEF NotificationReceived
    <3>2. After(ToSet(items'), toApp', 0) = After(ToSet(items), toApp, 0)
      BY <1>1, <1>2, <1>5, <2>1, <3>1, AfterHead
    <3> QED
      BY <1>1, <3>1, <3>2 DEF InSync
  <2>2. CASE Head(toApp).type = "removed" /\ NotificationRemoved(Head(toApp).key)
    <3>1. ToSet(items') = ToSet(items) \ {toApp[1].key} /\ m_contentLoaded' = m_contentLoaded
      BY <1>2, <2>2, PageFollows, MessageKinds DEF NotificationRemoved
    <3>2. After(ToSet(items'), toApp', 0) = After(ToSet(items), toApp, 0)
      BY <1>1, <1>2, <1>5, <2>2, <3>1, AfterHead
    <3> QED
      BY <1>1, <3>1, <3>2 DEF InSync
  <2>3. CASE Head(toApp).type = "list" /\ NotificationList(Head(toApp).keys)
    <3>1. CASE m_contentLoaded
      <4>1. items' = items
        BY <2>3, <3>1 DEF NotificationList
      <4>2. After(ToSet(items'), toApp', 0) = After(ToSet(items), toApp, 0)
        BY <1>1, <1>2, <1>5, <2>3, <4>1, AfterHead
      <4> QED
        BY <1>1, <3>1, <4>2 DEF InSync
    <3>2. CASE ~m_contentLoaded
      <4>1. ToSet(items') = toApp[1].keys
        <5>1. IsFiniteSet(toApp[1].keys)
          BY <1>2, <2>3 DEF Finite
        <5>2. items' = SetToSeq(toApp[1].keys)
          BY <1>2, <2>3, <3>2 DEF NotificationList
        <5> QED
          BY <5>1, <5>2, SetToSeqProperties
      <4>2. After(toApp[1].keys, toApp, 1) = posted
        BY <1>2, <2>3 DEF ListsInSync
      <4> QED
        BY <1>1, <1>5, <2>3, <4>1, <4>2 DEF InSync
    <3> QED
      BY <3>1, <3>2, <2>3
  <2> QED
    BY <2>1, <2>2, <2>3 DEF Deliver
<1>7. LoadNeedsSession'
  BY <1>1, <1>2, <1>6 DEF LoadNeedsSession, ListDue
<1> QED
  BY <1>1, <1>3, <1>4, <1>6, <1>7 DEF ClosedCarriesNothing

(* The signals of MainWidget: what is on its way is lost unless the connection stays, *)
(* and the page is cleared when the session ends.                                     *)
LEMMA SyncChanges ==
  ASSUME TypeOK, SyncInv, AppChanges
  PROVE  SyncInv'
<1> USE DEF SyncInv
<1>1. /\ m_serverState' # m_serverState => m_currentTab' = m_currentTab
      /\ link # "open" /\ link' = "open" => m_serverState = "STARTED"
  BY AppMoves DEF AppChanges, TypeOK
<1>2. posted' = posted
  BY DEF AppChanges, ChannelFollows
<1>3. \/ m_serverState' # m_serverState /\ ~m_contentLoaded'
      \/ m_serverState' = m_serverState /\ UNCHANGED <<m_contentLoaded, items>>
  BY <1>1 DEF AppChanges, ServerStateChanged, ClearContent, CurrentTabChanged, tabVars
<1>4. CASE link' # "open"
  <2>1. asked' = 0 /\ toApp' = <<>>
    BY <1>4 DEF AppChanges, ChannelFollows
  <2>2. DOMAIN toApp' = {}
    BY <2>1, EmptySeq
  <2>3. InSync' /\ ListsInSync' /\ ClosedCarriesNothing'
    BY <1>4, <2>1, <2>2 DEF InSync, ListsInSync, ClosedCarriesNothing
  <2>4. ~ListDue'
    BY <2>1, <2>2 DEF ListDue
  <2>5. LoadNeedsSession'
    BY <1>3, <2>4 DEF LoadNeedsSession
  <2> QED
    BY <2>3, <2>5
<1>5. CASE link' = "open" /\ link = "open"
  <2>1. UNCHANGED <<asked, toApp>>
    BY <1>5 DEF AppChanges, ChannelFollows
  <2>2. m_serverState' # m_serverState => m_serverState' = "CONNECTED" \/ m_serverState = "STOPPED"
    BY <1>5 DEF AppChanges, AppNext, StartServer, StopServer, SessionGranted, SessionAnnounced,
                SessionCloses, SessionEnds, SwitchTab
  <2> QED
    BY <1>2, <1>3, <1>5, <2>1, <2>2 DEF InSync, ListsInSync, LoadNeedsSession, ListDue, ClosedCarriesNothing
<1>6. CASE link' = "open" /\ link # "open"
  <2>1. m_serverState = "STARTED" /\ ~m_contentLoaded
    BY <1>1, <1>6 DEF LoadNeedsSession, ListDue
  <2>2. ~m_contentLoaded' /\ asked' = 0 /\ toApp' = <<>>
    BY <1>3, <1>6, <2>1 DEF ClosedCarriesNothing, AppChanges, ChannelFollows
  <2>3. DOMAIN toApp' = {}
    BY <2>2, EmptySeq
  <2> QED
    BY <2>2, <2>3 DEF InSync, ListsInSync, LoadNeedsSession, ListDue, ClosedCarriesNothing
<1> QED
  BY <1>4, <1>5, <1>6

(* One step keeps the invariant. *)
LEMMA NextSync == TypeOK /\ Finite /\ ShownOnce /\ SyncInv /\ [Next]_vars => SyncInv'
<1> SUFFICES ASSUME TypeOK, Finite, ShownOnce, SyncInv, [Next]_vars PROVE SyncInv'
  OBVIOUS
<1>1. CASE AppChanges
  BY <1>1, SyncChanges
<1>2. CASE LoadTimer \/ RetryTimer
  <2>1. UNCHANGED <<m_contentLoaded, m_serverState, link, items, posted, toApp>>
    BY <1>2 DEF LoadTimer, RetryTimer, LoadContent, appVars
  <2>2. asked' = asked \/ (link = "open" /\ m_serverState = "CONNECTED")
    BY <1>2 DEF LoadTimer, RetryTimer, LoadContent, Loadable, Ask
  <2> QED
    BY <2>1, <2>2, SyncUntouched
       DEF SyncInv, InSync, ListsInSync, LoadNeedsSession, ListDue, ClosedCarriesNothing
<1>3. CASE Refresh
  BY <1>3, SyncCleared DEF Refresh, ClearContent, appVars, phoneVars
<1>4. CASE Deliver
  BY <1>4, SyncDelivers
<1>5. ASSUME NEW key \in Keys, PhonePosts(key) \/ PhoneRemoves(key) PROVE SyncInv'
  <2>1. \E m \in Messages :
          /\ PhoneSends(m)
          /\ \/ m.type = "received" /\ posted' = posted \cup {m.key}
             \/ m.type = "removed" /\ posted' = posted \ {m.key}
    BY <1>5, MessagesType DEF PhonePosts, PhoneRemoves
  <2>2. UNCHANGED <<m_contentLoaded, m_serverState, link, items, asked>>
    BY <1>5 DEF PhonePosts, PhoneRemoves, appVars, tabVars
  <2> QED
    BY <2>1, <2>2, SyncSends
<1>6. CASE PhoneAnswers
  <2>1. \E m \in Messages : m.type = "list" /\ m.keys = posted /\ PhoneSends(m)
    BY <1>6, MessagesType DEF PhoneAnswers, TypeOK
  <2>2. /\ UNCHANGED <<m_contentLoaded, m_serverState, link, items, posted>>
        /\ asked > 0 /\ asked' = asked - 1
    BY <1>6 DEF PhoneAnswers, appVars, tabVars
  <2> QED
    BY <2>1, <2>2, SyncSends
<1>7. CASE UNCHANGED vars
  BY <1>7, SyncUntouched DEF vars, appVars, tabVars, phoneVars
<1> QED
  BY <1>1, <1>2, <1>3, <1>4, <1>5, <1>6, <1>7 DEF Next

(* However the phone's events race its answers, and however many lists are asked for    *)
(* and dropped: a page that is loaded is the phone's list up to the messages on the way. *)
THEOREM PageIsInSync == Spec => []InSync
<1>1. Init => SyncInv
  <2> SUFFICES ASSUME Init PROVE SyncInv
    OBVIOUS
  <2>1. DOMAIN toApp = {} /\ asked = 0 /\ toApp = <<>> /\ ~m_contentLoaded
    BY EmptySeq DEF Init
  <2> QED
    BY <2>1 DEF SyncInv, InSync, ListsInSync, LoadNeedsSession, ListDue, ClosedCarriesNothing
<1>2. TypeOK /\ Finite /\ ShownOnce /\ SyncInv /\ [Next]_vars => SyncInv'
  BY NextSync
<1>3. SyncInv => InSync
  BY DEF SyncInv
<1> QED
  BY <1>1, <1>2, <1>3, TypesAreKept, NothingShownTwice, PTL DEF Spec

===============================================================================
