----------------------------- MODULE SMSTabProofs -----------------------------
(***************************************************************************)
(* Theorems about SMSTab for every set of numbers and every bound.         *)
(***************************************************************************)
EXTENDS SMSTab, ListLemmas

-----------------------------------------------------------------------------
(* What AppNext does to the three variables of MainWidget, as far as the tab cares: a  *)
(* session opens only in the state STARTED, one event changes the state or the tab, a  *)
(* state that changes under an open connection becomes CONNECTED, unless nothing was    *)
(* running, and the end of a session ends the state CONNECTED.                          *)
LEMMA AppMoves ==
  ASSUME AppTypeOK, AppNext
  PROVE  /\ AppTypeOK'
         /\ m_serverState' # m_serverState => m_currentTab' = m_currentTab
         /\ link # "open" /\ link' = "open" => m_serverState = "STARTED"
         /\ m_serverState' # m_serverState /\ m_serverState' # "CONNECTED"
              => link' = "none" \/ m_serverState = "STOPPED"
         /\ link' = "none" => link = "none" \/ m_serverState' # "CONNECTED"
BY DEF AppTypeOK, ServerStates, AppNext, StartServer, StopServer, SessionGranted,
       SessionAnnounced, SessionCloses, SessionEnds, SwitchTab

(* The two parts of TypeOK that are not MainWidget's. *)
PageRecords == [number : Numbers, page : Pages]
TabTypeOK ==
  /\ m_featureEnabled \in BOOLEAN
  /\ m_currentNumber \in Numbers \cup {NoNumber}
  /\ m_contentLoaded \in BOOLEAN
  /\ m_contentEmpty \in BOOLEAN
  /\ m_nextPage \in Pages
  /\ pages \in Seq(PageRecords)
  /\ input \in Numbers \cup {NoNumber}
  /\ shown \in {"stopped", "started", "disabled", "loading", "empty", "list", "thread"}
  /\ retryTimer \in BOOLEAN
  /\ loads \in 0..MaxLoads
PhoneTypeOK ==
  /\ keyboard \in Numbers \cup {NoNumber}
  /\ asked \in Seq(Requests) /\ Len(asked) <= MaxAsked
  /\ tangled \in BOOLEAN

(* TypeOK is the three together. *)
LEMMA TypeOKSplit ==
  /\ TypeOK <=> AppTypeOK /\ TabTypeOK /\ PhoneTypeOK
  /\ TypeOK' <=> AppTypeOK' /\ TabTypeOK' /\ PhoneTypeOK'
BY DEF TypeOK, TabTypeOK, PhoneTypeOK, PageRecords

(* The numbers of pages begin with zero. *)
LEMMA PagesType ==
  /\ 0 \in Pages
  /\ SMS_MAX_PAGE \in Nat /\ MaxAsked \in Nat /\ MaxLoads \in Nat
  /\ \A page \in Pages : page \in Nat
  /\ \A page \in Pages, full \in BOOLEAN : NextPage(page, full) \in Pages
<1>1. SMS_MAX_PAGE \in Nat /\ MaxAsked \in Nat /\ MaxLoads \in Nat
  BY BoundsAreNatural
<1> QED
  BY <1>1 DEF Pages, NextPage

(* The three kinds of requests. *)
LEMMA RequestKinds ==
  ASSUME NEW r \in Requests
  PROVE  \/ r.type = "list"
         \/ r.type = "from" /\ r.number \in Numbers /\ r.page \in Pages
         \/ r.type = "send" /\ r.number \in Numbers /\ r.text \in Numbers
BY DEF Requests

(* And these are the requests of each kind. *)
LEMMA RequestsType ==
  /\ [type |-> "list"] \in Requests
  /\ \A n \in Numbers, p \in Pages : [type |-> "from", number |-> n, page |-> p] \in Requests
  /\ \A n, t \in Numbers : [type |-> "send", number |-> n, text |-> t] \in Requests
BY DEF Requests

(* UpdateLayout shows one of the seven pages. *)
LEMMA LayoutType ==
  ASSUME NEW s, NEW enabled, NEW loaded, NEW empty, NEW number
  PROVE  Layout(s, enabled, loaded, empty, number)
           \in {"stopped", "started", "disabled", "loading", "empty", "list", "thread"}
BY DEF Layout

(* A list or a thread it shows only of an announced session, and only if it is loaded. *)
LEMMA LayoutShows ==
  ASSUME NEW s \in ServerStates, NEW enabled \in BOOLEAN, NEW loaded \in BOOLEAN,
         NEW empty \in BOOLEAN, NEW number,
         Layout(s, enabled, loaded, empty, number) \in {"list", "thread"}
  PROVE  /\ s = "CONNECTED" /\ loaded
         /\ Layout(s, enabled, loaded, empty, number) = "list" <=> number = NoNumber
BY DEF Layout, ServerStates

(* A request joins those without an answer, if the connection is open. *)
LEMMA AskType ==
  ASSUME PhoneTypeOK, NEW r \in Requests, Ask(r), keyboard' \in Numbers \cup {NoNumber},
         tangled' \in BOOLEAN
  PROVE  PhoneTypeOK'
<1>1. CASE asked' = asked
  BY <1>1 DEF PhoneTypeOK
<1>2. CASE Len(asked) < MaxAsked /\ asked' = Append(asked, r)
  BY <1>2, PagesType, JoinsQueue DEF PhoneTypeOK
<1> QED
  BY <1>1, <1>2 DEF Ask

(* The content is dropped. *)
LEMMA ClearType ==
  ASSUME ClearContent
  PROVE  /\ pages' \in Seq(PageRecords) /\ input' \in Numbers \cup {NoNumber}
         /\ m_contentLoaded' \in BOOLEAN /\ m_contentEmpty' \in BOOLEAN /\ m_nextPage' \in Pages
BY PagesType, EmptySeq DEF ClearContent

(* One more load is pending. *)
LEMMA LoadLaterType ==
  ASSUME TabTypeOK, LoadLater \/ UNCHANGED loads
  PROVE  loads' \in 0..MaxLoads
<1>1. MaxLoads \in Nat /\ loads \in 0..MaxLoads
  BY PagesType DEF TabTypeOK
<1>2. CASE LoadLater
  BY <1>1, <1>2 DEF LoadLater
<1>3. CASE UNCHANGED loads
  BY <1>1, <1>3
<1> QED
  BY <1>2, <1>3

(* The pages after an answer: the first page starts anew, a later one is added. *)
LEMMA PagesGrow ==
  ASSUME TabTypeOK, NEW number \in Numbers, NEW page \in Pages, NEW full \in BOOLEAN,
         Fits(page), SMSFromList(number, page, full)
  PROVE  \E base \in {<<>>, pages} :
           /\ base = IF page = 0 THEN <<>> ELSE pages
           /\ base \in Seq(PageRecords)
           /\ pages' = IF full THEN Append(base, [number |-> number, page |-> page]) ELSE base
<1> DEFINE base == IF page = 0 THEN <<>> ELSE pages
           rec == [number |-> number, page |-> page]
<1>1. base \in Seq(PageRecords) /\ rec \in PageRecords
  BY EmptySeq DEF TabTypeOK, PageRecords
<1>2. pages' = base \o (IF full THEN <<rec>> ELSE <<>>)
  BY DEF SMSFromList
<1>3. base \o <<rec>> = Append(base, rec) /\ base \o <<>> = base
  BY <1>1, AppendIsConcat, ConcatEmptySeq
<1> QED
  BY <1>1, <1>2, <1>3

(* The three handlers of answers keep the tab's types.  First the list of threads, *)
LEMMA SMSListType ==
  ASSUME TabTypeOK, NEW full \in BOOLEAN, SMSList(full)
  PROVE  TabTypeOK'
<1>1. CASE m_contentLoaded /\ Dropped
  BY <1>1 DEF TabTypeOK, Dropped
<1>2. CASE ~m_contentLoaded
  <2>1. pages' \in Seq(PageRecords) /\ m_nextPage' \in Pages
    BY <1>2, EmptySeq, PagesType DEF SMSList
  <2>2. m_contentEmpty' \in BOOLEAN /\ m_contentLoaded' \in BOOLEAN /\ retryTimer' \in BOOLEAN
    BY <1>2 DEF SMSList
  <2>3. shown' \in {"stopped", "started", "disabled", "loading", "empty", "list", "thread"}
    BY <1>2, LayoutType DEF SMSList, UpdateLayout
  <2>4. /\ input' \in Numbers \cup {NoNumber} /\ m_currentNumber' \in Numbers \cup {NoNumber}
        /\ m_featureEnabled' \in BOOLEAN /\ loads' \in 0..MaxLoads
    BY <1>2 DEF SMSList, TabTypeOK
  <2> QED
    BY <2>1, <2>2, <2>3, <2>4 DEF TabTypeOK
<1> QED
  BY <1>1, <1>2 DEF SMSList

(* then a page of a thread, *)
LEMMA SMSFromListType ==
  ASSUME TabTypeOK, NEW number \in Numbers, NEW page \in Pages, NEW full \in BOOLEAN,
         SMSFromList(number, page, full)
  PROVE  TabTypeOK'
<1>1. CASE ~Fits(page)
  BY <1>1 DEF TabTypeOK, SMSFromList, Dropped
<1>2. CASE Fits(page)
  <2>1. pages' \in Seq(PageRecords)
    <3>1. [number |-> number, page |-> page] \in PageRecords
      BY DEF PageRecords
    <3>2. PICK base \in {<<>>, pages} :
            /\ base \in Seq(PageRecords)
            /\ pages' = IF full THEN Append(base, [number |-> number, page |-> page]) ELSE base
      BY <1>2, PagesGrow
    <3> QED
      BY <3>1, <3>2, AppendProperties
  <2>2. m_nextPage' \in Pages
    BY <1>2, PagesType DEF SMSFromList
  <2>3. shown' \in {"stopped", "started", "disabled", "loading", "empty", "list", "thread"}
    BY <1>2, LayoutType DEF SMSFromList, UpdateLayout
  <2>4. /\ m_contentEmpty' \in BOOLEAN /\ m_contentLoaded' \in BOOLEAN /\ retryTimer' \in BOOLEAN
        /\ input' \in Numbers \cup {NoNumber} /\ m_currentNumber' \in Numbers \cup {NoNumber}
        /\ m_featureEnabled' \in BOOLEAN /\ loads' \in 0..MaxLoads
    BY <1>2 DEF SMSFromList, TabTypeOK
  <2> QED
    BY <2>1, <2>2, <2>3, <2>4 DEF TabTypeOK
<1> QED
  BY <1>1, <1>2

(* and the word that a text was sent. *)
LEMMA SMSSentType ==
  ASSUME TabTypeOK, NEW number \in Numbers, NEW success \in BOOLEAN, SMSSent(number, success)
  PROVE  TabTypeOK'
<1>1. CASE UNCHANGED tabVars
  BY <1>1 DEF tabVars, TabTypeOK
<1>2. CASE m_contentLoaded /\ m_currentNumber = number /\ success
  <2>1. ClearContent /\ LoadLater /\ UpdateLayout
    BY <1>2 DEF SMSSent
  <2>2. UNCHANGED <<m_featureEnabled, m_currentNumber, retryTimer>>
    BY <1>2 DEF SMSSent
  <2>3. shown' \in {"stopped", "started", "disabled", "loading", "empty", "list", "thread"}
    BY <2>1, LayoutType DEF UpdateLayout
  <2>4. loads' \in 0..MaxLoads
    BY <2>1, LoadLaterType
  <2> QED
    BY <2>1, <2>2, <2>3, <2>4, ClearType DEF TabTypeOK
<1> QED
  BY <1>1, <1>2 DEF SMSSent

(* The signals of MainWidget. *)
LEMMA AppChangesType ==
  ASSUME TypeOK, AppChanges
  PROVE  TypeOK'
<1> USE TypeOKSplit
<1>1. AppTypeOK'
  BY AppMoves DEF AppChanges
<1>2. PhoneTypeOK'
  <2>1. keyboard' = keyboard /\ tangled' \in BOOLEAN
    BY DEF AppChanges, ChannelFollows
  <2>2. CASE asked' = asked
    BY <2>1, <2>2 DEF PhoneTypeOK
  <2>3. CASE asked' = <<>>
    <3>1. asked' \in Seq(Requests) /\ Len(asked') = 0
      BY <2>3, EmptySeq
    <3> QED
      BY <2>1, <3>1, PagesType DEF PhoneTypeOK
  <2> QED
    BY <2>2, <2>3 DEF AppChanges, ChannelFollows
<1>3. CASE ServerStateChanged
  <2>1. m_featureEnabled' \in BOOLEAN
    BY <1>3 DEF ServerStateChanged, TabTypeOK
  <2>2. loads' \in 0..MaxLoads
    BY <1>3, LoadLaterType DEF ServerStateChanged
  <2>3. shown' \in {"stopped", "started", "disabled", "loading", "empty", "list", "thread"}
    BY <1>3, LayoutType DEF ServerStateChanged, UpdateLayout
  <2>4. /\ m_currentNumber' \in Numbers \cup {NoNumber} /\ retryTimer' \in BOOLEAN
        /\ ClearContent
    BY <1>3 DEF ServerStateChanged, TabTypeOK
  <2> QED
    BY <1>1, <1>2, <2>1, <2>2, <2>3, <2>4, ClearType DEF TabTypeOK
<1>4. CASE CurrentTabChanged
  <2>1. loads' \in 0..MaxLoads
    BY <1>4, LoadLaterType DEF CurrentTabChanged
  <2> QED
    BY <1>1, <1>2, <1>4, <2>1 DEF CurrentTabChanged, TabTypeOK
<1>5. CASE UNCHANGED tabVars
  BY <1>1, <1>2, <1>5 DEF tabVars, TabTypeOK
<1> QED
  BY <1>3, <1>4, <1>5 DEF AppChanges

(* An answer leaves the queue, and its handler keeps the types. *)
LEMMA AnswerType ==
  ASSUME TypeOK, NEW i \in 1..MaxAsked, Answer(i)
  PROVE  TypeOK'
<1> USE TypeOKSplit
<1>1. i \in 1..Len(asked) /\ asked \in Seq(Requests) /\ Len(asked) \in Nat
  BY DEF Answer, PhoneTypeOK
<1>2. AppTypeOK' /\ keyboard' = keyboard
  BY DEF Answer, appVars, AppTypeOK
<1>3. PhoneTypeOK'
  <2>1. asked' \in Seq(Requests) /\ Len(asked') = Len(asked) - 1
    BY <1>1, RemoveAtProperties DEF Answer
  <2>2. tangled' \in BOOLEAN
    BY DEF Answer
  <2> QED
    BY <1>1, <1>2, <2>1, <2>2, PagesType DEF PhoneTypeOK
<1>4. PICK r \in Requests : r = asked[i]
  BY <1>1, ElementOfSeq
<1>5. TabTypeOK'
  BY <1>4, RequestKinds, SMSListType, SMSFromListType, SMSSentType DEF Answer
<1> QED
  BY <1>2, <1>3, <1>5

(* Reload drops the content and has it loaded. *)
LEMMA ReloadType ==
  ASSUME TypeOK, NEW number \in Numbers \cup {NoNumber}, Reload(number)
  PROVE  TypeOK'
<1> USE TypeOKSplit
<1>1. AppTypeOK' /\ PhoneTypeOK'
  BY DEF Reload, appVars, phoneVars, AppTypeOK, PhoneTypeOK
<1>2. /\ ClearContent /\ m_currentNumber' = number
      /\ UNCHANGED <<m_featureEnabled, retryTimer>>
  BY DEF Reload
<1>3. shown' \in {"stopped", "started", "disabled", "loading", "empty", "list", "thread"}
  BY LayoutType DEF Reload, UpdateLayout
<1>4. loads' \in 0..MaxLoads
  BY LoadLaterType DEF Reload
<1> QED
  BY <1>1, <1>2, <1>3, <1>4, ClearType DEF TabTypeOK

(* The types are kept by every step. *)
LEMMA NextType == TypeOK /\ [Next]_vars => TypeOK'
<1> SUFFICES ASSUME TypeOK, [Next]_vars PROVE TypeOK'
  OBVIOUS
<1> USE TypeOKSplit
<1>1. CASE AppChanges
  BY <1>1, AppChangesType
<1>2. CASE LoadTimer \/ RetryTimer
  <2>1. AppTypeOK' /\ keyboard' = keyboard /\ tangled' \in BOOLEAN
    BY <1>2 DEF LoadTimer, RetryTimer, LoadContent, appVars, AppTypeOK, PhoneTypeOK, phoneVars
  <2>2. PhoneTypeOK'
    <3>1. CASE asked' = asked
      BY <2>1, <3>1 DEF PhoneTypeOK
    <3>2. CASE Ask(LoadRequest)
      <4>1. LoadRequest \in Requests
        BY RequestsType, PagesType DEF LoadRequest, TabTypeOK
      <4>2. keyboard' \in Numbers \cup {NoNumber}
        BY <2>1 DEF PhoneTypeOK
      <4> QED
        BY <2>1, <3>2, <4>1, <4>2, AskType
    <3> QED
      BY <1>2, <3>1, <3>2 DEF LoadTimer, RetryTimer, LoadContent, phoneVars
  <2>3. retryTimer' \in BOOLEAN
    BY <1>2 DEF LoadTimer, RetryTimer, LoadContent, Loadable
  <2>4. loads' \in 0..MaxLoads
    <3>1. loads \in 0..MaxLoads /\ MaxLoads \in Nat
      BY PagesType DEF TabTypeOK
    <3> QED
      BY <1>2, <3>1 DEF LoadTimer, RetryTimer
  <2> QED
    BY <1>2, <2>1, <2>2, <2>3, <2>4 DEF LoadTimer, RetryTimer, LoadContent, TabTypeOK
<1>3. CASE (\E number \in Numbers : OpenThread(number)) \/ Back \/ Refresh
  <2>1. PICK number \in Numbers \cup {NoNumber} : Reload(number)
    BY <1>3 DEF OpenThread, Back, Refresh, TabTypeOK
  <2> QED
    BY <2>1, ReloadType
<1>4. CASE LoadMore
  <2>1. [type |-> "from", number |-> m_currentNumber, page |-> m_nextPage] \in Requests
    BY <1>4, RequestsType DEF LoadMore, TabTypeOK
  <2>2. keyboard' \in Numbers \cup {NoNumber} /\ tangled' \in BOOLEAN
    BY <1>4 DEF LoadMore, PhoneTypeOK
  <2>3. PhoneTypeOK'
    BY <1>4, <2>1, <2>2, AskType DEF LoadMore
  <2> QED
    BY <1>4, <2>3 DEF LoadMore, appVars, tabVars, AppTypeOK, TabTypeOK
<1>5. CASE OpenKeyboard
  BY <1>5 DEF OpenKeyboard, appVars, tabVars, phoneVars, AppTypeOK, TabTypeOK, PhoneTypeOK
<1>6. CASE KeyboardDone
  <2>1. input' \in Numbers \cup {NoNumber}
    BY <1>6 DEF KeyboardDone, Taken, TabTypeOK, PhoneTypeOK
  <2> QED
    BY <1>6, <2>1 DEF KeyboardDone, appVars, phoneVars, AppTypeOK, TabTypeOK, PhoneTypeOK
<1>7. CASE Send
  <2>1. [type |-> "send", number |-> m_currentNumber, text |-> input] \in Requests
    BY <1>7, RequestsType DEF Send, TabTypeOK
  <2>2. keyboard' \in Numbers \cup {NoNumber} /\ tangled' \in BOOLEAN
    BY <1>7 DEF Send, PhoneTypeOK
  <2>3. PhoneTypeOK'
    BY <1>7, <2>1, <2>2, AskType DEF Send
  <2>4. input' \in Numbers \cup {NoNumber}
    BY <1>7 DEF Send
  <2> QED
    BY <1>7, <2>3, <2>4 DEF Send, appVars, AppTypeOK, TabTypeOK
<1>8. ASSUME NEW i \in 1..MaxAsked, Answer(i) PROVE TypeOK'
  BY <1>8, AnswerType
<1>9. CASE UNCHANGED vars
  BY <1>9 DEF vars, appVars, tabVars, phoneVars, TabTypeOK, PhoneTypeOK, AppTypeOK
<1> QED
  BY <1>1, <1>2, <1>3, <1>4, <1>5, <1>6, <1>7, <1>8, <1>9 DEF Next

(* Every reachable state is made of values of the right kind; the requests and the *)
(* pending timers stay within their bounds.                                        *)
THEOREM TypesAreKept == Spec => []TypeOK
<1>1. Init => TypeOK
  <2> SUFFICES ASSUME Init PROVE TypeOK
    OBVIOUS
  <2>1. pages \in Seq(PageRecords) /\ asked \in Seq(Requests) /\ Len(asked) = 0
    BY EmptySeq DEF Init
  <2>2. AppTypeOK
    BY DEF Init, AppInit, AppTypeOK, ServerStates, Tabs
  <2>3. TabTypeOK
    <3>1. m_featureEnabled \in BOOLEAN /\ m_contentLoaded \in BOOLEAN /\ m_contentEmpty \in BOOLEAN
      BY DEF Init
    <3>2. retryTimer \in BOOLEAN
      BY DEF Init
    <3>3. loads \in 0..MaxLoads /\ m_nextPage \in Pages
      BY PagesType DEF Init
    <3>4. shown \in {"stopped", "started", "disabled", "loading", "empty", "list", "thread"}
      BY DEF Init
    <3>5. m_currentNumber \in Numbers \cup {NoNumber} /\ input \in Numbers \cup {NoNumber}
      BY DEF Init
    <3> QED
      BY <2>1, <3>1, <3>2, <3>3, <3>4, <3>5 DEF TabTypeOK
  <2>4. PhoneTypeOK
    <3>1. keyboard \in Numbers \cup {NoNumber}
      BY DEF Init
    <3>2. tangled \in BOOLEAN
      BY DEF Init
    <3> QED
      BY <2>1, <3>1, <3>2, PagesType DEF PhoneTypeOK
  <2> QED
    BY <2>2, <2>3, <2>4, TypeOKSplit
<1>2. TypeOK /\ [Next]_vars => TypeOK'
  BY NextType
<1> QED
  BY <1>1, <1>2, PTL DEF Spec

-----------------------------------------------------------------------------
(* The pages shown, step by step.  Only an answer adds one, and only the one that is due. *)
LEMMA NextPages == TypeOK /\ PagesContiguous /\ [Next]_vars => PagesContiguous'
<1> SUFFICES ASSUME TypeOK, PagesContiguous, [Next]_vars PROVE PagesContiguous'
  OBVIOUS
<1>0. /\ pages \in Seq(PageRecords) /\ m_nextPage \in Pages /\ TabTypeOK
      /\ Len(pages) \in Nat /\ DOMAIN pages = 1..Len(pages)
  BY TypeOKSplit, LenProperties DEF TabTypeOK
<1>1. CASE UNCHANGED <<pages, m_nextPage>>
  BY <1>1 DEF PagesContiguous
<1>2. CASE pages' = <<>> /\ m_nextPage' = 0
  BY <1>2, EmptySeq DEF PagesContiguous
<1>3. ASSUME NEW number \in Numbers, NEW page \in Pages, NEW full \in BOOLEAN,
             SMSFromList(number, page, full), Fits(page)
      PROVE  PagesContiguous'
  <2> DEFINE rec == [number |-> number, page |-> page]
  <2>1. PICK base \in {<<>>, pages} :
          /\ base = IF page = 0 THEN <<>> ELSE pages
          /\ base \in Seq(PageRecords)
          /\ pages' = IF full THEN Append(base, rec) ELSE base
    BY <1>0, <1>3, PagesGrow
  <2>2. /\ Len(base) = page
        /\ \A i \in DOMAIN base : base[i].page = i - 1
    <3>1. CASE page = 0
      <4>1. base = <<>>
        BY <2>1, <3>1
      <4> QED
        BY <3>1, <4>1, EmptySeq
    <3>2. CASE page # 0
      BY <1>0, <1>3, <2>1, <3>2 DEF Fits, PagesContiguous
    <3> QED
      BY <3>1, <3>2
  <2>3. m_nextPage' = NextPage(page, full)
    BY <1>3 DEF SMSFromList
  <2>4. CASE full
    <3>1. rec \in PageRecords
      BY DEF PageRecords
    <3>2. /\ Len(pages') = page + 1
          /\ DOMAIN pages' = DOMAIN base \cup {page + 1}
          /\ \A i \in DOMAIN base : pages'[i] = base[i]
          /\ pages'[page + 1] = rec
      BY <2>1, <2>2, <2>4, <3>1, JoinsQueue
    <3>3. (page + 1) - 1 = page
      BY PagesType
    <3>4. \A i \in DOMAIN pages' : pages'[i].page = i - 1
      BY <2>2, <3>2, <3>3
    <3> QED
      BY <2>3, <2>4, <3>2, <3>4 DEF PagesContiguous, NextPage
  <2>5. CASE ~full
    BY <2>1, <2>2, <2>3, <2>5 DEF PagesContiguous, NextPage
  <2> QED
    BY <2>4, <2>5
<1>4. ASSUME NEW i \in 1..MaxAsked, Answer(i) PROVE PagesContiguous'
  <2>1. PICK r \in Requests : r = asked[i]
    BY <1>4, ElementOfSeq DEF Answer, TypeOK
  <2>2. ASSUME NEW good \in BOOLEAN, SMSList(good) PROVE PagesContiguous'
    BY <1>1, <1>2, <2>2 DEF SMSList, Dropped
  <2>3. ASSUME NEW good \in BOOLEAN, NEW number, SMSSent(number, good) PROVE PagesContiguous'
    BY <1>1, <1>2, <2>3 DEF SMSSent, ClearContent, tabVars
  <2>4. ASSUME NEW good \in BOOLEAN, NEW number \in Numbers, NEW page \in Pages,
               SMSFromList(number, page, good)
        PROVE  PagesContiguous'
    BY <1>1, <1>3, <2>4 DEF SMSFromList, Dropped
  <2> QED
    BY <1>4, <2>1, <2>2, <2>3, <2>4, RequestKinds DEF Answer
<1>5. CASE AppChanges
  BY <1>1, <1>2, <1>5
     DEF AppChanges, ServerStateChanged, CurrentTabChanged, ClearContent, tabVars
<1> QED
  BY <1>1, <1>2, <1>4, <1>5
     DEF Next, LoadTimer, RetryTimer, LoadContent, OpenThread, Back, Refresh, Reload,
         ClearContent, LoadMore, OpenKeyboard, KeyboardDone, Send, vars, tabVars

(* However often load-more is pressed and in whatever order answers come: the pages shown *)
(* are the first ones of the thread, each once, and the next is the one after them.        *)
THEOREM PagesAreContiguous == Spec => []PagesContiguous
<1>1. Init => PagesContiguous
  BY EmptySeq DEF Init, PagesContiguous
<1>2. TypeOK /\ PagesContiguous /\ [Next]_vars => PagesContiguous'
  BY NextPages
<1> QED
  BY <1>1, <1>2, TypesAreKept, PTL DEF Spec

-----------------------------------------------------------------------------
(* What is visible, step by step: UpdateLayout is called wherever one of the five things *)
(* it looks at changes, and where it is not called none of them does.                    *)
LEMMA NextLayout == TypeOK /\ LayoutIsCurrent /\ [Next]_vars => LayoutIsCurrent'
<1> SUFFICES ASSUME TypeOK, LayoutIsCurrent, [Next]_vars PROVE LayoutIsCurrent'
  OBVIOUS
<1>1. CASE UpdateLayout
  BY <1>1 DEF UpdateLayout, LayoutIsCurrent
<1>2. CASE UNCHANGED <<m_serverState, m_featureEnabled, m_contentLoaded, m_contentEmpty,
                       m_currentNumber, shown>>
  BY <1>2 DEF LayoutIsCurrent
<1>3. CASE AppChanges
  <2>1. m_serverState' # m_serverState => m_currentTab' = m_currentTab
    BY <1>3, AppMoves DEF AppChanges, TypeOK
  <2> QED
    BY <1>1, <1>2, <1>3, <2>1
       DEF AppChanges, ServerStateChanged, CurrentTabChanged, tabVars
<1>4. ASSUME NEW i \in 1..MaxAsked, Answer(i) PROVE LayoutIsCurrent'
  <2>1. m_serverState' = m_serverState
    BY <1>4 DEF Answer, appVars
  <2>2. ASSUME NEW good, SMSList(good) PROVE LayoutIsCurrent'
    BY <1>1, <1>2, <2>1, <2>2 DEF SMSList, Dropped
  <2>3. ASSUME NEW good, NEW number, SMSSent(number, good) PROVE LayoutIsCurrent'
    BY <1>1, <1>2, <2>1, <2>3 DEF SMSSent, tabVars
  <2>4. ASSUME NEW good, NEW number, NEW page, SMSFromList(number, page, good)
        PROVE  LayoutIsCurrent'
    BY <1>1, <1>2, <2>1, <2>4 DEF SMSFromList, Dropped
  <2> QED
    BY <1>4, <2>2, <2>3, <2>4 DEF Answer
<1> QED
  BY <1>1, <1>2, <1>3, <1>4
     DEF Next, LoadTimer, RetryTimer, LoadContent, OpenThread, Back, Refresh, Reload,
         LoadMore, OpenKeyboard, KeyboardDone, Send, vars, appVars, tabVars

(* What the tab shows is at any time what its state calls for. *)
THEOREM LayoutIsKeptCurrent == Spec => []LayoutIsCurrent
<1>1. Init => LayoutIsCurrent
  BY DEF Init, AppInit, LayoutIsCurrent, Layout
<1>2. TypeOK /\ LayoutIsCurrent /\ [Next]_vars => LayoutIsCurrent'
  BY NextLayout
<1> QED
  BY <1>1, <1>2, TypesAreKept, PTL DEF Spec

-----------------------------------------------------------------------------
(* A tab that is not loaded has no pages, no text and no next page. *)
UnloadedIsEmpty == ~m_contentLoaded => m_nextPage = 0 /\ pages = <<>> /\ input = NoNumber

(* UnloadedIsEmpty, step by step. *)
LEMMA NextUnloaded == TypeOK /\ UnloadedIsEmpty /\ [Next]_vars => UnloadedIsEmpty'
<1> SUFFICES ASSUME TypeOK, UnloadedIsEmpty, [Next]_vars PROVE UnloadedIsEmpty'
  OBVIOUS
<1>1. CASE UNCHANGED <<m_contentLoaded, m_nextPage, pages, input>>
  BY <1>1 DEF UnloadedIsEmpty
<1>2. CASE ClearContent
  BY <1>2 DEF ClearContent, UnloadedIsEmpty
<1>3. CASE m_contentLoaded'
  BY <1>3 DEF UnloadedIsEmpty
<1>4. ASSUME NEW i \in 1..MaxAsked, Answer(i) PROVE UnloadedIsEmpty'
  BY <1>1, <1>2, <1>3, <1>4 DEF Answer, SMSList, SMSFromList, SMSSent, Dropped, tabVars
<1>5. CASE KeyboardDone \/ Send
  BY <1>1, <1>3, <1>5 DEF KeyboardDone, Taken, Send
<1> QED
  BY <1>1, <1>2, <1>4, <1>5
     DEF Next, AppChanges, ServerStateChanged, CurrentTabChanged, LoadTimer, RetryTimer,
         LoadContent, OpenThread, Back, Refresh, Reload, LoadMore, OpenKeyboard, vars, tabVars

(* The invariant behind LoadUnderway leaves the retry timer out: a load is pending or   *)
(* asked for.  The answer that stops the timer is then the one that fills the tab, or    *)
(* leaves the request that will be answered later where it is.                           *)
LoadDue == Loadable /\ link = "open" => loads > 0 \/ LoadsAsked # {}

(* A step that leaves the tab waiting, and the requests and timers alone. *)
LEMMA LoadDueUntouched ==
  ASSUME LoadDue, UNCHANGED <<m_contentLoaded, m_currentTab, m_serverState, link, loads, asked>>
  PROVE  LoadDue'
BY DEF LoadDue, Loadable, LoadsAsked

(* A load among the requests stays there when another is answered. *)
LEMMA LoadStays ==
  ASSUME asked \in Seq(Requests), NEW i \in 1..Len(asked), asked' = RemoveAt(asked, i),
         ~IsLoad(asked[i]), LoadsAsked # {}
  PROVE  LoadsAsked' # {}
<1>1. PICK m \in DOMAIN asked : IsLoad(asked[m])
  BY DEF LoadsAsked
<1>2. m # i
  BY <1>1
<1>3. PICK j \in DOMAIN RemoveAt(asked, i) : RemoveAt(asked, i)[j] = asked[m]
  BY <1>2, RemoveAtKeeps
<1> QED
  BY <1>1, <1>3 DEF LoadsAsked

(* A request joins the others. *)
LEMMA AskAdds ==
  ASSUME asked \in Seq(Requests), NEW r \in Requests, Ask(r), link = "open"
  PROVE  /\ asked' = Append(asked, r) /\ asked' \in Seq(Requests)
         /\ Len(asked) \in Nat /\ DOMAIN asked = 1..Len(asked) /\ Len(asked') = Len(asked) + 1
         /\ DOMAIN asked' = DOMAIN asked \cup {Len(asked) + 1}
         /\ \A i \in DOMAIN asked : asked'[i] = asked[i]
         /\ asked'[Len(asked) + 1] = r
         /\ LoadsAsked' = LoadsAsked \cup (IF IsLoad(r) THEN {Len(asked) + 1} ELSE {})
<1>1. asked' = Append(asked, r)
  BY DEF Ask
<1>2. /\ asked' \in Seq(Requests)
      /\ Len(asked) \in Nat /\ DOMAIN asked = 1..Len(asked) /\ Len(asked') = Len(asked) + 1
      /\ DOMAIN asked' = DOMAIN asked \cup {Len(asked) + 1}
      /\ \A i \in DOMAIN asked : asked'[i] = asked[i]
      /\ asked'[Len(asked) + 1] = r
  BY <1>1, JoinsQueue
<1>3. LoadsAsked' = LoadsAsked \cup (IF IsLoad(r) THEN {Len(asked) + 1} ELSE {})
  BY <1>2 DEF LoadsAsked
<1> QED
  BY <1>1, <1>2, <1>3

(* What LoadContent asks for is a load. *)
LEMMA LoadRequestIsLoad ==
  ASSUME TypeOK
  PROVE  LoadRequest \in Requests /\ IsLoad(LoadRequest)
BY RequestsType, PagesType DEF LoadRequest, IsLoad, TypeOK

(* LoadDue, step by step. *)
LEMMA NextLoad == TypeOK /\ UnloadedIsEmpty /\ LoadDue /\ [Next]_vars => LoadDue'
<1> SUFFICES ASSUME TypeOK, UnloadedIsEmpty, LoadDue, [Next]_vars PROVE LoadDue'
  OBVIOUS
<1>0. /\ loads \in Nat /\ loads + 1 > 0
      /\ asked \in Seq(Requests) /\ Len(asked) \in Nat /\ DOMAIN asked = 1..Len(asked)
  BY PagesType, LenProperties DEF TypeOK
<1>1. CASE LoadLater
  BY <1>0, <1>1 DEF LoadLater, LoadDue
<1>2. CASE UNCHANGED <<m_contentLoaded, m_currentTab, m_serverState, link, loads, asked>>
  BY <1>2, LoadDueUntouched
<1>3. CASE AppChanges
  <2> SUFFICES ASSUME Loadable', link' = "open", ~LoadLater
               PROVE  loads' > 0 \/ LoadsAsked' # {}
    BY <1>1 DEF LoadDue
  <2>1. /\ m_serverState' # m_serverState => m_currentTab' = m_currentTab
        /\ link # "open" => m_serverState = "STARTED"
    BY <1>3, AppMoves DEF AppChanges, TypeOK
  <2>2. /\ m_serverState' = m_serverState /\ UNCHANGED <<m_contentLoaded, loads>>
        /\ m_currentTab = "SMS"
    BY <1>3, <2>1
       DEF AppChanges, ServerStateChanged, CurrentTabChanged, tabVars, Loadable
  <2>3. link = "open" /\ asked' = asked
    BY <1>3, <2>1, <2>2 DEF Loadable, AppChanges, ChannelFollows
  <2> QED
    BY <1>2, <2>2, <2>3 DEF LoadDue, Loadable, LoadsAsked
<1>4. CASE LoadTimer \/ RetryTimer
  <2> SUFFICES ASSUME Loadable', link' = "open" PROVE LoadsAsked' # {}
    BY DEF LoadDue
  <2>1. Loadable /\ link = "open"
    <3>1. UNCHANGED <<appVars, m_contentLoaded>>
      BY <1>4 DEF LoadTimer, RetryTimer, LoadContent
    <3> QED
      BY <3>1 DEF Loadable, appVars
  <2>2. Ask(LoadRequest)
    BY <1>4, <2>1 DEF LoadTimer, RetryTimer, LoadContent
  <2> QED
    BY <1>0, <2>1, <2>2, AskAdds, LoadRequestIsLoad
<1>5. ASSUME NEW i \in 1..MaxAsked, Answer(i) PROVE LoadDue'
  <2> SUFFICES ASSUME Loadable', link' = "open" PROVE loads' > 0 \/ LoadsAsked' # {}
    BY DEF LoadDue
  <2>1. /\ ~m_contentLoaded' /\ UNCHANGED appVars
        /\ i \in 1..Len(asked) /\ asked' = RemoveAt(asked, i)
    BY <1>0, <1>5 DEF Answer, Loadable
  <2>2. PICK r \in Requests : r = asked[i]
    BY <1>0, <2>1, ElementOfSeq
  <2>3. CASE m_contentLoaded
    <3>1. LoadLater
      BY <1>5, <2>1, <2>3 DEF Answer, SMSList, SMSFromList, SMSSent, Dropped, tabVars
    <3> QED
      BY <1>0, <3>1 DEF LoadLater
  <2>4. CASE ~m_contentLoaded
    <3>1. Loadable /\ link = "open"
      BY <2>1, <2>4 DEF Loadable, appVars
    <3>2. ~IsLoad(r) /\ loads' = loads
      <4>1. r.type # "list"
        BY <1>5, <2>1, <2>2, <2>4 DEF Answer, SMSList
      <4>2. r.type = "from" => ~Fits(r.page)
        BY <1>5, <2>1, <2>2, <2>4 DEF Answer, SMSFromList
      <4>3. loads' = loads
        BY <1>5, <2>1, <2>2, <2>4, <4>1, <4>2 DEF Answer, SMSFromList, SMSSent, Dropped, tabVars
      <4> QED
        BY <2>4, <4>1, <4>2, <4>3 DEF IsLoad, Fits
    <3>3. LoadsAsked # {} => LoadsAsked' # {}
      BY <1>0, <2>1, <2>2, <3>2, LoadStays
    <3> QED
      BY <3>1, <3>2, <3>3 DEF LoadDue
  <2> QED
    BY <2>3, <2>4
<1>6. CASE LoadMore \/ Send
  <2> SUFFICES ASSUME Loadable', link' = "open" PROVE FALSE
    BY DEF LoadDue
  <2> QED
    BY <1>6 DEF LoadMore, Send, Loadable, tabVars
<1>7. CASE (\E number \in Numbers : OpenThread(number)) \/ Back \/ Refresh
  BY <1>1, <1>7 DEF OpenThread, Back, Refresh, Reload
<1>8. CASE OpenKeyboard \/ KeyboardDone
  BY <1>2, <1>8 DEF OpenKeyboard, KeyboardDone, appVars, tabVars, phoneVars
<1>9. CASE UNCHANGED vars
  BY <1>2, <1>9 DEF vars, appVars, tabVars, phoneVars
<1> QED
  BY <1>3, <1>4, <1>5, <1>6, <1>7, <1>8, <1>9 DEF Next

(* While the tab waits for its content, a load is pending or asked for, whatever answers *)
(* to other requests stop the retry timer in between.                                     *)
THEOREM LoadIsUnderway == Spec => []LoadUnderway
<1>1. Init => UnloadedIsEmpty /\ LoadDue
  BY DEF Init, AppInit, UnloadedIsEmpty, LoadDue, Loadable
<1>2. TypeOK /\ UnloadedIsEmpty /\ LoadDue /\ [Next]_vars => (UnloadedIsEmpty /\ LoadDue)'
  BY NextUnloaded, NextLoad
<1>3. LoadDue => LoadUnderway
  BY DEF LoadDue, LoadUnderway
<1> QED
  BY <1>1, <1>2, <1>3, TypesAreKept, PTL DEF Spec

-----------------------------------------------------------------------------
(* The session and the tab: outside an announced session nothing is loaded, opened or asked *)
(* for, an announced session has its socket, and only an open one carries requests.           *)
SessionInv ==
  /\ m_serverState # "CONNECTED" => ~m_contentLoaded /\ m_currentNumber = NoNumber /\ asked = <<>>
  /\ m_serverState = "CONNECTED" => link # "none"
  /\ link # "open" => asked = <<>>

(* What can be clicked in a list or a thread is there only of a loaded tab. *)
LEMMA ShowsLoaded ==
  ASSUME TypeOK, LayoutIsCurrent, shown \in {"list", "thread"}
  PROVE  m_serverState = "CONNECTED" /\ m_contentLoaded
BY LayoutShows DEF LayoutIsCurrent, TypeOK, AppTypeOK

(* SessionInv under the signals of MainWidget. *)
LEMMA ChangesSession ==
  ASSUME TypeOK, SessionInv, AppChanges
  PROVE  SessionInv'
<1>1. /\ m_serverState' # m_serverState /\ m_serverState' # "CONNECTED"
           => link' = "none" \/ m_serverState = "STOPPED"
      /\ m_serverState' # m_serverState => m_currentTab' = m_currentTab
  BY AppMoves DEF AppChanges, TypeOK
<1>2. m_serverState' = "CONNECTED" => link' # "none"
  BY DEF SessionInv, AppChanges, AppNext, StartServer, StopServer, SessionGranted,
         SessionAnnounced, SessionCloses, SessionEnds, SwitchTab
<1>3. (link' # "open" => asked' = <<>>) /\ (asked' = asked \/ asked' = <<>>)
  BY DEF AppChanges, ChannelFollows
<1>4. \/ m_serverState' # m_serverState /\ ~m_contentLoaded' /\ m_currentNumber' = NoNumber
      \/ m_serverState' = m_serverState /\ UNCHANGED <<m_contentLoaded, m_currentNumber>>
  BY <1>1 DEF AppChanges, ServerStateChanged, ClearContent, CurrentTabChanged, tabVars
<1> QED
  BY <1>1, <1>2, <1>3, <1>4 DEF SessionInv

(* And under every step. *)
LEMMA NextSession == TypeOK /\ LayoutIsCurrent /\ SessionInv /\ [Next]_vars => SessionInv'
<1> SUFFICES ASSUME TypeOK, LayoutIsCurrent, SessionInv, [Next]_vars PROVE SessionInv'
  OBVIOUS
<1>1. CASE UNCHANGED <<m_contentLoaded, m_currentNumber, asked, link, m_serverState>>
  BY <1>1 DEF SessionInv
<1>2. CASE m_serverState = "CONNECTED" /\ UNCHANGED appVars /\ (link # "open" => asked' = asked)
  BY <1>2 DEF SessionInv, appVars
<1>3. CASE AppChanges
  BY <1>3, ChangesSession
<1>4. CASE LoadTimer \/ RetryTimer
  BY <1>1, <1>2, <1>4 DEF LoadTimer, RetryTimer, LoadContent, Loadable, Ask, appVars, phoneVars
<1>5. CASE (\E number \in Numbers : OpenThread(number)) \/ Back \/ Refresh \/ LoadMore \/ Send
  <2>1. m_serverState = "CONNECTED"
    BY <1>5, ShowsLoaded DEF OpenThread, Back, Refresh, LoadMore, Send
  <2>2. UNCHANGED appVars /\ (link # "open" => asked' = asked)
    BY <1>5 DEF OpenThread, Back, Refresh, Reload, LoadMore, Send, Ask, phoneVars
  <2> QED
    BY <1>2, <2>1, <2>2
<1>6. CASE OpenKeyboard \/ KeyboardDone
  BY <1>1, <1>6 DEF OpenKeyboard, KeyboardDone, appVars, tabVars, phoneVars
<1>7. ASSUME NEW i \in 1..MaxAsked, Answer(i) PROVE SessionInv'
  <2>1. asked # <<>> /\ UNCHANGED appVars
    BY <1>7, EmptySeq DEF Answer
  <2> QED
    BY <1>2, <2>1 DEF SessionInv
<1>8. CASE UNCHANGED vars
  BY <1>1, <1>8 DEF vars, appVars, tabVars, phoneVars
<1> QED
  BY <1>3, <1>4, <1>5, <1>6, <1>7, <1>8 DEF Next

(* The invariant behind ThreadUnmixed.  As long as loads and answers come one after the other, *)
(* a load asked for is the last request and the tab waits for it, so what is shown or opened    *)
(* since belongs to no other; load-more asks for the thread shown; and the thread the keyboard   *)
(* was opened for is still the one shown or asked for, unless the user is back at the list.      *)
OneLoad == \A i \in LoadsAsked : i = Len(asked) /\ ~m_contentLoaded
MoreOfThread ==
  m_contentLoaded
    => \A i \in DOMAIN asked : asked[i].type = "from" => asked[i].number = m_currentNumber
KeyboardOfThread ==
  keyboard # NoNumber
    => /\ m_currentNumber \in {keyboard, NoNumber}
       /\ \A i \in LoadsAsked : asked[i].type = "from" => asked[i].number = keyboard
ShownOfThread ==
  /\ \A i \in DOMAIN pages : pages[i].number = m_currentNumber
  /\ input \in {NoNumber, m_currentNumber}
SentAsTyped ==
  \A i \in DOMAIN asked : asked[i].type = "send" => asked[i].number = asked[i].text
ThreadInv == OneLoad /\ MoreOfThread /\ KeyboardOfThread /\ ShownOfThread /\ SentAsTyped
Untangled == ~tangled => ThreadInv

(* The signals of MainWidget. *)
LEMMA ChangesThread ==
  ASSUME TypeOK, UnloadedIsEmpty, UnloadedIsEmpty', SessionInv, SessionInv', Untangled, AppChanges
  PROVE  Untangled'
<1> SUFFICES ASSUME ~tangled' PROVE ThreadInv'
  BY DEF Untangled
<1>1. CASE m_serverState' # "CONNECTED"
  <2>1. asked' = <<>> /\ m_currentNumber' = NoNumber /\ ~m_contentLoaded'
    BY <1>1 DEF SessionInv
  <2>2. DOMAIN asked' = {} /\ LoadsAsked' = {} /\ DOMAIN pages' = {} /\ input' = NoNumber
    BY <2>1, EmptySeq DEF LoadsAsked, UnloadedIsEmpty
  <2> QED
    BY <2>1, <2>2
       DEF ThreadInv, OneLoad, MoreOfThread, KeyboardOfThread, ShownOfThread, SentAsTyped
<1>2. CASE m_serverState' = "CONNECTED"
  <2>1. link' # "none" /\ ~tangled
    BY <1>2 DEF SessionInv, AppChanges, ChannelFollows
  <2>2. ThreadInv
    BY <2>1 DEF Untangled
  <2>3. CASE m_serverState' = m_serverState
    <3>1. UNCHANGED <<m_contentLoaded, m_currentNumber, pages, input, keyboard>>
      BY <2>3 DEF AppChanges, ServerStateChanged, CurrentTabChanged, tabVars
    <3>2. CASE asked' = asked
      BY <2>2, <3>1, <3>2 DEF ThreadInv, OneLoad, MoreOfThread, KeyboardOfThread, ShownOfThread,
                              SentAsTyped, LoadsAsked
    <3>3. CASE asked' = <<>>
      <4>1. DOMAIN asked' = {} /\ LoadsAsked' = {}
        BY <3>3, EmptySeq DEF LoadsAsked
      <4> QED
        BY <2>2, <3>1, <4>1 DEF ThreadInv, OneLoad, MoreOfThread, KeyboardOfThread, ShownOfThread,
                                SentAsTyped
    <3> QED
      BY <3>2, <3>3 DEF AppChanges, ChannelFollows
  <2>4. CASE m_serverState' # m_serverState
    <3>1. m_serverState # "CONNECTED" /\ asked = <<>>
      BY <1>2, <2>4 DEF SessionInv
    <3>2. ~m_contentLoaded' /\ m_currentNumber' = NoNumber /\ asked' = <<>>
      <4>1. m_currentTab' = m_currentTab
        BY <2>4, AppMoves DEF AppChanges, TypeOK
      <4> QED
        BY <2>4, <3>1, <4>1 DEF AppChanges, ServerStateChanged, ClearContent, CurrentTabChanged,
                                ChannelFollows
    <3>3. DOMAIN asked' = {} /\ LoadsAsked' = {} /\ DOMAIN pages' = {} /\ input' = NoNumber
      BY <3>2, EmptySeq DEF LoadsAsked, UnloadedIsEmpty
    <3> QED
      BY <3>2, <3>3
         DEF ThreadInv, OneLoad, MoreOfThread, KeyboardOfThread, ShownOfThread, SentAsTyped
  <2> QED
    BY <2>3, <2>4
<1> QED
  BY <1>1, <1>2

(* A load is asked for: until it is answered it is the only one. *)
LEMMA LoadThread ==
  ASSUME TypeOK, Untangled, SessionInv, LoadTimer \/ RetryTimer
  PROVE  Untangled'
<1> SUFFICES ASSUME ~tangled' PROVE ThreadInv'
  BY DEF Untangled
<1>0. UNCHANGED <<m_contentLoaded, m_currentNumber, pages, input, keyboard>>
  BY DEF LoadTimer, RetryTimer, LoadContent
<1>1. CASE asked' = asked
  <2>1. ~tangled
    BY DEF LoadTimer, RetryTimer, LoadContent, phoneVars
  <2> QED
    BY <1>0, <1>1, <2>1 DEF Untangled, ThreadInv, OneLoad, MoreOfThread, KeyboardOfThread,
                            ShownOfThread, SentAsTyped, LoadsAsked
<1>2. CASE Loadable /\ Ask(LoadRequest) /\ link = "open"
  <2>1. ~tangled /\ LoadsAsked = {} /\ ~m_contentLoaded
    BY <1>2 DEF LoadTimer, RetryTimer, LoadContent, Loadable
  <2>2. ThreadInv
    BY <2>1 DEF Untangled
  <2>3. /\ asked \in Seq(Requests) /\ LoadRequest \in Requests /\ IsLoad(LoadRequest)
    BY LoadRequestIsLoad DEF TypeOK
  <2>4. /\ Len(asked') = Len(asked) + 1
        /\ DOMAIN asked' = DOMAIN asked \cup {Len(asked) + 1}
        /\ \A i \in DOMAIN asked : asked'[i] = asked[i]
        /\ asked'[Len(asked) + 1] = LoadRequest
        /\ LoadsAsked' = {Len(asked) + 1}
    BY <1>2, <2>1, <2>3, AskAdds
  <2>5. OneLoad' /\ MoreOfThread' /\ ShownOfThread'
    BY <1>0, <2>1, <2>2, <2>4 DEF ThreadInv, OneLoad, MoreOfThread, ShownOfThread
  <2>6. KeyboardOfThread'
    BY <1>0, <2>2, <2>4 DEF ThreadInv, KeyboardOfThread, LoadRequest
  <2>7. SentAsTyped'
    <3>1. LoadRequest.type # "send"
      BY DEF LoadRequest
    <3> QED
      BY <2>2, <2>4, <3>1 DEF ThreadInv, SentAsTyped
  <2> QED
    BY <2>5, <2>6, <2>7 DEF ThreadInv
<1> QED
  BY <1>1, <1>2 DEF LoadTimer, RetryTimer, LoadContent, Ask, phoneVars

(* What the user does in a list or a thread.  It is loaded, so no load is asked for. *)
LEMMA ClickThread ==
  ASSUME TypeOK, LayoutIsCurrent, SessionInv, Untangled,
         \/ (\E number \in Numbers : OpenThread(number)) \/ Back \/ Refresh
         \/ LoadMore \/ OpenKeyboard \/ Send
  PROVE  Untangled'
<1> SUFFICES ASSUME ~tangled' PROVE ThreadInv'
  BY DEF Untangled
<1>1. ThreadInv
  BY DEF OpenThread, Back, Refresh, Reload, LoadMore, OpenKeyboard, Send, phoneVars, Untangled
<1>2. keyboard = NoNumber /\ m_contentLoaded
  BY ShowsLoaded DEF OpenThread, Back, Refresh, LoadMore, OpenKeyboard, Send, Clicks
<1>3. LoadsAsked = {}
  BY <1>1, <1>2 DEF ThreadInv, OneLoad
<1>4. CASE (\E number \in Numbers : OpenThread(number)) \/ Back \/ Refresh
  <2>1. /\ asked' = asked /\ keyboard' = keyboard
        /\ ~m_contentLoaded' /\ pages' = <<>> /\ input' = NoNumber
    BY <1>4 DEF OpenThread, Back, Refresh, Reload, ClearContent, phoneVars
  <2>2. LoadsAsked' = {} /\ DOMAIN pages' = {}
    BY <1>3, <2>1, EmptySeq DEF LoadsAsked
  <2> QED
    BY <1>1, <1>2, <2>1, <2>2 DEF ThreadInv, OneLoad, MoreOfThread, KeyboardOfThread,
                                  ShownOfThread, SentAsTyped
<1>5. CASE OpenKeyboard
  <2>1. UNCHANGED <<asked, m_contentLoaded, m_currentNumber, pages, input>>
    BY <1>5 DEF OpenKeyboard, tabVars, phoneVars
  <2>2. LoadsAsked' = {} /\ keyboard' = m_currentNumber
    BY <1>3, <1>5, <2>1 DEF LoadsAsked, OpenKeyboard
  <2> QED
    BY <1>1, <2>1, <2>2 DEF ThreadInv, OneLoad, MoreOfThread, KeyboardOfThread,
                            ShownOfThread, SentAsTyped
<1>6. CASE LoadMore \/ Send
  <2>1. /\ UNCHANGED <<m_contentLoaded, m_currentNumber, pages, keyboard>>
        /\ input' \in {NoNumber, input}
    BY <1>6 DEF LoadMore, Send, tabVars
  <2>2. PICK r \in Requests :
          /\ Ask(r)
          /\ \/ r.type = "from" /\ r.number = m_currentNumber /\ r.page > 0
             \/ r.type = "send" /\ r.number = m_currentNumber /\ r.text = input /\ input # NoNumber
    BY <1>6, RequestsType DEF LoadMore, Send, TypeOK
  <2>3. ~IsLoad(r)
    BY <2>2 DEF IsLoad
  <2>4. r.type = "send" => r.number = r.text
    BY <1>1, <2>2 DEF ThreadInv, ShownOfThread
  <2>5. CASE asked' = asked
    <3>1. LoadsAsked' = {}
      BY <1>3, <2>5 DEF LoadsAsked
    <3> QED
      BY <1>1, <1>2, <2>1, <2>5, <3>1 DEF ThreadInv, OneLoad, MoreOfThread, KeyboardOfThread,
                                          ShownOfThread, SentAsTyped
  <2>6. CASE link = "open"
    <3>1. asked \in Seq(Requests)
      BY DEF TypeOK
    <3>2. /\ DOMAIN asked' = DOMAIN asked \cup {Len(asked) + 1}
          /\ \A i \in DOMAIN asked : asked'[i] = asked[i]
          /\ asked'[Len(asked) + 1] = r
          /\ LoadsAsked' = {}
      BY <1>3, <2>2, <2>3, <2>6, <3>1, AskAdds
    <3> QED
      BY <1>1, <1>2, <2>1, <2>2, <2>4, <3>2
         DEF ThreadInv, OneLoad, MoreOfThread, KeyboardOfThread, ShownOfThread, SentAsTyped
  <2> QED
    BY <2>2, <2>5, <2>6 DEF Ask
<1> QED
  BY <1>4, <1>5, <1>6

(* The text comes from the keyboard into the thread it was opened for, or nowhere. *)
LEMMA TypedThread ==
  ASSUME TypeOK, Untangled, KeyboardDone
  PROVE  Untangled'
<1> SUFFICES ASSUME ~tangled' PROVE ThreadInv'
  BY DEF Untangled
<1>1. UNCHANGED <<asked, tangled, m_contentLoaded, m_currentNumber, pages>> /\ keyboard' = NoNumber
  BY DEF KeyboardDone, phoneVars
<1>2. ThreadInv
  BY <1>1 DEF Untangled
<1>3. input' \in {NoNumber, m_currentNumber}
  BY <1>2 DEF KeyboardDone, Taken, ThreadInv, KeyboardOfThread, ShownOfThread
<1> QED
  BY <1>1, <1>2, <1>3 DEF ThreadInv, OneLoad, MoreOfThread, KeyboardOfThread, ShownOfThread,
                          SentAsTyped, LoadsAsked

(* The pages of an answer are of its thread, and so are those before it: there are none, *)
(* or the thread shown is the answer's.                                                   *)
LEMMA PagesOfThread ==
  ASSUME TypeOK, ThreadInv, NEW number \in Numbers, NEW page \in Pages, NEW full \in BOOLEAN,
         SMSFromList(number, page, full), Fits(page),
         page # 0 => number = m_currentNumber
  PROVE  ShownOfThread'
<1> DEFINE rec == [number |-> number, page |-> page]
<1>1. PICK base \in {<<>>, pages} :
        /\ base = IF page = 0 THEN <<>> ELSE pages
        /\ base \in Seq(PageRecords)
        /\ pages' = IF full THEN Append(base, rec) ELSE base
  BY PagesGrow, TypeOKSplit
<1>2. \A i \in DOMAIN base : base[i].number = number
  BY <1>1, EmptySeq DEF ThreadInv, ShownOfThread
<1>3. \A i \in DOMAIN pages' : pages'[i].number = number
  <2>1. CASE full
    <3>1. rec \in PageRecords
      BY DEF PageRecords
    <3> QED
      BY <1>1, <1>2, <2>1, <3>1, JoinsQueue
  <2>2. CASE ~full
    BY <1>1, <1>2, <2>2
  <2> QED
    BY <2>1, <2>2
<1>4. m_currentNumber' = number /\ input' \in {NoNumber, number}
  BY DEF SMSFromList, Fits, ThreadInv, ShownOfThread
<1> QED
  BY <1>3, <1>4 DEF ShownOfThread

(* What the handler of an answer makes of the thread: a first page and the list decide what is  *)
(* shown, a later page is added to its own thread, and what was sent changes no thread but to     *)
(* drop it.                                                                                       *)
LEMMA HandledThread ==
  ASSUME TypeOK, UnloadedIsEmpty, ThreadInv, NEW i \in 1..MaxAsked, Answer(i),
         NEW r \in Requests, i \in DOMAIN asked, r = asked[i]
  PROVE  /\ ShownOfThread'
         /\ IsLoad(r) /\ r.type = "list" => m_currentNumber' = NoNumber
         /\ IsLoad(r) /\ r.type = "from" => m_currentNumber' = r.number
         /\ ~IsLoad(r) => /\ m_currentNumber' = m_currentNumber
                          /\ m_contentLoaded' => m_contentLoaded
<1>1. ~IsLoad(r) => r.type \in {"from", "send"}
  BY RequestKinds DEF IsLoad
<1>2. IsLoad(r) => ~m_contentLoaded
  BY DEF ThreadInv, OneLoad, LoadsAsked
<1>3. CASE r.type = "list"
  <2>1. ~m_contentLoaded /\ IsLoad(r)
    BY <1>2, <1>3 DEF IsLoad
  <2>2. pages' = <<>> /\ input' = NoNumber /\ m_currentNumber' = NoNumber
    BY <1>3, <2>1 DEF Answer, SMSList
  <2> QED
    BY <1>3, <2>1, <2>2, EmptySeq DEF ShownOfThread
<1>4. CASE r.type = "from"
  <2>0. r.number \in Numbers /\ r.page \in Pages
    BY <1>4, RequestKinds
  <2>1. PICK good \in BOOLEAN : SMSFromList(r.number, r.page, good)
    BY <1>4 DEF Answer
  <2>2. CASE Fits(r.page)
    <3>1. r.page # 0 => m_contentLoaded /\ r.number = m_currentNumber
      BY <1>4, <2>2 DEF Fits, UnloadedIsEmpty, ThreadInv, MoreOfThread
    <3>2. ShownOfThread'
      BY <2>0, <2>1, <2>2, <3>1, PagesOfThread
    <3>3. m_currentNumber' = r.number
      BY <2>1, <2>2 DEF SMSFromList
    <3> QED
      BY <1>4, <3>1, <3>2, <3>3 DEF IsLoad
  <2>3. CASE ~Fits(r.page)
    <3>1. UNCHANGED <<m_currentNumber, m_contentLoaded, pages, input>>
      BY <2>1, <2>3 DEF SMSFromList, Dropped
    <3>2. ~IsLoad(r)
      BY <1>2, <1>4, <2>3 DEF IsLoad, Fits
    <3> QED
      BY <3>1, <3>2 DEF ThreadInv, ShownOfThread
  <2> QED
    BY <2>2, <2>3
<1>5. CASE r.type = "send"
  <2>1. PICK good \in BOOLEAN : SMSSent(r.number, good)
    BY <1>5 DEF Answer
  <2>2. \/ UNCHANGED <<m_currentNumber, m_contentLoaded, pages, input>>
        \/ /\ m_currentNumber' = m_currentNumber /\ ~m_contentLoaded'
           /\ pages' = <<>> /\ input' = NoNumber
    BY <2>1 DEF SMSSent, ClearContent, tabVars
  <2>3. ~IsLoad(r)
    BY <1>5 DEF IsLoad
  <2> QED
    BY <2>2, <2>3, EmptySeq DEF ThreadInv, ShownOfThread
<1> QED
  BY <1>3, <1>4, <1>5, RequestKinds

(* An answer that overtakes no other. *)
LEMMA AnswerThread ==
  ASSUME TypeOK, UnloadedIsEmpty, Untangled, NEW i \in 1..MaxAsked, Answer(i)
  PROVE  Untangled'
<1> SUFFICES ASSUME ~tangled' PROVE ThreadInv'
  BY DEF Untangled
<1>0. i = 1 /\ ~tangled /\ i \in DOMAIN asked /\ asked' = RemoveAt(asked, 1) /\ keyboard' = keyboard
  BY DEF Answer
<1>1. ThreadInv
  BY <1>0 DEF Untangled
<1>2. asked \in Seq(Requests) /\ 1 \in 1..Len(asked) /\ Len(asked) \in Nat
  BY <1>0 DEF TypeOK
<1>3. /\ Len(asked') = Len(asked) - 1 /\ DOMAIN asked' = 1..(Len(asked) - 1)
      /\ \A j \in DOMAIN asked' : j + 1 \in DOMAIN asked /\ asked'[j] = asked[j + 1]
  <2>1. /\ asked' \in Seq(Requests) /\ Len(asked') = Len(asked) - 1
        /\ \A j \in 1..(Len(asked) - 1) : asked'[j] = IF j < 1 THEN asked[j] ELSE asked[j + 1]
    BY <1>0, <1>2, RemoveAtProperties
  <2> QED
    BY <1>2, <2>1
<1>4. PICK r \in Requests : r = asked[1]
  BY <1>2, ElementOfSeq
<1>5. /\ ShownOfThread'
      /\ IsLoad(r) /\ r.type = "list" => m_currentNumber' = NoNumber
      /\ IsLoad(r) /\ r.type = "from" => m_currentNumber' = r.number
      /\ ~IsLoad(r) => /\ m_currentNumber' = m_currentNumber
                       /\ m_contentLoaded' => m_contentLoaded
  BY <1>0, <1>1, <1>4, HandledThread
<1>6. \A j \in LoadsAsked' : j + 1 \in LoadsAsked /\ asked'[j] = asked[j + 1]
  BY <1>3 DEF LoadsAsked
<1>7. SentAsTyped'
  BY <1>1, <1>3 DEF ThreadInv, SentAsTyped
<1>8. CASE IsLoad(r)
  <2>1. 1 \in LoadsAsked
    BY <1>0, <1>4, <1>8 DEF LoadsAsked
  <2>2. Len(asked) = 1
    BY <1>1, <2>1 DEF ThreadInv, OneLoad
  <2>3. DOMAIN asked' = {} /\ LoadsAsked' = {}
    BY <1>3, <2>2 DEF LoadsAsked
  <2>4. keyboard # NoNumber => m_currentNumber' \in {keyboard, NoNumber}
    BY <1>1, <1>4, <1>5, <1>8, <2>1 DEF ThreadInv, KeyboardOfThread, IsLoad
  <2> QED
    BY <1>0, <1>5, <1>7, <2>3, <2>4 DEF ThreadInv, OneLoad, MoreOfThread, KeyboardOfThread
<1>9. CASE ~IsLoad(r)
  <2>1. m_currentNumber' = m_currentNumber /\ (m_contentLoaded' => m_contentLoaded)
    BY <1>5, <1>9
  <2>2. OneLoad'
    <3>1. \A j \in LoadsAsked' : j \in Nat /\ j + 1 = Len(asked)
      BY <1>1, <1>3, <1>6 DEF ThreadInv, OneLoad, LoadsAsked
    <3>2. \A j \in LoadsAsked' : j = Len(asked')
      BY <1>2, <1>3, <3>1
    <3> QED
      BY <1>1, <1>6, <2>1, <3>2 DEF ThreadInv, OneLoad
  <2>3. MoreOfThread'
    BY <1>1, <1>3, <2>1 DEF ThreadInv, MoreOfThread
  <2>4. KeyboardOfThread'
    BY <1>0, <1>1, <1>6, <2>1 DEF ThreadInv, KeyboardOfThread
  <2> QED
    BY <1>5, <1>7, <2>2, <2>3, <2>4 DEF ThreadInv
<1> QED
  BY <1>8, <1>9

(* What ThreadUnmixed rests on, all together. *)
ThreadAll == UnloadedIsEmpty /\ LayoutIsCurrent /\ SessionInv /\ Untangled

(* It is kept by every step. *)
LEMMA NextThread == TypeOK /\ ThreadAll /\ [Next]_vars => ThreadAll'
<1> SUFFICES ASSUME TypeOK, ThreadAll, [Next]_vars PROVE ThreadAll'
  OBVIOUS
<1> USE DEF ThreadAll
<1>0. UnloadedIsEmpty' /\ LayoutIsCurrent' /\ SessionInv'
  BY NextUnloaded, NextLayout, NextSession
<1>1. CASE AppChanges
  BY <1>0, <1>1, ChangesThread
<1>2. CASE LoadTimer \/ RetryTimer
  BY <1>0, <1>2, LoadThread
<1>3. CASE \/ (\E number \in Numbers : OpenThread(number)) \/ Back \/ Refresh
           \/ LoadMore \/ OpenKeyboard \/ Send
  BY <1>0, <1>3, ClickThread
<1>4. CASE KeyboardDone
  BY <1>0, <1>4, TypedThread
<1>5. ASSUME NEW i \in 1..MaxAsked, Answer(i) PROVE ThreadAll'
  BY <1>0, <1>5, AnswerThread
<1>6. CASE UNCHANGED vars
  BY <1>0, <1>6 DEF vars, appVars, tabVars, phoneVars, Untangled, ThreadInv, OneLoad, MoreOfThread,
                    KeyboardOfThread, ShownOfThread, SentAsTyped, LoadsAsked
<1> QED
  BY <1>1, <1>2, <1>3, <1>4, <1>5, <1>6 DEF Next

(* As long as loads and answers come one after the other, no page of another thread is shown,  *)
(* no text left in another, and none sent to whom it was not typed for, wherever the user goes   *)
(* while the VR keyboard is up, the phone is slow or the session is lost.                         *)
THEOREM ThreadsStayUnmixed == Spec => []ThreadUnmixed
<1>1. Init => ThreadAll
  <2> SUFFICES ASSUME Init PROVE ThreadAll
    OBVIOUS
  <2>1. DOMAIN asked = {} /\ LoadsAsked = {} /\ DOMAIN pages = {}
    BY EmptySeq DEF Init, LoadsAsked
  <2> QED
    BY <2>1 DEF Init, AppInit, ThreadAll, UnloadedIsEmpty, LayoutIsCurrent, Layout, SessionInv,
                Untangled, ThreadInv, OneLoad, MoreOfThread, KeyboardOfThread, ShownOfThread,
                SentAsTyped
<1>2. TypeOK /\ ThreadAll /\ [Next]_vars => ThreadAll'
  BY NextThread
<1>3. ThreadAll => ThreadUnmixed
  BY DEF ThreadAll, Untangled, ThreadInv, ShownOfThread, SentAsTyped, ThreadUnmixed
<1> QED
  BY <1>1, <1>2, <1>3, TypesAreKept, PTL DEF Spec

===============================================================================
