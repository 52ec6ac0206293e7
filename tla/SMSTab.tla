------------------------------- MODULE SMSTab -------------------------------
(***************************************************************************)
(* SMSTabWidget with the phone at the other end of the session: the list   *)
(* of threads, one thread page by page, and the text to send.  The phone   *)
(* answers what it is asked, in order or not; an answer names its thread   *)
(* and its page but not the request it is for.                             *)
(***************************************************************************)
EXTENDS MainWidget, Naturals, Sequences, FiniteSets, SequencesExt

CONSTANTS
    Numbers,       \* phone numbers
    NoNumber,      \* the empty QString
    SMS_MAX_PAGE,  \* the last page of a thread the tab asks for
    MaxAsked,      \* bound: requests without an answer
    MaxLoads       \* bound: pending LOAD_DELAY singleShots

ASSUME NoNumberIsNoNumber == NoNumber \notin Numbers
ASSUME BoundsAreNatural ==
    SMS_MAX_PAGE \in Nat /\ MaxAsked \in Nat /\ MaxLoads \in Nat

VARIABLES
    m_featureEnabled,
    m_currentNumber,
    m_contentLoaded,
    m_contentEmpty,
    m_nextPage,
    pages,        \* the pages of messages in contentScrollLayout, oldest request first
    input,        \* the thread whose text is in inputTextEdit, or NoNumber
    shown,        \* what UpdateLayout last made visible
    retryTimer,   \* m_retryTimer is active
    loads,        \* pending singleShots of LoadContent
    keyboard,     \* the thread the VR keyboard was opened for, or NoNumber
    asked,        \* requests without an answer
    tangled       \* history: in this session a load was asked for while another was due,
                  \* or an answer overtook an earlier one

tabVars == <<m_featureEnabled, m_currentNumber, m_contentLoaded, m_contentEmpty, m_nextPage,
             pages, input, shown, retryTimer, loads>>
phoneVars == <<asked, tangled>>
vars == <<appVars, tabVars, keyboard, phoneVars>>

Pages == 0..SMS_MAX_PAGE

Requests ==
    [type : {"list"}]
      \cup [type : {"from"}, number : Numbers, page : Pages]
      \cup [type : {"send"}, number : Numbers, text : Numbers]

TypeOK ==
    /\ AppTypeOK
    /\ m_featureEnabled \in BOOLEAN
    /\ m_currentNumber \in Numbers \cup {NoNumber}
    /\ m_contentLoaded \in BOOLEAN
    /\ m_contentEmpty \in BOOLEAN
    /\ m_nextPage \in Pages
    /\ pages \in Seq([number : Numbers, page : Pages])
    /\ input \in Numbers \cup {NoNumber}
    /\ shown \in {"stopped", "started", "disabled", "loading", "empty", "list", "thread"}
    /\ retryTimer \in BOOLEAN
    /\ loads \in 0..MaxLoads
    /\ keyboard \in Numbers \cup {NoNumber}
    /\ asked \in Seq(Requests) /\ Len(asked) <= MaxAsked
    /\ tangled \in BOOLEAN

-----------------------------------------------------------------------------
(* UpdateLayout's choice. *)
Layout(state, enabled, loaded, empty, number) ==
    CASE state = "STOPPED" -> "stopped"
      [] state = "STARTED" -> "started"
      [] state = "CONNECTED" /\ ~enabled -> "disabled"
      [] state = "CONNECTED" /\ enabled /\ ~loaded -> "loading"
      [] state = "CONNECTED" /\ enabled /\ loaded /\ empty -> "empty"
      [] OTHER -> IF number = NoNumber THEN "list" ELSE "thread"

UpdateLayout ==
    shown' = Layout(m_serverState', m_featureEnabled', m_contentLoaded', m_contentEmpty',
                    m_currentNumber')

ClearContent ==
    /\ pages' = <<>>
    /\ input' = NoNumber
    /\ m_contentLoaded' = FALSE
    /\ m_contentEmpty' = TRUE
    /\ m_nextPage' = 0

LoadLater ==
    /\ loads < MaxLoads
    /\ loads' = loads + 1

Init ==
    /\ AppInit
    /\ m_featureEnabled = FALSE
    /\ m_currentNumber = NoNumber
    /\ m_contentLoaded = FALSE
    /\ m_contentEmpty = TRUE
    /\ m_nextPage = 0
    /\ pages = <<>>
    /\ input = NoNumber
    /\ shown = "stopped"
    /\ retryTimer = FALSE
    /\ loads = 0
    /\ keyboard = NoNumber
    /\ asked = <<>>
    /\ tangled = FALSE

-----------------------------------------------------------------------------
(* SetFeatureEnabled, if a session was announced, and ServerStateChanged. *)
ServerStateChanged ==
    /\ m_serverState' # m_serverState
    /\ m_featureEnabled' \in (IF m_serverState' = "CONNECTED" THEN BOOLEAN ELSE {m_featureEnabled})
    /\ ClearContent
    /\ m_currentNumber' = NoNumber
    /\ UpdateLayout
    /\ IF m_serverState' = "CONNECTED" /\ m_currentTab = "SMS"
       THEN LoadLater ELSE UNCHANGED loads
    /\ UNCHANGED retryTimer

(* Mutant: coming back to the tab loads nothing. *)
LazyCurrentTabChanged ==
    /\ m_currentTab' # m_currentTab
    /\ UNCHANGED tabVars

CurrentTabChanged ==
    /\ m_currentTab' # m_currentTab
    /\ IF m_serverState = "CONNECTED" /\ m_currentTab' = "SMS"
       THEN LoadLater ELSE UNCHANGED loads
    /\ UNCHANGED <<m_featureEnabled, m_currentNumber, m_contentLoaded, m_contentEmpty,
                   m_nextPage, pages, input, shown, retryTimer>>

(* Requests and answers are lost with the connection. *)
ChannelFollows ==
    /\ asked' = IF link' = "open" THEN asked ELSE <<>>
    /\ tangled' = (tangled /\ link' # "none")

AppChanges ==
    /\ AppNext
    /\ \/ ServerStateChanged
       \/ CurrentTabChanged
       \/ UNCHANGED <<m_serverState, m_currentTab, tabVars>>
    /\ UNCHANGED keyboard
    /\ ChannelFollows

-----------------------------------------------------------------------------
(* LoadContent's condition. *)
Loadable ==
    /\ ~m_contentLoaded
    /\ m_currentTab = "SMS"
    /\ m_serverState = "CONNECTED"

(* A request that fills an unloaded tab. *)
IsLoad(request) == request.type = "list" \/ (request.type = "from" /\ request.page = 0)
LoadsAsked == {i \in DOMAIN asked : IsLoad(asked[i])}

(* Requests reach the phone only through an open socket. *)
Ask(request) ==
    IF link = "open" THEN Len(asked) < MaxAsked /\ asked' = Append(asked, request)
    ELSE UNCHANGED asked

LoadRequest ==
    IF m_currentNumber = NoNumber THEN [type |-> "list"]
    ELSE [type |-> "from", number |-> m_currentNumber, page |-> 0]

LoadContent ==
    /\ retryTimer' = Loadable
    /\ IF Loadable
       THEN Ask(LoadRequest) /\ tangled' = (tangled \/ LoadsAsked # {})
       ELSE UNCHANGED phoneVars
    /\ UNCHANGED <<appVars, keyboard, m_featureEnabled, m_currentNumber, m_contentLoaded,
                   m_contentEmpty, m_nextPage, pages, input, shown>>

LoadTimer ==
    /\ loads > 0
    /\ loads' = loads - 1
    /\ LoadContent

RetryTimer ==
    /\ retryTimer
    /\ LoadContent
    /\ UNCHANGED loads

-----------------------------------------------------------------------------
(* Mutant: what another thread left is kept. *)
ReloadUncleared(number) ==
    /\ UNCHANGED <<appVars, m_featureEnabled, retryTimer, keyboard, phoneVars, m_contentLoaded,
                   m_contentEmpty, m_nextPage, pages, input>>
    /\ m_currentNumber' = number
    /\ UpdateLayout
    /\ LoadLater

(* OpenThread, on_backButton_clicked and on_refreshButton_clicked: the content is *)
(* dropped and asked for half a second later.                                     *)
Reload(number) ==
    /\ UNCHANGED <<appVars, m_featureEnabled, retryTimer, keyboard, phoneVars>>
    /\ ClearContent
    /\ m_currentNumber' = number
    /\ UpdateLayout
    /\ LoadLater

(* The keyboard is modal: what is not typed closes it. *)
Clicks == keyboard = NoNumber

OpenThread(number) == Clicks /\ shown = "list" /\ Reload(number)
Back == Clicks /\ shown = "thread" /\ Reload(NoNumber)
Refresh == Clicks /\ shown \in {"list", "thread"} /\ Reload(m_currentNumber)

LoadMore ==
    /\ Clicks /\ shown = "thread" /\ m_nextPage > 0
    /\ m_contentLoaded /\ ~m_contentEmpty /\ m_currentNumber # NoNumber
    /\ Ask([type |-> "from", number |-> m_currentNumber, page |-> m_nextPage])
    /\ UNCHANGED <<appVars, tabVars, keyboard, tangled>>

(* on_inputTextEdit_FocusReceived; ShowKeyboard may fail. *)
OpenKeyboard ==
    /\ Clicks /\ shown = "thread"
    /\ m_contentLoaded /\ m_currentNumber # NoNumber
    /\ keyboard' = m_currentNumber
    /\ UNCHANGED <<appVars, tabVars, phoneVars>>

(* VRKeyboardData: the text, or an empty one, lands in the thread shown now. *)
Taken(number) ==
    IF m_contentLoaded /\ m_currentNumber # NoNumber
    THEN input' \in {number, NoNumber} ELSE UNCHANGED input

(* The user is done, or closes the keyboard, which delivers nothing. *)
KeyboardDone ==
    /\ keyboard # NoNumber
    /\ keyboard' = NoNumber
    /\ Taken(keyboard) \/ UNCHANGED input
    /\ UNCHANGED <<appVars, m_featureEnabled, m_currentNumber, m_contentLoaded,
                   m_contentEmpty, m_nextPage, pages, shown, retryTimer, loads, phoneVars>>

Send ==
    /\ Clicks /\ shown = "thread"
    /\ m_contentLoaded /\ m_currentNumber # NoNumber
    /\ input # NoNumber
    /\ input' = NoNumber
    /\ Ask([type |-> "send", number |-> m_currentNumber, text |-> input])
    /\ UNCHANGED <<appVars, m_featureEnabled, m_currentNumber, m_contentLoaded,
                   m_contentEmpty, m_nextPage, pages, shown, retryTimer, loads, keyboard, tangled>>

-----------------------------------------------------------------------------
(* An answer that changes nothing but the retry timer. *)
Dropped == retryTimer' = FALSE
           /\ UNCHANGED <<m_featureEnabled, m_currentNumber, m_contentLoaded, m_contentEmpty,
                          m_nextPage, pages, input, shown, loads>>

(* The list of threads, which may be empty. *)
SMSList(full) ==
    \/ m_contentLoaded /\ Dropped
    \/ /\ ~m_contentLoaded
       /\ retryTimer' = FALSE
       /\ pages' = <<>>
       /\ input' = NoNumber
       /\ m_nextPage' = 0
       /\ m_currentNumber' = NoNumber
       /\ m_contentEmpty' = ~full
       /\ m_contentLoaded' = TRUE
       /\ UNCHANGED <<m_featureEnabled, loads>>
       /\ UpdateLayout

(* Mutant: more of a thread is taken whatever page is due. *)
FitsAnyway(page) == page > 0 \/ ~m_contentLoaded

(* SMSFromList takes a first page if none is loaded, a later one if it is the next. *)
Fits(page) == IF page = 0 THEN ~m_contentLoaded ELSE page = m_nextPage

(* Mutant: no limit on the pages. *)
NextPageUnlimited(page, full) == IF full THEN page + 1 ELSE 0

(* An empty page is the last one, and so is the one SMS_MAX_PAGE says. *)
NextPage(page, full) == IF full /\ page < SMS_MAX_PAGE THEN page + 1 ELSE 0

(* A page of a thread, which may be empty.  The thread shown becomes the answer's, *)
(* and only a first page clears what was there.                                    *)
SMSFromList(number, page, full) ==
    \/ ~Fits(page) /\ Dropped
    \/ /\ Fits(page)
       /\ retryTimer' = FALSE
       /\ pages' = (IF page = 0 THEN <<>> ELSE pages)
                     \o (IF full THEN <<[number |-> number, page |-> page]>> ELSE <<>>)
       /\ input' = IF page = 0 THEN NoNumber ELSE input
       /\ m_currentNumber' = number
       /\ m_nextPage' = NextPage(page, full)
       /\ m_contentEmpty' = FALSE
       /\ m_contentLoaded' = TRUE
       /\ UNCHANGED <<m_featureEnabled, loads>>
       /\ UpdateLayout

(* Mutant: the page of the thread is dropped and not asked for again. *)
SMSSentClears(number, success) ==
    \/ /\ m_contentLoaded /\ m_currentNumber = number /\ success
       /\ ClearContent
       /\ UNCHANGED <<m_featureEnabled, m_currentNumber, retryTimer, loads>>
       /\ UpdateLayout
    \/ /\ ~(m_contentLoaded /\ m_currentNumber = number /\ success)
       /\ UNCHANGED tabVars

(* Mutant: the layout is left as it was. *)
SMSSentQuietly(number, success) ==
    \/ /\ m_contentLoaded /\ m_currentNumber = number /\ success
       /\ ClearContent
       /\ UNCHANGED <<m_featureEnabled, m_currentNumber, retryTimer, shown>>
       /\ LoadLater
    \/ /\ ~(m_contentLoaded /\ m_currentNumber = number /\ success)
       /\ UNCHANGED tabVars

(* SMSSent: a message sent in the thread shown loads it again. *)
SMSSent(number, success) ==
    \/ /\ m_contentLoaded /\ m_currentNumber = number /\ success
       /\ ClearContent
       /\ UNCHANGED <<m_featureEnabled, m_currentNumber, retryTimer>>
       /\ UpdateLayout
       /\ LoadLater
    \/ /\ ~(m_contentLoaded /\ m_currentNumber = number /\ success)
       /\ UNCHANGED tabVars

(* The answer to the i-th request arrives. *)
Answer(i) ==
    /\ i \in DOMAIN asked
    /\ asked' = RemoveAt(asked, i)
    /\ tangled' = (tangled \/ i # 1)
    /\ UNCHANGED <<appVars, keyboard>>
    /\ \E good \in BOOLEAN :
         \/ asked[i].type = "list" /\ SMSList(good)
         \/ asked[i].type = "from" /\ SMSFromList(asked[i].number, asked[i].page, good)
         \/ asked[i].type = "send" /\ SMSSent(asked[i].number, good)

Next ==
    \/ AppChanges
    \/ LoadTimer \/ RetryTimer
    \/ \E number \in Numbers : OpenThread(number)
    \/ Back \/ Refresh \/ LoadMore
    \/ OpenKeyboard \/ KeyboardDone \/ Send
    \/ \E i \in 1..MaxAsked : Answer(i)

(* Timers fire and the phone answers. *)
Fairness ==
    /\ WF_vars(LoadTimer)
    /\ \A i \in 1..MaxAsked : SF_vars(Answer(i))

Spec == Init /\ [][Next]_vars /\ Fairness

-----------------------------------------------------------------------------
(* However often load-more is pressed and in whatever order answers come: the    *)
(* pages shown are the first ones, each once, and the next is the one after them. *)
PagesContiguous ==
    /\ \A i \in DOMAIN pages : pages[i].page = i - 1
    /\ m_nextPage \in {0, Len(pages)}

(* As long as no load of the session overlapped another and no answer overtook    *)
(* another, all pages are of the thread in the title, so is the text below, and     *)
(* a text goes to whom it was entered for, however long the VR keyboard was up and  *)
(* whatever became of the thread meanwhile.                                         *)
ThreadUnmixed ==
    ~tangled => /\ \A i \in DOMAIN pages : pages[i].number = m_currentNumber
                /\ input \in {NoNumber, m_currentNumber}
                /\ \A i \in DOMAIN asked :
                     asked[i].type = "send" => asked[i].number = asked[i].text

(* What is visible is what the state calls for: no handler forgets UpdateLayout. *)
LayoutIsCurrent ==
    shown = Layout(m_serverState, m_featureEnabled, m_contentLoaded, m_contentEmpty,
                   m_currentNumber)

(* While the tab waits for its content, a load is due, to be retried or asked for; *)
(* the answer to an old load-more stops the retry timer, and only a request that   *)
(* is still out then stands between the tab and waiting for ever.                  *)
LoadUnderway == Loadable /\ link = "open" => loads > 0 \/ retryTimer \/ LoadsAsked # {}

(* The tab is loaded in the end, unless it is left or the session is over. *)
LoadsInTheEnd == Loadable /\ link = "open" ~> ~Loadable \/ link # "open"

=============================================================================
