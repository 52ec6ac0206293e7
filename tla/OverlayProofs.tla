----------------------------- MODULE OverlayProofs -----------------------------
(***************************************************************************)
(* Theorems about Overlay for every set of input fields and every bound    *)
(* on the events that are not polled yet.                                  *)
(***************************************************************************)
EXTENDS Overlay, ListLemmas

-----------------------------------------------------------------------------
(* What the runtime tells.  All its actions are alike: they change the place, the buttons *)
(* or the keyboard, and what they add to the events says what became of them.             *)
RuntimeActs ==
  \/ \E p \in {"closed", "elsewhere", "beside", "ours"} : MoveTo(p)
  \/ \E b \in Buttons : Press(b) \/ \E f \in Fields \cup {NoField} : Release(b, f)
  \/ EndKeyboard

IsEnd(event) == event.type \in {"done", "closed"}
IsWord(event) == event.type \in {"shown", "hidden"}

(* The entries of the news: the end of a keyboard that was up and is not, the button that *)
(* went down and is held, or is held no more, and the overlay as it is now.               *)
Agrees(news) ==
  /\ (\E e \in news : IsEnd(e)) => keyboard # NoField /\ keyboard' = NoField
  /\ keyboard # NoField => keyboard' = keyboard \/ \E e \in news : IsEnd(e)
  /\ keyboard = NoField => keyboard' = NoField
  /\ \A e \in news : IsWord(e) => (e.type = "shown" <=> place' = "ours")
  /\ (place' = "ours" <=> place = "ours") \/ \E e \in news : IsWord(e)
  /\ \A e \in news : e.type = "down" => e.button \in held'
  /\ \A e \in news : e.type = "up" => /\ ~\E d \in news : IsEnd(d)
                                      /\ keyboard # NoField => e.field = NoField
  /\ \A b \in held : b \in held' \/ \E e \in news : e.type = "up" /\ e.button = b

(* The events of each kind. *)
LEMMA EventsType ==
  /\ [type |-> "shown"] \in Events /\ [type |-> "hidden"] \in Events
  /\ [type |-> "done"] \in Events /\ [type |-> "closed"] \in Events
  /\ \A b \in Buttons : [type |-> "down", button |-> b] \in Events
  /\ \A b \in Buttons, f \in Fields \cup {NoField} :
       [type |-> "up", button |-> b, field |-> f] \in Events
BY DEF Events

(* And there are no others. *)
LEMMA EventKinds ==
  ASSUME NEW e \in Events
  PROVE  \/ e.type \in {"shown", "hidden", "done", "closed"}
         \/ e.type = "down" /\ e.button \in Buttons
         \/ e.type = "up" /\ e.button \in Buttons /\ e.field \in Fields \cup {NoField}
BY DEF Events

(* A keyboard that is dismissed is told of. *)
LEMMA DismissedTold ==
  /\ Dismissed \in Seq(Events)
  /\ ToSet(Dismissed) = IF keyboard = NoField THEN {} ELSE {[type |-> "closed"]}
<1>1. CASE keyboard = NoField
  BY <1>1, EmptySeq, ShortLists DEF Dismissed
<1>2. CASE keyboard # NoField
  BY <1>2, EventsType, ShortLists DEF Dismissed
<1> QED
  BY <1>1, <1>2

(* Each action of the runtime tells what it did. *)
LEMMA RuntimeTells ==
  ASSUME TypeOK, RuntimeActs
  PROVE  /\ \E news \in Seq(Events) : Tells(news) /\ Agrees(ToSet(news))
         /\ place' \in {"closed", "elsewhere", "beside", "ours"} /\ held' \in SUBSET Buttons
         /\ keyboard' \in {keyboard, NoField} /\ thumbnailShown' \in BOOLEAN
<1>0. /\ held \in SUBSET Buttons /\ place \in {"closed", "elsewhere", "beside", "ours"}
      /\ thumbnailShown \in BOOLEAN
  BY DEF TypeOK
<1>1. ASSUME NEW p \in {"closed", "elsewhere", "beside", "ours"}, MoveTo(p)
      PROVE  \E news \in Seq(Events) : Tells(news) /\ Agrees(ToSet(news))
  <2> DEFINE left == IF place = "ours" THEN <<[type |-> "hidden"]>> ELSE <<>>
             come == IF p = "ours" THEN <<[type |-> "shown"]>> ELSE <<>>
             news == Dismissed \o left \o come
  <2>1. /\ left \in Seq(Events)
        /\ ToSet(left) = IF place = "ours" THEN {[type |-> "hidden"]} ELSE {}
    BY EventsType, EmptySeq, ShortLists
  <2>2. /\ come \in Seq(Events)
        /\ ToSet(come) = IF p = "ours" THEN {[type |-> "shown"]} ELSE {}
    BY EventsType, EmptySeq, ShortLists
  <2> HIDE DEF left, come
  <2>3. /\ news \in Seq(Events)
        /\ ToSet(news) = (ToSet(Dismissed) \cup ToSet(left)) \cup ToSet(come)
    <3>1. PICK first : first = Dismissed \o left
      OBVIOUS
    <3>2. first \in Seq(Events) /\ ToSet(first) = ToSet(Dismissed) \cup ToSet(left)
      BY <2>1, <3>1, DismissedTold, JoinsSet
    <3>3. first \o come \in Seq(Events) /\ ToSet(first \o come) = ToSet(first) \cup ToSet(come)
      BY <2>2, <3>2, JoinsSet
    <3> QED
      BY <3>1, <3>2, <3>3
  <2>4. Tells(news)
    BY <1>1 DEF MoveTo, left, come
  <2>5. place' = p /\ p # place /\ held' = held /\ keyboard' = NoField
    BY <1>1 DEF MoveTo
  <2> HIDE DEF news
  <2>6. Agrees(ToSet(news))
    <3>1. /\ keyboard # NoField => [type |-> "closed"] \in ToSet(news)
          /\ place = "ours" => [type |-> "hidden"] \in ToSet(news)
          /\ p = "ours" => [type |-> "shown"] \in ToSet(news)
      BY <2>1, <2>2, <2>3, DismissedTold
    <3>2. \A e \in ToSet(news) :
            \/ keyboard # NoField /\ e.type = "closed"
            \/ place = "ours" /\ e.type = "hidden"
            \/ p = "ours" /\ e.type = "shown"
      BY <2>1, <2>2, <2>3, DismissedTold
    <3>3. /\ keyboard # NoField => \E e \in ToSet(news) : IsEnd(e)
          /\ place = "ours" => \E e \in ToSet(news) : IsWord(e)
          /\ p = "ours" => \E e \in ToSet(news) : IsWord(e)
      BY <3>1 DEF IsEnd, IsWord
    <3> QED
      BY <2>5, <3>2, <3>3 DEF Agrees, IsEnd, IsWord
  <2> QED
    BY <2>3, <2>4, <2>6
<1>2. ASSUME NEW b \in Buttons, Press(b)
      PROVE  \E news \in Seq(Events) : Tells(news) /\ Agrees(ToSet(news))
  <2> DEFINE e == [type |-> "down", button |-> b]
             news == Dismissed \o <<e>>
  <2>1. <<e>> \in Seq(Events) /\ ToSet(<<e>>) = {e}
    BY EventsType, ShortLists
  <2>2. news \in Seq(Events) /\ ToSet(news) = ToSet(Dismissed) \cup {e}
    <3> DEFINE last == <<e>>
    <3>1. last \in Seq(Events) /\ ToSet(last) = {e}
      BY <2>1
    <3> HIDE DEF last
    <3>2. Dismissed \o last \in Seq(Events) /\ ToSet(Dismissed \o last) = ToSet(Dismissed) \cup ToSet(last)
      BY <3>1, DismissedTold, JoinsSet
    <3> QED
      BY <3>1, <3>2 DEF last
  <2>3. Tells(news)
    BY <1>2 DEF Press
  <2> HIDE DEF news
  <2>4. Agrees(ToSet(news))
    <3>1. keyboard # NoField => [type |-> "closed"] \in ToSet(news)
      BY <2>2, DismissedTold
    <3>2. \A d \in ToSet(news) :
            \/ keyboard # NoField /\ d.type = "closed"
            \/ d.type = "down" /\ d.button = b
      BY <2>2, DismissedTold
    <3>3. keyboard # NoField => \E d \in ToSet(news) : IsEnd(d)
      BY <3>1 DEF IsEnd
    <3>4. held' = held \cup {b} /\ keyboard' = NoField /\ place' = place
      BY <1>2 DEF Press
    <3> QED
      BY <3>2, <3>3, <3>4 DEF Agrees, IsEnd, IsWord
  <2> QED
    BY <2>2, <2>3, <2>4
<1>3. ASSUME NEW b \in Buttons, NEW f \in Fields \cup {NoField}, Release(b, f)
      PROVE  \E news \in Seq(Events) : Tells(news) /\ Agrees(ToSet(news))
  <2> DEFINE e == [type |-> "up", button |-> b, field |-> f]
             news == <<e>>
  <2>1. news \in Seq(Events) /\ ToSet(news) = {e}
    BY EventsType, ShortLists
  <2>2. Tells(news)
    BY <1>3 DEF Release
  <2> HIDE DEF news
  <2>3. Agrees(ToSet(news))
    BY <1>3, <2>1 DEF Release, Agrees, IsEnd, IsWord
  <2> QED
    BY <2>1, <2>2, <2>3
<1>4. ASSUME EndKeyboard PROVE \E news \in Seq(Events) : Tells(news) /\ Agrees(ToSet(news))
  <2>1. PICK done \in {<<>>, <<[type |-> "done"]>>}, closed \in {<<>>, <<[type |-> "closed"]>>} :
          done \o closed # <<>> /\ Tells(done \o closed)
    BY <1>4 DEF EndKeyboard
  <2>2. /\ done \in Seq(Events) /\ ToSet(done) \subseteq {[type |-> "done"]}
        /\ closed \in Seq(Events) /\ ToSet(closed) \subseteq {[type |-> "closed"]}
    <3>1. /\ <<>> \in Seq(Events) /\ ToSet(<<>>) = {}
          /\ <<[type |-> "done"]>> \in Seq(Events) /\ ToSet(<<[type |-> "done"]>>) = {[type |-> "done"]}
          /\ <<[type |-> "closed"]>> \in Seq(Events)
          /\ ToSet(<<[type |-> "closed"]>>) = {[type |-> "closed"]}
      BY EventsType, EmptySeq, ShortLists
    <3> QED
      BY <2>1, <3>1
  <2> DEFINE news == done \o closed
  <2>3. news \in Seq(Events) /\ ToSet(news) = ToSet(done) \cup ToSet(closed)
    BY <2>2, JoinsSet
  <2>4. ToSet(news) # {}
    <3>1. news # <<>>
      BY <2>1
    <3>2. 1 \in DOMAIN news
      BY <2>3, <3>1, LeavesQueue
    <3> QED
      BY <3>2 DEF ToSet
  <2>5. Tells(news)
    BY <2>1
  <2> HIDE DEF news
  <2>6. /\ \A e \in ToSet(news) : IsEnd(e) /\ e.type \in {"done", "closed"}
        /\ \E e \in ToSet(news) : IsEnd(e)
    BY <2>2, <2>3, <2>4 DEF IsEnd
  <2>7. /\ keyboard # NoField /\ keyboard' = NoField
        /\ UNCHANGED <<place, held>>
    BY <1>4 DEF EndKeyboard
  <2>8. Agrees(ToSet(news))
    BY <2>6, <2>7 DEF Agrees, IsWord
  <2> QED
    BY <2>3, <2>5, <2>8
<1>5. /\ place' \in {"closed", "elsewhere", "beside", "ours"} /\ held' \in SUBSET Buttons
      /\ keyboard' \in {keyboard, NoField}
  BY <1>0 DEF RuntimeActs, MoveTo, Press, Release, EndKeyboard
<1>6. thumbnailShown' \in BOOLEAN
  BY <1>0 DEF RuntimeActs, MoveTo, Press, Release, EndKeyboard
<1> QED
  BY <1>1, <1>2, <1>3, <1>4, <1>5, <1>6 DEF RuntimeActs

(* What the news do to the events: each is one of the old ones in its place, or new. *)
LEMMA TellsAdds ==
  ASSUME TypeOK, NEW news \in Seq(Events), Tells(news)
  PROVE  /\ ~polling /\ events' \in Seq(Events) /\ Len(events') <= MaxEvents
         /\ \A i \in DOMAIN events : i \in DOMAIN events' /\ events'[i] = events[i]
         /\ \A e \in ToSet(news) :
              \E k \in DOMAIN events' : events'[k] = e /\ \A i \in DOMAIN events : i < k
         /\ \A k \in DOMAIN events' :
              k \in DOMAIN events \/ (events'[k] \in ToSet(news) /\ \A i \in DOMAIN events : i < k)
         /\ UNCHANGED <<polling, renderVars, m_overlayVisible, m_lastButtons, m_keyboardVisible>>
<1>1. events \in Seq(Events)
  BY DEF TypeOK
<1>2. events' = events \o news /\ ~polling
  BY DEF Tells
<1>3. Len(events') = Len(events) + Len(news)
  BY <1>1, <1>2, JoinsAll
<1>4. /\ events' \in Seq(Events)
      /\ \A i \in DOMAIN events : i \in DOMAIN events' /\ events'[i] = events[i]
      /\ \A j \in DOMAIN news :
           /\ Len(events) + j \in DOMAIN events' /\ events'[Len(events) + j] = news[j]
           /\ \A i \in DOMAIN events : i < Len(events) + j
      /\ \A k \in DOMAIN events' :
           \/ k \in DOMAIN events
           \/ \E j \in DOMAIN news : k = Len(events) + j
  BY <1>1, <1>2, JoinsAll
<1>5. ASSUME NEW e \in ToSet(news)
      PROVE  \E k \in DOMAIN events' : events'[k] = e /\ \A i \in DOMAIN events : i < k
  BY <1>4, <1>5 DEF ToSet
<1>6. ASSUME NEW k \in DOMAIN events', k \notin DOMAIN events
      PROVE  events'[k] \in ToSet(news) /\ \A i \in DOMAIN events : i < k
  BY <1>4, <1>6 DEF ToSet
<1> QED
  BY <1>2, <1>3, <1>4, <1>5, <1>6 DEF Tells

(* The oldest event is taken, and the others move up. *)
LEMMA PollTakes ==
  ASSUME TypeOK, PollNextOverlayEvent
  PROVE  /\ events' \in Seq(Events) /\ Len(events') <= MaxEvents
         /\ 1 \in DOMAIN events /\ events[1] \in Events /\ Head(events) = events[1]
         /\ DOMAIN events \subseteq Nat /\ DOMAIN events' \subseteq Nat
         /\ \A k \in DOMAIN events' : k + 1 \in DOMAIN events /\ events'[k] = events[k + 1]
         /\ \A i \in DOMAIN events : i = 1 \/ (i - 1 \in DOMAIN events' /\ events'[i - 1] = events[i])
         /\ \A i \in DOMAIN events : i = 1 \/ i > 1
<1>1. events \in Seq(Events) /\ events # <<>> /\ events' = Tail(events) /\ Len(events) <= MaxEvents
  BY DEF TypeOK, PollNextOverlayEvent
<1>2. /\ Head(events) \in Events /\ Head(events) = events[1] /\ 1 \in DOMAIN events
      /\ Tail(events) \in Seq(Events) /\ Len(Tail(events)) = Len(events) - 1 /\ Len(events) \in Nat
      /\ DOMAIN events = 1..Len(events) /\ DOMAIN Tail(events) = 1..(Len(events) - 1)
      /\ \A i \in DOMAIN Tail(events) : i + 1 \in DOMAIN events /\ Tail(events)[i] = events[i + 1]
      /\ \A i \in DOMAIN events :
           i = 1 \/ (i - 1 \in DOMAIN Tail(events) /\ Tail(events)[i - 1] = events[i])
  BY <1>1, LeavesQueue
<1> QED
  BY <1>1, <1>2, MaxEventsIsNatural

(* The types, step by step. *)
LEMMA NextType == TypeOK /\ [Next]_vars => TypeOK'
<1> SUFFICES ASSUME TypeOK, [Next]_vars PROVE TypeOK'
  OBVIOUS
<1>1. CASE RuntimeActs
  <2>1. PICK news \in Seq(Events) : Tells(news)
    BY <1>1, RuntimeTells
  <2>2. /\ place' \in {"closed", "elsewhere", "beside", "ours"} /\ held' \in SUBSET Buttons
        /\ keyboard' \in {keyboard, NoField} /\ thumbnailShown' \in BOOLEAN
    BY <1>1, RuntimeTells
  <2>3. /\ events' \in Seq(Events) /\ Len(events') <= MaxEvents
        /\ UNCHANGED <<polling, renderVars, m_overlayVisible, m_lastButtons, m_keyboardVisible>>
    BY <2>1, TellsAdds
  <2> QED
    BY <2>2, <2>3 DEF TypeOK, renderVars
<1>2. CASE SceneChanges
  BY <1>2 DEF SceneChanges, runtimeVars, TypeOK
<1>3. CASE SceneChanged
  BY <1>3 DEF SceneChanged, runtimeVars, TypeOK
<1>4. CASE RenderTimer
  <2>1. stale' \in BOOLEAN /\ m_renderRequested' \in BOOLEAN
    BY <1>4 DEF RenderTimer, RenderOverlay, TypeOK
  <2>2. failed' \in BOOLEAN
    BY <1>4, <2>1 DEF RenderTimer, RenderOverlay, TypeOK
  <2> QED
    BY <1>4, <2>1, <2>2 DEF RenderTimer, runtimeVars, TypeOK
<1>5. CASE EventTimer
  BY <1>5 DEF EventTimer, runtimeVars, renderVars, TypeOK
<1>6. CASE PollNextOverlayEvent
  <2>1. events' \in Seq(Events) /\ Len(events') <= MaxEvents
    BY <1>6, PollTakes
  <2>2. PICK e \in Events : e = Head(events)
    BY <1>6, PollTakes
  <2>3. /\ keyboard' \in Fields \cup {NoField} /\ m_keyboardVisible' \in BOOLEAN
        /\ m_overlayVisible' \in BOOLEAN /\ failed' \in BOOLEAN /\ m_renderRequested' \in BOOLEAN
        /\ m_lastButtons' \in SUBSET {"left", "right"}
    <3>1. ASSUME e.type = "up", MouseUp(e.button, e.field)
          PROVE  /\ keyboard' \in Fields \cup {NoField} /\ m_keyboardVisible' \in BOOLEAN
                 /\ m_lastButtons' \in SUBSET {"left", "right"}
      BY <3>1, EventKinds DEF MouseUp, ShowKeyboard, Released, TypeOK
    <3>2. ASSUME MouseDown(e.button) PROVE m_lastButtons' \in SUBSET {"left", "right"}
      BY <3>2 DEF MouseDown, AsQtButton, TypeOK
    <3> QED
      BY <1>6, <2>2, <3>1, <3>2
         DEF PollNextOverlayEvent, OverlayShown, OverlayHidden, RequestRender, MouseDown, MouseUp,
             KeyboardEnded, TypeOK
  <2> QED
    BY <1>6, <2>1, <2>3 DEF PollNextOverlayEvent, TypeOK
<1>7. CASE PollThumbnail
  BY <1>7 DEF PollThumbnail, RequestRender, runtimeVars, TypeOK
<1>8. CASE UNCHANGED vars
  BY <1>8 DEF vars, runtimeVars, renderVars, TypeOK
<1> QED
  BY <1>1, <1>2, <1>3, <1>4, <1>5, <1>6, <1>7, <1>8 DEF Next, RuntimeActs

(* Every reachable state is made of values of the right kind: the controller knows of no *)
(* middle button, and the runtime keeps no more events than the bound.                   *)
THEOREM TypesAreKept == Spec => []TypeOK
<1>1. Init => TypeOK
  <2> SUFFICES ASSUME Init PROVE TypeOK
    OBVIOUS
  <2>1. events \in Seq(Events) /\ Len(events) <= MaxEvents
    BY EmptySeq, MaxEventsIsNatural DEF Init
  <2>2. polling \in BOOLEAN /\ stale \in BOOLEAN /\ changedPending \in BOOLEAN
    BY DEF Init
  <2>3. failed \in BOOLEAN /\ m_renderRequested \in BOOLEAN /\ thumbnailShown \in BOOLEAN
    BY DEF Init
  <2>4. m_overlayVisible \in BOOLEAN /\ m_keyboardVisible \in BOOLEAN
    BY DEF Init
  <2> QED
    BY <2>1, <2>2, <2>3, <2>4 DEF Init, TypeOK
<1>2. TypeOK /\ [Next]_vars => TypeOK'
  BY NextType
<1> QED
  BY <1>1, <1>2, PTL DEF Spec

-----------------------------------------------------------------------------
(* A stale picture, step by step: the request is given up only for a picture or a failure. *)
LEMMA NextStale == TypeOK /\ StaleIsRequested /\ [Next]_vars => StaleIsRequested'
<1> SUFFICES ASSUME TypeOK, StaleIsRequested, [Next]_vars, stale'
             PROVE  m_renderRequested' \/ changedPending' \/ failed'
  BY DEF StaleIsRequested
<1>1. CASE RuntimeActs
  BY <1>1 DEF RuntimeActs, MoveTo, Press, Release, EndKeyboard, Tells, renderVars, StaleIsRequested
<1>2. CASE PollNextOverlayEvent \/ PollThumbnail
  BY <1>2 DEF PollNextOverlayEvent, PollThumbnail, OverlayShown, OverlayHidden, RequestRender,
              MouseDown, MouseUp, KeyboardEnded, StaleIsRequested
<1> QED
  BY <1>1, <1>2
     DEF Next, RuntimeActs, SceneChanges, SceneChanged, RenderTimer, RenderOverlay, EventTimer,
         vars, renderVars, StaleIsRequested

(* A picture that is out of date has its request, whenever it went out of date: before, while *)
(* or after the overlay was hidden, unless the runtime refused it.                            *)
THEOREM StalePicturesAreRequested == Spec => []StaleIsRequested
<1>1. Init => StaleIsRequested
  BY DEF Init, StaleIsRequested
<1>2. TypeOK /\ StaleIsRequested /\ [Next]_vars => StaleIsRequested'
  BY NextStale
<1> QED
  BY <1>1, <1>2, TypesAreKept, PTL DEF Spec

-----------------------------------------------------------------------------
(* The invariant behind KeyboardKnown.  A keyboard that is up has no end among the events, *)
(* for the user who ended the one before can ask for this one only later: no field that     *)
(* asks stands before an end, and as long as the events are not being polled none asks      *)
(* while a keyboard is up.  Otherwise the end of one would be taken for the end of another. *)
Ends == {i \in DOMAIN events : IsEnd(events[i])}
Asks == {i \in DOMAIN events : events[i].type = "up" /\ events[i].field # NoField}
KeyboardInv ==
  /\ keyboard # NoField => m_keyboardVisible /\ Ends = {}
  /\ m_keyboardVisible => keyboard # NoField \/ Ends # {}
  /\ \A i \in Asks, j \in Ends : j < i
  /\ ~polling /\ keyboard # NoField => Asks = {}

(* KeyboardInv under what the runtime does, *)
LEMMA RuntimeKeyboard ==
  ASSUME TypeOK, KeyboardInv, RuntimeActs
  PROVE  KeyboardInv'
<1>1. PICK news \in Seq(Events) : Tells(news) /\ Agrees(ToSet(news))
  BY RuntimeTells
<1>2. /\ ~polling
      /\ \A i \in DOMAIN events : i \in DOMAIN events' /\ events'[i] = events[i]
      /\ \A e \in ToSet(news) : \E k \in DOMAIN events' : events'[k] = e
      /\ \A k \in DOMAIN events' :
           k \in DOMAIN events \/ (events'[k] \in ToSet(news) /\ \A i \in DOMAIN events : i < k)
      /\ UNCHANGED <<polling, m_keyboardVisible>>
  BY <1>1, TellsAdds
<1>3. keyboard' \in {keyboard, NoField}
  BY RuntimeTells
<1>4. /\ \A k \in Ends' : k \in Ends \/ (k \notin DOMAIN events /\ IsEnd(events'[k]) /\ events'[k] \in ToSet(news))
      /\ Ends \subseteq Ends'
  BY <1>2 DEF Ends
<1>5. /\ \A k \in Asks' : \/ k \in Asks
                          \/ /\ k \notin DOMAIN events /\ events'[k] \in ToSet(news)
                             /\ events'[k].type = "up" /\ events'[k].field # NoField
      /\ Asks \subseteq Asks'
  BY <1>2 DEF Asks
<1>6. Ends \subseteq DOMAIN events /\ Asks \subseteq DOMAIN events
  BY DEF Ends, Asks
<1>7. CASE \E e \in ToSet(news) : IsEnd(e)
  <2>1. keyboard # NoField /\ keyboard' = NoField /\ Asks = {}
    BY <1>1, <1>2, <1>7 DEF Agrees, KeyboardInv
  <2>2. Ends' # {}
    BY <1>2, <1>7 DEF Ends
  <2>3. Asks' = {}
    BY <1>1, <1>5, <1>7, <2>1 DEF Agrees
  <2> QED
    BY <2>1, <2>2, <2>3 DEF KeyboardInv
<1>8. CASE ~ \E e \in ToSet(news) : IsEnd(e)
  <2>1. keyboard' = keyboard /\ Ends' = Ends
    BY <1>1, <1>3, <1>4, <1>8 DEF Agrees
  <2>2. keyboard # NoField => Asks' = {}
    BY <1>1, <1>2, <1>5 DEF KeyboardInv, Agrees
  <2>3. \A i \in Asks', j \in Ends' : j < i
    <3>1. \A i \in Asks' : i \in Asks \/ (i \in DOMAIN events' /\ i \notin DOMAIN events)
      BY <1>5 DEF Asks
    <3> QED
      BY <1>2, <1>6, <2>1, <3>1 DEF KeyboardInv
  <2> QED
    BY <1>2, <2>1, <2>2, <2>3 DEF KeyboardInv
<1> QED
  BY <1>7, <1>8

(* when an event is taken, *)
LEMMA PollKeyboard ==
  ASSUME TypeOK, KeyboardInv, PollNextOverlayEvent
  PROVE  KeyboardInv'
<1>1. /\ 1 \in DOMAIN events /\ events[1] \in Events /\ Head(events) = events[1]
      /\ DOMAIN events \subseteq Nat /\ DOMAIN events' \subseteq Nat
      /\ \A k \in DOMAIN events' : k + 1 \in DOMAIN events /\ events'[k] = events[k + 1]
      /\ \A i \in DOMAIN events : i = 1 \/ (i - 1 \in DOMAIN events' /\ events'[i - 1] = events[i])
      /\ \A i \in DOMAIN events : i = 1 \/ i > 1
  BY PollTakes
<1>2. /\ \A k \in Ends' : k + 1 \in Ends
      /\ \A i \in Ends : i = 1 \/ i - 1 \in Ends'
      /\ Ends' \subseteq Nat /\ Ends \subseteq Nat
  BY <1>1 DEF Ends
<1>3. (\A k \in Asks' : k + 1 \in Asks) /\ Asks' \subseteq Nat /\ Asks \subseteq Nat
  BY <1>1 DEF Asks
<1>4. \A i \in Asks', j \in Ends' : j < i
  <2> SUFFICES ASSUME NEW i \in Asks', NEW j \in Ends' PROVE j < i
    OBVIOUS
  <2>1. j + 1 < i + 1
    BY <1>2, <1>3 DEF KeyboardInv
  <2> QED
    BY <1>2, <1>3, <2>1
<1>5. polling /\ polling' = polling
  BY DEF PollNextOverlayEvent
<1>6. PICK e \in Events : e = events[1]
  BY <1>1
<1>7. CASE 1 \in Ends
  <2>1. keyboard = NoField
    BY <1>7 DEF KeyboardInv
  <2>2. e.type \in {"done", "closed"}
    BY <1>6, <1>7 DEF Ends, IsEnd
  <2>3. ~m_keyboardVisible' /\ keyboard' = NoField
    BY <1>1, <1>6, <2>1, <2>2 DEF PollNextOverlayEvent, KeyboardEnded
  <2> QED
    BY <1>4, <2>3 DEF KeyboardInv
<1>8. CASE 1 \notin Ends
  <2>0. e.type \notin {"done", "closed"}
    BY <1>1, <1>6, <1>8 DEF Ends, IsEnd
  <2>1. (Ends = {} => Ends' = {}) /\ (Ends # {} => Ends' # {})
    BY <1>2, <1>8
  <2>2. CASE UNCHANGED <<keyboard, m_keyboardVisible>>
    BY <1>4, <1>5, <2>1, <2>2 DEF KeyboardInv
  <2>3. CASE e.type = "up" /\ e.field # NoField /\ ShowKeyboard(e.field)
    <3>1. 1 \in Asks
      BY <1>1, <1>6, <2>3 DEF Asks
    <3>2. Ends = {}
      <4>1. \A j \in Ends : j \in Nat /\ j < 1 /\ j # 0
        BY <1>1, <1>2, <3>1 DEF KeyboardInv, Ends
      <4> QED
        BY <4>1
    <3>3. Ends' = {}
      BY <2>1, <3>2
    <3>4. CASE keyboard' = e.field /\ m_keyboardVisible'
      BY <1>4, <1>5, <2>3, <3>3, <3>4 DEF KeyboardInv
    <3> QED
      BY <2>2, <2>3, <3>4 DEF ShowKeyboard
  <2> QED
    BY <1>1, <1>6, <2>0, <2>2, <2>3
       DEF PollNextOverlayEvent, OverlayShown, OverlayHidden, MouseDown, MouseUp
<1> QED
  BY <1>7, <1>8

(* and in every step. *)
LEMMA NextKeyboard == TypeOK /\ KeyboardInv /\ [Next]_vars => KeyboardInv'
<1> SUFFICES ASSUME TypeOK, KeyboardInv, [Next]_vars PROVE KeyboardInv'
  OBVIOUS
<1>1. CASE RuntimeActs
  BY <1>1, RuntimeKeyboard
<1>2. CASE PollNextOverlayEvent
  BY <1>2, PollKeyboard
<1>3. CASE UNCHANGED <<keyboard, events, m_keyboardVisible, polling>>
  BY <1>3 DEF KeyboardInv, Ends, Asks
<1>4. CASE EventTimer
  BY <1>4 DEF EventTimer, runtimeVars, KeyboardInv, Ends, Asks
<1>5. CASE PollThumbnail
  <2>1. Asks' = {} /\ Ends' = Ends
    BY <1>5, EmptySeq DEF PollThumbnail, Asks, Ends
  <2> QED
    BY <1>5, <2>1 DEF PollThumbnail, runtimeVars, KeyboardInv
<1> QED
  BY <1>1, <1>2, <1>3, <1>4, <1>5
     DEF Next, RuntimeActs, SceneChanges, SceneChanged, RenderTimer, vars, runtimeVars

(* UpdateKeyboardPosition acts on every keyboard that is up, and on one that is not only until *)
(* its end is polled, however events of several keyboards pile up between two polls.            *)
THEOREM KeyboardIsKnown == Spec => []KeyboardKnown
<1>1. Init => KeyboardInv
  <2> SUFFICES ASSUME Init PROVE KeyboardInv
    OBVIOUS
  <2>1. Ends = {} /\ Asks = {}
    BY EmptySeq DEF Init, Ends, Asks
  <2> QED
    BY <2>1 DEF Init, KeyboardInv
<1>2. TypeOK /\ KeyboardInv /\ [Next]_vars => KeyboardInv'
  BY NextKeyboard
<1>3. KeyboardInv => KeyboardKnown
  BY DEF KeyboardInv, KeyboardKnown, Ends, IsEnd
<1> QED
  BY <1>1, <1>2, <1>3, TypesAreKept, PTL DEF Spec

-----------------------------------------------------------------------------
(* The invariant behind PolledInStep.  The last word about the overlay among the events, or  *)
(* the controller's own if there is none, is true; a button the controller takes to be held   *)
(* is, or its release is among the events; and so it is with a button about to go down: if it  *)
(* is not held any more, its release comes after.                                              *)
Words == {i \in DOMAIN events : IsWord(events[i])}
LastWordIsTrue ==
  /\ Words = {} => (m_overlayVisible <=> place = "ours")
  /\ \A i \in Words : (\A j \in Words : j <= i) => (events[i].type = "shown" <=> place = "ours")
Holds(button) == \E b \in held : AsQtButton(b) = button
LetGo(i, button) == events[i].type = "up" /\ AsQtButton(events[i].button) = button
HeldOrLetGo ==
  /\ \A q \in m_lastButtons : Holds(q) \/ \E i \in DOMAIN events : LetGo(i, q)
  /\ \A i \in DOMAIN events :
       events[i].type = "down"
         => LET q == AsQtButton(events[i].button)
            IN  Holds(q) \/ \E j \in DOMAIN events : j > i /\ LetGo(j, q)
StepInv == LastWordIsTrue /\ HeldOrLetGo

(* LastWordIsTrue under what the runtime does: all words of one action are the same. *)
LEMMA RuntimeWords ==
  ASSUME TypeOK, LastWordIsTrue, RuntimeActs
  PROVE  LastWordIsTrue'
<1>1. PICK news \in Seq(Events) : Tells(news) /\ Agrees(ToSet(news))
  BY RuntimeTells
<1>2. /\ \A i \in DOMAIN events : i \in DOMAIN events' /\ events'[i] = events[i]
      /\ \A e \in ToSet(news) :
           \E k \in DOMAIN events' : events'[k] = e /\ \A i \in DOMAIN events : i < k
      /\ \A k \in DOMAIN events' :
           k \in DOMAIN events \/ (events'[k] \in ToSet(news) /\ \A i \in DOMAIN events : i < k)
      /\ events' \in Seq(Events) /\ m_overlayVisible' = m_overlayVisible
  BY <1>1, TellsAdds
<1>3. DOMAIN events' \subseteq Nat /\ DOMAIN events \subseteq Nat
  BY <1>2, LenProperties DEF TypeOK
<1>4. CASE \E e \in ToSet(news) : IsWord(e)
  <2>1. PICK k \in DOMAIN events' : IsWord(events'[k]) /\ \A i \in DOMAIN events : i < k
    BY <1>2, <1>4
  <2>2. k \in Words'
    BY <2>1 DEF Words
  <2>3. ASSUME NEW i \in Words', \A j \in Words' : j <= i
        PROVE  events'[i].type = "shown" <=> place' = "ours"
    <3>1. k <= i /\ i \in DOMAIN events' /\ IsWord(events'[i])
      BY <2>2, <2>3 DEF Words
    <3>2. i \notin DOMAIN events
      BY <1>3, <2>1, <3>1
    <3> QED
      BY <1>1, <1>2, <3>1, <3>2 DEF Agrees
  <2> QED
    BY <2>2, <2>3 DEF LastWordIsTrue
<1>5. CASE ~ \E e \in ToSet(news) : IsWord(e)
  <2>1. place' = "ours" <=> place = "ours"
    BY <1>1, <1>5 DEF Agrees
  <2>2. Words' = Words /\ \A i \in Words : events'[i] = events[i]
    BY <1>2, <1>5 DEF Words
  <2> QED
    BY <1>2, <2>1, <2>2 DEF LastWordIsTrue
<1> QED
  BY <1>4, <1>5

(* HeldOrLetGo likewise: what is let go is told of last. *)
LEMMA RuntimeButtons ==
  ASSUME TypeOK, HeldOrLetGo, RuntimeActs
  PROVE  HeldOrLetGo'
<1>1. PICK news \in Seq(Events) : Tells(news) /\ Agrees(ToSet(news))
  BY RuntimeTells
<1>2. /\ \A i \in DOMAIN events : i \in DOMAIN events' /\ events'[i] = events[i]
      /\ \A e \in ToSet(news) :
           \E k \in DOMAIN events' : events'[k] = e /\ \A i \in DOMAIN events : i < k
      /\ \A k \in DOMAIN events' :
           k \in DOMAIN events \/ (events'[k] \in ToSet(news) /\ \A i \in DOMAIN events : i < k)
      /\ events' \in Seq(Events) /\ m_lastButtons' = m_lastButtons
  BY <1>1, TellsAdds
<1>3. DOMAIN events' \subseteq Nat /\ DOMAIN events \subseteq Nat
  BY <1>2, LenProperties DEF TypeOK
<1>4. ASSUME NEW q, Holds(q)
      PROVE  \/ Holds(q)'
             \/ \E k \in DOMAIN events' : LetGo(k, q)' /\ \A i \in DOMAIN events : i < k
  <2>1. PICK b \in held : AsQtButton(b) = q
    BY <1>4 DEF Holds
  <2>2. CASE b \in held'
    BY <2>1, <2>2 DEF Holds
  <2>3. CASE b \notin held'
    <3>1. PICK e \in ToSet(news) : e.type = "up" /\ e.button = b
      BY <1>1, <2>3 DEF Agrees
    <3> QED
      BY <1>2, <2>1, <3>1 DEF LetGo
  <2> QED
    BY <2>2, <2>3
<1>5. ASSUME NEW q, NEW i \in DOMAIN events, LetGo(i, q) PROVE i \in DOMAIN events' /\ LetGo(i, q)'
  BY <1>2, <1>5 DEF LetGo
<1>6. ASSUME NEW q \in m_lastButtons' PROVE Holds(q)' \/ \E i \in DOMAIN events' : LetGo(i, q)'
  <2>1. Holds(q) \/ \E i \in DOMAIN events : LetGo(i, q)
    BY <1>2, <1>6 DEF HeldOrLetGo
  <2> QED
    BY <1>4, <1>5, <2>1
<1>7. ASSUME NEW i \in DOMAIN events', events'[i].type = "down",
             NEW q, q = AsQtButton(events'[i].button)
      PROVE  Holds(q)' \/ \E j \in DOMAIN events' : j > i /\ LetGo(j, q)'
  <2>1. CASE i \in DOMAIN events
    <3>1. Holds(q) \/ \E j \in DOMAIN events : j > i /\ LetGo(j, q)
      BY <1>2, <1>7, <2>1 DEF HeldOrLetGo
    <3>2. \A k \in DOMAIN events' : i < k => k > i
      BY <1>3, <2>1
    <3> QED
      BY <1>4, <1>5, <2>1, <3>1, <3>2
  <2>2. CASE i \notin DOMAIN events
    BY <1>1, <1>2, <1>7, <2>2 DEF Agrees, Holds
  <2> QED
    BY <2>1, <2>2
<1> QED
  BY <1>6, <1>7 DEF HeldOrLetGo

(* An event is taken, and the controller believes it. *)
LEMMA PollWords ==
  ASSUME TypeOK, LastWordIsTrue, PollNextOverlayEvent
  PROVE  LastWordIsTrue'
<1>1. /\ 1 \in DOMAIN events /\ events[1] \in Events /\ Head(events) = events[1]
      /\ DOMAIN events \subseteq Nat /\ DOMAIN events' \subseteq Nat
      /\ \A k \in DOMAIN events' : k + 1 \in DOMAIN events /\ events'[k] = events[k + 1]
      /\ \A i \in DOMAIN events : i = 1 \/ (i - 1 \in DOMAIN events' /\ events'[i - 1] = events[i])
      /\ \A i \in DOMAIN events : i = 1 \/ i > 1
  BY PollTakes
<1>2. /\ \A k \in Words' : k + 1 \in Words /\ events'[k] = events[k + 1]
      /\ \A i \in Words : i = 1 \/ i - 1 \in Words'
      /\ Words' \subseteq Nat /\ Words \subseteq Nat /\ \A i \in Words : i = 1 \/ i > 1
  BY <1>1 DEF Words
<1>3. place' = place
  BY DEF PollNextOverlayEvent
<1>4. PICK e \in Events : e = events[1]
  BY <1>1
<1>5. ASSUME Words' = {} PROVE m_overlayVisible' <=> place' = "ours"
  <2>1. \A i \in Words : i = 1
    BY <1>2, <1>5
  <2>2. CASE 1 \in Words
    <3>1. e.type = "shown" <=> place = "ours"
      BY <1>2, <1>4, <2>1, <2>2 DEF LastWordIsTrue
    <3>2. e.type \in {"shown", "hidden"}
      BY <1>4, <2>2 DEF Words, IsWord
    <3>3. m_overlayVisible' <=> e.type = "shown"
      BY <1>1, <1>4, <3>2 DEF PollNextOverlayEvent, OverlayShown, OverlayHidden
    <3> QED
      BY <1>3, <3>1, <3>3
  <2>3. CASE 1 \notin Words
    <3>1. Words = {}
      BY <2>1, <2>3
    <3>2. e.type \notin {"shown", "hidden"}
      BY <1>1, <1>4, <2>3 DEF Words, IsWord
    <3>3. m_overlayVisible' = m_overlayVisible
      BY <1>1, <1>4, <3>2 DEF PollNextOverlayEvent, MouseDown, MouseUp, KeyboardEnded
    <3> QED
      BY <1>3, <3>1, <3>3 DEF LastWordIsTrue
  <2> QED
    BY <2>2, <2>3
<1>6. ASSUME NEW k \in Words', \A j \in Words' : j <= k
      PROVE  events'[k].type = "shown" <=> place' = "ours"
  <2>1. \A i \in Words : i <= k + 1
    <3> SUFFICES ASSUME NEW i \in Words PROVE i <= k + 1
      OBVIOUS
    <3>1. CASE i = 1
      BY <1>2, <3>1
    <3>2. CASE i - 1 \in Words'
      BY <1>2, <1>6, <3>2
    <3> QED
      BY <1>2, <3>1, <3>2
  <2> QED
    BY <1>2, <1>3, <2>1 DEF LastWordIsTrue
<1> QED
  BY <1>5, <1>6 DEF LastWordIsTrue

(* A button goes down, and is held or let go later; or up, and then it is not counted. *)
LEMMA PollButtons ==
  ASSUME TypeOK, HeldOrLetGo, PollNextOverlayEvent
  PROVE  HeldOrLetGo'
<1>1. /\ 1 \in DOMAIN events /\ events[1] \in Events /\ Head(events) = events[1]
      /\ DOMAIN events \subseteq Nat /\ DOMAIN events' \subseteq Nat
      /\ \A k \in DOMAIN events' : k + 1 \in DOMAIN events /\ events'[k] = events[k + 1]
      /\ \A i \in DOMAIN events : i = 1 \/ (i - 1 \in DOMAIN events' /\ events'[i - 1] = events[i])
      /\ \A i \in DOMAIN events : i = 1 \/ i > 1
  BY PollTakes
<1>2. \A q : Holds(q)' <=> Holds(q)
  BY DEF PollNextOverlayEvent, Holds
<1>3. PICK e \in Events : e = events[1]
  BY <1>1
<1>4. ASSUME NEW q, NEW i \in DOMAIN events, i # 1, LetGo(i, q)
      PROVE  i - 1 \in DOMAIN events' /\ LetGo(i - 1, q)'
  BY <1>1, <1>4 DEF LetGo
<1>5. ASSUME NEW k \in DOMAIN events', events'[k].type = "down",
             NEW q, q = AsQtButton(events'[k].button)
      PROVE  Holds(q)' \/ \E j \in DOMAIN events' : j > k /\ LetGo(j, q)'
  <2>1. CASE Holds(q)
    BY <1>2, <2>1
  <2>2. CASE ~Holds(q)
    <3>1. PICK j \in DOMAIN events : j > k + 1 /\ LetGo(j, q)
      BY <1>1, <1>5, <2>2 DEF HeldOrLetGo
    <3>2. j # 1 /\ j - 1 > k
      BY <1>1, <3>1
    <3> QED
      BY <1>4, <3>1, <3>2
  <2> QED
    BY <2>1, <2>2
<1>6. ASSUME NEW q \in m_lastButtons' PROVE Holds(q)' \/ \E i \in DOMAIN events' : LetGo(i, q)'
  <2> SUFFICES ASSUME ~Holds(q) PROVE \E i \in DOMAIN events' : LetGo(i, q)'
    BY <1>2
  <2>1. CASE e.type = "down" /\ q = AsQtButton(e.button)
    <3>1. PICK j \in DOMAIN events : j > 1 /\ LetGo(j, q)
      BY <1>1, <1>3, <2>1 DEF HeldOrLetGo
    <3>2. j # 1
      BY <3>1
    <3> QED
      BY <1>4, <3>1, <3>2
  <2>2. CASE ~(e.type = "down" /\ q = AsQtButton(e.button))
    <3>1. q \in m_lastButtons /\ ~(e.type = "up" /\ q = AsQtButton(e.button))
      BY <1>1, <1>3, <1>6, <2>2
         DEF PollNextOverlayEvent, OverlayShown, OverlayHidden, MouseDown, MouseUp, Released,
             KeyboardEnded
    <3>2. PICK i \in DOMAIN events : LetGo(i, q)
      BY <3>1 DEF HeldOrLetGo
    <3>3. i # 1
      BY <1>3, <3>1, <3>2 DEF LetGo
    <3> QED
      BY <1>4, <3>2, <3>3
  <2> QED
    BY <2>1, <2>2
<1> QED
  BY <1>5, <1>6 DEF HeldOrLetGo

(* StepInv, step by step. *)
LEMMA NextStep == TypeOK /\ StepInv /\ [Next]_vars => StepInv'
<1> SUFFICES ASSUME TypeOK, StepInv, [Next]_vars PROVE StepInv'
  OBVIOUS
<1> USE DEF StepInv
<1>1. CASE RuntimeActs
  BY <1>1, RuntimeWords, RuntimeButtons
<1>2. CASE PollNextOverlayEvent
  BY <1>2, PollWords, PollButtons
<1>3. CASE UNCHANGED <<place, held, events, m_overlayVisible, m_lastButtons>>
  BY <1>3 DEF LastWordIsTrue, Words, HeldOrLetGo, Holds, LetGo
<1> QED
  BY <1>1, <1>2, <1>3
     DEF Next, RuntimeActs, SceneChanges, SceneChanged, RenderTimer, EventTimer, PollThumbnail,
         vars, runtimeVars

(* However fast the user opens and closes the overlay and presses and lets go between two *)
(* polls: once its events are polled the controller agrees with the runtime whether the    *)
(* overlay is open, and counts no button as held that is not.                              *)
THEOREM ControllerInStep == Spec => []PolledInStep
<1>1. Init => StepInv
  <2> SUFFICES ASSUME Init PROVE StepInv
    OBVIOUS
  <2>1. DOMAIN events = {} /\ Words = {}
    BY EmptySeq DEF Init, Words
  <2> QED
    BY <2>1 DEF Init, StepInv, LastWordIsTrue, HeldOrLetGo
<1>2. TypeOK /\ StepInv /\ [Next]_vars => StepInv'
  BY NextStep
<1>3. StepInv => PolledInStep
  <2> SUFFICES ASSUME StepInv, events = <<>>
               PROVE  /\ m_overlayVisible <=> place = "ours"
                      /\ m_lastButtons \subseteq {AsQtButton(b) : b \in held}
    BY DEF PolledInStep
  <2>1. DOMAIN events = {} /\ Words = {}
    BY EmptySeq DEF Words
  <2> QED
    BY <2>1 DEF StepInv, LastWordIsTrue, HeldOrLetGo, Holds
<1> QED
  BY <1>1, <1>2, <1>3, TypesAreKept, PTL DEF Spec

===============================================================================
