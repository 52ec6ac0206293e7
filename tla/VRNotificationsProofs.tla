------------------------- MODULE VRNotificationsProofs -------------------------
(***************************************************************************)
(* Theorems about VRNotifications for every set of identifiers, however    *)
(* many notifications the runtime creates and however many events wait.    *)
(***************************************************************************)
EXTENDS VRNotifications, ListLemmas

-----------------------------------------------------------------------------
(* A number is what a number in TypeOK is. *)
Numbers == 1..MaxCreated
Notification == [number : Numbers, identifier : Identifiers]

(* The numbers given so far: no entry, notification or event has another. *)
GivenOnly ==
  /\ \A i \in Identifiers : m_notifications[i] <= created
  /\ \A n \in live : n.number <= created
  /\ \A number \in ToSet(events) : number <= created

(* An event is about a notification that is gone, and its number is not given again. *)
ToldIsGone == \A n \in live : n.number \notin ToSet(events)

(* No two identifiers have an entry with the same number. *)
OneEntry ==
  \A i, j \in Identifiers :
    m_notifications[i] = m_notifications[j] /\ m_notifications[i] # NoEntry => i = j

(* GoneIsTold, with the events as a set. *)
NoneForgotten ==
  \A i \in Identifiers :
    \/ m_notifications[i] = NoEntry
    \/ \E n \in live : n.number = m_notifications[i]
    \/ m_notifications[i] \in ToSet(events)

EntryInv ==
  GivenOnly /\ ToldIsGone /\ OneEntry /\ NoneForgotten /\ LiveIsEntered

(* What a removal leaves of the entries and of the runtime's notifications, and the *)
(* numbers of those that are gone.                                                   *)
Removed(identifier, after) ==
  LET number == m_notifications[identifier] IN
  \/ /\ number = NoEntry /\ after.ok
     /\ after.entries = m_notifications /\ after.live = live
  \/ /\ number # NoEntry /\ after.ok
     /\ after.entries = [m_notifications EXCEPT ![identifier] = NoEntry]
     /\ after.live = {n \in live : n.number # number}
  \/ /\ number # NoEntry /\ ~after.ok
     /\ after.entries = m_notifications /\ after.live = live

(* The cases of a removal. *)
LEMMA RemovalCases ==
  ASSUME NEW i \in Identifiers, NEW after \in Removals(i)
  PROVE  Removed(i, after)
BY DEF Removals, Removed, Erased, Without

(* The runtime tells of nothing, or of one number among those given. *)
LEMMA Tells ==
  ASSUME TypeOK, NEW S \in SUBSET Numbers, RuntimeTells(S)
  PROVE  /\ events' \in Seq(Numbers) /\ Len(events') <= MaxEvents
         /\ ToSet(events) \subseteq ToSet(events')
         /\ \A number \in ToSet(events') : number \in ToSet(events) \/ number \in S
<1>1. events \in Seq(Numbers) /\ MaxEvents \in Nat
  BY BoundsAreNatural DEF TypeOK, Numbers
<1>2. CASE UNCHANGED events
  BY <1>1, <1>2 DEF TypeOK
<1>3. CASE \E number \in S : Len(events) < MaxEvents /\ events' = Append(events, number)
  <2>1. PICK number \in S : Len(events) < MaxEvents /\ events' = Append(events, number)
    BY <1>3
  <2>2. /\ events' \in Seq(Numbers) /\ Len(events') = Len(events) + 1 /\ Len(events) \in Nat
        /\ ToSet(events') = ToSet(events) \cup {number}
    BY <1>1, <2>1, JoinsQueue, AppendToInjective
  <2> QED
    BY <1>1, <2>1, <2>2
<1> QED
  BY <1>2, <1>3 DEF RuntimeTells

(* What a removal drops is no longer among the notifications, and was. *)
LEMMA DroppedIsGone ==
  ASSUME TypeOK, NEW i \in Identifiers, NEW after, Removed(i, after)
  PROVE  /\ Dropped(after) \in SUBSET Numbers
         /\ \A d \in Dropped(after) : /\ d = m_notifications[i]
                                      /\ \E n \in live : n.number = d
                                      /\ \A n \in after.live : n.number # d
         /\ after.live \subseteq live
         /\ after.entries \in [Identifiers -> NoEntry..MaxCreated]
<1>1. /\ after.live \subseteq live
      /\ \A n \in live : n \in after.live \/ n.number = m_notifications[i]
      /\ \A n \in live, d \in Dropped(after) : n.number = d => n \notin after.live
  BY DEF Removed, Dropped
<1>2. after.entries \in [Identifiers -> NoEntry..MaxCreated]
  <2> DEFINE Entry == NoEntry..MaxCreated
  <2>1. m_notifications \in [Identifiers -> Entry] /\ NoEntry \in Entry
    BY BoundsAreNatural DEF TypeOK, NoEntry
  <2> HIDE DEF Entry
  <2>2. after.entries \in [Identifiers -> Entry]
    BY <2>1 DEF Removed
  <2> QED
    BY <2>2 DEF Entry
<1>3. ASSUME NEW d \in Dropped(after)
      PROVE  d \in Numbers /\ d = m_notifications[i] /\ \E n \in live : n.number = d
  <2>1. PICK n \in live : n \notin after.live /\ d = n.number
    BY DEF Dropped
  <2>2. n \in [number : Numbers, identifier : Identifiers]
    BY DEF TypeOK, Numbers
  <2> QED
    BY <1>1, <2>1, <2>2
<1> QED
  BY <1>1, <1>2, <1>3

(* The state a removal leaves, before anything new is shown, with the events of after. *)
Settled(i, after) ==
  /\ after.entries \in [Identifiers -> 0..MaxCreated] /\ after.live \subseteq live
  /\ events' \in Seq(Numbers)
  /\ \A j \in Identifiers : after.entries[j] <= created
  /\ \A n \in after.live : n.number <= created
  /\ \A number \in ToSet(events') : number \in Nat /\ number <= created
  /\ \A n \in after.live : n.number \notin ToSet(events')
  /\ \A j, k \in Identifiers :
       after.entries[j] = after.entries[k] /\ after.entries[j] # 0 => j = k
  /\ \A j \in Identifiers :
       \/ after.entries[j] = 0
       \/ \E n \in after.live : n.number = after.entries[j]
       \/ after.entries[j] \in ToSet(events')
  /\ after.ok => after.entries[i] = 0
  /\ ~failed /\ after.ok =>
       \A n \in after.live : /\ n.identifier # i /\ n.identifier \in wanted
                            /\ after.entries[n.identifier] = n.number

(* A removal keeps every part of EntryInv. *)
LEMMA RemovalSettles ==
  ASSUME TypeOK, EntryInv, NEW i \in Identifiers, NEW after, Removed(i, after),
         RuntimeTells(Dropped(after))
  PROVE  Settled(i, after)
<1> USE DEF NoEntry
<1>1. /\ Dropped(after) \in SUBSET Numbers
      /\ \A d \in Dropped(after) : /\ d = m_notifications[i]
                                   /\ \E n \in live : n.number = d
                                   /\ \A n \in after.live : n.number # d
      /\ after.live \subseteq live
      /\ after.entries \in [Identifiers -> 0..MaxCreated]
  BY DroppedIsGone
<1>2. /\ events' \in Seq(Numbers)
      /\ ToSet(events) \subseteq ToSet(events')
      /\ \A number \in ToSet(events') : number \in ToSet(events) \/ number \in Dropped(after)
  BY <1>1, Tells
<1>3. /\ created \in Nat /\ m_notifications \in [Identifiers -> 0..MaxCreated]
      /\ live \subseteq Notification /\ MaxCreated \in Nat
  BY BoundsAreNatural DEF TypeOK, Numbers, Notification
<1>4. /\ \A j \in Identifiers : after.entries[j] <= created
      /\ \A n \in after.live : n.number <= created
  <2>1. \A j \in Identifiers : after.entries[j] \in {0, m_notifications[j]}
    BY <1>3 DEF Removed
  <2>2. \A j \in Identifiers : m_notifications[j] <= created
    BY DEF EntryInv, GivenOnly
  <2> QED
    BY <1>1, <1>3, <2>1, <2>2 DEF EntryInv, GivenOnly
<1>5. /\ \A number \in ToSet(events') : number \in Nat /\ number <= created
      /\ \A n \in after.live : n.number \notin ToSet(events')
  <2>1. ToSet(events') \subseteq Numbers
    BY <1>2, LenProperties DEF ToSet
  <2> QED
    BY <1>1, <1>2, <1>3, <2>1 DEF EntryInv, GivenOnly, ToldIsGone, Numbers
<1>6. \A j, k \in Identifiers :
        after.entries[j] = after.entries[k] /\ after.entries[j] # 0 => j = k
  <2>1. \A j \in Identifiers : after.entries[j] = 0 \/ after.entries[j] = m_notifications[j]
    BY <1>3 DEF Removed
  <2>2. OneEntry
    BY DEF EntryInv
  <2> QED
    BY <2>1, <2>2 DEF OneEntry
<1>7. ASSUME NEW j \in Identifiers, after.entries[j] # 0
      PROVE  \/ \E n \in after.live : n.number = after.entries[j]
             \/ after.entries[j] \in ToSet(events')
  <2>1. /\ after.entries[j] = m_notifications[j]
        /\ \A n \in live : n.number = m_notifications[j] => n \in after.live
    <3>1. after.entries[j] = m_notifications[j]
      BY <1>3, <1>7 DEF Removed
    <3>2. \A n \in live :
            n \notin after.live => n.number = m_notifications[i] /\ after.entries[i] = 0
      BY <1>3 DEF Removed
    <3>3. ASSUME NEW n \in live, n.number = m_notifications[j], n \notin after.live PROVE FALSE
      <4>1. m_notifications[i] = m_notifications[j] /\ after.entries[i] = 0
        BY <3>2, <3>3
      <4>2. i = j
        BY <1>7, <3>1, <4>1 DEF EntryInv, OneEntry
      <4> QED
        BY <1>7, <4>1, <4>2
    <3> QED
      BY <3>1, <3>3
  <2> QED
    BY <1>2, <1>7, <2>1 DEF EntryInv, NoneForgotten
<1>8. after.ok => after.entries[i] = 0
  BY <1>3 DEF Removed
<1>9. ASSUME ~failed, after.ok, NEW n \in after.live
      PROVE  /\ n.identifier # i /\ n.identifier \in wanted
             /\ after.entries[n.identifier] = n.number
  <2>1. n \in live /\ n.identifier \in Identifiers /\ n.number \in Nat \ {0}
    BY <1>1, <1>3 DEF Notification, Numbers
  <2>2. m_notifications[n.identifier] = n.number /\ n.identifier \in wanted
    BY <1>9, <2>1 DEF EntryInv, LiveIsEntered
  <2>3. n.identifier # i
    BY <1>9, <2>1, <2>2 DEF Removed
  <2> QED
    BY <1>3, <1>9, <2>1, <2>2, <2>3 DEF Removed
<1> QED
  BY <1>1, <1>2, <1>4, <1>5, <1>6, <1>7, <1>8, <1>9 DEF Settled

(* TypeOK, step by step. *)
LEMMA NextType == TypeOK /\ [Next]_vars => TypeOK'
<1> SUFFICES ASSUME TypeOK, [Next]_vars PROVE TypeOK'
  OBVIOUS
<1>1. ASSUME NEW i \in Identifiers, ShowNotification(i) PROVE TypeOK'
  <2>1. PICK after \in Removals(i) :
          /\ failed' = (failed \/ ~after.ok)
          /\ RuntimeTells(Dropped(after))
          /\ wanted' = wanted \cup {i}
          /\ \/ /\ created < MaxCreated
                /\ created' = created + 1
                /\ live' = after.live \cup {[number |-> created', identifier |-> i]}
                /\ m_notifications' = Entered(after.entries, i, created')
             \/ /\ m_notifications' = NotEntered(after.entries, i)
                /\ live' = after.live
                /\ UNCHANGED created
    BY <1>1 DEF ShowNotification
  <2>2. Removed(i, after)
    BY RemovalCases
  <2>3. /\ Dropped(after) \in SUBSET Numbers /\ after.live \subseteq live
        /\ after.entries \in [Identifiers -> NoEntry..MaxCreated]
    BY <2>2, DroppedIsGone
  <2>4. events' \in Seq(1..MaxCreated) /\ Len(events') <= MaxEvents
    BY <2>1, <2>3, Tells DEF Numbers
  <2>5. /\ m_notifications' \in [Identifiers -> NoEntry..MaxCreated]
        /\ live' \subseteq [number : 1..MaxCreated, identifier : Identifiers]
        /\ created' \in 0..MaxCreated
    <3>1. CASE /\ created < MaxCreated
               /\ created' = created + 1
               /\ live' = after.live \cup {[number |-> created', identifier |-> i]}
               /\ m_notifications' = Entered(after.entries, i, created')
      <4>1. created' \in 1..MaxCreated
        BY <3>1, BoundsAreNatural DEF TypeOK
      <4>2. m_notifications' \in [Identifiers -> NoEntry..MaxCreated]
        BY <2>3, <3>1, <4>1, BoundsAreNatural DEF Entered, NoEntry
      <4> QED
        BY <2>3, <3>1, <4>1, <4>2, BoundsAreNatural DEF TypeOK
    <3>2. CASE m_notifications' = NotEntered(after.entries, i) /\ live' = after.live
                 /\ UNCHANGED created
      BY <2>3, <3>2 DEF TypeOK, NotEntered
    <3> QED
      BY <2>1, <3>1, <3>2
  <2>6. failed' \in BOOLEAN
    BY <2>1
  <2> QED
    BY <2>1, <2>4, <2>5, <2>6 DEF TypeOK
<1>2. ASSUME NEW i \in Identifiers, RemoveNotification(i) PROVE TypeOK'
  <2>1. PICK after \in Removals(i) :
          /\ m_notifications' = after.entries
          /\ live' = after.live
          /\ failed' = (failed \/ ~after.ok)
          /\ RuntimeTells(Dropped(after))
          /\ wanted' = wanted \ {i}
          /\ UNCHANGED created
    BY <1>2 DEF RemoveNotification
  <2>2. Removed(i, after)
    BY RemovalCases
  <2>3. /\ Dropped(after) \in SUBSET Numbers /\ after.live \subseteq live
        /\ after.entries \in [Identifiers -> NoEntry..MaxCreated]
    BY <2>2, DroppedIsGone
  <2>4. events' \in Seq(1..MaxCreated) /\ Len(events') <= MaxEvents
    BY <2>1, <2>3, Tells DEF Numbers
  <2>5. failed' \in BOOLEAN
    BY <2>1
  <2> QED
    BY <2>1, <2>3, <2>4, <2>5 DEF TypeOK
<1>3. ASSUME NEW number \in 1..MaxCreated, RuntimeDrops(number) PROVE TypeOK'
  <2>1. events \in Seq(1..MaxCreated) /\ events' = Append(events, number)
    BY <1>3 DEF RuntimeDrops, TypeOK
  <2>2. events' \in Seq(1..MaxCreated) /\ Len(events') = Len(events) + 1 /\ Len(events) \in Nat
    BY <2>1, JoinsQueue
  <2> QED
    BY <1>3, <2>2, BoundsAreNatural DEF RuntimeDrops, TypeOK, Without
<1>4. ASSUME PollEvents PROVE TypeOK'
  <2>1. events \in Seq(1..MaxCreated) /\ events # <<>> /\ events' = Tail(events)
    BY <1>4 DEF PollEvents, TypeOK
  <2>2. /\ events' \in Seq(1..MaxCreated) /\ Len(events') = Len(events) - 1
        /\ Len(events) \in Nat \ {0}
    BY <2>1, LeavesQueue
  <2> QED
    BY <1>4, <2>2, BoundsAreNatural DEF PollEvents, TypeOK, Forgotten, NoEntry
<1>5. CASE UNCHANGED vars
  BY <1>5 DEF vars, TypeOK
<1> QED
  BY <1>1, <1>2, <1>3, <1>4, <1>5 DEF Next

(* Every notification, entry and event has a number that was given, in every state. *)
THEOREM TypesAreKept == SafeSpec => []TypeOK
<1>1. Init => TypeOK
  <2> SUFFICES ASSUME Init PROVE TypeOK
    OBVIOUS
  <2>1. events \in Seq(1..MaxCreated) /\ Len(events) <= MaxEvents
    BY EmptySeq, BoundsAreNatural DEF Init
  <2>2. /\ m_notifications \in [Identifiers -> NoEntry..MaxCreated]
        /\ created \in 0..MaxCreated
    BY BoundsAreNatural DEF Init, NoEntry
  <2>3. /\ live \subseteq [number : 1..MaxCreated, identifier : Identifiers]
        /\ wanted \subseteq Identifiers
    BY DEF Init
  <2>4. failed \in BOOLEAN
    BY DEF Init
  <2> QED
    BY <2>1, <2>2, <2>3, <2>4 DEF TypeOK
<1> QED
  BY <1>1, NextType, PTL DEF SafeSpec

-----------------------------------------------------------------------------
(* EntryInv, step by step. *)
LEMMA NextEntry == TypeOK /\ EntryInv /\ [Next]_vars => EntryInv'
<1> SUFFICES ASSUME TypeOK, EntryInv, [Next]_vars PROVE EntryInv'
  OBVIOUS
<1> USE DEF NoEntry
<1>t. /\ events \in Seq(Numbers) /\ created \in Nat /\ MaxCreated \in Nat
      /\ m_notifications \in [Identifiers -> 0..MaxCreated]
      /\ live \subseteq Notification
  BY BoundsAreNatural DEF TypeOK, Numbers, Notification
<1>1. ASSUME NEW i \in Identifiers, ShowNotification(i) PROVE EntryInv'
  <2>1. PICK after \in Removals(i) :
          /\ failed' = (failed \/ ~after.ok)
          /\ RuntimeTells(Dropped(after))
          /\ wanted' = wanted \cup {i}
          /\ \/ /\ created < MaxCreated
                /\ created' = created + 1
                /\ live' = after.live \cup {[number |-> created', identifier |-> i]}
                /\ m_notifications' = Entered(after.entries, i, created')
             \/ /\ m_notifications' = NotEntered(after.entries, i)
                /\ live' = after.live
                /\ UNCHANGED created
    BY <1>1 DEF ShowNotification
  <2>2. Removed(i, after)
    BY RemovalCases
  <2>3. Settled(i, after)
    BY <2>1, <2>2, RemovalSettles
  <2>4. CASE /\ created < MaxCreated
             /\ created' = created + 1
             /\ live' = after.live \cup {[number |-> created', identifier |-> i]}
             /\ m_notifications' = Entered(after.entries, i, created')
    <3>1. m_notifications' =
            [after.entries EXCEPT ![i] = IF after.entries[i] = 0 THEN created + 1
                                         ELSE after.entries[i]]
      BY <2>4 DEF Entered
    <3>2. GivenOnly'
      <4>1. \A j \in Identifiers : m_notifications'[j] \in {created + 1, after.entries[j]}
        BY <2>3, <3>1 DEF Settled
      <4>2. \A j \in Identifiers : m_notifications'[j] <= created'
        <5>1. \A j \in Identifiers : after.entries[j] \in Int /\ after.entries[j] <= created
          BY <1>t, <2>3 DEF Settled
        <5> QED
          BY <1>t, <2>4, <4>1, <5>1
      <4>3. \A n \in live' : n.number <= created'
        BY <1>t, <2>3, <2>4 DEF Settled, Notification, Numbers
      <4>4. \A number \in ToSet(events') : number <= created'
        BY <1>t, <2>3, <2>4 DEF Settled
      <4> QED
        BY <4>2, <4>3, <4>4 DEF GivenOnly
    <3>3. ToldIsGone'
      BY <1>t, <2>3, <2>4 DEF Settled, ToldIsGone
    <3>4. OneEntry'
      BY <1>t, <2>3, <3>1 DEF Settled, OneEntry
    <3>5. NoneForgotten'
      <4> SUFFICES ASSUME NEW j \in Identifiers, m_notifications'[j] # 0
                   PROVE  \/ \E n \in live' : n.number = m_notifications'[j]
                          \/ m_notifications'[j] \in ToSet(events')
        BY DEF NoneForgotten
      <4> DEFINE new == [number |-> created', identifier |-> i]
      <4>1. new \in live' /\ new.number = created + 1 /\ after.live \subseteq live'
        BY <2>4
      <4>2. m_notifications'[j] = created + 1 \/ m_notifications'[j] = after.entries[j]
        BY <2>3, <3>1 DEF Settled
      <4> HIDE DEF new
      <4> QED
        BY <2>3, <4>1, <4>2 DEF Settled
    <3>6. LiveIsEntered'
      <4> SUFFICES ASSUME ~failed', NEW n \in live'
                   PROVE  m_notifications'[n.identifier] = n.number /\ n.identifier \in wanted'
        BY DEF LiveIsEntered
      <4>1. ~failed /\ after.ok
        BY <2>1
      <4>2. after.entries[i] = 0
        BY <4>1, <2>3 DEF Settled
      <4>3. CASE n \in after.live
        BY <1>t, <2>1, <2>3, <3>1, <4>1, <4>3 DEF Settled
      <4>4. CASE n = [number |-> created', identifier |-> i]
        BY <1>t, <2>1, <2>3, <2>4, <3>1, <4>2, <4>4 DEF Settled
      <4> QED
        BY <2>4, <4>3, <4>4
    <3> QED
      BY <3>2, <3>3, <3>4, <3>5, <3>6 DEF EntryInv
  <2>5. CASE /\ m_notifications' = NotEntered(after.entries, i)
             /\ live' = after.live
             /\ UNCHANGED created
    <3>1. m_notifications' = after.entries
      BY <2>5 DEF NotEntered
    <3>2. GivenOnly' /\ ToldIsGone' /\ OneEntry' /\ NoneForgotten'
      BY <1>t, <2>3, <2>5, <3>1 DEF Settled, GivenOnly, ToldIsGone, OneEntry, NoneForgotten
    <3>3. LiveIsEntered'
      BY <1>t, <2>1, <2>3, <2>5, <3>1 DEF Settled, LiveIsEntered
    <3> QED
      BY <3>2, <3>3 DEF EntryInv
  <2> QED
    BY <2>1, <2>4, <2>5
<1>2. ASSUME NEW i \in Identifiers, RemoveNotification(i) PROVE EntryInv'
  <2>1. PICK after \in Removals(i) :
          /\ m_notifications' = after.entries
          /\ live' = after.live
          /\ failed' = (failed \/ ~after.ok)
          /\ RuntimeTells(Dropped(after))
          /\ wanted' = wanted \ {i}
          /\ UNCHANGED created
    BY <1>2 DEF RemoveNotification
  <2>2. Settled(i, after)
    BY <2>1, RemovalCases, RemovalSettles
  <2>3. GivenOnly' /\ ToldIsGone' /\ OneEntry' /\ NoneForgotten'
    BY <1>t, <2>1, <2>2 DEF Settled, GivenOnly, ToldIsGone, OneEntry, NoneForgotten
  <2>4. LiveIsEntered'
    BY <1>t, <2>1, <2>2 DEF Settled, LiveIsEntered
  <2> QED
    BY <2>3, <2>4 DEF EntryInv
<1>3. ASSUME NEW number \in 1..MaxCreated, RuntimeDrops(number) PROVE EntryInv'
  <2>1. /\ live' = {n \in live : n.number # number}
        /\ \E n \in live : n.number = number
        /\ UNCHANGED <<m_notifications, created, wanted, failed>>
    BY <1>3 DEF RuntimeDrops, Without, Live
  <2>2. ToSet(events') = ToSet(events) \cup {number}
    BY <1>t, <1>3, AppendToInjective DEF RuntimeDrops, Numbers
  <2>3. GivenOnly' /\ ToldIsGone' /\ OneEntry'
    BY <1>t, <2>1, <2>2 DEF EntryInv, GivenOnly, ToldIsGone, OneEntry
  <2>4. NoneForgotten'
    BY <1>t, <2>1, <2>2 DEF EntryInv, NoneForgotten
  <2>5. LiveIsEntered'
    BY <2>1 DEF EntryInv, LiveIsEntered
  <2> QED
    BY <2>3, <2>4, <2>5 DEF EntryInv
<1>4. ASSUME PollEvents PROVE EntryInv'
  <2> DEFINE h == Head(events)
  <2>1. h \in ToSet(events) /\ ToSet(events) \subseteq ToSet(events') \cup {h}
          /\ ToSet(events') \subseteq ToSet(events)
    <3>1. events # <<>> /\ events' = Tail(events)
      BY <1>4 DEF PollEvents
    <3>2. /\ Head(events) = events[1] /\ 1 \in DOMAIN events
          /\ \A k \in DOMAIN Tail(events) :
               k + 1 \in DOMAIN events /\ Tail(events)[k] = events[k + 1]
          /\ \A k \in DOMAIN events :
               \/ k = 1
               \/ (k - 1 \in DOMAIN Tail(events) /\ Tail(events)[k - 1] = events[k])
      BY <1>t, <3>1, LeavesQueue
    <3>3. h \in ToSet(events)
      BY <3>2 DEF ToSet
    <3>4. ASSUME NEW e \in ToSet(events') PROVE e \in ToSet(events)
      <4>1. PICK k \in DOMAIN Tail(events) : e = Tail(events)[k]
        BY <3>1 DEF ToSet
      <4> QED
        BY <3>2, <4>1 DEF ToSet
    <3>5. ASSUME NEW e \in ToSet(events), e # h PROVE e \in ToSet(events')
      <4>1. PICK k \in DOMAIN events : e = events[k]
        BY DEF ToSet
      <4>2. k - 1 \in DOMAIN Tail(events) /\ Tail(events)[k - 1] = e
        BY <3>2, <3>5, <4>1
      <4> QED
        BY <3>1, <4>2 DEF ToSet
    <3> QED
      BY <3>3, <3>4, <3>5
  <2>2. /\ m_notifications' = [j \in Identifiers |-> IF m_notifications[j] = h THEN 0
                                                    ELSE m_notifications[j]]
        /\ UNCHANGED <<live, created, wanted, failed>>
    BY <1>4 DEF PollEvents, Forgotten
  <2> HIDE DEF h
  <2>3. GivenOnly' /\ ToldIsGone' /\ OneEntry'
    BY <1>t, <2>1, <2>2 DEF EntryInv, GivenOnly, ToldIsGone, OneEntry
  <2>4. NoneForgotten'
    BY <1>t, <2>1, <2>2 DEF EntryInv, NoneForgotten
  <2>5. LiveIsEntered'
    BY <1>t, <2>1, <2>2 DEF EntryInv, LiveIsEntered, ToldIsGone, Notification
  <2> QED
    BY <2>3, <2>4, <2>5 DEF EntryInv
<1>5. CASE UNCHANGED vars
  BY <1>5 DEF vars, EntryInv, GivenOnly, ToldIsGone, OneEntry, NoneForgotten, LiveIsEntered
<1> QED
  BY <1>1, <1>2, <1>3, <1>4, <1>5 DEF Next

(* NoneForgotten is GoneIsTold. *)
LEMMA ToldAsEvents == TypeOK /\ NoneForgotten => GoneIsTold
BY DEF TypeOK, NoneForgotten, GoneIsTold, Live, ToSet

(* EntryInv holds at first. *)
LEMMA InitEntry == Init => EntryInv
<1> SUFFICES ASSUME Init PROVE EntryInv
  OBVIOUS
<1>1. ToSet(events) = {}
  BY ShortLists DEF Init
<1> QED
  BY <1>1 DEF Init, EntryInv, GivenOnly, ToldIsGone, OneEntry, NoneForgotten, LiveIsEntered,
              NoEntry

(* As long as the runtime refused no removal, whatever is shown in VR can be found by *)
(* the identifier the phone removes it with, and the phone still wants it shown.      *)
THEOREM LiveNotificationsAreEntered == SafeSpec => []LiveIsEntered
<1>1. EntryInv => LiveIsEntered
  BY DEF EntryInv
<1> QED
  BY <1>1, InitEntry, NextEntry, TypesAreKept, PTL DEF SafeSpec

(* Even after refusals: an entry whose notification is gone waits for its event. *)
THEOREM GoneNotificationsAreTold == SafeSpec => []GoneIsTold
<1>1. TypeOK /\ EntryInv => GoneIsTold
  BY ToldAsEvents DEF EntryInv
<1> QED
  BY <1>1, InitEntry, NextEntry, TypesAreKept, PTL DEF SafeSpec

=============================================================================
