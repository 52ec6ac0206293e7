-------------------------- MODULE VRNotifications --------------------------
(***************************************************************************)
(* The notifications OverlayController shows in VR.  The VR runtime gives  *)
(* each a number of its own and drops it when it likes; the controller     *)
(* hears of it when it polls the events, and meanwhile the phone may       *)
(* change or remove the notification.                                      *)
(***************************************************************************)
EXTENDS Integers, Sequences, FiniteSets

CONSTANTS
    Identifiers,  \* what ShowNotification may be called with
    MaxCreated,   \* bound: notifications the runtime creates
    MaxEvents     \* bound: events that wait to be polled

ASSUME BoundsAreNatural == MaxCreated \in Nat /\ MaxEvents \in Nat

VARIABLES
    m_notifications,  \* the number of the entry of each identifier, or NoEntry
    live,             \* the runtime's notifications, each with its number
    created,          \* how many the runtime has created
    events,           \* numbers whose event waits to be polled
    wanted,           \* identifiers shown and not removed since, by the phone's account
    failed            \* history: the runtime refused to remove a notification

vars == <<m_notifications, live, created, events, wanted, failed>>

NoEntry == 0
Garbage == -1

TypeOK ==
    /\ m_notifications \in [Identifiers -> NoEntry..MaxCreated]
    /\ live \subseteq [number : 1..MaxCreated, identifier : Identifiers]
    /\ created \in 0..MaxCreated
    /\ events \in Seq(1..MaxCreated) /\ Len(events) <= MaxEvents
    /\ wanted \subseteq Identifiers
    /\ failed \in BOOLEAN

Init ==
    /\ m_notifications = [i \in Identifiers |-> NoEntry]
    /\ live = {}
    /\ created = 0
    /\ events = <<>>
    /\ wanted = {}
    /\ failed = FALSE

-----------------------------------------------------------------------------
Live(number) == \E n \in live : n.number = number
Without(number) == {n \in live : n.number # number}
Erased(identifier) == [m_notifications EXCEPT ![identifier] = NoEntry]

(* Mutant: the entry goes, and the runtime is not asked. *)
ErasedOnly(identifier) == {[entries |-> Erased(identifier), live |-> live, ok |-> TRUE]}

(* Mutant: an entry that is there is left alone. *)
RemovalNever(identifier) == {[entries |-> m_notifications, live |-> live, ok |-> TRUE]}

(* RemoveNotification: there is nothing to remove, or the runtime removes it or has *)
(* done so before, or it refuses and the entry stays.                               *)
Removals(identifier) ==
    LET number == m_notifications[identifier] IN
    IF number = NoEntry THEN {[entries |-> m_notifications, live |-> live, ok |-> TRUE]}
    ELSE {[entries |-> Erased(identifier), live |-> Without(number), ok |-> TRUE],
          [entries |-> m_notifications, live |-> live, ok |-> FALSE]}

(* The runtime may tell of what it was made to remove, too. *)
RuntimeTells(numbers) ==
    \/ UNCHANGED events
    \/ \E number \in numbers :
         Len(events) < MaxEvents /\ events' = Append(events, number)

Dropped(after) == {n.number : n \in live \ after.live}

RemoveNotification(identifier) ==
    \E after \in Removals(identifier) :
      /\ m_notifications' = after.entries
      /\ live' = after.live
      /\ failed' = (failed \/ ~after.ok)
      /\ RuntimeTells(Dropped(after))
      /\ wanted' = wanted \ {identifier}
      /\ UNCHANGED created

(* Mutant: an error is not looked at, and the number was never set. *)
EnteredAnyway(entries, identifier) == [entries EXCEPT ![identifier] = Garbage]

(* CreateNotification failed: the entries are as the removal left them. *)
NotEntered(entries, identifier) == entries

(* std::map::insert keeps an entry that is there. *)
Entered(entries, identifier, number) ==
    [entries EXCEPT ![identifier] = IF @ = NoEntry THEN number ELSE @]

(* ShowNotification: what was shown for the identifier is removed first, and     *)
(* whether that worked is not looked at.                                          *)
ShowNotification(identifier) ==
    \E after \in Removals(identifier) :
      /\ failed' = (failed \/ ~after.ok)
      /\ RuntimeTells(Dropped(after))
      /\ wanted' = wanted \cup {identifier}
      /\ \/ /\ created < MaxCreated
            /\ created' = created + 1
            /\ live' = after.live \cup {[number |-> created', identifier |-> identifier]}
            /\ m_notifications' = Entered(after.entries, identifier, created')
         \/ /\ m_notifications' = NotEntered(after.entries, identifier)
            /\ live' = after.live
            /\ UNCHANGED created

(* A notification times out or the user opens it; either way it is gone and an *)
(* event tells so.                                                              *)
RuntimeDrops(number) ==
    /\ Live(number)
    /\ Len(events) < MaxEvents
    /\ live' = Without(number)
    /\ events' = Append(events, number)
    /\ UNCHANGED <<m_notifications, created, wanted, failed>>

(* Mutant: an event is not for the entry of its number. *)
NothingForgotten(number) == m_notifications

(* Of the entries, the one with that number goes. *)
Forgotten(number) ==
    [i \in Identifiers |-> IF m_notifications[i] = number THEN NoEntry ELSE m_notifications[i]]

(* PollEvents on Notification_BeginInteraction or Notification_Destroyed. *)
PollEvents ==
    /\ events # <<>>
    /\ events' = Tail(events)
    /\ m_notifications' = Forgotten(Head(events))
    /\ UNCHANGED <<live, created, wanted, failed>>

Next ==
    \/ \E i \in Identifiers : ShowNotification(i) \/ RemoveNotification(i)
    \/ \E n \in 1..MaxCreated : RuntimeDrops(n)
    \/ PollEvents

SafeSpec == Init /\ [][Next]_vars

-----------------------------------------------------------------------------
(* Every notification in VR is the one entered for its identifier, so a change or a *)
(* removal finds it, and one the phone has not removed, as long as the runtime never *)
(* refused a removal: no late event takes the entry of a newer notification, and     *)
(* none is entered twice.                                                            *)
LiveIsEntered ==
    ~failed => \A n \in live : m_notifications[n.identifier] = n.number /\ n.identifier \in wanted

(* An entry of a notification that is gone waits for its event, even after failures: *)
(* entries do not pile up for ever.                                                  *)
GoneIsTold ==
    \A i \in Identifiers :
      m_notifications[i] = NoEntry \/ Live(m_notifications[i])
        \/ \E k \in DOMAIN events : events[k] = m_notifications[i]

=============================================================================
