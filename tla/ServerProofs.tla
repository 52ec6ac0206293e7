---------------------------- MODULE ServerProofs ----------------------------
(***************************************************************************)
(* Theorems about Server, and about Application on top of it, for every    *)
(* set of clients and addresses and every value of the times.              *)
(***************************************************************************)
EXTENDS Application, ListLemmas

-----------------------------------------------------------------------------
(* The part of TypeOK about what Kick and ClientDisconnected change. *)
ClientTypeOK ==
  /\ m_client \in Conns \cup {None}
  /\ clients \in Seq(Conns)
  /\ connected \in BOOLEAN
  /\ socket \in [Conns -> {"none", "open", "closing", "doomed"}]
  /\ addr \in [Conns -> Addrs \cup {NullAddr}]
  /\ age \in [Conns -> 0..MaxAge]
  /\ keyed \in SUBSET Conns
  /\ handshakeDone \in SUBSET Conns
  /\ kickTimer \in SUBSET Conns
  /\ unsent \in SUBSET Conns
  /\ features \in [Conns -> Features \cup {NoFeatures}]

(* The rest of it. *)
TimerTypeOK ==
  /\ process \in {"off", "running", "crashed"}
  /\ listening \in BOOLEAN
  /\ banList \in [Addrs \cup {NullAddr} -> NotBanned..KICK_BANTIME]
  /\ connectTimers \in 0..MaxConnectTimers
  /\ cursor \in Nat

(* TypeOK is the two together, before a step and after it. *)
LEMMA TypeOKSplit ==
  /\ TypeOK <=> ClientTypeOK /\ TimerTypeOK
  /\ TypeOK' <=> ClientTypeOK' /\ TimerTypeOK'
BY DEF TypeOK, ClientTypeOK, TimerTypeOK

(* The cap on the ages is a natural number. *)
LEMMA MaxAgeType == MaxAge \in Nat
BY TimesAreNatural DEF MaxAge

(* Server::ClientDisconnected leaves client objects of the right kind. *)
LEMMA ClientDisconnectedType ==
  ASSUME ClientTypeOK, NEW c \in Conns, ClientDisconnected(c)
  PROVE  ClientTypeOK'
<1>1. clients' \in Seq(Conns)
  BY RemoveFirstType DEF ClientTypeOK, ClientDisconnected
<1>2. age' \in [Conns -> 0..MaxAge]
  BY MaxAgeType DEF ClientTypeOK, ClientDisconnected, ClientDeleted
<1> QED
  BY <1>1, <1>2 DEF ClientTypeOK, ClientDisconnected, ClientDeleted

(* So does a close that has to wait. *)
LEMMA CloseLaterType ==
  ASSUME ClientTypeOK, NEW c \in Conns, CloseLater(c)
  PROVE  ClientTypeOK'
BY MaxAgeType DEF ClientTypeOK, CloseLater

(* And so does Client::Kick, whichever of the two it is. *)
LEMMA KickType ==
  ASSUME ClientTypeOK, NEW c \in Conns, Kick(c)
  PROVE  ClientTypeOK'
<1>1. CASE CloseLater(c)
  BY <1>1, CloseLaterType
<1>2. CASE ClientDisconnected(c)
  BY <1>2, ClientDisconnectedType
<1>3. CASE UNCHANGED <<m_client, clients, connected, clientVars>>
  BY <1>3 DEF ClientTypeOK, clientVars
<1> QED
  BY <1>1, <1>2, <1>3 DEF Kick

(* Stopping the server, or the end of the process, leaves a fresh state. *)
LEMMA ServerDeletedType ==
  ASSUME ServerDeleted, process' \in {"off", "running", "crashed"}
  PROVE  TypeOK'
<1>1. clients' \in Seq(Conns)
  BY EmptySeq DEF ServerDeleted
<1>2. age' \in [Conns -> 0..MaxAge]
  BY MaxAgeType DEF ServerDeleted
<1>3. banList' \in [Addrs \cup {NullAddr} -> NotBanned..KICK_BANTIME]
  BY TimesAreNatural DEF ServerDeleted, NoBans, NotBanned
<1>4. connectTimers' \in 0..MaxConnectTimers
  BY TimesAreNatural DEF ServerDeleted
<1> QED
  BY <1>1, <1>2, <1>3, <1>4 DEF ServerDeleted, TypeOK

(* The state before the first launch has the right types. *)
LEMMA InitType == Init => TypeOK
<1> SUFFICES ASSUME Init PROVE TypeOK
  OBVIOUS
<1>1. clients \in Seq(Conns)
  BY EmptySeq DEF Init
<1>2. age \in [Conns -> 0..MaxAge]
  BY MaxAgeType DEF Init
<1>3. banList \in [Addrs \cup {NullAddr} -> NotBanned..KICK_BANTIME]
  BY TimesAreNatural DEF Init, NoBans, NotBanned
<1>4. connectTimers \in 0..MaxConnectTimers
  BY TimesAreNatural DEF Init
<1> QED
  BY <1>1, <1>2, <1>3, <1>4 DEF Init, TypeOK

(* The steps of the sweep. *)
LEMMA SweepType == TypeOK /\ Sweep => TypeOK'
<1> SUFFICES ASSUME TypeOK, Sweep PROVE TypeOK'
  OBVIOUS
<1> USE TypeOKSplit
<1>1. ASSUME Sweeping, cursor <= Len(clients)
      PROVE  cursor \in 1..Len(clients) /\ Visited \in Conns
  <2>1. Len(clients) \in Nat
    BY LenProperties DEF TypeOK
  <2>2. cursor \in 1..Len(clients)
    BY <1>1, <2>1 DEF TypeOK, Sweeping
  <2> QED
    BY <2>2, ElementOfSeq DEF TypeOK, Visited
<1>2. CASE SweepCollect
  <2>1. clients' \in Seq(Conns)
    BY <1>1, <1>2, RemoveAtProperties DEF SweepCollect, TypeOK
  <2>2. socket' \in [Conns -> {"none", "open", "closing", "doomed"}]
    BY <1>1, <1>2 DEF SweepCollect, TypeOK
  <2> QED
    BY <1>2, <2>1, <2>2 DEF SweepCollect, TypeOK
<1>3. CASE SweepSkip
  BY <1>3 DEF SweepSkip, clientVars, TypeOK
<1>4. CASE SweepKickLater
  BY <1>1, <1>4, CloseLaterType DEF SweepKickLater, TimerTypeOK
<1>5. CASE SweepKickNow
  <2>1. ClientTypeOK'
    BY <1>1, <1>5, ClientDisconnectedType DEF SweepKickNow
  <2> QED
    BY <1>5, <2>1 DEF SweepKickNow, CursorAfterRemoval, TimerTypeOK
<1>6. CASE SweepEnd \/ SweepStrayEnds
  BY <1>6 DEF SweepEnd, SweepStrayEnds, clientVars, TypeOK
<1>7. CASE SweepStrayCrashes
  BY <1>7, ServerDeletedType DEF SweepStrayCrashes
<1> QED
  BY <1>2, <1>3, <1>4, <1>5, <1>6, <1>7 DEF Sweep

(* One step keeps the types: each action, by what it calls. *)
LEMMA NextType == TypeOK /\ [Next]_vars => TypeOK'
<1> SUFFICES ASSUME TypeOK, [Next]_vars PROVE TypeOK'
  OBVIOUS
<1> USE TypeOKSplit
<1>1. CASE Launch
  BY <1>1 DEF Launch, TypeOK, clientVars
<1>2. CASE StartServer
  BY <1>2 DEF StartServer, TypeOK, clientVars
<1>3. CASE StopServer
  BY <1>3, ServerDeletedType DEF StopServer, TypeOK
<1>4. CASE Quit
  BY <1>4, ServerDeletedType DEF Quit
<1>5. ASSUME NEW c \in Conns, NEW a \in Addrs, NewConnection(c, a) PROVE TypeOK'
  <2>1. clients' \in Seq(Conns)
    BY <1>5, AppendProperties DEF NewConnection, TypeOK
  <2> QED
    BY <1>5, <2>1 DEF NewConnection, TypeOK
<1>6. ASSUME NEW c \in Conns, NEW f \in Features,
             RepeatHandshake(c, f) \/ RefuseHandshake(c, f) \/ GrantHandshake(c, f)
      PROVE  TypeOK'
  <2>1. unsent' \in SUBSET Conns /\ features' \in [Conns -> Features \cup {NoFeatures}]
    BY <1>6 DEF RepeatHandshake, RefuseHandshake, GrantHandshake, HandshakeMessage, Writes,
                TypeOK
  <2>2. CASE RepeatHandshake(c, f)
    BY <2>1, <2>2 DEF RepeatHandshake, HandshakeMessage, TypeOK
  <2>3. CASE RefuseHandshake(c, f)
    BY <2>1, <2>3 DEF RefuseHandshake, HandshakeMessage, TypeOK
  <2>4. CASE GrantHandshake(c, f)
    BY <2>1, <2>4, TimesAreNatural DEF GrantHandshake, HandshakeMessage, TypeOK
  <2> QED
    BY <1>6, <2>2, <2>3, <2>4
<1>7. ASSUME NEW c \in Conns, KeyMessage(c) PROVE TypeOK'
  BY <1>7 DEF KeyMessage, Writes, serverVars, TypeOK
<1>8. ASSUME NEW c \in Conns, BadMessage(c) \/ RefusalKick(c) PROVE TypeOK'
  <2>1. ClientTypeOK'
    BY <1>8, KickType DEF BadMessage, RefusalKick
  <2> QED
    BY <1>8, <2>1 DEF BadMessage, RefusalKick, TimerTypeOK
<1>9. ASSUME NEW c \in Conns, SocketDisconnected(c) \/ DeleteClient(c) PROVE TypeOK'
  <2>1. ClientTypeOK'
    BY <1>9, ClientDisconnectedType DEF SocketDisconnected, DeleteClient
  <2> QED
    BY <1>9, <2>1 DEF SocketDisconnected, DeleteClient, TimerTypeOK
<1>10. ASSUME NEW c \in Conns, Flush(c) PROVE TypeOK'
  BY <1>10 DEF Flush, serverVars, TypeOK
<1>11. CASE ConnectTimer
  BY <1>11, TimesAreNatural DEF ConnectTimer, Writes, TypeOK
<1>12. CASE SendMessage
  BY <1>12 DEF SendMessage, Writes, serverVars, TypeOK
<1>13. CASE KickClient
  <2>1. ClientTypeOK'
    BY <1>13, KickType DEF KickClient, ClientTypeOK
  <2>2. banList' \in [Addrs \cup {NullAddr} -> NotBanned..KICK_BANTIME]
    BY <1>13, TimesAreNatural DEF KickClient, TypeOK, NotBanned
  <2> QED
    BY <1>13, <2>1, <2>2 DEF KickClient, TimerTypeOK
<1>14. CASE SweepTimer
  BY <1>14, TimesAreNatural DEF SweepTimer, ClearBans, NotBanned, clientVars, TypeOK
<1>15. CASE Sweep
  BY <1>15, SweepType
<1>16. CASE Tick
  <2>1. age' \in [Conns -> 0..MaxAge]
    BY <1>16, MaxAgeType DEF Tick, TypeOK
  <2>2. banList' \in [Addrs \cup {NullAddr} -> NotBanned..KICK_BANTIME]
    BY <1>16, TimesAreNatural DEF Tick, TypeOK, NotBanned
  <2> QED
    BY <1>16, <2>1, <2>2 DEF Tick, TypeOK
<1>17. CASE UNCHANGED vars
  BY <1>17 DEF vars, serverVars, clientVars, TypeOK
<1> QED
  BY <1>1, <1>2, <1>3, <1>4, <1>5, <1>6, <1>7, <1>8, <1>9, <1>10, <1>11, <1>12, <1>13,
     <1>14, <1>15, <1>16, <1>17 DEF Next

(* Every reachable state of the server is made of values of the right kind:    *)
(* ages, bans and pending timers stay within their bounds, and no handler      *)
(* leaves a null or a foreign client in the list.                              *)
THEOREM TypeCorrect == SafeSpec => []TypeOK
<1>1. Init => TypeOK
  BY InitType
<1>2. TypeOK /\ [Next]_vars => TypeOK'
  BY NextType
<1> QED
  BY <1>1, <1>2, PTL DEF SafeSpec

-----------------------------------------------------------------------------
(* The inductive invariant of the session.  AnnouncementPending rides along.  *)
SessionInv ==
  /\ TypeOK
  /\ SessionExclusive
  /\ ConnectedHasSession
  /\ AnnouncementPending

(* Whoever leaves takes with it the session it had and nothing else. *)
LEMMA ClientDisconnectedSession ==
  ASSUME SessionInv, NEW c \in Conns, ClientDisconnected(c), connectTimers' = connectTimers
  PROVE  SessionExclusive' /\ ConnectedHasSession' /\ AnnouncementPending'
<1>1. handshakeDone' = handshakeDone \ {c}
  BY DEF ClientDisconnected, ClientDeleted
<1>2. CASE m_client = c
  <2>1. m_client' = None /\ connected' = FALSE
    BY <1>2 DEF ClientDisconnected
  <2>2. handshakeDone' = {}
    BY <1>1, <1>2 DEF SessionInv, SessionExclusive
  <2> QED
    BY <2>1, <2>2 DEF SessionExclusive, ConnectedHasSession, AnnouncementPending
<1>3. CASE m_client # c
  <2>1. m_client' = m_client /\ connected' = connected
    BY <1>3 DEF ClientDisconnected, SessionInv, TypeOK
  <2>2. handshakeDone' = handshakeDone
    BY <1>1, <1>3 DEF SessionInv, SessionExclusive
  <2> QED
    BY <2>1, <2>2
       DEF SessionInv, SessionExclusive, ConnectedHasSession, AnnouncementPending
<1> QED
  BY <1>2, <1>3

(* Client::Kick ends the session of the client kicked, or leaves it for later. *)
LEMMA KickSession ==
  ASSUME SessionInv, NEW c \in Conns, Kick(c), connectTimers' = connectTimers
  PROVE  SessionExclusive' /\ ConnectedHasSession' /\ AnnouncementPending'
<1>1. CASE CloseLater(c)
  BY <1>1 DEF CloseLater, SessionInv, SessionExclusive, ConnectedHasSession,
              AnnouncementPending
<1>2. CASE ClientDisconnected(c)
  BY <1>2, ClientDisconnectedSession
<1>3. CASE UNCHANGED <<m_client, clients, connected, clientVars>>
  BY <1>3 DEF clientVars, SessionInv, SessionExclusive, ConnectedHasSession,
              AnnouncementPending
<1> QED
  BY <1>1, <1>2, <1>3 DEF Kick

(* A step that touches none of the four variables keeps the invariant. *)
LEMMA SessionUntouched ==
  ASSUME SessionInv, UNCHANGED <<m_client, handshakeDone, connected, connectTimers>>
  PROVE  SessionExclusive' /\ ConnectedHasSession' /\ AnnouncementPending'
BY DEF SessionInv, SessionExclusive, ConnectedHasSession, AnnouncementPending

(* Without a server there is no session and nobody believes in one. *)
LEMMA ServerDeletedSession ==
  ASSUME ServerDeleted
  PROVE  SessionExclusive' /\ ConnectedHasSession' /\ AnnouncementPending'
BY DEF ServerDeleted, SessionExclusive, ConnectedHasSession, AnnouncementPending

(* A handshake is granted only when nobody has the session. *)
LEMMA GrantSession ==
  ASSUME SessionInv, NEW c \in Conns, NEW f \in Features, GrantHandshake(c, f)
  PROVE  /\ m_client = None
         /\ SessionExclusive' /\ ConnectedHasSession' /\ AnnouncementPending'
<1>1. m_client = None
  BY NullsAreDistinct DEF SessionInv, SessionExclusive, GrantHandshake, SessionTaken
<1>2. handshakeDone' = {c} /\ m_client' = c /\ c # None
  BY <1>1, NullsAreDistinct DEF SessionInv, SessionExclusive, GrantHandshake
<1>3. ~connected'
  BY <1>1 DEF SessionInv, ConnectedHasSession, GrantHandshake, HandshakeMessage
<1>4. connectTimers' > 0
  BY DEF SessionInv, TypeOK, GrantHandshake
<1> QED
  BY <1>1, <1>2, <1>3, <1>4
     DEF SessionExclusive, ConnectedHasSession, AnnouncementPending

(* A timer that fires announces the session there is. *)
LEMMA ConnectTimerSession ==
  ASSUME SessionInv, ConnectTimer
  PROVE  SessionExclusive' /\ ConnectedHasSession' /\ AnnouncementPending'
BY DEF SessionInv, ConnectTimer, SessionExclusive, ConnectedHasSession, AnnouncementPending

(* In the sweep only clients other than the session are disconnected. *)
LEMMA InactiveIsOther ==
  ASSUME SessionInv, NEW c \in Conns, Inactive(c)
  PROVE  c # m_client
BY NullsAreDistinct DEF SessionInv, SessionExclusive, Inactive, SessionTaken

(* No step of KickInactiveClients breaks the invariant of the session. *)
LEMMA SweepSession ==
  ASSUME SessionInv, Sweep
  PROVE  SessionExclusive' /\ ConnectedHasSession' /\ AnnouncementPending'
<1>1. CASE SweepKickNow
  <2>1. Visited \in Conns
    BY <1>1 DEF SweepKickNow, Open
  <2> QED
    BY <1>1, <2>1, ClientDisconnectedSession DEF SweepKickNow
<1>2. CASE SweepStrayCrashes
  BY <1>2, ServerDeletedSession DEF SweepStrayCrashes
<1>3. CASE SweepCollect \/ SweepSkip \/ SweepKickLater \/ SweepEnd \/ SweepStrayEnds
  BY <1>3, SessionUntouched
     DEF SweepCollect, SweepSkip, SweepKickLater, CloseLater, SweepEnd, SweepStrayEnds,
         clientVars
<1> QED
  BY <1>1, <1>2, <1>3 DEF Sweep

(* One step keeps the invariant: each action, by what it does to the session. *)
LEMMA NextSession == SessionInv /\ [Next]_vars => SessionInv'
<1> SUFFICES ASSUME SessionInv, [Next]_vars
             PROVE  SessionExclusive' /\ ConnectedHasSession' /\ AnnouncementPending'
  BY NextType DEF SessionInv
<1>1. CASE Launch \/ StartServer \/ SendMessage \/ SweepTimer \/ Tick \/ UNCHANGED vars
  BY <1>1, SessionUntouched
     DEF Launch, StartServer, SendMessage, SweepTimer, Tick, vars, serverVars, clientVars
<1>2. CASE StopServer \/ Quit
  BY <1>2, ServerDeletedSession DEF StopServer, Quit
<1>3. ASSUME NEW c \in Conns,
             \/ \E a \in Addrs : NewConnection(c, a)
             \/ KeyMessage(c)
             \/ Flush(c)
             \/ \E f \in Features : RepeatHandshake(c, f) \/ RefuseHandshake(c, f)
      PROVE  SessionExclusive' /\ ConnectedHasSession' /\ AnnouncementPending'
  BY <1>3, SessionUntouched
     DEF NewConnection, KeyMessage, Flush, RepeatHandshake, RefuseHandshake,
         HandshakeMessage, serverVars
<1>4. ASSUME NEW c \in Conns, NEW f \in Features, GrantHandshake(c, f)
      PROVE  SessionExclusive' /\ ConnectedHasSession' /\ AnnouncementPending'
  BY <1>4, GrantSession
<1>5. ASSUME NEW c \in Conns, BadMessage(c) \/ RefusalKick(c)
      PROVE  SessionExclusive' /\ ConnectedHasSession' /\ AnnouncementPending'
  BY <1>5, KickSession DEF BadMessage, RefusalKick
<1>6. ASSUME NEW c \in Conns, SocketDisconnected(c) \/ DeleteClient(c)
      PROVE  SessionExclusive' /\ ConnectedHasSession' /\ AnnouncementPending'
  BY <1>6, ClientDisconnectedSession DEF SocketDisconnected, DeleteClient
<1>7. CASE KickClient
  <2>1. m_client \in Conns
    BY <1>7 DEF KickClient, SessionInv, TypeOK
  <2> QED
    BY <1>7, <2>1, KickSession DEF KickClient
<1>8. CASE ConnectTimer
  BY <1>8, ConnectTimerSession
<1>9. CASE Sweep
  BY <1>9, SweepSession
<1> QED
  BY <1>1, <1>2, <1>3, <1>4, <1>5, <1>6, <1>7, <1>8, <1>9 DEF Next

(* SessionInv is an invariant of the server. *)
THEOREM SessionInvariant == SafeSpec => []SessionInv
<1>1. Init => SessionInv
  BY InitType
     DEF Init, SessionInv, SessionExclusive, ConnectedHasSession, AnnouncementPending
<1>2. SessionInv /\ [Next]_vars => SessionInv'
  BY NextSession
<1> QED
  BY <1>1, <1>2, PTL DEF SafeSpec

(* However many phones connect: at most one has a finished handshake, and it is *)
(* the one with the session.                                                    *)
THEOREM SessionIsExclusive == SafeSpec => []SessionExclusive
<1>1. SessionInv => SessionExclusive
  BY DEF SessionInv
<1> QED
  BY <1>1, SessionInvariant, PTL

(* However the one-second timers of successive sessions overlap: what the      *)
(* application believes in exists.                                             *)
THEOREM AnnouncementsAreSound == SafeSpec => []ConnectedHasSession
<1>1. SessionInv => ConnectedHasSession
  BY DEF SessionInv
<1> QED
  BY <1>1, SessionInvariant, PTL

(* And a session it ignores will be announced: a timer for it is still pending. *)
THEOREM AnnouncementsAreDue == SafeSpec => []AnnouncementPending
<1>1. SessionInv => AnnouncementPending
  BY DEF SessionInv
<1> QED
  BY <1>1, SessionInvariant, PTL

-----------------------------------------------------------------------------
(* KickInactiveClients never ends the session, whatever it removes under its    *)
(* own iterator.                                                                *)
THEOREM SweepKeepsSession == SafeSpec => SweepSparesSession
<1> DEFINE Spares == cursor > 0 /\ process' = "running"
                       => m_client' = m_client /\ connected' = connected
<1>1. SessionInv /\ [Next]_vars => [Spares]_vars
  <2> SUFFICES ASSUME SessionInv, Next, cursor > 0, process' = "running"
               PROVE  m_client' = m_client /\ connected' = connected
    OBVIOUS
  <2>1. CASE Sweep
    <3>1. CASE SweepKickNow
      <4>1. Visited \in Conns /\ Visited # m_client
        BY <3>1, InactiveIsOther DEF SweepKickNow, Open
      <4> QED
        BY <3>1, <4>1 DEF SweepKickNow, ClientDisconnected, SessionInv, TypeOK
    <3>2. CASE SweepCollect \/ SweepSkip \/ SweepKickLater \/ SweepEnd \/ SweepStrayEnds
      BY <3>2 DEF SweepCollect, SweepSkip, SweepKickLater, CloseLater, SweepEnd,
                  SweepStrayEnds
    <3>3. CASE SweepStrayCrashes
      BY <3>3 DEF SweepStrayCrashes
    <3> QED
      BY <2>1, <3>1, <3>2, <3>3 DEF Sweep
  <2>2. CASE Launch
    BY <2>2 DEF Launch
  <2>3. CASE EventLoop
    BY <2>3 DEF EventLoop, SessionInv, TypeOK
  <2>4. Sweep \/ Launch \/ EventLoop
    BY DEF Next, StartServer, StopServer, Quit, NewConnection, RepeatHandshake,
           RefuseHandshake, GrantHandshake, HandshakeMessage, KeyMessage, BadMessage, Flush,
           SocketDisconnected, RefusalKick, DeleteClient, ConnectTimer, SendMessage,
           KickClient, SweepTimer, Tick
  <2> QED
    BY <2>1, <2>2, <2>3, <2>4
<1> QED
  BY <1>1, SessionInvariant, PTL DEF SafeSpec, SweepSparesSession

-----------------------------------------------------------------------------
(* Refinement.  Each step is one of three things to the session. *)
SessionStutters == m_client' = m_client /\ connected' = connected

(* The end of a client is the end of the session if the client had it. *)
LEMMA ClientDisconnectedMaps ==
  ASSUME SessionInv, NEW c \in Conns, ClientDisconnected(c)
  PROVE  Abstract!End \/ SessionStutters
BY NullsAreDistinct DEF SessionInv, TypeOK, ClientDisconnected, Abstract!End, SessionStutters

(* So is a kick. *)
LEMMA KickMaps ==
  ASSUME SessionInv, NEW c \in Conns, Kick(c)
  PROVE  Abstract!End \/ SessionStutters
BY ClientDisconnectedMaps DEF Kick, CloseLater, SessionStutters

(* StopServer and the end of the process end the session there was, if any. *)
LEMMA ServerDeletedMaps ==
  ASSUME SessionInv, ServerDeleted
  PROVE  Abstract!End \/ SessionStutters
BY DEF SessionInv, TypeOK, ConnectedHasSession, ServerDeleted, Abstract!End, SessionStutters

(* A granted handshake takes a session that was free and unannounced. *)
LEMMA GrantMaps ==
  ASSUME SessionInv, NEW c \in Conns, NEW f \in Features, GrantHandshake(c, f)
  PROVE  Abstract!Grant(c)
<1>1. m_client = None
  BY GrantSession
<1>2. connected' = FALSE
  BY <1>1 DEF SessionInv, TypeOK, ConnectedHasSession, GrantHandshake, HandshakeMessage
<1> QED
  BY <1>1, <1>2 DEF GrantHandshake, Abstract!Grant

(* Every step of the server is a step of Session, or none. *)
LEMMA StepMaps ==
  ASSUME SessionInv, [Next]_vars
  PROVE  Abstract!Next \/ SessionStutters
<1> USE DEF SessionStutters
<1>1. CASE Launch \/ StartServer \/ SendMessage \/ SweepTimer \/ Tick \/ UNCHANGED vars
  BY <1>1
     DEF Launch, StartServer, SendMessage, SweepTimer, Tick, vars, serverVars, clientVars
<1>2. CASE StopServer \/ Quit \/ SweepStrayCrashes
  BY <1>2, ServerDeletedMaps DEF StopServer, Quit, SweepStrayCrashes, Abstract!Next
<1>3. ASSUME NEW c \in Conns,
             \/ \E a \in Addrs : NewConnection(c, a)
             \/ KeyMessage(c)
             \/ Flush(c)
             \/ \E f \in Features : RepeatHandshake(c, f) \/ RefuseHandshake(c, f)
      PROVE  SessionStutters
  BY <1>3
     DEF NewConnection, KeyMessage, Flush, RepeatHandshake, RefuseHandshake,
         HandshakeMessage, serverVars
<1>4. ASSUME NEW c \in Conns, NEW f \in Features, GrantHandshake(c, f)
      PROVE  Abstract!Next
  BY <1>4, GrantMaps DEF Abstract!Next
<1>5. ASSUME NEW c \in Conns,
             BadMessage(c) \/ RefusalKick(c) \/ SocketDisconnected(c) \/ DeleteClient(c)
      PROVE  Abstract!Next \/ SessionStutters
  BY <1>5, KickMaps, ClientDisconnectedMaps
     DEF BadMessage, RefusalKick, SocketDisconnected, DeleteClient, Abstract!Next
<1>6. CASE KickClient
  <2>1. m_client \in Conns
    BY <1>6 DEF KickClient, SessionInv, TypeOK
  <2> QED
    BY <1>6, <2>1, KickMaps DEF KickClient, Abstract!Next
<1>7. CASE ConnectTimer
  BY <1>7 DEF ConnectTimer, SessionInv, TypeOK, Abstract!Next, Abstract!Announce
<1>8. CASE SweepKickNow
  <2>1. Visited \in Conns
    BY <1>8 DEF SweepKickNow, Open
  <2> QED
    BY <1>8, <2>1, ClientDisconnectedMaps DEF SweepKickNow, Abstract!Next
<1>9. CASE SweepCollect \/ SweepSkip \/ SweepKickLater \/ SweepEnd \/ SweepStrayEnds
  BY <1>9 DEF SweepCollect, SweepSkip, SweepKickLater, CloseLater, SweepEnd, SweepStrayEnds
<1> QED
  BY <1>1, <1>2, <1>3, <1>4, <1>5, <1>6, <1>7, <1>8, <1>9 DEF Next, Sweep

(* The server is a Session to the application (its liveness is left to TLC): the *)
(* session is given only when it is free, and its end is announced as it ends.   *)
THEOREM ServerIsSession == SafeSpec => Abstract!SafeSpec
<1>1. Init => Abstract!Init
  BY DEF Init, Abstract!Init
<1>2. SessionInv /\ [Next]_vars => [Abstract!Next]_(Abstract!sessionVars)
  BY StepMaps DEF SessionStutters, Abstract!sessionVars
<1> QED
  BY <1>1, <1>2, SessionInvariant, PTL DEF SafeSpec, Abstract!SafeSpec

-----------------------------------------------------------------------------
(* The list and the ages.  ListIsLive counts; the invariant says the same without *)
(* counting, and that clients are in the list in the order of their connections.   *)
ListInv ==
  /\ IsInjective(clients)
  /\ ToSet(clients) = Open \cup Closing
  /\ m_client # None => socket[m_client] # "none"
  /\ \A c \in Conns \ Open : age[c] = 0
  /\ \A i, j \in DOMAIN clients :
       i < j /\ clients[i] \in Open => age[clients[j]] <= age[clients[i]]

(* A step that changes neither list, sockets, ages nor session keeps it. *)
LEMMA ListUntouched ==
  ASSUME ListInv, UNCHANGED <<clients, socket, age, m_client>>
  PROVE  ListInv'
BY DEF ListInv, Open, Closing

(* Whoever is disconnected is taken out of the list, if it is still in it. *)
LEMMA ClientDisconnectedList ==
  ASSUME TypeOK, ListInv, NEW c \in Conns, ClientDisconnected(c)
  PROVE  ListInv'
<1>1. clients \in Seq(Conns) /\ IsInjective(clients)
  BY DEF TypeOK, ListInv
<1>2. clients' = RemoveFirst(clients, c)
  BY DEF ClientDisconnected
<1>3. IsInjective(clients') /\ ToSet(clients') = ToSet(clients) \ {c}
  BY <1>1, <1>2, RemoveFirstInjective, Zenon
<1>4. Open' = Open \ {c} /\ Closing' = Closing \ {c}
  BY DEF TypeOK, ClientDisconnected, ClientDeleted, Open, Closing
<1>5. ToSet(clients') = Open' \cup Closing'
  BY <1>3, <1>4 DEF ListInv
<1>6. m_client' # None => socket'[m_client'] # "none"
  BY DEF TypeOK, ListInv, ClientDisconnected, ClientDeleted
<1>7. age' = [age EXCEPT ![c] = 0] /\ age \in [Conns -> Nat]
  BY MaxAgeType DEF TypeOK, ClientDisconnected, ClientDeleted
<1>8. \A d \in Conns \ Open' : age'[d] = 0
  BY <1>4, <1>7 DEF ListInv
<1>9. ASSUME NEW j \in DOMAIN clients', NEW k \in DOMAIN clients', j < k,
             clients'[j] \in Open'
      PROVE  age'[clients'[k]] <= age'[clients'[j]]
  <2>1. PICK m \in DOMAIN clients, n \in DOMAIN clients :
               m < n /\ clients'[j] = clients[m] /\ clients'[k] = clients[n]
    BY <1>1, <1>2, <1>9, RemoveFirstKeepsOrder
  <2>2. clients[m] \in Conns /\ clients[n] \in Conns
    BY <1>1, LenProperties, ElementOfSeq
  <2>3. age[clients[n]] <= age[clients[m]]
    BY <1>4, <1>9, <2>1 DEF ListInv
  <2>4. clients[m] # c
    BY <1>4, <1>9, <2>1
  <2> QED
    BY <1>7, <2>1, <2>2, <2>3, <2>4
<1> QED
  BY <1>3, <1>5, <1>6, <1>8, <1>9 DEF ListInv

(* A client that is closing keeps its place in the list. *)
LEMMA CloseLaterList ==
  ASSUME TypeOK, ListInv, NEW c \in Open, CloseLater(c)
  PROVE  ListInv'
<1>1. c \in Conns
  BY DEF Open
<1>2. Open' = Open \ {c} /\ Closing' = Closing \cup {c}
  BY <1>1 DEF TypeOK, CloseLater, Open, Closing
<1>3. clients' = clients /\ m_client' = m_client
  BY DEF CloseLater
<1>4. ToSet(clients') = Open' \cup Closing'
  BY <1>2, <1>3 DEF ListInv
<1>5. m_client' # None => socket'[m_client'] # "none"
  BY <1>1 DEF TypeOK, ListInv, CloseLater
<1>6. age' = [age EXCEPT ![c] = 0] /\ age \in [Conns -> Nat]
  BY MaxAgeType DEF TypeOK, CloseLater
<1>7. \A d \in Conns \ Open' : age'[d] = 0
  BY <1>1, <1>2, <1>6 DEF ListInv
<1>8. ASSUME NEW i \in DOMAIN clients, NEW j \in DOMAIN clients, i < j, clients[i] \in Open'
      PROVE  age'[clients[j]] <= age'[clients[i]]
  <2>1. clients[i] \in Conns /\ clients[j] \in Conns
    BY LenProperties, ElementOfSeq DEF TypeOK
  <2>2. age[clients[j]] <= age[clients[i]]
    BY <1>2, <1>8 DEF ListInv
  <2> QED
    BY <1>2, <1>6, <1>8, <2>1, <2>2
<1> QED
  BY <1>3, <1>4, <1>5, <1>7, <1>8 DEF ListInv

(* Client::Kick does one or the other. *)
LEMMA KickList ==
  ASSUME TypeOK, ListInv, NEW c \in Conns, Kick(c)
  PROVE  ListInv'
<1>1. CASE c \in Open /\ CloseLater(c)
  BY <1>1, CloseLaterList
<1>2. CASE ClientDisconnected(c)
  BY <1>2, ClientDisconnectedList
<1>3. CASE UNCHANGED <<m_client, clients, connected, clientVars>>
  BY <1>3, ListUntouched DEF clientVars
<1> QED
  BY <1>1, <1>2, <1>3 DEF Kick

(* Without a server there are no clients. *)
LEMMA ServerDeletedList ==
  ASSUME ServerDeleted
  PROVE  ListInv'
BY DEF ServerDeleted, ListInv, IsInjective, ToSet, Open, Closing

(* A new client is the youngest, and the last of the list. *)
LEMMA NewConnectionList ==
  ASSUME TypeOK, ListInv, NEW c \in Conns, NEW a \in Addrs, NewConnection(c, a)
  PROVE  ListInv'
<1>1. clients \in Seq(Conns) /\ Len(clients) \in Nat /\ DOMAIN clients = 1..Len(clients)
  BY LenProperties DEF TypeOK
<1>2. clients' = Append(clients, c) /\ age' = age /\ m_client' = m_client
  BY DEF NewConnection
<1>3. Open' = Open \cup {c} /\ Closing' = Closing
  BY DEF TypeOK, NewConnection, Open, Closing
<1>4. c \notin Open \cup Closing
  BY DEF NewConnection, Open, Closing
<1>5. IsInjective(clients') /\ ToSet(clients') = ToSet(clients) \cup {c}
  <2>1. IsInjective(clients) /\ c \notin ToSet(clients)
    BY <1>4 DEF ListInv
  <2>2. /\ ToSet(Append(clients, c)) = ToSet(clients) \cup {c}
        /\ IsInjective(Append(clients, c))
    BY <1>1, <2>1, AppendToInjective
  <2> QED
    BY <1>2, <2>2, Zenon
<1>6. ToSet(clients') = Open' \cup Closing'
  BY <1>3, <1>5 DEF ListInv
<1>7. m_client' # None => socket'[m_client'] # "none"
  BY <1>2 DEF TypeOK, ListInv, NewConnection
<1>8. \A d \in Conns \ Open' : age'[d] = 0
  BY <1>2, <1>3 DEF ListInv
<1>9. ASSUME NEW i \in DOMAIN clients', NEW j \in DOMAIN clients', i < j,
             clients'[i] \in Open'
      PROVE  age'[clients'[j]] <= age'[clients'[i]]
  <2>1. /\ clients' \in Seq(Conns)
        /\ Len(clients') = Len(clients) + 1 /\ clients'[Len(clients) + 1] = c
        /\ \A k \in 1..Len(clients) : clients'[k] = clients[k]
    BY <1>1, <1>2, AppendProperties
  <2>2. DOMAIN clients' = 1..(Len(clients) + 1)
    BY <2>1, LenProperties
  <2>3. i \in DOMAIN clients /\ clients'[i] = clients[i] /\ clients[i] \in Conns
    BY <1>1, <1>9, <2>1, <2>2, ElementOfSeq
  <2>4. age \in [Conns -> Nat] /\ age[c] = 0
    BY <1>4, MaxAgeType DEF TypeOK, ListInv
  <2>5. clients[i] # c
    BY <1>1, <1>4, <2>3 DEF ListInv, ToSet
  <2>6. CASE j = Len(clients) + 1
    BY <1>2, <2>1, <2>3, <2>4, <2>6
  <2>7. CASE j \in DOMAIN clients
    BY <1>1, <1>2, <1>3, <1>9, <2>1, <2>3, <2>5, <2>7 DEF ListInv
  <2> QED
    BY <1>1, <2>2, <2>6, <2>7
<1> QED
  BY <1>5, <1>6, <1>7, <1>8, <1>9 DEF ListInv

(* All open clients age alike. *)
LEMMA TickList ==
  ASSUME TypeOK, ListInv, Tick
  PROVE  ListInv'
<1>1. /\ clients' = clients /\ m_client' = m_client /\ Open' = Open /\ Closing' = Closing
      /\ socket' = socket
  BY DEF Tick, Open, Closing
<1>2. /\ age \in [Conns -> 0..MaxAge] /\ MaxAge \in Nat
      /\ age' = [c \in Conns |-> IF c \in Open /\ age[c] < MaxAge THEN age[c] + 1 ELSE age[c]]
  BY MaxAgeType DEF TypeOK, Tick
<1>3. \A d \in Conns \ Open' : age'[d] = 0
  BY <1>1, <1>2 DEF ListInv
<1>4. ASSUME NEW i \in DOMAIN clients, NEW j \in DOMAIN clients, i < j, clients[i] \in Open
      PROVE  age'[clients[j]] <= age'[clients[i]]
  <2>1. clients[i] \in Conns /\ clients[j] \in Conns
    BY LenProperties, ElementOfSeq DEF TypeOK
  <2>2. age[clients[j]] <= age[clients[i]]
    BY <1>4 DEF ListInv
  <2> QED
    BY <1>2, <1>4, <2>1, <2>2
<1> QED
  BY <1>1, <1>3, <1>4 DEF ListInv

(* What the sweep visits is a client in the list. *)
LEMMA VisitedType ==
  ASSUME TypeOK, Sweeping, cursor <= Len(clients)
  PROVE  /\ clients \in Seq(Conns) /\ Len(clients) \in Nat /\ DOMAIN clients = 1..Len(clients)
         /\ cursor \in 1..Len(clients) /\ Visited \in Conns
<1>1. clients \in Seq(Conns) /\ Len(clients) \in Nat /\ DOMAIN clients = 1..Len(clients)
  BY LenProperties DEF TypeOK
<1>2. cursor \in 1..Len(clients)
  BY <1>1 DEF TypeOK, Sweeping
<1> QED
  BY <1>1, <1>2, ElementOfSeq DEF Visited

(* The sweep gives a closing client up: it leaves the list. *)
LEMMA SweepCollectList ==
  ASSUME TypeOK, ListInv, SweepCollect
  PROVE  ListInv'
<1>1. /\ clients \in Seq(Conns) /\ DOMAIN clients = 1..Len(clients)
      /\ cursor \in 1..Len(clients) /\ Visited \in Conns
  BY VisitedType DEF SweepCollect
<1>2. /\ clients' = RemoveAt(clients, cursor) /\ age' = age /\ m_client' = m_client
      /\ socket' = [socket EXCEPT ![Visited] = "doomed"] /\ Visited \notin Open
  BY DEF SweepCollect
<1>3. Open' = Open /\ Closing' = Closing \ {Visited}
  BY <1>1, <1>2 DEF TypeOK, Open, Closing
<1>4. IsInjective(clients') /\ ToSet(clients') = ToSet(clients) \ {Visited}
  BY <1>1, <1>2, RemoveAtInjective, Zenon DEF ListInv, Visited
<1>5. ToSet(clients') = Open' \cup Closing'
  BY <1>2, <1>3, <1>4 DEF ListInv
<1>6. m_client' # None => socket'[m_client'] # "none"
  BY <1>1, <1>2 DEF TypeOK, ListInv
<1>7. ASSUME NEW j \in DOMAIN clients', NEW k \in DOMAIN clients', j < k,
             clients'[j] \in Open'
      PROVE  age'[clients'[k]] <= age'[clients'[j]]
  <2>1. PICK m \in DOMAIN clients, n \in DOMAIN clients :
               m < n /\ clients'[j] = clients[m] /\ clients'[k] = clients[n]
    BY <1>1, <1>2, <1>7, RemoveAtKeepsOrder
  <2> QED
    BY <1>2, <1>3, <1>7, <2>1 DEF ListInv
<1> QED
  BY <1>2, <1>3, <1>4, <1>5, <1>6, <1>7 DEF ListInv

(* One step keeps the list. *)
LEMMA NextList == SessionInv /\ ListInv /\ [Next]_vars => ListInv'
<1> SUFFICES ASSUME TypeOK, SessionExclusive, ListInv, [Next]_vars
             PROVE  ListInv'
  BY DEF SessionInv
<1>1. CASE \/ Launch \/ StartServer \/ SendMessage \/ SweepTimer \/ ConnectTimer
           \/ UNCHANGED vars
  BY <1>1, ListUntouched
     DEF Launch, StartServer, SendMessage, SweepTimer, ConnectTimer, vars, serverVars, clientVars
<1>2. CASE StopServer \/ Quit \/ SweepStrayCrashes
  BY <1>2, ServerDeletedList DEF StopServer, Quit, SweepStrayCrashes
<1>3. ASSUME NEW c \in Conns, NEW a \in Addrs, NewConnection(c, a) PROVE ListInv'
  BY <1>3, NewConnectionList
<1>4. ASSUME NEW c \in Conns, NEW f \in Features, RepeatHandshake(c, f) \/ RefuseHandshake(c, f)
      PROVE  ListInv'
  BY <1>4, ListUntouched DEF RepeatHandshake, RefuseHandshake, HandshakeMessage
<1>5. ASSUME NEW c \in Conns, KeyMessage(c) \/ Flush(c) PROVE ListInv'
  BY <1>5, ListUntouched DEF KeyMessage, Flush, serverVars
<1>6. ASSUME NEW c \in Conns, NEW f \in Features, GrantHandshake(c, f) PROVE ListInv'
  <2>1. socket'[c] # "none" /\ UNCHANGED <<clients, socket, age>> /\ m_client' = c
    BY <1>6 DEF GrantHandshake, HandshakeMessage, Open
  <2> QED
    BY <2>1 DEF ListInv, Open, Closing
<1>7. ASSUME NEW c \in Conns, BadMessage(c) \/ RefusalKick(c) PROVE ListInv'
  BY <1>7, KickList DEF BadMessage, RefusalKick
<1>8. ASSUME NEW c \in Conns, SocketDisconnected(c) \/ DeleteClient(c) PROVE ListInv'
  BY <1>8, ClientDisconnectedList DEF SocketDisconnected, DeleteClient
<1>9. CASE KickClient
  BY <1>9, KickList DEF KickClient, TypeOK
<1>10. CASE Tick
  BY <1>10, TickList
<1>11. CASE SweepCollect
  BY <1>11, SweepCollectList
<1>12. CASE SweepSkip \/ SweepEnd \/ SweepStrayEnds
  BY <1>12, ListUntouched DEF SweepSkip, SweepEnd, SweepStrayEnds, clientVars
<1>13. CASE SweepKickLater
  BY <1>13, CloseLaterList DEF SweepKickLater
<1>14. CASE SweepKickNow
  BY <1>14, VisitedType, ClientDisconnectedList DEF SweepKickNow
<1> QED
  BY <1>1, <1>2, <1>3, <1>4, <1>5, <1>6, <1>7, <1>8, <1>9, <1>10, <1>11, <1>12, <1>13,
     <1>14 DEF Next, Sweep
-----------------------------------------------------------------------------
(* The walk of KickInactiveClients.  Behind the cursor there is somebody the walk   *)
(* left in the list: the session, a client whose socket is closing, or, when nobody *)
(* has the session, a client too young to be kicked - and then the walk kicks       *)
(* nobody any more, as the clients after it are younger still.                      *)
LeftBehind ==
  \E i \in DOMAIN clients : i < cursor /\ (clients[i] = m_client \/ clients[i] \in Closing)
YoungBehind ==
  /\ m_client = None
  /\ cursor <= Len(clients) + 1
  /\ \E i \in DOMAIN clients :
       i < cursor /\ clients[i] \in Open /\ age[clients[i]] < HANDSHAKE_WINDOW
SweepInv == cursor > 1 => LeftBehind \/ YoungBehind

(* While no handler runs there is no walk, and a walk starts at the first entry. *)
LEMMA NoWalk ==
  ASSUME cursor' \in {0, 1}
  PROVE  SweepInv'
BY DEF SweepInv

(* A closing client that is given up was not the one left behind. *)
LEMMA CollectWalk ==
  ASSUME TypeOK, ListInv, SweepInv, SweepCollect
  PROVE  SweepInv'
<1>1. /\ clients \in Seq(Conns) /\ Len(clients) \in Nat /\ DOMAIN clients = 1..Len(clients)
      /\ cursor \in 1..Len(clients) /\ Visited \in Conns
  BY VisitedType DEF SweepCollect
<1>2. /\ clients' = RemoveAt(clients, cursor) /\ age' = age /\ m_client' = m_client
      /\ cursor' = cursor
      /\ socket' = [socket EXCEPT ![Visited] = "doomed"] /\ Visited \notin Open
  BY DEF SweepCollect
<1>3. /\ clients' \in Seq(Conns) /\ Len(clients') = Len(clients) - 1
      /\ \A j \in 1..(Len(clients) - 1) : j < cursor => clients'[j] = clients[j]
  BY <1>1, <1>2, RemoveAtProperties
<1>4. DOMAIN clients' = 1..(Len(clients) - 1)
  BY <1>3, LenProperties
<1>5. Open' = Open /\ Closing' = Closing \ {Visited}
  BY <1>1, <1>2 DEF TypeOK, Open, Closing
<1>6. \A i \in DOMAIN clients : i < cursor => clients[i] # Visited
  BY <1>1 DEF ListInv, IsInjective, Visited
<1>7. \A i \in DOMAIN clients : i < cursor => i \in DOMAIN clients' /\ clients'[i] = clients[i]
  BY <1>1, <1>3, <1>4
<1>8. LeftBehind => LeftBehind'
  BY <1>2, <1>5, <1>6, <1>7 DEF LeftBehind
<1>9. YoungBehind => YoungBehind'
  BY <1>1, <1>2, <1>3, <1>5, <1>7 DEF YoungBehind
<1> QED
  BY <1>2, <1>8, <1>9 DEF SweepInv

(* A client that is passed over has the session, or is too young. *)
LEMMA SkipWalk ==
  ASSUME SessionInv, ListInv, SweepInv, SweepSkip
  PROVE  SweepInv'
<1>1. /\ Len(clients) \in Nat /\ DOMAIN clients = 1..Len(clients)
      /\ cursor \in 1..Len(clients) /\ Visited \in Conns
  BY VisitedType DEF SweepSkip, SessionInv
<1>2. /\ UNCHANGED <<clients, m_client, socket, age>> /\ cursor' = cursor + 1
      /\ Visited \in Open /\ ~Inactive(Visited)
  BY DEF SweepSkip, clientVars
<1>3. Open' = Open /\ Closing' = Closing
  BY <1>2 DEF Open, Closing
<1>4. CASE m_client = Visited
  BY <1>1, <1>2, <1>4 DEF SweepInv, LeftBehind, Visited
<1>5. CASE m_client # Visited
  <2>1. m_client = None /\ handshakeDone = {}
    BY <1>2, <1>5 DEF Inactive, SessionTaken, SessionInv, SessionExclusive
  <2>2. age[Visited] < HANDSHAKE_WINDOW
    BY <1>1, <1>2, <2>1, TimesAreNatural, MaxAgeType DEF Inactive, SessionInv, TypeOK
  <2>3. cursor \in DOMAIN clients /\ cursor < cursor' /\ cursor' <= Len(clients') + 1
    BY <1>1, <1>2
  <2>4. YoungBehind'
    BY <1>2, <1>3, <2>1, <2>2, <2>3 DEF YoungBehind, Visited
  <2> QED
    BY <2>4 DEF SweepInv
<1> QED
  BY <1>4, <1>5

(* A client that has something to write stays behind, closing. *)
LEMMA KickLaterWalk ==
  ASSUME TypeOK, SweepKickLater
  PROVE  SweepInv'
<1>1. /\ Len(clients) \in Nat /\ DOMAIN clients = 1..Len(clients)
      /\ cursor \in 1..Len(clients) /\ Visited \in Conns
  BY VisitedType DEF SweepKickLater
<1>2. clients' = clients /\ cursor' = cursor + 1 /\ Visited \in Closing'
  BY <1>1 DEF SweepKickLater, CloseLater, TypeOK, Closing
<1>3. cursor \in DOMAIN clients' /\ cursor < cursor' /\ clients'[cursor] \in Closing'
  BY <1>1, <1>2 DEF Visited
<1> QED
  BY <1>3 DEF SweepInv, LeftBehind

(* A client that is gone at once is not the one left behind; if nobody is, the list *)
(* moves up under the cursor, which stays at the first entry.                       *)
LEMMA KickNowWalk ==
  ASSUME SessionInv, ListInv, SweepInv, SweepKickNow
  PROVE  SweepInv'
<1>1. /\ clients \in Seq(Conns) /\ Len(clients) \in Nat /\ DOMAIN clients = 1..Len(clients)
      /\ cursor \in 1..Len(clients) /\ Visited \in Conns
  BY VisitedType DEF SweepKickNow, SessionInv
<1>2. Visited \in Open /\ Inactive(Visited) /\ Visited # m_client
  BY <1>1, InactiveIsOther DEF SweepKickNow
<1>3. clients' = RemoveAt(clients, cursor)
  BY <1>1, RemoveFirstInjective
     DEF SweepKickNow, ClientDisconnected, ListInv, Visited
<1>4. m_client' = m_client /\ Closing' = Closing
  BY <1>2 DEF SweepKickNow, ClientDisconnected, ClientDeleted, SessionInv, TypeOK, Open, Closing
<1>5. cursor' \in {cursor, cursor + 1} /\ (cursor = 1 => cursor' = 1)
  BY <1>1 DEF SweepKickNow, CursorAfterRemoval
<1>6. /\ clients' \in Seq(Conns) /\ Len(clients') = Len(clients) - 1
      /\ \A j \in 1..(Len(clients) - 1) : j < cursor => clients'[j] = clients[j]
  BY <1>1, <1>3, RemoveAtProperties
<1>7. DOMAIN clients' = 1..(Len(clients) - 1)
  BY <1>6, LenProperties
<1>8. \A i \in DOMAIN clients : i < cursor => i \in DOMAIN clients' /\ clients'[i] = clients[i]
  BY <1>1, <1>6, <1>7
<1>9. LeftBehind => LeftBehind'
  BY <1>1, <1>4, <1>5, <1>8 DEF LeftBehind
<1>10. ~YoungBehind
  <2> SUFFICES ASSUME m_client = None, NEW i \in DOMAIN clients, i < cursor, clients[i] \in Open,
                      age[clients[i]] < HANDSHAKE_WINDOW
               PROVE  FALSE
    BY DEF YoungBehind
  <2>1. age[Visited] >= HANDSHAKE_WINDOW
    BY <1>2 DEF Inactive, SessionTaken
  <2>2. age[Visited] <= age[clients[i]]
    BY <1>1 DEF ListInv, Visited
  <2>3. age[Visited] \in Nat /\ age[clients[i]] \in Nat
    BY <1>1, MaxAgeType DEF SessionInv, TypeOK, Open
  <2> QED
    BY <2>1, <2>2, <2>3, TimesAreNatural
<1> QED
  BY <1>1, <1>5, <1>9, <1>10 DEF SweepInv

(* One step keeps the invariant of the walk. *)
LEMMA NextWalk == SessionInv /\ ListInv /\ SweepInv /\ [Next]_vars => SweepInv'
<1> SUFFICES ASSUME SessionInv, TypeOK, ListInv, SweepInv, [Next]_vars
             PROVE  SweepInv'
  BY DEF SessionInv
<1>1. CASE SweepCollect
  BY <1>1, CollectWalk
<1>2. CASE SweepSkip
  BY <1>2, SkipWalk
<1>3. CASE SweepKickLater
  BY <1>3, KickLaterWalk
<1>4. CASE SweepKickNow
  BY <1>4, KickNowWalk
<1>5. CASE SweepEnd \/ SweepStrayEnds \/ SweepStrayCrashes
  BY <1>5, NoWalk DEF SweepEnd, SweepStrayEnds, SweepStrayCrashes, ServerDeleted
<1>6. CASE Launch \/ UNCHANGED vars
  <2>1. UNCHANGED <<cursor, clients, m_client, socket, age>>
    BY <1>6 DEF Launch, vars, serverVars, clientVars
  <2> QED
    BY <2>1 DEF SweepInv, LeftBehind, YoungBehind, Open, Closing
<1>7. CASE EventLoop /\ cursor' \in {cursor, 0, 1}
  BY <1>7, NoWalk DEF EventLoop
<1>8. CASE Next /\ ~Sweep /\ ~Launch
  BY <1>7, <1>8
     DEF Next, StartServer, StopServer, Quit, ServerDeleted, NewConnection, RepeatHandshake,
         RefuseHandshake, GrantHandshake, HandshakeMessage, KeyMessage, BadMessage, Flush,
         SocketDisconnected, RefusalKick, DeleteClient, ConnectTimer, SendMessage, KickClient,
         SweepTimer, Tick, serverVars
<1> QED
  BY <1>1, <1>2, <1>3, <1>4, <1>5, <1>6, <1>8 DEF Sweep

(* The list and the walk over it, together with the session. *)
THEOREM WalkInvariant == SafeSpec => [](ListInv /\ SweepInv)
<1>1. Init => ListInv /\ SweepInv
  BY DEF Init, ListInv, SweepInv, IsInjective, ToSet, Open, Closing
<1>2. SessionInv /\ ListInv /\ SweepInv /\ [Next]_vars => (ListInv /\ SweepInv)'
  BY NextList, NextWalk
<1> QED
  BY <1>1, <1>2, SessionInvariant, PTL DEF SafeSpec

(* Open and closing clients are in the list exactly once, the others never: what     *)
(* ListInv says, in the words of the count.                                          *)
THEOREM ListsAreLive == SafeSpec => []ListIsLive
<1>1. TypeOK /\ ListInv => ListIsLive
  <2> SUFFICES ASSUME TypeOK, ListInv, NEW c \in Conns
               PROVE  Cardinality({i \in DOMAIN clients : clients[i] = c})
                        = IF c \in Open \cup Closing THEN 1 ELSE 0
    BY DEF ListIsLive, ListInv
  <2> DEFINE places == {i \in DOMAIN clients : clients[i] = c}
  <2>1. CASE c \in Open \cup Closing
    <3>1. PICK i \in DOMAIN clients : clients[i] = c
      BY <2>1 DEF ListInv, ToSet
    <3>2. places = {i}
      BY <3>1 DEF ListInv, IsInjective
    <3> QED
      BY <2>1, <3>2, FS_Singleton
  <2>2. CASE c \notin Open \cup Closing
    <3>1. places = {}
      BY <2>2 DEF ListInv, ToSet
    <3> QED
      BY <2>2, <3>1, FS_EmptySet
  <2> QED
    BY <2>1, <2>2
<1>2. SessionInv => TypeOK
  BY DEF SessionInv
<1> QED
  BY <1>1, <1>2, SessionInvariant, WalkInvariant, PTL

(* However many clients the walk removes under its own iterator, and wherever the    *)
(* iterator jumps: it is past the end only with somebody left behind in the list.    *)
THEOREM StraysNeedSurvivors == SafeSpec => []StrayNeedsSurvivor
<1>1. TypeOK /\ SweepInv => StrayNeedsSurvivor
  <2> SUFFICES ASSUME TypeOK, SweepInv, cursor > Len(clients) + 1
               PROVE  \E i \in DOMAIN clients : clients[i] = m_client \/ clients[i] \in Closing
    BY DEF StrayNeedsSurvivor
  <2>1. cursor \in Nat /\ Len(clients) \in Nat
    BY LenProperties DEF TypeOK
  <2>2. cursor > 1 /\ ~YoungBehind
    BY <2>1 DEF YoungBehind
  <2> QED
    BY <2>2 DEF SweepInv, LeftBehind
<1>2. SessionInv => TypeOK
  BY DEF SessionInv
<1> QED
  BY <1>1, <1>2, SessionInvariant, WalkInvariant, PTL
-----------------------------------------------------------------------------
(* Bans and ages.  A client that stays as it was keeps its side of the bargain. *)
LEMMA BansUntouched ==
  ASSUME BanPredates, banList' = banList,
         \A c \in Open' : c \in Open /\ addr'[c] = addr[c] /\ age'[c] = age[c]
  PROVE  BanPredates'
BY DEF BanPredates

(* Whoever leaves or closes is not open any more; the others stay as they were. *)
LEMMA KickBans ==
  ASSUME TypeOK, NEW c \in Conns, Kick(c) \/ ClientDisconnected(c)
  PROVE  \A d \in Open' : d \in Open /\ addr'[d] = addr[d] /\ age'[d] = age[d]
BY DEF TypeOK, Kick, CloseLater, ClientDisconnected, ClientDeleted, clientVars, Open

(* The user bans the address of a client that the same call kicks: every other client *)
(* connected from it is older than a ban that has not begun to run.                   *)
LEMMA KickClientBans ==
  ASSUME TypeOK, BanPredates, KickClient
  PROVE  BanPredates'
<1>1. m_client \in Conns /\ Kick(m_client)
  BY DEF KickClient, TypeOK
<1>2. \A d \in Open' : d \in Open /\ addr'[d] = addr[d] /\ age'[d] = age[d]
  BY <1>1, KickBans
<1>3. ASSUME NEW d \in Open'
      PROVE  /\ age[d] \in Nat
             /\ \/ banList'[addr[d]] = banList[addr[d]]
                \/ banList'[addr[d]] = KICK_BANTIME
  BY <1>2, MaxAgeType DEF KickClient, TypeOK, Open
<1> QED
  BY <1>2, <1>3, TimesAreNatural DEF BanPredates

(* Ages and bans run at the same pace. *)
LEMMA TickBans ==
  ASSUME TypeOK, BanPredates, Tick
  PROVE  BanPredates'
<1> SUFFICES ASSUME NEW c \in Open', banList'[addr'[c]] > NotBanned
             PROVE  age'[c] >= KICK_BANTIME - banList'[addr'[c]]
  BY DEF BanPredates
<1>1. /\ c \in Open /\ c \in Conns /\ addr'[c] = addr[c] /\ addr[c] \in Addrs \cup {NullAddr}
      /\ age'[c] = IF age[c] < MaxAge THEN age[c] + 1 ELSE age[c]
  BY DEF Tick, TypeOK, Open
<1>2. banList'[addr[c]] = IF banList[addr[c]] > 0 THEN banList[addr[c]] - 1 ELSE banList[addr[c]]
  BY <1>1 DEF Tick
<1>3. banList[addr[c]] \in NotBanned..KICK_BANTIME /\ age[c] \in 0..MaxAge
  BY <1>1 DEF TypeOK
<1>4. KICK_BANTIME \in Nat /\ MaxAge \in Nat /\ KICK_BANTIME <= MaxAge
  BY TimesAreNatural DEF MaxAge
<1>5. banList[addr[c]] > NotBanned => age[c] >= KICK_BANTIME - banList[addr[c]]
  BY <1>1 DEF BanPredates
<1> QED
  BY <1>1, <1>2, <1>3, <1>4, <1>5 DEF NotBanned

(* One step keeps the bargain. *)
LEMMA NextBans == TypeOK /\ BanPredates /\ [Next]_vars => BanPredates'
<1> SUFFICES ASSUME TypeOK, BanPredates, [Next]_vars PROVE BanPredates'
  OBVIOUS
<1>1. CASE \/ Launch \/ StartServer \/ SendMessage \/ ConnectTimer
           \/ SweepSkip \/ SweepEnd \/ SweepStrayEnds \/ UNCHANGED vars
  BY <1>1, BansUntouched
     DEF Launch, StartServer, SendMessage, ConnectTimer, SweepSkip, SweepEnd, SweepStrayEnds,
         vars, serverVars, clientVars, Open
<1>2. CASE StopServer \/ Quit \/ SweepStrayCrashes
  BY <1>2 DEF StopServer, Quit, SweepStrayCrashes, ServerDeleted, BanPredates, Open
<1>3. ASSUME NEW c \in Conns, NEW a \in Addrs, NewConnection(c, a) PROVE BanPredates'
  <2>1. /\ \A d \in Open' : d = c \/ (d \in Open /\ addr'[d] = addr[d])
        /\ addr'[c] = a /\ age' = age /\ banList' = banList /\ banList[a] = NotBanned
    BY <1>3 DEF NewConnection, Accepts, TypeOK, Open
  <2> QED
    BY <2>1 DEF BanPredates, NotBanned
<1>4. ASSUME NEW c \in Conns,
             \/ \E f \in Features :
                  RepeatHandshake(c, f) \/ RefuseHandshake(c, f) \/ GrantHandshake(c, f)
             \/ KeyMessage(c)
             \/ Flush(c)
      PROVE  BanPredates'
  BY <1>4, BansUntouched
     DEF RepeatHandshake, RefuseHandshake, GrantHandshake, HandshakeMessage, KeyMessage, Flush,
         serverVars, Open
<1>5. ASSUME NEW c \in Conns,
             BadMessage(c) \/ RefusalKick(c) \/ SocketDisconnected(c) \/ DeleteClient(c)
      PROVE  BanPredates'
  <2>1. banList' = banList /\ (Kick(c) \/ ClientDisconnected(c))
    BY <1>5 DEF BadMessage, RefusalKick, SocketDisconnected, DeleteClient
  <2> QED
    BY <2>1, KickBans, BansUntouched
<1>6. CASE KickClient
  BY <1>6, KickClientBans
<1>7. CASE Tick
  BY <1>7, TickBans
<1>8. CASE SweepTimer
  <2>1. /\ UNCHANGED <<socket, addr, age>>
        /\ \A a \in Addrs \cup {NullAddr} : banList'[a] \in {banList[a], NotBanned}
    BY <1>8 DEF SweepTimer, ClearBans, clientVars
  <2>2. \A c \in Open' : c \in Open /\ addr[c] \in Addrs \cup {NullAddr}
    BY <2>1 DEF TypeOK, Open
  <2> QED
    BY <2>1, <2>2 DEF BanPredates, NotBanned
<1>9. CASE SweepCollect
  <2>1. \A d \in Open' : d \in Open
    BY <1>9 DEF SweepCollect, TypeOK, Open
  <2> QED
    BY <1>9, <2>1, BansUntouched DEF SweepCollect
<1>10. CASE SweepKickLater
  BY <1>10, KickBans, BansUntouched DEF SweepKickLater, Kick, Open
<1>11. CASE SweepKickNow
  BY <1>11, KickBans, BansUntouched DEF SweepKickNow, Open
<1> QED
  BY <1>1, <1>2, <1>3, <1>4, <1>5, <1>6, <1>7, <1>8, <1>9, <1>10, <1>11 DEF Next, Sweep

(* A ban is only ever younger than a client that is connected from its address: nobody *)
(* gets in while the address is banned, however the timers and the bans are ordered.   *)
THEOREM BansPredate == SafeSpec => []BanPredates
<1>1. Init => BanPredates
  BY DEF Init, BanPredates, Open
<1>2. TypeOK /\ BanPredates /\ [Next]_vars => BanPredates'
  BY NextBans
<1> QED
  BY <1>1, <1>2, TypeCorrect, PTL DEF SafeSpec

-----------------------------------------------------------------------------
(* The application.  Clients and a session exist only while the server listens, and *)
(* it listens only while the process runs.                                          *)
ListenInv ==
  /\ listening => process = "running"
  /\ \A c \in Conns : socket[c] # "none" => listening
  /\ m_client # None => listening

(* A step that leaves the process and the server alone and neither opens a socket nor *)
(* gives the session keeps it.                                                        *)
LEMMA ListenUntouched ==
  ASSUME ListenInv, UNCHANGED <<process, listening>>,
         \A c \in Conns : socket'[c] # "none" => listening,
         m_client' # None => listening
  PROVE  ListenInv'
BY DEF ListenInv

(* Clients that leave or close open nothing. *)
LEMMA KickListens ==
  ASSUME TypeOK, ListenInv, NEW c \in Conns, Kick(c) \/ ClientDisconnected(c)
  PROVE  /\ \A d \in Conns : socket'[d] # "none" => listening
         /\ m_client' # None => listening
BY DEF TypeOK, ListenInv, Kick, CloseLater, ClientDisconnected, ClientDeleted, clientVars, Open

(* One step keeps ListenInv. *)
LEMMA NextListens == TypeOK /\ ListInv /\ ListenInv /\ [Next]_vars => ListenInv'
<1> SUFFICES ASSUME TypeOK, ListInv, ListenInv, [Next]_vars PROVE ListenInv'
  OBVIOUS
<1>1. CASE Launch \/ StartServer \/ UNCHANGED vars
  BY <1>1 DEF Launch, StartServer, EventLoop, vars, serverVars, clientVars, ListenInv
<1>2. CASE StopServer \/ Quit \/ SweepStrayCrashes
  BY <1>2 DEF StopServer, Quit, SweepStrayCrashes, ServerDeleted, ListenInv
<1>3. CASE \/ SendMessage \/ ConnectTimer \/ SweepTimer \/ Tick
           \/ SweepSkip \/ SweepEnd \/ SweepStrayEnds
  BY <1>3 DEF SendMessage, ConnectTimer, SweepTimer, Tick, SweepSkip, SweepEnd, SweepStrayEnds,
              serverVars, clientVars, ListenInv
<1>4. ASSUME NEW c \in Conns,
             \/ \E a \in Addrs : NewConnection(c, a)
             \/ KeyMessage(c)
             \/ Flush(c)
             \/ \E f \in Features :
                  RepeatHandshake(c, f) \/ RefuseHandshake(c, f) \/ GrantHandshake(c, f)
      PROVE  ListenInv'
  <2>1. listening
    BY <1>4 DEF NewConnection, KeyMessage, Flush, RepeatHandshake, RefuseHandshake,
                GrantHandshake, HandshakeMessage, Open, ListenInv
  <2>2. UNCHANGED <<process, listening>>
    BY <1>4 DEF NewConnection, KeyMessage, Flush, RepeatHandshake, RefuseHandshake,
                GrantHandshake, HandshakeMessage, serverVars
  <2> QED
    BY <2>1, <2>2, ListenUntouched
<1>5. ASSUME NEW c \in Conns,
             BadMessage(c) \/ RefusalKick(c) \/ SocketDisconnected(c) \/ DeleteClient(c)
      PROVE  ListenInv'
  <2>1. UNCHANGED <<process, listening>> /\ (Kick(c) \/ ClientDisconnected(c))
    BY <1>5 DEF BadMessage, RefusalKick, SocketDisconnected, DeleteClient
  <2> QED
    BY <2>1, KickListens, ListenUntouched
<1>6. CASE KickClient
  BY <1>6, KickListens, ListenUntouched DEF KickClient, TypeOK
<1>7. CASE SweepCollect
  <2>1. Visited \in ToSet(clients)
    BY <1>7, VisitedType DEF SweepCollect, ToSet, Visited
  <2>2. listening
    BY <2>1 DEF ListInv, Open, Closing, ListenInv
  <2> QED
    BY <1>7, <2>2, ListenUntouched DEF SweepCollect, ListenInv
<1>8. CASE SweepKickLater
  BY <1>8, KickListens, ListenUntouched DEF SweepKickLater, Kick, Open
<1>9. CASE SweepKickNow
  BY <1>9, KickListens, ListenUntouched DEF SweepKickNow, Open
<1> QED
  BY <1>1, <1>2, <1>3, <1>4, <1>5, <1>6, <1>7, <1>8, <1>9 DEF Next, Sweep

(* AppNext is Next with more said about it. *)
LEMMA AppIsServer == AppSpec => SafeSpec
<1>1. AppInit => Init
  BY DEF AppInit
<1>2. [AppNext]_<<vars, appVars>> => [Next]_vars
  BY DEF AppNext
<1> QED
  BY <1>1, <1>2, PTL DEF AppSpec, SafeSpec

(* What is known of the server under the application. *)
AppInv == SessionInv /\ ListInv /\ ListenInv

(* It holds of every state of the application. *)
LEMMA AppInvariant == AppSpec => []AppInv
<1>1. Init => ListenInv
  BY DEF Init, ListenInv
<1>2. TypeOK /\ ListInv /\ ListenInv /\ [Next]_vars => ListenInv'
  BY NextListens
<1>3. SafeSpec => []ListenInv
  BY <1>1, <1>2, TypeCorrect, WalkInvariant, PTL DEF SafeSpec
<1> QED
  BY <1>3, AppIsServer, SessionInvariant, WalkInvariant, PTL DEF AppInv

(* A step that leaves alone what the application looks at is none to it. *)
LEMMA AppUntouched ==
  ASSUME UNCHANGED <<process, listening, connected, m_client>>,
         m_client \in Open <=> m_client \in Open'
  PROVE  UNCHANGED App!appVars
BY DEF App!appVars, ServerStateShown, SessionLink

(* A client that is disconnected ends the session, or is none of the application's. *)
LEMMA ClientDisconnectedApp ==
  ASSUME AppInv, NEW c \in Conns, ClientDisconnected(c), UNCHANGED <<process, listening>>
  PROVE  App!AppNext \/ UNCHANGED App!appVars
<1> USE DEF AppInv, SessionInv
<1>1. CASE c = m_client
  <2>1. m_client # None /\ process = "running" /\ listening
    BY <1>1, NullsAreDistinct DEF ListenInv
  <2>2. SessionLink # "none" /\ SessionLink' = "none" /\ ServerStateShown' = "STARTED"
    BY <1>1, <2>1 DEF ClientDisconnected, SessionLink, ServerStateShown
  <2> QED
    BY <2>2 DEF App!SessionEnds, App!AppNext
<1>2. CASE c # m_client
  <2>1. UNCHANGED <<connected, m_client>> /\ Open' = Open \ {c}
    BY <1>2 DEF ClientDisconnected, ClientDeleted, TypeOK, Open
  <2> QED
    BY <1>2, <2>1, AppUntouched
<1> QED
  BY <1>1, <1>2

(* Client::Kick closes the session, ends it, or is none of the application's. *)
LEMMA KickApp ==
  ASSUME AppInv, NEW c \in Conns, Kick(c), UNCHANGED <<process, listening>>
  PROVE  App!AppNext \/ UNCHANGED App!appVars
<1> USE DEF AppInv, SessionInv
<1>1. CASE c \in Open /\ CloseLater(c)
  <2>1. UNCHANGED <<connected, m_client>> /\ Open' = Open \ {c}
    BY <1>1 DEF CloseLater, TypeOK, Open
  <2>2. CASE c = m_client
    <3>1. SessionLink = "open" /\ SessionLink' = "closing"
      BY <1>1, <2>1, <2>2, NullsAreDistinct DEF SessionLink
    <3>2. ServerStateShown' = ServerStateShown
      BY <2>1 DEF ServerStateShown
    <3> QED
      BY <3>1, <3>2 DEF App!SessionCloses, App!AppNext
  <2>3. CASE c # m_client
    BY <2>1, <2>3, AppUntouched
  <2> QED
    BY <2>2, <2>3
<1>2. CASE ClientDisconnected(c)
  BY <1>2, ClientDisconnectedApp
<1>3. CASE UNCHANGED <<m_client, clients, connected, clientVars>>
  BY <1>3, AppUntouched DEF clientVars, Open
<1> QED
  BY <1>1, <1>2, <1>3 DEF Kick

(* StopServer and the end of the process stop the server, if there was one. *)
LEMMA ServerDeletedApp ==
  ASSUME AppInv, ServerDeleted
  PROVE  App!AppNext \/ UNCHANGED App!appVars
<1> USE DEF AppInv, SessionInv
<1>1. ServerStateShown' = "STOPPED" /\ SessionLink' = "none"
  BY DEF ServerDeleted, ServerStateShown, SessionLink
<1>2. CASE listening
  <2>1. ServerStateShown # "STOPPED"
    BY <1>2 DEF ListenInv, ServerStateShown
  <2> QED
    BY <1>1, <2>1 DEF App!StopServer, App!AppNext
<1>3. CASE ~listening
  <2>1. ServerStateShown = "STOPPED" /\ SessionLink = "none"
    BY <1>3 DEF ListenInv, ServerStateShown, SessionLink
  <2> QED
    BY <1>1, <2>1 DEF App!appVars
<1> QED
  BY <1>2, <1>3

(* The process starts, or the user starts the server: it listens and nobody is there. *)
LEMMA StartApp ==
  ASSUME AppInv, Launch \/ StartServer
  PROVE  App!AppNext \/ UNCHANGED App!appVars
<1> USE DEF AppInv, SessionInv
<1>1. ~listening /\ m_client = None /\ ~connected /\ process' = "running"
  BY DEF Launch, StartServer, EventLoop, ListenInv, ConnectedHasSession
<1>2. m_client' = None /\ ~connected'
  BY <1>1 DEF Launch, StartServer
<1>3. ServerStateShown = "STOPPED" /\ SessionLink = "none" /\ SessionLink' = "none"
  BY <1>1, <1>2 DEF ServerStateShown, SessionLink
<1>4. ServerStateShown' = IF listening' THEN "STARTED" ELSE "STOPPED"
  BY <1>1, <1>2 DEF ServerStateShown
<1> QED
  BY <1>3, <1>4 DEF App!StartServer, App!AppNext, App!appVars

(* A granted handshake gives an open session that the application does not see yet. *)
LEMMA GrantApp ==
  ASSUME AppInv, NEW c \in Conns, NEW f \in Features, GrantHandshake(c, f)
  PROVE  App!AppNext
<1> USE DEF AppInv, SessionInv
<1>1. m_client = None /\ ~connected
  BY GrantSession DEF ConnectedHasSession
<1>2. UNCHANGED <<process, listening, connected, socket>> /\ m_client' = c /\ c \in Open
  BY DEF GrantHandshake, HandshakeMessage
<1>3. process = "running" /\ listening
  BY <1>2 DEF ListenInv, Open
<1>4. /\ ServerStateShown = "STARTED" /\ ServerStateShown' = "STARTED"
      /\ SessionLink = "none" /\ SessionLink' = "open"
  BY <1>1, <1>2, <1>3, NullsAreDistinct DEF ServerStateShown, SessionLink, Open
<1> QED
  BY <1>4 DEF App!SessionGranted, App!AppNext

(* A one-second timer announces the session there is, if there is one. *)
LEMMA ConnectTimerApp ==
  ASSUME AppInv, ConnectTimer
  PROVE  App!AppNext \/ UNCHANGED App!appVars
<1> USE DEF AppInv, SessionInv
<1>1. UNCHANGED <<process, listening, m_client, socket>>
  BY DEF ConnectTimer
<1>2. CASE m_client = None
  <2>1. connected' = connected
    BY <1>2 DEF ConnectTimer, TypeOK
  <2> QED
    BY <1>1, <2>1, AppUntouched DEF Open
<1>3. CASE m_client # None
  <2>1. process = "running" /\ listening /\ connected'
    BY <1>3 DEF ListenInv, ConnectTimer
  <2>2. SessionLink # "none" /\ SessionLink' = SessionLink /\ ServerStateShown' = "CONNECTED"
    BY <1>1, <1>3, <2>1 DEF SessionLink, ServerStateShown, Open
  <2> QED
    BY <2>2 DEF App!SessionAnnounced, App!AppNext
<1> QED
  BY <1>2, <1>3

(* Every step of the server is a step of MainWidget as its tabs see it, or none. *)
LEMMA StepApp ==
  ASSUME AppInv, [Next]_vars
  PROVE  App!AppNext \/ UNCHANGED App!appVars
<1>1. CASE Launch \/ StartServer
  BY <1>1, StartApp
<1>2. CASE StopServer \/ Quit \/ SweepStrayCrashes
  BY <1>2, ServerDeletedApp DEF StopServer, Quit, SweepStrayCrashes
<1>3. CASE \/ SendMessage \/ SweepTimer \/ Tick
           \/ SweepSkip \/ SweepEnd \/ SweepStrayEnds \/ UNCHANGED vars
  BY <1>3, AppUntouched
     DEF SendMessage, SweepTimer, Tick, SweepSkip, SweepEnd, SweepStrayEnds, vars, serverVars,
         clientVars, Open
<1>4. ASSUME NEW c \in Conns, NEW a \in Addrs, NewConnection(c, a)
      PROVE  UNCHANGED App!appVars
  <2>1. UNCHANGED <<process, listening, connected, m_client>> /\ Open' = Open \cup {c}
    BY <1>4 DEF NewConnection, AppInv, SessionInv, TypeOK, Open
  <2>2. m_client # c
    BY <1>4, NullsAreDistinct DEF NewConnection, AppInv, ListInv
  <2> QED
    BY <2>1, <2>2, AppUntouched
<1>5. ASSUME NEW c \in Conns,
             \/ KeyMessage(c)
             \/ Flush(c)
             \/ \E f \in Features : RepeatHandshake(c, f) \/ RefuseHandshake(c, f)
      PROVE  UNCHANGED App!appVars
  BY <1>5, AppUntouched
     DEF KeyMessage, Flush, RepeatHandshake, RefuseHandshake, HandshakeMessage, serverVars, Open
<1>6. ASSUME NEW c \in Conns, NEW f \in Features, GrantHandshake(c, f) PROVE App!AppNext
  BY <1>6, GrantApp
<1>7. ASSUME NEW c \in Conns,
             BadMessage(c) \/ RefusalKick(c) \/ SocketDisconnected(c) \/ DeleteClient(c)
      PROVE  App!AppNext \/ UNCHANGED App!appVars
  BY <1>7, KickApp, ClientDisconnectedApp
     DEF BadMessage, RefusalKick, SocketDisconnected, DeleteClient
<1>8. CASE KickClient
  BY <1>8, KickApp DEF KickClient, AppInv, SessionInv, TypeOK
<1>9. CASE ConnectTimer
  BY <1>9, ConnectTimerApp
<1>10. CASE SweepCollect
  <2>1. UNCHANGED <<process, listening, connected, m_client>> /\ Open' = Open
    BY <1>10, VisitedType DEF SweepCollect, AppInv, SessionInv, TypeOK, Open
  <2> QED
    BY <2>1, AppUntouched
<1>11. CASE SweepKickLater
  BY <1>11, KickApp DEF SweepKickLater, Kick, Open
<1>12. CASE SweepKickNow
  BY <1>12, ClientDisconnectedApp DEF SweepKickNow, Open
<1> QED
  BY <1>1, <1>2, <1>3, <1>4, <1>5, <1>6, <1>7, <1>8, <1>9, <1>10, <1>11, <1>12
     DEF Next, Sweep

(* The server and the user interface around it behave as the tabs are modelled to      *)
(* expect, whatever phones connect: the promise NotificationsTab and SMSTab rest on.   *)
THEOREM ApplicationIsMainWidget == AppSpec => ImplementsMainWidget
<1>1. AppInit => App!AppInit
  BY DEF AppInit, Init, App!AppInit, ServerStateShown, SessionLink
<1>2. AppInv /\ [AppNext]_<<vars, appVars>> => [App!AppNext]_(App!appVars)
  BY StepApp DEF AppNext
<1> QED
  BY <1>1, <1>2, AppInvariant, PTL DEF AppSpec, ImplementsMainWidget, App!AppSpec

(* A client object never opens again, and an open one keeps its address. *)
LEMMA AddressKept ==
  ASSUME TypeOK, [Next]_vars, NEW c \in Conns, socket[c] # "none", c \in Open'
  PROVE  c \in Open /\ addr'[c] = addr[c]
<1>1. CASE \/ Launch \/ StartServer \/ SendMessage \/ ConnectTimer \/ SweepTimer \/ Tick
           \/ SweepSkip \/ SweepEnd \/ SweepStrayEnds \/ UNCHANGED vars
  BY <1>1
     DEF Launch, StartServer, SendMessage, ConnectTimer, SweepTimer, Tick, SweepSkip, SweepEnd,
         SweepStrayEnds, vars, serverVars, clientVars, Open
<1>2. CASE StopServer \/ Quit \/ SweepStrayCrashes
  BY <1>2 DEF StopServer, Quit, SweepStrayCrashes, ServerDeleted, Open
<1>3. ASSUME NEW d \in Conns, NEW a \in Addrs, NewConnection(d, a)
      PROVE  c \in Open /\ addr'[c] = addr[c]
  BY <1>3 DEF NewConnection, TypeOK, Open
<1>4. ASSUME NEW d \in Conns,
             \/ KeyMessage(d)
             \/ Flush(d)
             \/ \E f \in Features :
                  RepeatHandshake(d, f) \/ RefuseHandshake(d, f) \/ GrantHandshake(d, f)
      PROVE  c \in Open /\ addr'[c] = addr[c]
  BY <1>4 DEF KeyMessage, Flush, RepeatHandshake, RefuseHandshake, GrantHandshake,
              HandshakeMessage, serverVars, Open
<1>5. ASSUME NEW d \in Conns,
             BadMessage(d) \/ RefusalKick(d) \/ SocketDisconnected(d) \/ DeleteClient(d)
      PROVE  c \in Open /\ addr'[c] = addr[c]
  BY <1>5, KickBans DEF BadMessage, RefusalKick, SocketDisconnected, DeleteClient
<1>6. CASE KickClient
  BY <1>6, KickBans DEF KickClient, TypeOK
<1>7. CASE SweepCollect
  BY <1>7 DEF SweepCollect, TypeOK, Open
<1>8. CASE SweepKickLater
  BY <1>8, KickBans DEF SweepKickLater, Kick, Open
<1>9. CASE SweepKickNow
  BY <1>9, KickBans DEF SweepKickNow, Open
<1> QED
  BY <1>1, <1>2, <1>3, <1>4, <1>5, <1>6, <1>7, <1>8, <1>9 DEF Next, Sweep

(* One step keeps what the tabs show: it is filled in when the state becomes CONNECTED, *)
(* and a session that stays keeps its address or closes.                               *)
LEMMA NextTabs == AppInv /\ TabsShowSession /\ [AppNext]_<<vars, appVars>> => TabsShowSession'
<1> SUFFICES ASSUME AppInv, TabsShowSession, [AppNext]_<<vars, appVars>>,
                    (ServerStateShown = "CONNECTED")'
             PROVE  /\ told'.phone = m_client'
                    /\ told'.features = features'[m_client'] \/ renewed'
                    /\ told'.address = addr'[m_client'] \/ m_client' \notin Open'
  BY DEF TabsShowSession
<1> USE DEF AppInv, SessionInv
<1>1. CASE AppNext /\ ServerStateShown # "CONNECTED"
  <2>1. told' = Shown(m_client)'
    BY <1>1 DEF AppNext, FillTabs
  <2>2. ConnectedHasSession' /\ connected'
    BY <1>1, NextSession DEF AppNext, ServerStateShown
  <2> QED
    BY <2>1, <2>2 DEF ConnectedHasSession, Shown
<1>2. CASE AppNext /\ ServerStateShown = "CONNECTED"
  <2>1. told' = told /\ connected /\ connected'
    BY <1>2 DEF AppNext, FillTabs, ServerStateShown
  <2>2. m_client' = m_client /\ m_client \in Conns
    BY <1>2, <2>1, StepMaps
       DEF AppNext, SessionStutters, ConnectedHasSession, TypeOK, Abstract!Next, Abstract!Grant,
           Abstract!Announce, Abstract!End
  <2>3. m_client \in Open' => m_client \in Open /\ addr'[m_client] = addr[m_client]
    BY <1>2, <2>2, AddressKept, NullsAreDistinct DEF AppNext, ListInv
  <2>4. renewed' = (renewed \/ features'[m_client] # features[m_client])
    BY <1>2, <2>1, <2>2, NullsAreDistinct DEF AppNext, Renew
  <2> QED
    BY <1>2, <2>1, <2>2, <2>3, <2>4 DEF TabsShowSession
<1>3. CASE UNCHANGED <<vars, appVars>>
  BY <1>3 DEF vars, serverVars, clientVars, appVars, TabsShowSession, ServerStateShown, Open
<1> QED
  BY <1>1, <1>2, <1>3

(* While the state is CONNECTED the tabs show the phone that has the session, whatever  *)
(* sessions came and went before it was announced.                                      *)
THEOREM TabsAreOfTheSession == AppSpec => []TabsShowSession
<1>1. AppInit => TabsShowSession
  BY DEF AppInit, Init, TabsShowSession, ServerStateShown
<1>2. AppInv /\ TabsShowSession /\ [AppNext]_<<vars, appVars>> => TabsShowSession'
  BY NextTabs
<1> QED
  BY <1>1, <1>2, AppInvariant, PTL DEF AppSpec

=============================================================================
