------------------------------- MODULE Server -------------------------------
(***************************************************************************)
(* The phone server: Server (server.cpp), the Client objects it owns       *)
(* (client.cpp), and the part of MainWidget that starts and stops it.      *)
(*                                                                         *)
(* Everything runs on one Qt event loop.  A handler is one action, with    *)
(* the slots it reaches through direct connections: Kick closes the        *)
(* socket, and a socket with nothing left to write emits disconnected()    *)
(* before close() returns, so ClientDisconnected runs inside Kick.  Only   *)
(* KickInactiveClients takes several steps, one per list entry it visits,  *)
(* and while it runs (cursor # 0) no other handler does.                   *)
(***************************************************************************)
EXTENDS Integers, Sequences, FiniteSets, SequencesExt

CONSTANTS
    Conns,             \* connections, in the order-less sense: one per Client object
    None,              \* a null QPointer<Client>
    Addrs,             \* peer addresses
    NullAddr,          \* QHostAddress::Null, the address of a closed socket
    Features,          \* what a handshake may say the phone supports
    NoFeatures,        \* the features of a client that sent no handshake
    HANDSHAKE_WINDOW,  \* clock ticks a client may stay without a session
    KICK_BANTIME,      \* clock ticks a kicked address stays banned
    MaxConnectTimers   \* bound: pending one-second timers

ASSUME NullsAreDistinct ==
    /\ None \notin Conns
    /\ NullAddr \notin Addrs
    /\ NoFeatures \notin Features
ASSUME TimesAreNatural ==
    /\ HANDSHAKE_WINDOW \in Nat
    /\ KICK_BANTIME \in Nat
    /\ MaxConnectTimers \in Nat

VARIABLES
    process,        \* "off", "running" or "crashed"
    listening,      \* MainWidget::m_server # nullptr
    m_client,       \* Server::m_client, the client with the session
    clients,        \* Server::m_clients
    banList,        \* Server::m_banList: ticks left, or NotBanned
    connectTimers,  \* pending singleShots of ClientHandshakePending
    connected,      \* the last ConnectedChange the application saw
    cursor,         \* position of KickInactiveClients' iterator, 0 when it does not run
    socket,         \* "none", "open", "closing" or, deleteLater'd, "doomed"
    addr,           \* Client::GetAddress
    age,            \* ticks since m_connectTime, up to MaxAge, of open sockets
    keyed,          \* clients whose m_crypto is set
    handshakeDone,  \* clients whose m_handshakeDone is true
    kickTimer,      \* open clients with a pending Kick of AnswerHandshake(false)
    unsent,         \* clients whose socket has bytes to write
    features        \* Client::m_notifications and m_sms

serverVars == <<listening, m_client, clients, banList, connectTimers, connected, cursor>>
clientVars == <<socket, addr, age, keyed, handshakeDone, kickTimer, unsent, features>>
vars == <<process, serverVars, clientVars>>

NotBanned == -1
MaxAge == IF HANDSHAKE_WINDOW > KICK_BANTIME THEN HANDSHAKE_WINDOW ELSE KICK_BANTIME

Open == {c \in Conns : socket[c] = "open"}
Closing == {c \in Conns : socket[c] = "closing"}
Doomed == {c \in Conns : socket[c] = "doomed"}

TypeOK ==
    /\ process \in {"off", "running", "crashed"}
    /\ listening \in BOOLEAN
    /\ m_client \in Conns \cup {None}
    /\ clients \in Seq(Conns)
    /\ banList \in [Addrs \cup {NullAddr} -> NotBanned..KICK_BANTIME]
    /\ connectTimers \in 0..MaxConnectTimers
    /\ connected \in BOOLEAN
    /\ cursor \in Nat
    /\ socket \in [Conns -> {"none", "open", "closing", "doomed"}]
    /\ addr \in [Conns -> Addrs \cup {NullAddr}]
    /\ age \in [Conns -> 0..MaxAge]
    /\ keyed \in SUBSET Conns
    /\ handshakeDone \in SUBSET Conns
    /\ kickTimer \in SUBSET Conns
    /\ unsent \in SUBSET Conns
    /\ features \in [Conns -> Features \cup {NoFeatures}]

-----------------------------------------------------------------------------
NoBans == [a \in Addrs \cup {NullAddr} |-> NotBanned]

Init ==
    /\ process = "off"
    /\ listening = FALSE
    /\ m_client = None
    /\ clients = <<>>
    /\ banList = NoBans
    /\ connectTimers = 0
    /\ connected = FALSE
    /\ cursor = 0
    /\ socket = [c \in Conns |-> "none"]
    /\ addr = [c \in Conns |-> NullAddr]
    /\ age = [c \in Conns |-> 0]
    /\ keyed = {}
    /\ handshakeDone = {}
    /\ kickTimer = {}
    /\ unsent = {}
    /\ features = [c \in Conns |-> NoFeatures]

(* No handler is running: the event loop may dispatch the next one. *)
EventLoop == process = "running" /\ cursor = 0

(* The application starts; with autostart set it tries StartServer at once. *)
Launch ==
    /\ process # "running"
    /\ process' = "running"
    /\ listening' \in BOOLEAN
    /\ UNCHANGED <<m_client, clients, banList, connectTimers, connected, cursor, clientVars>>

(* StartServer succeeds: a new Server listens.  A failed one changes nothing. *)
StartServer ==
    /\ EventLoop
    /\ ~listening
    /\ listening' = TRUE
    /\ UNCHANGED <<process, m_client, clients, banList, connectTimers, connected, cursor,
                   clientVars>>

(* Stop and deleteLater: the clients and the bans go with the Server object. *)
ServerDeleted ==
    /\ listening' = FALSE
    /\ m_client' = None
    /\ clients' = <<>>
    /\ banList' = NoBans
    /\ connectTimers' = 0
    /\ connected' = FALSE
    /\ cursor' = 0
    /\ socket' = [c \in Conns |-> "none"]
    /\ addr' = [c \in Conns |-> NullAddr]
    /\ age' = [c \in Conns |-> 0]
    /\ keyed' = {}
    /\ handshakeDone' = {}
    /\ kickTimer' = {}
    /\ unsent' = {}
    /\ features' = [c \in Conns |-> NoFeatures]

StopServer ==
    /\ EventLoop
    /\ listening
    /\ ServerDeleted
    /\ UNCHANGED process

Quit ==
    /\ EventLoop
    /\ process' = "off"
    /\ ServerDeleted

-----------------------------------------------------------------------------
(* The Client object of c is gone: nothing about it is left. *)
ClientDeleted(c) ==
    /\ socket' = [socket EXCEPT ![c] = "none"]
    /\ addr' = [addr EXCEPT ![c] = NullAddr]
    /\ age' = [age EXCEPT ![c] = 0]
    /\ keyed' = keyed \ {c}
    /\ handshakeDone' = handshakeDone \ {c}
    /\ kickTimer' = kickTimer \ {c}
    /\ unsent' = unsent \ {c}
    /\ features' = [features EXCEPT ![c] = NoFeatures]

(* Mutant: the session ends without telling the application. *)
SilentClientDisconnected(c) ==
    /\ clients' = RemoveFirst(clients, c)
    /\ m_client' = IF m_client = c THEN None ELSE m_client
    /\ UNCHANGED connected
    /\ ClientDeleted(c)

(* Mutant: the application is told of the end whoever left. *)
LoudClientDisconnected(c) ==
    /\ clients' = RemoveFirst(clients, c)
    /\ m_client' = IF m_client = c THEN None ELSE m_client
    /\ connected' = FALSE
    /\ ClientDeleted(c)

(* Mutant: the client stays in the list. *)
ListedClientDisconnected(c) ==
    /\ m_client' = IF m_client = c THEN None ELSE m_client
    /\ connected' = (connected /\ m_client # c)
    /\ ClientDeleted(c)
    /\ UNCHANGED clients

(* Server::ClientDisconnected.  Nothing can reach the client any more when  *)
(* it returns, so the deleteLater it ends with is taken as done.            *)
ClientDisconnected(c) ==
    /\ clients' = RemoveFirst(clients, c)
    /\ m_client' = IF m_client = c THEN None ELSE m_client
    /\ connected' = (connected /\ m_client # c)
    /\ ClientDeleted(c)

(* QTcpSocket::close with bytes to write: the socket forgets its peer, reads  *)
(* nothing more and disconnects later.  Its age and its kick timer no longer *)
(* matter.                                                                   *)
CloseLater(c) ==
    /\ socket' = [socket EXCEPT ![c] = "closing"]
    /\ addr' = [addr EXCEPT ![c] = NullAddr]
    /\ age' = [age EXCEPT ![c] = 0]
    /\ kickTimer' = kickTimer \ {c}
    /\ UNCHANGED <<m_client, clients, connected, keyed, handshakeDone, unsent, features>>

(* Client::Kick. *)
Kick(c) ==
    \/ c \in Open \cap unsent /\ CloseLater(c)
    \/ c \in Open \ unsent /\ ClientDisconnected(c)
    \/ c \notin Open /\ UNCHANGED <<m_client, clients, connected, clientVars>>

(* Bytes given to an open socket wait for the event loop; a closed one drops them. *)
Writes(C) == unsent' = unsent \cup (C \cap Open)

-----------------------------------------------------------------------------
(* Mutant: nobody looks at the ban list. *)
AcceptsAnyone(a) == a \in Addrs

(* Server::NewConnection lets address a in. *)
Accepts(a) == banList[a] = NotBanned

(* Server::NewConnection for one accepted socket.  A banned peer is aborted *)
(* without a trace.                                                         *)
NewConnection(c, a) ==
    /\ EventLoop /\ listening
    /\ socket[c] = "none"
    /\ Accepts(a)
    /\ socket' = [socket EXCEPT ![c] = "open"]
    /\ addr' = [addr EXCEPT ![c] = a]
    /\ clients' = Append(clients, c)
    /\ UNCHANGED <<process, listening, m_client, banList, connectTimers, connected, cursor,
                   age, keyed, handshakeDone, kickTimer, unsent, features>>

(* Client::HandshakePhase1 with a valid key; later keys are ignored. *)
KeyMessage(c) ==
    /\ EventLoop
    /\ c \in Open \ keyed
    /\ keyed' = keyed \cup {c}
    /\ Writes({c})
    /\ UNCHANGED <<process, serverVars, socket, addr, age, handshakeDone, kickTimer, features>>

(* Every message ProcessMessage or HandshakePhase1 rejects kicks its sender. *)
BadMessage(c) ==
    /\ EventLoop
    /\ c \in Open
    /\ Kick(c)
    /\ UNCHANGED <<process, listening, banList, connectTimers, cursor>>

(* Mutant: the session is given to whoever asks last. *)
SessionNeverTaken(c) == FALSE

(* Another client has the session. *)
SessionTaken(c) == m_client # None /\ m_client # c

(* HandshakePhase2: the features are taken before anything is decided. *)
HandshakeMessage(c, f) ==
    /\ EventLoop
    /\ c \in Open \cap keyed
    /\ features' = [features EXCEPT ![c] = f]
    /\ Writes({c})
    /\ UNCHANGED <<process, listening, clients, banList, connected, cursor,
                   socket, addr, age, keyed>>

(* A client that has the session says hello again. *)
RepeatHandshake(c, f) ==
    /\ c \in handshakeDone
    /\ HandshakeMessage(c, f)
    /\ UNCHANGED <<m_client, connectTimers, handshakeDone, kickTimer>>

(* ClientHandshakePending and AnswerHandshake(false). *)
RefuseHandshake(c, f) ==
    /\ c \notin handshakeDone
    /\ SessionTaken(c)
    /\ HandshakeMessage(c, f)
    /\ kickTimer' = kickTimer \cup {c}
    /\ UNCHANGED <<m_client, connectTimers, handshakeDone>>

(* ClientHandshakePending and AnswerHandshake(true). *)
GrantHandshake(c, f) ==
    /\ c \notin handshakeDone
    /\ ~SessionTaken(c)
    /\ connectTimers < MaxConnectTimers
    /\ HandshakeMessage(c, f)
    /\ m_client' = c
    /\ handshakeDone' = handshakeDone \cup {c}
    /\ connectTimers' = connectTimers + 1
    /\ UNCHANGED kickTimer

(* Mutant: the timer announces a session whether there is one or not. *)
UncheckedConnectTimer ==
    /\ EventLoop
    /\ connectTimers > 0
    /\ connectTimers' = connectTimers - 1
    /\ connected' = TRUE
    /\ UNCHANGED <<process, listening, m_client, clients, banList, cursor, clientVars>>

(* The singleShot of ClientHandshakePending fires, for whatever session there  *)
(* is by then.  The tab that is shown may answer the change with a request.    *)
ConnectTimer ==
    /\ EventLoop
    /\ connectTimers > 0
    /\ connectTimers' = connectTimers - 1
    /\ connected' = (connected \/ m_client # None)
    /\ \E receivers \in {{}, {m_client} \cap Conns} : Writes(receivers)
    /\ UNCHANGED <<process, listening, m_client, clients, banList, cursor,
                   socket, addr, age, keyed, handshakeDone, kickTimer, features>>

(* Mutant: the session pointer is used unchecked. *)
UncheckedSendMessage ==
    /\ EventLoop
    /\ unsent' = unsent \cup {m_client}
    /\ UNCHANGED <<process, serverVars, socket, addr, age, keyed, handshakeDone, kickTimer,
                   features>>

(* Server::SendMessageToClient; without a session the message is dropped. *)
SendMessage ==
    /\ EventLoop
    /\ m_client # None
    /\ Writes({m_client})
    /\ UNCHANGED <<process, serverVars, socket, addr, age, keyed, handshakeDone, kickTimer,
                   features>>

(* Server::KickClient, the user's button.  The ban is for the address the   *)
(* socket has now: none, when the session is already closing.               *)
KickClient ==
    /\ EventLoop
    /\ m_client # None
    /\ banList' = [banList EXCEPT ![addr[m_client]] = KICK_BANTIME]
    /\ Kick(m_client)
    /\ UNCHANGED <<process, listening, connectTimers, cursor>>

(* The singleShot of AnswerHandshake(false), even if c got the session since. *)
RefusalKick(c) ==
    /\ EventLoop
    /\ c \in kickTimer
    /\ Kick(c)
    /\ UNCHANGED <<process, listening, banList, connectTimers, cursor>>

-----------------------------------------------------------------------------
(* The socket of c has written all it had. *)
Flush(c) ==
    /\ EventLoop
    /\ c \in Open \cap unsent
    /\ unsent' = unsent \ {c}
    /\ UNCHANGED <<process, serverVars, socket, addr, age, keyed, handshakeDone, kickTimer,
                   features>>

(* disconnected(): the peer left, the network failed, or a closing socket is done. *)
SocketDisconnected(c) ==
    /\ EventLoop
    /\ socket[c] # "none"
    /\ ClientDisconnected(c)
    /\ UNCHANGED <<process, listening, banList, connectTimers, cursor>>

(* The deferred delete of a client the sweep gave up: ~Client aborts the socket,  *)
(* which still emits disconnected() to the server.                                *)
DeleteClient(c) ==
    /\ EventLoop
    /\ c \in Doomed
    /\ ClientDisconnected(c)
    /\ UNCHANGED <<process, listening, banList, connectTimers, cursor>>

(* Time passes, one tick. *)
Tick ==
    /\ EventLoop
    /\ age' = [c \in Conns |-> IF c \in Open /\ age[c] < MaxAge THEN age[c] + 1 ELSE age[c]]
    /\ banList' = [a \in Addrs \cup {NullAddr} |->
                     IF banList[a] > 0 THEN banList[a] - 1 ELSE banList[a]]
    /\ UNCHANGED <<process, listening, m_client, clients, connectTimers, connected, cursor,
                   socket, addr, keyed, handshakeDone, kickTimer, unsent, features>>

-----------------------------------------------------------------------------
(* Mutant: the comparison is strict, and a ban that has run out stays. *)
ClearBansLate == [a \in Addrs \cup {NullAddr} |-> IF banList[a] < 0 THEN NotBanned ELSE banList[a]]

(* Server::ClearBans. *)
ClearBans == [a \in Addrs \cup {NullAddr} |-> IF banList[a] <= 0 THEN NotBanned ELSE banList[a]]

(* The ten-second timer: ClearBans, then KickInactiveClients starts its walk. *)
SweepTimer ==
    /\ EventLoop /\ listening
    /\ banList' = ClearBans
    /\ cursor' = 1
    /\ UNCHANGED <<process, listening, m_client, clients, connectTimers, connected, clientVars>>

Sweeping == process = "running" /\ cursor > 0
Visited == clients[cursor]

(* Mutant: the sweep does not look at who has the session. *)
InactiveOrSession(c) == m_client # None \/ (c \notin handshakeDone /\ age[c] >= HANDSHAKE_WINDOW)

(* Mutant: without a session nobody is inactive. *)
InactiveBySession(c) == SessionTaken(c)

(* Whom KickInactiveClients kicks: the others of a session, or those who took too long. *)
Inactive(c) ==
    \/ SessionTaken(c)
    \/ c \notin handshakeDone /\ age[c] >= HANDSHAKE_WINDOW

(* Mutant: the client leaves the list and is not deleted. *)
SweepForgets ==
    /\ Sweeping /\ cursor <= Len(clients)
    /\ Visited \notin Open
    /\ clients' = RemoveAt(clients, cursor)
    /\ UNCHANGED <<process, listening, m_client, banList, connectTimers, connected, cursor,
                   clientVars>>

(* A client whose socket has no address any more is deleted and leaves the list. *)
SweepCollect ==
    /\ Sweeping /\ cursor <= Len(clients)
    /\ Visited \notin Open
    /\ socket' = [socket EXCEPT ![Visited] = "doomed"]
    /\ clients' = RemoveAt(clients, cursor)
    /\ UNCHANGED <<process, listening, m_client, banList, connectTimers, connected, cursor,
                   addr, age, keyed, handshakeDone, kickTimer, unsent, features>>

SweepSkip ==
    /\ Sweeping /\ cursor <= Len(clients)
    /\ Visited \in Open /\ ~Inactive(Visited)
    /\ cursor' = cursor + 1
    /\ UNCHANGED <<process, listening, m_client, clients, banList, connectTimers, connected,
                   clientVars>>

SweepKickLater ==
    /\ Sweeping /\ cursor <= Len(clients)
    /\ Visited \in Open \cap unsent /\ Inactive(Visited)
    /\ CloseLater(Visited)
    /\ cursor' = cursor + 1
    /\ UNCHANGED <<process, listening, banList, connectTimers>>

(* Mutant: the iterator as if the list were not changed under it. *)
CursorIgnoresRemoval == cursor + 1

(* QList::removeOne under QMutableListIterator, which is a plain pointer: an     *)
(* entry of the first half is removed by moving the front, and the pointer is    *)
(* right; in the second half the tail moves instead, and the pointer has jumped  *)
(* over the next entry, or over the end.                                         *)
CursorAfterRemoval == IF 2 * (cursor - 1) < Len(clients) THEN cursor ELSE cursor + 1

SweepKickNow ==
    /\ Sweeping /\ cursor <= Len(clients)
    /\ Visited \in Open \ unsent /\ Inactive(Visited)
    /\ ClientDisconnected(Visited)
    /\ cursor' = CursorAfterRemoval
    /\ UNCHANGED <<process, listening, banList, connectTimers>>

SweepEnd ==
    /\ Sweeping /\ cursor = Len(clients) + 1
    /\ cursor' = 0
    /\ UNCHANGED <<process, listening, m_client, clients, banList, connectTimers, connected,
                   clientVars>>

(* The iterator is past the end: it reads freed list nodes.  The process dies, *)
(* or at best the walk stops without having touched anything.                  *)
SweepStrayEnds ==
    /\ Sweeping /\ cursor > Len(clients) + 1
    /\ cursor' = 0
    /\ UNCHANGED <<process, listening, m_client, clients, banList, connectTimers, connected,
                   clientVars>>

SweepStrayCrashes ==
    /\ Sweeping /\ cursor > Len(clients) + 1
    /\ process' = "crashed"
    /\ ServerDeleted

Sweep ==
    \/ SweepCollect \/ SweepSkip \/ SweepKickLater \/ SweepKickNow
    \/ SweepEnd \/ SweepStrayEnds \/ SweepStrayCrashes

-----------------------------------------------------------------------------
Next ==
    \/ Launch \/ StartServer \/ StopServer \/ Quit
    \/ \E c \in Conns :
         \/ \E a \in Addrs : NewConnection(c, a)
         \/ \E f \in Features :
              RepeatHandshake(c, f) \/ RefuseHandshake(c, f) \/ GrantHandshake(c, f)
         \/ KeyMessage(c) \/ BadMessage(c)
         \/ Flush(c) \/ SocketDisconnected(c)
         \/ RefusalKick(c) \/ DeleteClient(c)
    \/ ConnectTimer \/ SendMessage \/ KickClient
    \/ SweepTimer \/ Sweep
    \/ Tick

(* A handler that started returns; the loop delivers every timer that is due *)
(* and every deferred delete, however often a sweep holds it up; time passes. *)
Fairness ==
    /\ WF_vars(Sweep)
    /\ SF_vars(SweepTimer)
    /\ SF_vars(ConnectTimer)
    /\ SF_vars(Tick)
    /\ \A c \in Conns : SF_vars(DeleteClient(c)) /\ SF_vars(RefusalKick(c))

SafeSpec == Init /\ [][Next]_vars
Spec == SafeSpec /\ Fairness

-----------------------------------------------------------------------------
(* Only the client that has the session has a finished handshake, so only its   *)
(* messages pass Client::ProcessMessage; whoever has the session has finished.  *)
SessionExclusive == handshakeDone = {m_client} \ {None}

(* While the application believes in a session there is one: MainWidget reads   *)
(* GetClient() unchecked when it is told, and IsConnected agrees with its state. *)
ConnectedHasSession == connected => m_client # None

(* A session the application does not know of has a one-second timer pending, *)
(* although the timers of earlier sessions are neither cancelled nor matched.  *)
AnnouncementPending == m_client # None /\ ~connected => connectTimers > 0

(* Open and closing clients are in the list exactly once, deleted and doomed   *)
(* ones never, so the sweep reaches every socket that could linger; a session  *)
(* outside the list is about to be deleted.                                    *)
ListIsLive ==
    /\ \A c \in Conns : Cardinality({i \in DOMAIN clients : clients[i] = c})
                          = IF c \in Open \cup Closing THEN 1 ELSE 0
    /\ m_client # None => socket[m_client] # "none"

(* A client that is connected from an address under a ban was let in before the *)
(* ban: no connection is accepted while its address is banned.                  *)
BanPredates ==
    \A c \in Open : banList[addr[c]] > NotBanned
                      => age[c] >= KICK_BANTIME - banList[addr[c]]

(* The sweep kicks only others: a session survives it, unless the process dies. *)
SweepSparesSession ==
    [][cursor > 0 /\ process' = "running" => m_client' = m_client /\ connected' = connected]_vars

(* The walk runs past the end of the list only when it left somebody behind in  *)
(* it: the session, or a client it kicked whose socket is still closing.         *)
StrayNeedsSurvivor ==
    cursor > Len(clients) + 1
      => \E i \in DOMAIN clients : clients[i] = m_client \/ clients[i] \in Closing

(* A client that says nothing, or is refused, is gone in the end. *)
IdleLeaves == \A c \in Conns : c \in Open \ handshakeDone ~> c \notin Open \ handshakeDone

(* A client that is being closed is gone in the end even if its peer never reads, *)
(* and with it the session it had.                                                *)
ClosingEnds == \A c \in Conns : c \in Closing \cup Doomed ~> socket[c] = "none"

(* A ban does not last. *)
BanExpires == \A a \in Addrs : banList[a] > NotBanned ~> banList[a] = NotBanned

(* What the application sees is a Session. *)
Abstract == INSTANCE Session WITH Phones <- Conns, holder <- m_client, announced <- connected
ImplementsSession == Abstract!Spec

=============================================================================
