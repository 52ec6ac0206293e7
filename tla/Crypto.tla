------------------------------- MODULE Crypto -------------------------------
(***************************************************************************)
(* The key pair of the PC from its generation to the server that uses it,  *)
(* and the age of messages (crypto.cpp).  Two processes may write the      *)
(* settings file: the application, and one started with                    *)
(* --generate_keypair.                                                     *)
(*                                                                         *)
(* QSettings keeps a copy of the file and the values set since; sync adds  *)
(* these to what the file holds by then.  It runs when the application is  *)
(* back in its event loop after a setValue, and when it quits.             *)
(***************************************************************************)
EXTENDS Naturals

CONSTANTS
    KeyPairs,           \* key pairs, each with its identifier
    NoKey,              \* no entry
    Ports,              \* ports that may be entered, or found in the file
    ValidPorts,         \* those between 1 and 65535
    NoPort,             \* the empty text of portLineEdit
    Word,               \* 2^64
    TIMESTAMP_LEEWAY

ASSUME NoKeyIsNoKey == NoKey \notin KeyPairs
ASSUME PortsAreSane == ValidPorts \subseteq Ports /\ NoPort \notin Ports
ASSUME WordIsLarge ==
    Word \in Nat /\ TIMESTAMP_LEEWAY \in Nat /\ 2 * TIMESTAMP_LEEWAY < Word

VARIABLES
    file,        \* settings.ini
    txt,         \* identifier.txt
    running,     \* the application
    settings,    \* the application's QSettings
    unsaved,     \* the entries it has set since its last sync
    label,       \* MainWidget's identifierLabel
    shownPort,   \* SettingsTabWidget's portLineEdit
    server,      \* the entries m_server was made of, or NoServer
    generator,   \* the key pair a generating process has not synced, or NoKey
    renewed,     \* history: sync brought a key pair after the label was set
    torn         \* history: the last key pair was not generated, written and synced alone

appVars == <<running, settings, unsaved, label, shownPort, server>>
vars == <<file, txt, appVars, generator, renewed, torn>>

KeyEntries == {"public_key", "secret_key", "identifier"}
Entries == KeyEntries \cup {"server_port"}
Keys == KeyPairs \cup {NoKey}

Settings == [public_key : Keys, secret_key : Keys, identifier : Keys, server_port : Ports]
NoSettings == [public_key |-> NoKey, secret_key |-> NoKey, identifier |-> NoKey,
               server_port |-> NoPort]
NoServer == [public_key |-> NoKey, secret_key |-> NoKey, server_port |-> NoPort]

TypeOK ==
    /\ file \in Settings
    /\ settings \in Settings \cup {NoSettings}
    /\ unsaved \in SUBSET Entries
    /\ running \in BOOLEAN
    /\ {txt, label, generator} \subseteq Keys
    /\ shownPort \in ValidPorts \cup {NoPort}
    /\ server \in {NoServer} \cup [public_key : Keys, secret_key : Keys,
                                   server_port : ValidPorts]
    /\ renewed \in BOOLEAN /\ torn \in BOOLEAN

(* The application is not there. *)
Gone(run, set, new, text, port, srv) ==
    /\ run = FALSE /\ set = NoSettings /\ new = {}
    /\ text = NoKey /\ port = NoPort /\ srv = NoServer

(* The file of an earlier run, which may have lost entries, and no file. *)
Init ==
    /\ \E k \in KeyPairs :
         /\ file \in {s \in Settings : \A e \in KeyEntries : s[e] \in {k, NoKey}}
         /\ txt \in {k, NoKey}
    /\ Gone(running, settings, unsaved, label, shownPort, server)
    /\ generator = NoKey
    /\ renewed = FALSE
    /\ torn = (txt # file.identifier)

-----------------------------------------------------------------------------
(* Settings. *)

Merged(base, mine, names) == [e \in Entries |-> IF e \in names THEN mine[e] ELSE base[e]]

(* Mutant: the identifier is not set with the keys. *)
WithKeysOnly(s, g) ==
    [e \in Entries |-> IF e \in KeyEntries \ {"identifier"} THEN g ELSE s[e]]

WithKeys(s, g) == [e \in Entries |-> IF e \in KeyEntries THEN g ELSE s[e]]

Unsynced == generator # NoKey \/ unsaved \cap KeyEntries # {}

(* Mutant: the file that GenerateKeyPair left read-only is not made writable again. *)
WriteIdentifierOnce(g) ==
    /\ txt' = IF txt = NoKey THEN g ELSE txt
    /\ torn' = Unsynced

(* identifier.txt is replaced, or cannot be opened. *)
WriteIdentifier(g) ==
    \/ txt' = g /\ torn' = Unsynced
    \/ txt' = txt /\ torn' = TRUE

(* A key pair that is not in use anywhere. *)
Fresh ==
    KeyPairs \ ({file[e] : e \in KeyEntries} \cup {txt, label, generator, server.public_key}
                  \cup {settings[e] : e \in KeyEntries})

(* GenerateKeyPair, but for the entries it sets: those are settings or generator. *)
GenerateKeyPair(g) ==
    /\ g \in Fresh
    /\ WriteIdentifier(g)

-----------------------------------------------------------------------------
(* The application. *)

(* StartServer succeeds with these settings; a port that is in use fails too. *)
Startable(s) == s.public_key # NoKey /\ s.secret_key # NoKey /\ s.server_port \in ValidPorts

ServerOf(s) == [public_key |-> s.public_key, secret_key |-> s.secret_key,
                server_port |-> s.server_port]

(* Mutant: only one of the entries is looked for. *)
MissingPublicKey(s) == s.public_key = NoKey

(* SetupServer looks for each of the three entries. *)
Missing(s) == \E e \in KeyEntries : s[e] = NoKey

(* MainWidget's constructor: the port is shown, missing keys are generated, the *)
(* identifier is shown, and the server is started if it is to be and can be.     *)
Launch ==
    /\ ~running
    /\ running' = TRUE
    /\ shownPort' = IF file.server_port \in ValidPorts THEN file.server_port ELSE NoPort
    /\ IF Missing(file)
       THEN \E g \in KeyPairs : /\ GenerateKeyPair(g)
                                 /\ settings' = WithKeys(file, g)
                                 /\ unsaved' = KeyEntries
       ELSE /\ settings' = file
            /\ unsaved' = {}
            /\ UNCHANGED <<txt, torn>>
    /\ label' = settings'.identifier
    /\ renewed' = FALSE
    /\ server' \in {NoServer} \cup (IF Startable(settings') THEN {ServerOf(settings')} ELSE {})
    /\ UNCHANGED <<file, generator>>

StartServer ==
    /\ running /\ server = NoServer
    /\ Startable(settings)
    /\ server' = ServerOf(settings)
    /\ UNCHANGED <<file, txt, running, settings, unsaved, label, shownPort, generator,
                   renewed, torn>>

StopServer ==
    /\ running /\ server # NoServer
    /\ server' = NoServer
    /\ UNCHANGED <<file, txt, running, settings, unsaved, label, shownPort, generator,
                   renewed, torn>>

(* Mutant: any port is taken. *)
SaveAnyPort(port) ==
    /\ running
    /\ settings' = [settings EXCEPT !.server_port = port]
    /\ unsaved' = unsaved \cup {"server_port"}
    /\ shownPort' = port
    /\ UNCHANGED <<file, txt, running, label, server, generator, renewed, torn>>

(* SavePort; what is no port is neither saved nor shown. *)
SavePort(port) ==
    /\ running
    /\ port \in ValidPorts
    /\ settings' = [settings EXCEPT !.server_port = port]
    /\ unsaved' = unsaved \cup {"server_port"}
    /\ shownPort' = port
    /\ UNCHANGED <<file, txt, running, label, server, generator, renewed, torn>>

(* Back in the event loop after a setValue, of a check box too. *)
Sync ==
    /\ running
    /\ file' = Merged(file, settings, unsaved)
    /\ settings' = file'
    /\ unsaved' = {}
    /\ renewed' = (renewed \/ settings'.public_key # settings.public_key)
    /\ UNCHANGED <<txt, running, label, shownPort, server, generator, torn>>

Quit ==
    /\ running
    /\ Gone(running', settings', unsaved', label', shownPort', server')
    /\ file' = Merged(file, settings, unsaved)
    /\ renewed' = FALSE
    /\ UNCHANGED <<txt, generator, torn>>

(* It crashes, or the installer kills it. *)
Crash ==
    /\ running
    /\ Gone(running', settings', unsaved', label', shownPort', server')
    /\ renewed' = FALSE
    /\ torn' = (torn \/ unsaved \cap KeyEntries # {})
    /\ UNCHANGED <<file, txt, generator>>

-----------------------------------------------------------------------------
(* The process started with --generate_keypair. *)

Generate ==
    /\ generator = NoKey
    /\ \E g \in KeyPairs : GenerateKeyPair(g) /\ generator' = g
    /\ UNCHANGED <<file, appVars, renewed>>

GeneratorSyncs ==
    /\ generator # NoKey
    /\ file' = WithKeys(file, generator)
    /\ generator' = NoKey
    /\ UNCHANGED <<txt, appVars, renewed, torn>>

GeneratorKilled ==
    /\ generator # NoKey
    /\ generator' = NoKey
    /\ torn' = TRUE
    /\ UNCHANGED <<file, txt, appVars, renewed>>

Next ==
    \/ Launch \/ StartServer \/ StopServer \/ Quit \/ Crash \/ Sync
    \/ \E port \in Ports : SavePort(port)
    \/ Generate \/ GeneratorSyncs \/ GeneratorKilled

Spec == Init /\ [][Next]_vars

-----------------------------------------------------------------------------
(* The age of a message, in arithmetic modulo Word. *)

(* Mutant: one unsigned difference for messages of the past and of the future. *)
ExpiredByAge(stamp, now) ==
    \/ stamp > (now + TIMESTAMP_LEEWAY) % Word
    \/ (now + Word - stamp) % Word > TIMESTAMP_LEEWAY

(* Decrypt. *)
Expired(stamp, now) ==
    \/ stamp > (now + TIMESTAMP_LEEWAY) % Word
    \/ stamp < (now + Word - TIMESTAMP_LEEWAY) % Word

-----------------------------------------------------------------------------
(* Whatever entries were lost and whoever wrote last, the entries of the          *)
(* application are of one key pair, and so are those of its server.               *)
PairWhole ==
    /\ running => \E g \in KeyPairs : \A e \in KeyEntries : settings[e] = g
    /\ server # NoServer => server.public_key = server.secret_key

(* The identifier the user compares with the phone's is that of the server's key, *)
(* unless a key pair generated by another process was read later.                  *)
LabelIsServers == server # NoServer /\ ~renewed => server.public_key = label

(* identifier.txt, which the installer shows, is that of the settings file when no *)
(* process has a key pair to save: unless it could not be written, a process ended *)
(* before it saved its key pair, or two of them generated one at a time.           *)
IdentifierTxtKept == ~Unsynced /\ ~torn => txt = file.identifier

(* To a server a message is too old or too new by its distance from the clock, in   *)
(* either direction: the unsigned sums do not wrap unless the clock is within a     *)
(* leeway of its ends.                                                             *)
LeewayIsSymmetric ==
    server # NoServer =>
    \A now \in TIMESTAMP_LEEWAY..(Word - TIMESTAMP_LEEWAY - 1), stamp \in 0..(Word - 1) :
      Expired(stamp, now)
        <=> (IF stamp < now THEN now - stamp ELSE stamp - now) > TIMESTAMP_LEEWAY

(* "On your first connection, you will be asked to verify that the presented       *)
(* identifier matches the one of your PC."                                         *)
IdentifierMatches == server # NoServer => server.public_key = label

=============================================================================
