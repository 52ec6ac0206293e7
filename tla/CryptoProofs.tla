----------------------------- MODULE CryptoProofs -----------------------------
(***************************************************************************)
(* Theorems about Crypto for every set of key pairs and ports, every width *)
(* of a word and every leeway below half of it.                            *)
(***************************************************************************)
EXTENDS Crypto, TLAPS

-----------------------------------------------------------------------------
(* Settings are one entry after the other, *)
LEMMA SettingsEntries ==
  ASSUME NEW s \in Settings
  PROVE  /\ \A e \in KeyEntries : s[e] \in Keys
         /\ s.public_key \in Keys /\ s.secret_key \in Keys /\ s.identifier \in Keys
         /\ s.server_port \in Ports
BY DEF Settings, KeyEntries

(* and stay so when some of them are merged into others, *)
LEMMA MergedType ==
  ASSUME NEW base \in Settings, NEW mine \in Settings, NEW names
  PROVE  /\ Merged(base, mine, names) \in Settings
         /\ \A e \in KeyEntries :
              Merged(base, mine, names)[e] = IF e \in names THEN mine[e] ELSE base[e]
BY DEF Settings, KeyEntries, Entries, Merged

(* when a key pair is set, *)
LEMMA WithKeysType ==
  ASSUME NEW s \in Settings, NEW g \in Keys
  PROVE  /\ WithKeys(s, g) \in Settings
         /\ \A e \in KeyEntries : WithKeys(s, g)[e] = g
BY DEF Settings, KeyEntries, Entries, WithKeys

(* and when a port is. *)
LEMMA WithPortType ==
  ASSUME NEW s \in Settings, NEW port \in Ports
  PROVE  /\ [s EXCEPT !.server_port = port] \in Settings
         /\ \A e \in KeyEntries : [s EXCEPT !.server_port = port][e] = s[e]
BY DEF Settings, KeyEntries

(* The three entries of a key pair, and the port. *)
LEMMA EntryNames ==
  /\ KeyEntries = {"public_key", "secret_key", "identifier"}
  /\ KeyEntries \subseteq Entries /\ "server_port" \in Entries \ KeyEntries
  /\ ValidPorts \subseteq Ports
BY PortsAreSane DEF KeyEntries, Entries

-----------------------------------------------------------------------------
(* While the application runs its settings are settings, and while it does not there is *)
(* nothing to save and no server.                                                        *)
RunInv ==
  /\ running => settings \in Settings
  /\ ~running => unsaved = {} /\ server = NoServer

(* The types and RunInv, step by step. *)
LEMMA NextRun == TypeOK /\ RunInv /\ [Next]_vars => TypeOK' /\ RunInv'
<1> SUFFICES ASSUME TypeOK, RunInv, [Next]_vars PROVE TypeOK' /\ RunInv'
  OBVIOUS
<1> USE DEF RunInv
<1>0. /\ file \in Settings /\ unsaved \in SUBSET Entries /\ running \in BOOLEAN
      /\ txt \in Keys /\ label \in Keys /\ generator \in Keys /\ NoKey \in Keys
      /\ KeyPairs \subseteq Keys
      /\ renewed \in BOOLEAN /\ torn \in BOOLEAN /\ NoSettings \in Settings \cup {NoSettings}
  BY DEF TypeOK, Keys
<1>1. CASE Launch
  <2>1. /\ settings' \in Settings /\ unsaved' \in SUBSET Entries
        /\ txt' \in Keys /\ torn' \in BOOLEAN
    <3>1. CASE Missing(file)
      <4>1. PICK g \in KeyPairs : /\ GenerateKeyPair(g)
                                  /\ settings' = WithKeys(file, g)
                                  /\ unsaved' = KeyEntries
        BY <1>1, <3>1 DEF Launch
      <4>2. settings' \in Settings
        BY <1>0, <4>1, WithKeysType
      <4>3. txt' \in Keys /\ torn' \in BOOLEAN
        BY <1>0, <4>1 DEF GenerateKeyPair, WriteIdentifier, Unsynced
      <4> QED
        BY <4>1, <4>2, <4>3, EntryNames
    <3>2. CASE ~Missing(file)
      BY <1>0, <1>1, <3>2 DEF Launch
    <3> QED
      BY <3>1, <3>2
  <2>2. /\ label' \in Keys
        /\ server' \in {NoServer} \cup [public_key : Keys, secret_key : Keys,
                                        server_port : ValidPorts]
    BY <1>1, <2>1, SettingsEntries DEF Launch, Startable, ServerOf
  <2>3. shownPort' \in ValidPorts \cup {NoPort} /\ renewed' = FALSE /\ running' = TRUE
    BY <1>1 DEF Launch
  <2> QED
    BY <1>0, <1>1, <2>1, <2>2, <2>3 DEF Launch, TypeOK
<1>2. CASE StartServer \/ StopServer
  <2>1. server' \in {NoServer} \cup [public_key : Keys, secret_key : Keys,
                                     server_port : ValidPorts]
    BY <1>2, SettingsEntries DEF StartServer, StopServer, Startable, ServerOf
  <2> QED
    BY <1>2, <2>1 DEF StartServer, StopServer, TypeOK
<1>3. ASSUME NEW port \in Ports, SavePort(port) PROVE TypeOK' /\ RunInv'
  <2>1. settings' \in Settings /\ unsaved' \in SUBSET Entries
    BY <1>0, <1>3, WithPortType, EntryNames DEF SavePort
  <2> QED
    BY <1>3, <2>1 DEF SavePort, TypeOK
<1>4. CASE Sync
  <2>1. file' \in Settings
    BY <1>0, <1>4, MergedType DEF Sync
  <2>2. renewed' \in BOOLEAN
    BY <1>0, <1>4 DEF Sync
  <2> QED
    BY <1>4, <2>1, <2>2 DEF Sync, TypeOK
<1>5. CASE Quit \/ Crash
  <2>1. file' \in Settings
    BY <1>0, <1>5, MergedType DEF Quit, Crash
  <2>2. /\ Gone(running', settings', unsaved', label', shownPort', server')
        /\ renewed' = FALSE /\ UNCHANGED <<txt, generator>>
    BY <1>5 DEF Quit, Crash
  <2>3. torn' \in BOOLEAN
    BY <1>0, <1>5 DEF Quit, Crash
  <2> QED
    BY <1>0, <2>1, <2>2, <2>3 DEF Gone, TypeOK
<1>6. CASE Generate
  <2>1. txt' \in Keys /\ torn' \in BOOLEAN /\ generator' \in Keys
    BY <1>0, <1>6 DEF Generate, GenerateKeyPair, WriteIdentifier, Unsynced
  <2> QED
    BY <1>6, <2>1 DEF Generate, appVars, TypeOK
<1>7. CASE GeneratorSyncs
  <2>1. file' \in Settings
    BY <1>0, <1>7, WithKeysType DEF GeneratorSyncs
  <2> QED
    BY <1>0, <1>7, <2>1 DEF GeneratorSyncs, appVars, TypeOK
<1>8. CASE GeneratorKilled
  BY <1>0, <1>8 DEF GeneratorKilled, appVars, TypeOK
<1>9. CASE UNCHANGED vars
  BY <1>9 DEF vars, appVars, TypeOK
<1> QED
  BY <1>1, <1>2, <1>3, <1>4, <1>5, <1>6, <1>7, <1>8, <1>9 DEF Next

(* Every reachable state is made of values of the right kind. *)
THEOREM TypesAreKept == Spec => [](TypeOK /\ RunInv)
<1>1. Init => TypeOK /\ RunInv
  <2> SUFFICES ASSUME Init PROVE TypeOK /\ RunInv
    OBVIOUS
  <2>1. /\ file \in Settings /\ txt \in Keys /\ label = NoKey /\ generator = NoKey
        /\ settings = NoSettings /\ unsaved = {} /\ server = NoServer /\ shownPort = NoPort
    BY DEF Init, Gone, Keys
  <2>2. running = FALSE /\ renewed = FALSE
    BY DEF Init, Gone
  <2>3. torn \in BOOLEAN
    BY DEF Init
  <2> QED
    BY <2>1, <2>2, <2>3 DEF RunInv, TypeOK, Keys
<1>2. TypeOK /\ RunInv /\ [Next]_vars => (TypeOK /\ RunInv)'
  BY NextRun
<1> QED
  BY <1>1, <1>2, PTL DEF Spec

-----------------------------------------------------------------------------
(* The invariant behind PairWhole.  The settings file never mixes two key pairs, though       *)
(* entries may be missing from it; the application's settings do neither; and it has the key    *)
(* pair unsaved as a whole, or not at all and the file is whole, so that what sync reads and    *)
(* what it adds make one key pair, whoever wrote the file meanwhile.                            *)
OneOf(s, g) == \A e \in KeyEntries : s[e] = g
FilePair == \E k \in KeyPairs : \A e \in KeyEntries : file[e] \in {k, NoKey}
AllUnsaved == KeyEntries \subseteq unsaved
NoneUnsaved == unsaved \cap KeyEntries = {}
PairInv ==
  /\ FilePair
  /\ running => \E g \in KeyPairs : OneOf(settings, g)
  /\ AllUnsaved \/ NoneUnsaved
  /\ running => AllUnsaved \/ ~Missing(file)
  /\ server # NoServer => server.public_key = server.secret_key

(* A file that misses nothing has one key pair. *)
LEMMA WholeFile ==
  ASSUME FilePair, ~Missing(file)
  PROVE  \E g \in KeyPairs : OneOf(file, g)
BY DEF FilePair, Missing, OneOf

(* What sync writes: the application's key pair if it is new, and the file's otherwise. *)
LEMMA MergedPair ==
  ASSUME TypeOK, RunInv, PairInv, running
  PROVE  /\ Merged(file, settings, unsaved) \in Settings
         /\ \E g \in KeyPairs : OneOf(Merged(file, settings, unsaved), g)
         /\ AllUnsaved => \A e \in KeyEntries : Merged(file, settings, unsaved)[e] = settings[e]
         /\ NoneUnsaved => \A e \in KeyEntries : Merged(file, settings, unsaved)[e] = file[e]
<1>1. file \in Settings /\ settings \in Settings
  BY DEF TypeOK, RunInv
<1>2. /\ Merged(file, settings, unsaved) \in Settings
      /\ AllUnsaved => \A e \in KeyEntries : Merged(file, settings, unsaved)[e] = settings[e]
      /\ NoneUnsaved => \A e \in KeyEntries : Merged(file, settings, unsaved)[e] = file[e]
  BY <1>1, MergedType DEF AllUnsaved, NoneUnsaved
<1>3. CASE AllUnsaved
  BY <1>2, <1>3 DEF PairInv, OneOf
<1>4. CASE NoneUnsaved /\ ~AllUnsaved
  <2>1. PICK g \in KeyPairs : OneOf(file, g)
    BY <1>4, WholeFile DEF PairInv
  <2> QED
    BY <1>2, <1>4, <2>1 DEF OneOf
<1> QED
  BY <1>2, <1>3, <1>4 DEF PairInv

(* A whole key pair is one, and nothing is missing. *)
LEMMA PairIsWhole ==
  ASSUME NEW s, NEW g \in KeyPairs, OneOf(s, g)
  PROVE  /\ ~Missing(s)
         /\ \A e \in KeyEntries : s[e] \in {g, NoKey}
BY NoKeyIsNoKey DEF OneOf, Missing

(* PairInv, step by step. *)
LEMMA NextPair == TypeOK /\ RunInv /\ PairInv /\ [Next]_vars => PairInv'
<1> SUFFICES ASSUME TypeOK, RunInv, PairInv, [Next]_vars PROVE PairInv'
  OBVIOUS
<1> USE EntryNames
<1>0. file \in Settings /\ NoKey \in Keys /\ KeyPairs \subseteq Keys
  BY DEF TypeOK, Keys
<1>1. CASE Launch
  <2>1. \E g \in KeyPairs : OneOf(settings', g)
    <3>1. CASE Missing(file)
      <4>1. PICK g \in KeyPairs : settings' = WithKeys(file, g)
        BY <1>1, <3>1 DEF Launch
      <4> QED
        BY <1>0, <4>1, WithKeysType DEF OneOf
    <3>2. CASE ~Missing(file)
      BY <1>1, <3>2, WholeFile DEF Launch, PairInv
    <3> QED
      BY <3>1, <3>2
  <2>2. AllUnsaved' \/ (NoneUnsaved' /\ ~Missing(file))
    BY <1>1 DEF Launch, AllUnsaved, NoneUnsaved
  <2>3. server' # NoServer => server'.public_key = server'.secret_key
    BY <1>1, <2>1 DEF Launch, ServerOf, OneOf
  <2>4. file' = file
    BY <1>1 DEF Launch
  <2> QED
    BY <2>1, <2>2, <2>3, <2>4 DEF PairInv, FilePair
<1>2. CASE StartServer
  <2>1. server'.public_key = server'.secret_key
    BY <1>2 DEF StartServer, ServerOf, PairInv, OneOf
  <2> QED
    BY <1>2, <2>1 DEF StartServer, PairInv, FilePair, AllUnsaved, NoneUnsaved
<1>3. CASE StopServer
  BY <1>3 DEF StopServer, PairInv, FilePair, AllUnsaved, NoneUnsaved
<1>4. ASSUME NEW port \in Ports, SavePort(port) PROVE PairInv'
  <2>1. \A e \in KeyEntries : settings'[e] = settings[e]
    BY <1>4, WithPortType DEF SavePort, RunInv
  <2>2. (AllUnsaved' <=> AllUnsaved) /\ (NoneUnsaved' <=> NoneUnsaved)
    BY <1>4 DEF SavePort, AllUnsaved, NoneUnsaved
  <2> QED
    BY <1>4, <2>1, <2>2 DEF SavePort, PairInv, FilePair, OneOf
<1>5. CASE Sync \/ Quit
  <2>1. running /\ file' = Merged(file, settings, unsaved)
    BY <1>5 DEF Sync, Quit
  <2>2. PICK g \in KeyPairs : OneOf(file', g)
    BY <2>1, MergedPair
  <2>3. FilePair' /\ ~Missing(file')
    BY <2>2, PairIsWhole DEF FilePair
  <2>4. unsaved' = {} /\ (~running' \/ settings' = file')
    BY <1>5 DEF Sync, Quit, Gone
  <2>5. server' \in {server, NoServer}
    BY <1>5 DEF Sync, Quit, Gone
  <2> QED
    BY <2>2, <2>3, <2>4, <2>5 DEF PairInv, NoneUnsaved
<1>6. CASE Crash
  BY <1>6 DEF Crash, Gone, PairInv, FilePair, NoneUnsaved
<1>7. CASE Generate \/ GeneratorKilled
  BY <1>7 DEF Generate, GeneratorKilled, appVars, PairInv, FilePair, AllUnsaved, NoneUnsaved
<1>8. CASE GeneratorSyncs
  <2>1. generator \in KeyPairs
    BY <1>8 DEF GeneratorSyncs, TypeOK, Keys
  <2>2. OneOf(file', generator)
    BY <1>0, <1>8, <2>1, WithKeysType DEF GeneratorSyncs, OneOf
  <2>3. FilePair' /\ ~Missing(file')
    BY <2>1, <2>2, PairIsWhole DEF FilePair
  <2> QED
    BY <1>8, <2>3 DEF GeneratorSyncs, appVars, PairInv, AllUnsaved, NoneUnsaved
<1>9. CASE UNCHANGED vars
  BY <1>9 DEF vars, appVars, PairInv, FilePair, AllUnsaved, NoneUnsaved
<1> QED
  BY <1>1, <1>2, <1>3, <1>4, <1>5, <1>6, <1>7, <1>8, <1>9 DEF Next

(* Whatever entries were lost and whoever wrote last: the application and its server never *)
(* work with the public key of one key pair and the secret key of another.                  *)
THEOREM PairsStayWhole == Spec => []PairWhole
<1>1. Init => PairInv
  <2> SUFFICES ASSUME Init PROVE PairInv
    OBVIOUS
  <2>1. FilePair
    BY DEF Init, FilePair
  <2> QED
    BY <2>1 DEF Init, Gone, PairInv, NoneUnsaved
<1>2. TypeOK /\ RunInv /\ PairInv /\ [Next]_vars => PairInv'
  BY NextPair
<1>3. PairInv => PairWhole
  BY DEF PairInv, PairWhole, OneOf
<1> QED
  BY <1>1, <1>2, <1>3, TypesAreKept, PTL DEF Spec

-----------------------------------------------------------------------------
(* The invariant behind LabelIsServers: until sync brings another key pair, the identifier *)
(* shown is that of the settings a server would be made of.                                *)
LabelInv ==
  running /\ ~renewed
    => /\ settings.public_key = label
       /\ server # NoServer => server.public_key = label

(* LabelInv, step by step. *)
LEMMA NextLabel == TypeOK /\ RunInv /\ PairInv /\ LabelInv /\ [Next]_vars => LabelInv'
<1> SUFFICES ASSUME TypeOK, RunInv, PairInv, LabelInv, [Next]_vars, running', ~renewed'
             PROVE  /\ settings'.public_key = label'
                    /\ server' # NoServer => server'.public_key = label'
  BY DEF LabelInv
<1>1. CASE Launch
  <2>1. \E g \in KeyPairs : OneOf(settings', g)
    BY <1>1, NextPair DEF PairInv
  <2>2. settings'.public_key = label'
    BY <1>1, <2>1, EntryNames DEF Launch, OneOf
  <2>3. server' # NoServer => server'.public_key = settings'.public_key
    BY <1>1 DEF Launch, ServerOf
  <2> QED
    BY <2>2, <2>3
<1>2. CASE StartServer
  <2>1. renewed' = renewed
    BY <1>2 DEF StartServer
  <2>2. ~renewed
    BY <2>1
  <2>3. settings.public_key = label
    BY <1>2, <2>2 DEF StartServer, LabelInv
  <2>4. server'.public_key = settings.public_key
    BY <1>2 DEF StartServer, ServerOf
  <2> QED
    BY <1>2, <2>3, <2>4 DEF StartServer
<1>3. CASE StopServer
  <2>1. renewed' = renewed
    BY <1>3 DEF StopServer
  <2>2. ~renewed
    BY <2>1
  <2>3. settings.public_key = label
    BY <1>3, <2>2 DEF StopServer, LabelInv
  <2> QED
    BY <1>3, <2>3 DEF StopServer
<1>4. ASSUME NEW port \in Ports, SavePort(port)
      PROVE  /\ settings'.public_key = label'
             /\ server' # NoServer => server'.public_key = label'
  <2>1. settings'.public_key = settings.public_key
    BY <1>4, WithPortType, EntryNames DEF SavePort, RunInv
  <2> QED
    BY <1>4, <2>1 DEF SavePort, LabelInv
<1>5. CASE Sync
  <2>1. ~renewed /\ settings'.public_key = settings.public_key
    BY <1>5 DEF Sync
  <2> QED
    BY <1>5, <2>1 DEF Sync, LabelInv
<1>6. CASE Quit \/ Crash
  BY <1>6 DEF Quit, Crash, Gone
<1>7. CASE Generate \/ GeneratorSyncs \/ GeneratorKilled \/ UNCHANGED vars
  BY <1>7 DEF Generate, GeneratorSyncs, GeneratorKilled, vars, appVars, LabelInv
<1> QED
  BY <1>1, <1>2, <1>3, <1>4, <1>5, <1>6, <1>7 DEF Next

(* The identifier shown is that of the server's key, unless a key pair another process *)
(* generated was read after the window came up.                                        *)
THEOREM LabelIsOfServer == Spec => []LabelIsServers
<1>1. Init => PairInv /\ LabelInv
  <2> SUFFICES ASSUME Init PROVE PairInv /\ LabelInv
    OBVIOUS
  <2>1. FilePair
    BY DEF Init, FilePair
  <2> QED
    BY <2>1 DEF Init, Gone, PairInv, NoneUnsaved, LabelInv
<1>2. TypeOK /\ RunInv /\ PairInv /\ LabelInv /\ [Next]_vars => (PairInv /\ LabelInv)'
  BY NextPair, NextLabel
<1>3. TypeOK /\ RunInv /\ LabelInv => LabelIsServers
  BY DEF LabelInv, LabelIsServers, RunInv, TypeOK
<1> QED
  BY <1>1, <1>2, <1>3, TypesAreKept, PTL DEF Spec

-----------------------------------------------------------------------------
(* The invariant behind IdentifierTxtKept.  As long as nothing was torn, at most one process   *)
(* has a key pair to save, and identifier.txt is ahead of the settings file by just this pair.  *)
TxtInv ==
  ~torn => /\ generator = NoKey /\ NoneUnsaved => txt = file.identifier
           /\ generator # NoKey => NoneUnsaved /\ txt = generator
           /\ ~NoneUnsaved => txt = settings.identifier

(* TxtInv, step by step. *)
LEMMA NextTxt == TypeOK /\ RunInv /\ PairInv /\ TxtInv /\ [Next]_vars => TxtInv'
<1> SUFFICES ASSUME TypeOK, RunInv, PairInv, TxtInv, [Next]_vars, ~torn'
             PROVE  /\ generator' = NoKey /\ NoneUnsaved' => txt' = file'.identifier
                    /\ generator' # NoKey => NoneUnsaved' /\ txt' = generator'
                    /\ ~NoneUnsaved' => txt' = settings'.identifier
  BY DEF TxtInv
<1> USE EntryNames
<1>0. /\ file \in Settings /\ NoKey \in Keys /\ KeyPairs \subseteq Keys
      /\ Unsynced <=> generator # NoKey \/ ~NoneUnsaved
  BY DEF TypeOK, Keys, Unsynced, NoneUnsaved
<1>1. CASE Launch
  <2>1. unsaved = {} /\ NoneUnsaved
    BY <1>1 DEF Launch, RunInv, NoneUnsaved
  <2>2. CASE Missing(file)
    <3>1. PICK g \in KeyPairs : /\ GenerateKeyPair(g)
                                /\ settings' = WithKeys(file, g)
                                /\ unsaved' = KeyEntries
      BY <1>1, <2>2 DEF Launch
    <3>2. ~Unsynced /\ txt' = g
      BY <3>1 DEF GenerateKeyPair, WriteIdentifier
    <3>3. settings'.identifier = g
      BY <1>0, <3>1, WithKeysType
    <3> QED
      BY <1>0, <1>1, <3>1, <3>2, <3>3 DEF Launch, NoneUnsaved
  <2>3. CASE ~Missing(file)
    BY <1>1, <2>1, <2>3 DEF Launch, NoneUnsaved, TxtInv
  <2> QED
    BY <2>2, <2>3
<1>2. CASE StartServer \/ StopServer
  BY <1>2 DEF StartServer, StopServer, NoneUnsaved, TxtInv
<1>3. ASSUME NEW port \in Ports, SavePort(port)
      PROVE  /\ generator' = NoKey /\ NoneUnsaved' => txt' = file'.identifier
             /\ generator' # NoKey => NoneUnsaved' /\ txt' = generator'
             /\ ~NoneUnsaved' => txt' = settings'.identifier
  <2>1. settings'.identifier = settings.identifier
    BY <1>3, WithPortType DEF SavePort, RunInv
  <2>2. NoneUnsaved' <=> NoneUnsaved
    BY <1>3 DEF SavePort, NoneUnsaved
  <2> QED
    BY <1>3, <2>1, <2>2 DEF SavePort, TxtInv
<1>4. CASE Sync \/ Quit
  <2>1. running /\ file' = Merged(file, settings, unsaved) /\ unsaved' = {}
    BY <1>4 DEF Sync, Quit, Gone
  <2>2. /\ ~NoneUnsaved => file'.identifier = settings.identifier
        /\ NoneUnsaved => file'.identifier = file.identifier
    BY <2>1, MergedPair DEF PairInv
  <2>3. NoneUnsaved' /\ UNCHANGED <<txt, generator, torn>>
    BY <1>4, <2>1 DEF Sync, Quit, NoneUnsaved
  <2> QED
    BY <2>2, <2>3 DEF TxtInv
<1>5. CASE Crash
  <2>1. ~torn /\ NoneUnsaved
    BY <1>5 DEF Crash, NoneUnsaved
  <2>2. NoneUnsaved'
    BY <1>5 DEF Crash, Gone, NoneUnsaved
  <2> QED
    BY <1>5, <2>1, <2>2 DEF Crash, TxtInv
<1>6. CASE Generate
  <2>1. PICK g \in KeyPairs : GenerateKeyPair(g) /\ generator' = g
    BY <1>6 DEF Generate
  <2>2. ~Unsynced /\ txt' = g
    BY <2>1 DEF GenerateKeyPair, WriteIdentifier
  <2>3. NoneUnsaved' /\ g # NoKey
    BY <1>0, <1>6, <2>2, NoKeyIsNoKey DEF Generate, appVars, NoneUnsaved
  <2> QED
    BY <2>1, <2>2, <2>3
<1>7. CASE GeneratorSyncs
  <2>1. generator \in Keys /\ generator # NoKey
    BY <1>7 DEF GeneratorSyncs, TypeOK
  <2>2. file'.identifier = generator
    BY <1>0, <1>7, <2>1, WithKeysType DEF GeneratorSyncs
  <2>3. NoneUnsaved /\ txt = generator
    BY <1>7, <2>1 DEF GeneratorSyncs, TxtInv
  <2> QED
    BY <1>7, <2>2, <2>3 DEF GeneratorSyncs, appVars, NoneUnsaved
<1>8. CASE GeneratorKilled
  BY <1>8 DEF GeneratorKilled
<1>9. CASE UNCHANGED vars
  BY <1>9 DEF vars, appVars, NoneUnsaved, TxtInv
<1> QED
  BY <1>1, <1>2, <1>3, <1>4, <1>5, <1>6, <1>7, <1>8, <1>9 DEF Next

(* identifier.txt is that of the settings file when no process has a key pair to save, *)
(* unless a process was stopped on the way, or two generated one at a time.             *)
THEOREM IdentifierTxtIsKept == Spec => []IdentifierTxtKept
<1>1. Init => PairInv /\ TxtInv
  <2> SUFFICES ASSUME Init PROVE PairInv /\ TxtInv
    OBVIOUS
  <2>1. FilePair
    BY DEF Init, FilePair
  <2>2. unsaved = {} /\ generator = NoKey /\ (torn <=> txt # file.identifier)
    BY DEF Init, Gone
  <2> QED
    BY <2>1, <2>2 DEF Init, Gone, PairInv, NoneUnsaved, TxtInv
<1>2. TypeOK /\ RunInv /\ PairInv /\ TxtInv /\ [Next]_vars => (PairInv /\ TxtInv)'
  BY NextPair, NextTxt
<1>3. TxtInv => IdentifierTxtKept
  BY DEF TxtInv, IdentifierTxtKept, Unsynced, NoneUnsaved
<1> QED
  BY <1>1, <1>2, <1>3, TypesAreKept, PTL DEF Spec

-----------------------------------------------------------------------------
(* The age of a message.  Within a leeway of its ends the clock would wrap; elsewhere the *)
(* sums modulo Word are the sums.                                                         *)
LEMMA NoWrap ==
  ASSUME NEW now \in TIMESTAMP_LEEWAY..(Word - TIMESTAMP_LEEWAY - 1)
  PROVE  /\ (now + TIMESTAMP_LEEWAY) % Word = now + TIMESTAMP_LEEWAY
         /\ (now + Word - TIMESTAMP_LEEWAY) % Word = now - TIMESTAMP_LEEWAY
<1>1. Word \in Nat /\ TIMESTAMP_LEEWAY \in Nat /\ 2 * TIMESTAMP_LEEWAY < Word
  BY WordIsLarge
<1>2. now + TIMESTAMP_LEEWAY \in 0..(Word - 1)
  BY <1>1
<1>3. now - TIMESTAMP_LEEWAY \in 0..(Word - 1)
  BY <1>1
<1>4. now + Word - TIMESTAMP_LEEWAY = (now - TIMESTAMP_LEEWAY) + Word
  BY <1>1
<1>5. \A x \in 0..(Word - 1) : x % Word = x /\ (x + Word) % Word = x
  BY <1>1
<1> QED
  BY <1>2, <1>3, <1>4, <1>5

(* To a server a message is too old or too new by its distance from the clock, in either *)
(* direction, whatever the width of a word.                                              *)
THEOREM LeewayStaysSymmetric == Spec => []LeewayIsSymmetric
<1>1. LeewayIsSymmetric
  <2> SUFFICES ASSUME NEW now \in TIMESTAMP_LEEWAY..(Word - TIMESTAMP_LEEWAY - 1),
                      NEW stamp \in 0..(Word - 1)
               PROVE  Expired(stamp, now)
                        <=> (IF stamp < now THEN now - stamp ELSE stamp - now) > TIMESTAMP_LEEWAY
    BY DEF LeewayIsSymmetric
  <2>1. Expired(stamp, now)
          <=> stamp > now + TIMESTAMP_LEEWAY \/ stamp < now - TIMESTAMP_LEEWAY
    BY NoWrap DEF Expired
  <2>2. Word \in Nat /\ TIMESTAMP_LEEWAY \in Nat
    BY WordIsLarge
  <2> QED
    BY <2>1, <2>2
<1> QED
  BY <1>1, PTL

===============================================================================
