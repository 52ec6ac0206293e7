# A TLA+ model of OVRPhoneBridge

OVRPhoneBridge is a SteamVR overlay that talks to one phone over TCP: it mirrors the
phone's notifications and lets the user read and send SMS in VR. This directory holds
TLA+ modules of its control logic, TLC configurations that check them, and proofs for
TLAPS. `PROJECT.json` maps every definition to the lines it models, and lists runs,
mutants, hazards and theorems.

Everything runs on one Qt event loop. The difficulties are not those of threads but of
**handlers**: slots that run inside other slots (a `close()` that emits `disconnected()`
before it returns), deferred deletions, timers that outlive what they were started for,
and a phone that answers late, twice or not at all. Two other processes matter: the VR
runtime, whose events are polled, and a second start of the program that writes a key pair.

## Inventory

| Component | State it keeps | Operations | Talks to | What makes it correct |
|---|---|---|---|---|
| `Server` (`src/src/server.cpp`) | `m_client` (the session), `m_clients`, `m_banList`, a ten-second timer, pending one-second timers | `NewConnection`, `ClientHandshakePending`, `ClientDisconnected`, `ClientMessageReceived`, `KickClient`, `ClearBans`, `KickInactiveClients`, `Stop` | owns `Client`s; signals `ConnectedChange`, `MessageReceived` | one session; the application is told of it only while it exists; idle clients leave; bans hold and expire |
| `Client` (`client.cpp`) | socket, connect time, crypto, `m_handshakeDone`, features, a ten-second kick timer | `HandshakePhase1/2`, `AnswerHandshake`, `ProcessMessage`, `Kick` | signals to `Server` | no message passes before the handshake; a kick ends the connection |
| `Crypto` (`crypto.cpp`) | keys of one client; the key pair in the settings file, `identifier.txt` | `GenerateKeyPair`, `GetPublicKey`, encrypt, decrypt, time stamps | called by `Client`, `MainWidget`, `main` | the three entries of a key pair belong together; old and future messages are refused |
| `MainWidget` (`widgets/main_widget.cpp`) | `m_server`, `m_serverState`, `m_currentTab` | `StartServer`, `StopServer`, `UpdateServerState`, `SwitchTab`, VR events | everything | its state follows the server; `GetClient()` is not null when it is read |
| `FadeWidget` (`widgets/fade_widget.cpp`) | `m_animations` and their callbacks | `FadeIn`, `FadeOut`, `FadeOutIn`, `CancelAnimation` | base of `MainWidget` | one tab is shown, the current one |
| Notifications tab (`widgets/tabs/notifications_tab_widget.cpp`) | list, loaded/empty flags, retry timer | load, refresh, receive, remove, list, dismiss | `Bridge` | its list is the phone's |
| SMS tab (`widgets/tabs/sms_tab_widget.cpp`) | thread, pages, text, retry timer | load, open, back, refresh, more, send | `Bridge`, VR keyboard | pages of one thread, once, in order; texts go where they were written |
| `Bridge` (`bridge.cpp`) | none | JSON messages to signals and back | `Server`, tabs, VR notifications | |
| `OverlayController` (`openvr/overlay_controller.cpp`) | `m_notifications`, `m_renderRequested`, `m_keyboardVisible`, `m_overlayVisible`, `m_lastButtons` | show/remove notification, `ShowKeyboard`, `RenderOverlay`, `PollEvents` | VR runtime, `MainWidget` | entries match what VR shows; what is visible is drawn; keyboard, buttons and visibility follow the runtime |
| `main.cpp` | OpenVR's registry | manifest options, `--generate_keypair`, start | all | the installation does what it reports |
| Device tab (`widgets/tabs/device_tab_widget.cpp`) | labels of the phone | disconnect button | `MainWidget` | it shows the phone that has the session |
| Settings tab (`widgets/tabs/settings_tab_widget.cpp`) | port, two check boxes, state of the server button | `SavePort`, start/stop | `QSettings`, `MainWidget` | the port shown is the port saved |
| Small widgets, `RigidTransform` | | forwarding of mouse events, formatting, matrices | `MainWidget` | |

Hard behaviours, with the line where each bites, are the `hazards` of `PROJECT.json`. In short:
the sweep kicks clients while it iterates over the list that a kick changes; the one-second
announcement belongs to no client; a close with unsent bytes is not a close yet; answers of
the phone name a thread and a page but no request; the VR keyboard delivers its text to whatever
thread is shown by then; tab switches overtake their animations; the scene changes while
nothing may be drawn; two processes write one settings file, and either may die.

## Modules

| Module | Models | State ↔ code |
|---|---|---|
| `Server` | `Server`, its `Client`s, and starting/stopping by `MainWidget` | variables carry the names of the members; `socket` says whether a client is open, closing (closed, bytes unsent) or doomed (dropped by the sweep, deletion pending); `cursor` is the iterator of `KickInactiveClients` |
| `Session` | abstract: what the server promises the application | `holder` is the session, `announced` what the application was told |
| `MainWidget` | abstract: what the tabs may assume of the application | `m_serverState`, `link` (can the session be talked to), `m_currentTab` |
| `Application` | `Server` under `MainWidget` | adds to the server `told`, what the tabs were filled with; refinement of `MainWidget` by `Server` |
| `NotificationsTab` | the tab, the phone and the two directions of the connection; extends `MainWidget` | `items` are the widgets of the layout; `loads` the pending `singleShot`s; `posted`, `asked`, `toApp` the phone and the channel |
| `SMSTab` | the tab and the phone; extends `MainWidget` | `pages` are the messages of the layout by the page they came with; `input` the thread whose text is in the input field; `keyboard` the thread the VR keyboard was opened for; `asked` the requests without answer |
| `FadeTabs` | `SwitchTab` over `FadeWidget`; extends `MainWidget` | `pages` records per tab whether it is visible, its opacity (none, some, full), its animation and the tab its callback shows |
| `VRNotifications` | `ShowNotification`, `RemoveNotification`, notification events | `live` is the runtime's side, `m_notifications` the controller's, `events` what is not polled yet |
| `Overlay` | `RenderOverlay`, the mouse buttons, `ShowKeyboard`, the loop of `PollEvents` | `place`, `held`, `keyboard` are the runtime's side, the `m_` variables the controller's, `events` what is not polled yet; `stale` says that the texture is not what the scene shows |
| `Crypto` | `GenerateKeyPair`, the settings it writes and who reads them, `SavePort`, the leeway of `Decrypt` | `file` is `settings.ini`, `settings` and `unsaved` the `QSettings` of the application, `generator` the other process; `label` is what the window shows, `server` what the server was made of |
| `Manifest` | the manifest options of the command line | OpenVR's registry and the calls still to make |
| `MC*` | instances for TLC | |
| `ServerProofs` | theorems about `Server` and `Application` | |
| `NotificationsTabProofs`, `SMSTabProofs`, `FadeTabsProofs`, `VRNotificationsProofs`, `OverlayProofs`, `CryptoProofs` | theorems about the module they are named after | |
| `ListLemmas` | what `RemoveAt`, `RemoveFirst`, `SetToSeq`, `Append`, `Tail` and `\o` make of a sequence and of its members | |

### How a handler becomes an action

A slot is one action, together with every slot it reaches through direct connections.
`Client::Kick` is the example: `close()` on a socket with nothing to write emits
`disconnected()` at once, so `Server::ClientDisconnected` (list, session, signal, deletion)
is part of `Kick`; with unsent bytes the socket forgets its peer address, reads nothing
more, and disconnects in a later action. `Kick(c)` has one disjunct for each.

`KickInactiveClients` is the exception: its loop is one step per list entry, and `EventLoop`
(`cursor = 0`) keeps every other handler out meanwhile. `QMutableListIterator` is a pair of
plain pointers. `QList::removeOne` of the visited entry moves the front of the list when the
entry is in its first half, and the pointers stay right; otherwise it moves the tail, and the
pointer has jumped over the next entry - or, when the last entry of at least two is removed,
over the end. From there the program reads freed nodes: `SweepStrayEnds` and
`SweepStrayCrashes` are what may come of it (`CursorAfterRemoval` is that arithmetic).

`QSettings` is not the file. It keeps a copy, `setValue` changes the copy, and a sync - when the
application is back in its event loop, or quits - adds the values set since to what the file
holds by then, and reads the rest from it. `Sync` is that merge, and the steps between
`GenerateKeyPair` and `Sync` are where the other process, or a crash, comes in.

Modelled from how the code uses them, and marked external: the event loop, the clock
(`Tick`), `QTcpSocket` buffers, the animations' progress, `QSettings`, the VR runtime, and the
phone. The phone of `NotificationsTab` answers in order over TCP; the phone of `SMSTab` may
answer in any order, because its answers come from queries. Of the runtime `Overlay` assumes
that its keyboard is modal (a press elsewhere dismisses it, and the fields are out of reach
while it is up), that `ShowKeyboard` fails while a keyboard is up, and that a button is let go
before the overlay is left.

## Runs

| Run | Asks | Bounds |
|---|---|---|
| `application` | whose session it is, what the application and its tabs believe, bans; the server drives `MainWidget` as the tabs expect | 2 clients, 2 addresses, 2 kinds of features (a repeated handshake can change them), window 1 and ban 2 ticks (an age and a ban can each be running, at its edge, and over), 2 overlapping one-second timers (one of a dead session, one of the next) |
| `server_sweep` | the walk over a changing list | 4 clients: an entry of the first half and one of the second half removed, with a neighbour on either side; 1 address; 1 tick |
| `server_live` | liveness of the server, and that it is a `Session` with its announcement in the end, under fairness | 2 clients, 1 address, window and ban 1 tick |
| `notifications` | list, layout and timers; loading ends | 2 notifications (one changes while the other stays), 3 messages on their way (an event, an answer, an event), 2 pending loads; fairness |
| `sms` | threads, pages and texts; loading ends | 2 threads, 3 pages (first, middle, last), 2 requests out (one overtakes the other), 2 pending loads; answers in any order, fairness |
| `fades` | which tab is shown | the four tabs, no bound |
| `badge` | **violated**: see Findings | the same |
| `vr_notifications` | entries against notifications | 2 identifiers, 4 notifications created (each identifier shown again after a removal), 3 events |
| `overlay` | rendering, keyboard, buttons | the 2 input fields, 4 events that are not polled (one keyboard ends and a click opens the next, with the overlay hidden or shown in between); fairness |
| `crypto` | the key pair, its label and its file; time stamps | 5 key pairs (the file's, the application's, the other process's, the label's, and a fresh one), 2 valid ports and one that is none, words of 5 bits with a leeway of 5 |
| `identifier` | **violated**: see Findings | 3 key pairs |
| `manifest_retry` | **violated**: see Findings | none |

The bounds `MaxConnectTimers`, `MaxQueue`, `MaxLoads`, `MaxAsked`, `MaxCreated` and `MaxEvents` are
constants that only limit a counter or a queue in a guard. `KeyPairs` bounds what is in use at once,
not how often a pair is generated: a fresh one is any that is stored nowhere. Clients, addresses,
phone numbers, identifiers, key pairs and valid ports are interchangeable, and are reduced by
symmetry in runs without liveness.

`ImplementsMainWidget` is a safety property and is checked in the `application` run with the other
invariants: the safety of the whole - server and user interface - is in one run, and its liveness in
`server_live`.

What they show of the server, in words: the session is exclusive; whatever timers are
pending, the application believes in a session only while there is one, and learns of each
session that lasts; the sweep never ends the session; it leaves the list only when the
session, or a client it closes but cannot yet remove, is still in it (`StrayNeedsSurvivor`);
the entries it jumps over leave all the same, by a later sweep.

Of the tabs: once loaded, the notifications shown are the phone's as of the last message
(`InSync`: of the messages still on their way the last about a key decides, and without one what
is shown). The pages of a thread
are contiguous in whatever order answers come. What `UpdateLayout` last drew is always what
the state calls for. A text that was typed for one thread is never sent to another, although
the keyboard is opened in one state of the tab and closed in another: leaving the thread needs a
click, which dismisses the keyboard, and everything else that changes the thread clears
the input (`ThreadUnmixed`).

Of the overlay: a picture that is out of date is always asked for, however changes, hiding and
rendering interleave, and is drawn in the end while someone looks; `m_keyboardVisible` is never
false while a keyboard is up, and true without one only until its end is polled; when all events are
polled, no button counts as held that is not.

Of the keys: the entries of the application are always of one pair, whoever wrote last and
whatever entries were lost; so are those of its server. Between the ends of the clock, the unsigned
sums of `Decrypt` refuse exactly the messages that are further than the leeway away.

Some properties hold only under a history variable, and the variable says exactly when
the code gives the guarantee up:

* `tangled` in `SMSTab`: in this session a list or a first page was asked for while another one was
  still out (a retry after a minute, or a quick refresh, back and open), or an answer overtook an
  earlier one. An answer is compared with the
  page that is due, but not with the thread (`sms_tab_widget.cpp:319-328`). Without the
  condition TLC finds, for instance: the list is asked for twice, the second answer brings the
  user back from a thread that was loading, another thread is opened, and a late page of the
  first one is appended to it and takes over the title - and a text entered below goes to the
  other number.
* `hasty` in `FadeTabs`: a tab was switched to while an animation ran. `FadeOutIn` cancels the animations
  of its own two tabs only, so the callback of an older fade-out still shows its tab; two
  tabs, or the wrong one, are then visible. `NeverEmpty` holds in any case.
* `failed` in `VRNotifications`: the runtime refused a removal. `ShowNotification` does not
  look at the result, and `insert` keeps the old entry, so the new notification has none and
  cannot be removed any more. `GoneIsTold` holds in any case.
* `failed` in `Overlay`: `SetOverlayTexture` failed. `RenderOverlay` has taken the request back by
  then, and the picture stays out of date until the scene changes or the overlay is shown again.
* `renewed` in `Application`: the phone repeated its handshake after it was announced. The tabs
  keep the features of the announcement; `TabsShowSession` holds of all the rest.
* `renewed` in `Crypto`: a sync brought a key pair of another process. The label keeps
  the old identifier (see Findings).
* `torn` in `Crypto`: the last key pair was not generated, written to `identifier.txt` and synced
  without a failure, a crash or another process between. Nothing mends `identifier.txt` before the next
  key pair is generated.

### Fairness

* `Server`: weak fairness of the sweep's steps - a handler that started returns. Strong
  fairness of `SweepTimer`, `ConnectTimer`, `RefusalKick`, `DeleteClient` and `Tick`: the Qt loop
  delivers timers and deferred deletes whenever it runs, and a sweep in progress disables them
  only for its own duration. None is assumed of phones, the user, or the socket: a peer may
  never read, and `ClosingEnds` holds for it.
* Tabs: `LoadTimer` fires, and the phone answers what it is asked (strongly fair, because a full
  channel may disable it for a while). `LoadsInTheEnd` lets the user leave the tab and
  the session end; the retry timer needs no fairness, since answers come.
* `Overlay`: weak fairness of the steps of `PollEvents`, which returns: what the runtime adds while it
  runs is counted to its next call. Strong fairness of `RenderTimer` and `SceneChanged`, a repeating
  timer and a queued signal, which a poll keeps out only while it runs. None of the user or
  the runtime; a `SetOverlayTexture` that fails ends the promise.

## Findings

* **`badge`**: a fade-out leaves the opacity of the tab it hides at 0, and `SwitchTab` without
  animation only makes a tab visible. Connected, switch from the notifications to another tab, close
  the dashboard, open it again from the badge: `VROverlayShown` makes the notifications the current
  tab, and they are blank. The user has to leave the tab and come back by its button.
* **`manifest_retry`**: when `SetApplicationAutoLaunch` fails after `AddApplicationManifest`
  succeeded, a second `--install_manifest` finds the manifest, returns success and never
  enables the auto-start.
* **`identifier`**: `HOWTO.md:44` has the user compare the identifier on the phone with the one of the
  PC. The label that shows it is filled once (`main_widget.cpp:393`), while every start of the server reads
  the key pair from the settings again. After `--generate_keypair` in another process, stopping and starting the
  server presents the new key under the old identifier until the program is restarted.

## Proofs

Every invariant of a passing run is also proved, by TLAPS, for every value of the constants, and so are
the action property of the sweep and the refinement of `MainWidget` by the application: any number of
clients, addresses, keys, phone numbers, pages and key pairs, windows, bans, leeways and
words of any size, and queues up to any bound. Assumed is what the modules assume of their constants
(`ASSUME`, named): null values are no ordinary ones, times and bounds are naturals, valid ports are ports, a word
holds twice the leeway.

A theorem is always `Init => IInv`, one lemma per action (or group of actions) for
`IInv /\ [Next]_vars => IInv'`, and `IInv => Inv`. What follows says what each `IInv` adds, because
this is where one learns why the code works.

**`ListLemmas`.** `RemoveFirst` of the community modules is defined by a `CHOOSE` of a minimum, so
`MinIsMember` (well-foundedness of the naturals) comes first; then what the operators on
sequences do to length, order, members and absence of repetition.

**`ServerProofs`.**

* `TypeCorrect`, and the inductive `SessionInv`. `SessionExclusive` alone is not inductive: to
  show that a granted handshake finds no other finished one, one needs that whoever has finished holds the
  session, and that the session that is granted was free. `ConnectedHasSession` makes the new
  session unannounced, which `AnnouncementPending` turns into a timer that is due. `SessionIsExclusive`,
  `AnnouncementsAreSound` and `AnnouncementsAreDue` follow.
* `SweepKeepsSession`: a visited client that is inactive is never `m_client` - either because
  another one is, or because it has no finished handshake and by `SessionExclusive` the session has.
* `ServerIsSession`: each step maps to `Grant`, `Announce`, `End` of `Session` or to none.
* `WalkInvariant`. `ListInv` says without counting that the list has whom it should, and that it is in the order of
  connections: ages decrease along it. `SweepInv` says that behind the cursor somebody
  was left: the session, a closing client, or - nobody having the session - an open client too young to be kicked.
  In the last case all clients after it are younger still, so the walk kicks nobody any more and
  cannot run over the end. `ListsAreLive` (by cardinalities of singletons) and `StraysNeedSurvivors` follow.
* `BansPredate` is inductive with the types. The delicate steps are `KickClient`, which begins a ban and leaves the other
  clients of its address connected, and `Tick`, where ban and ages move together.
* `ApplicationIsMainWidget` and `TabsAreOfTheSession` need `ListenInv` too: sockets and a session exist only
  while the server listens.

**`NotificationsTabProofs`.** `InSync` needs to know what a list will do when it comes: each list on its way, with
what follows it, makes the page what the phone has (`ListsInSync`); that nothing is loaded or due
outside a session (`LoadNeedsSession`), and that no message outlives its connection
(`ClosedCarriesNothing`). `NothingShownTwice` rests on `SetToSeqProperties`, which needs finite lists: the type invariant is
proved with `Finite`.

**`SMSTabProofs`.** `LoadUnderway` follows from the stronger `LoadDue`, which does without the retry timer: that
timer is a safeguard against a phone that does not answer, and nothing else. `ThreadsStayUnmixed`
needs five facts as long as nothing is tangled (`ThreadInv`): the only load out is the last request and the tab
is not loaded meanwhile; further pages are asked of the thread shown; the VR keyboard is up over its own thread, over
none, or over a load of its thread; what is shown is of the thread in the title; what is sent was typed for it. Next to it
stand `SessionInv` (no request and no thread outside a session), `UnloadedIsEmpty` and `LayoutIsCurrent`:
a button can be pressed only when it is shown.

**`FadeTabsProofs`.** `NeverEmpty` needs that each fade-out has a tab to call back for (`OneComesNext`). `CurrentAlone` is
the first of the three states that switches go through: `AtRest`, `FadesAway` (the last tab is alone, and its callback is for the
current one), `Appears`.

**`VRNotificationsProofs`.** `EntryInv` is about the numbers: all were given (`GivenOnly`), none is told of while its
notification lives (`ToldIsGone`), so a late event never meets a newer notification; no two entries share one
(`OneEntry`), so an event takes at most one entry. `RemovalSettles` shows that a removal keeps all of this,
and is used for `RemoveNotification` and for the one in `ShowNotification`.

**`OverlayProofs`.** The runtime's actions are reduced to what they add to the events (`RuntimeTells`, `Agrees`). `KeyboardInv`
orders them: a click that opens a keyboard is polled only after every end of an earlier one, or the end of one would be taken
for that of another. `StepInv` reads the events that are not polled: the last word about the visibility is true
(`LastWordIsTrue`), and for every button the controller holds, or will hold, either the runtime holds it or a release is
still to come (`HeldOrLetGo`).

**`CryptoProofs`.** `PairInv`: the key entries of the file are of one pair with gaps, the
application's are of one pair without; it has either all of them to save or none - and unless it saves them, the file has no gaps.
Any mixture of syncs then leaves whole pairs. `TxtInv`: at most one process has a pair to save, and it is the one in
`identifier.txt`. `LeewayStaysSymmetric` is arithmetic: within the leeway of neither end the sums do not wrap (`NoWrap`).

*Only model-checked*: liveness (`IdleLeaves`, `ClosingEnds`, `BanExpires`, `LoadsInTheEnd`, `DrawnInTheEnd`) and
the fairness part of `ImplementsSession`, because this prover does not reason about `ENABLED`; the three findings,
which are counterexamples.

## Not modelled

Message formats and field checks of `Bridge` (a rejected message changes nothing); the calls of
libsodium (a message that does not decrypt is a `BadMessage` of `Server`); scroll positions, formatting
and drawing of widgets; the position of mouse and keyboard, and scroll events, of the overlay; the set-up of OpenGL and
of the overlay; the floating-point matrices of `RigidTransform`; the values of the two check boxes, which nothing else reads
while the program runs; directories and libraries at start; build and installer scripts. A failed
`StartServer` changes nothing and is no action.

## Plan

Done: the server, the application and what its tabs show, both tabs, the VR keyboard, tab switching, VR
notifications, rendering and mouse of the overlay, the key pair, the port, time stamps, the manifest; proofs of all the
invariants.

1. *Prove*: the steps of liveness arguments that are safety - a closing client is found by the next walk, or the
   walk left the list; each answer of the phone makes progress - as action properties, where they say more than the
   invariants do.
2. *Compose*, if a property is found that needs it: the tabs and VR notifications driven by the same messages of
   `Bridge`; so far each of them is checked over the same abstract `MainWidget`, which the server is proved to implement.
