------------------------------ MODULE Overlay ------------------------------
(***************************************************************************)
(* OverlayController between the VR runtime and the scene that holds       *)
(* MainWidget: rendering on request, the mouse, and the keyboard.          *)
(*                                                                         *)
(* The runtime is another process; what it does it tells by events, which  *)
(* PollEvents takes one after the other every 20 ms.  While it does        *)
(* (polling) no other handler runs, and what the runtime adds meanwhile is *)
(* counted to the next call.                                               *)
(***************************************************************************)
EXTENDS Naturals, Sequences

CONSTANTS
    Fields,    \* input fields that ask for the keyboard: KEYBOARD_INPUT_PORT, _SMS
    NoField,   \* no field, or no keyboard
    MaxEvents  \* bound: events that are not polled yet

ASSUME NoFieldIsNoField == NoField \notin Fields
ASSUME MaxEventsIsNatural == MaxEvents \in Nat

VARIABLES
    place,              \* the dashboard: "closed", on another overlay with our thumbnail
                        \* hidden ("elsewhere") or visible ("beside"), or on "ours"
    held,               \* the buttons the user holds
    keyboard,           \* the field whose keyboard is up, or NoField
    events,             \* events of the overlay that are not polled yet
    thumbnailShown,     \* an OverlayShown of the thumbnail is not polled yet
    polling,            \* PollEvents is running
    stale,              \* the texture of the overlay is not what the scene shows
    changedPending,     \* QGraphicsScene::changed is queued
    failed,             \* history: SetOverlayTexture failed, and nothing was asked since
    m_renderRequested,
    m_overlayVisible,
    m_lastButtons,
    m_keyboardVisible

runtimeVars == <<place, held, keyboard>>
renderVars == <<stale, changedPending, failed, m_renderRequested>>
vars == <<runtimeVars, events, thumbnailShown, polling, renderVars, m_overlayVisible,
          m_lastButtons, m_keyboardVisible>>

Buttons == {"left", "right", "middle"}

Events ==
    [type : {"shown", "hidden", "done", "closed"}]
      \cup [type : {"down"}, button : Buttons]
      \cup [type : {"up"}, button : Buttons, field : Fields \cup {NoField}]

TypeOK ==
    /\ place \in {"closed", "elsewhere", "beside", "ours"}
    /\ held \in SUBSET Buttons
    /\ keyboard \in Fields \cup {NoField}
    /\ events \in Seq(Events) /\ Len(events) <= MaxEvents
    /\ thumbnailShown \in BOOLEAN
    /\ polling \in BOOLEAN
    /\ stale \in BOOLEAN /\ changedPending \in BOOLEAN /\ failed \in BOOLEAN
    /\ m_renderRequested \in BOOLEAN
    /\ m_overlayVisible \in BOOLEAN
    /\ m_lastButtons \in SUBSET {"left", "right"}
    /\ m_keyboardVisible \in BOOLEAN

Init ==
    /\ place = "closed"
    /\ held = {}
    /\ keyboard = NoField
    /\ events = <<>>
    /\ thumbnailShown = FALSE
    /\ polling = FALSE
    /\ stale = TRUE
    /\ changedPending = TRUE
    /\ failed = FALSE
    /\ m_renderRequested = FALSE
    /\ m_overlayVisible = FALSE
    /\ m_lastButtons = {}
    /\ m_keyboardVisible = FALSE

-----------------------------------------------------------------------------
(* The runtime and its user. *)

(* The overlay or its thumbnail is visible. *)
Visible == place \in {"beside", "ours"}

Tells(news) ==
    /\ ~polling
    /\ Len(events) + Len(news) <= MaxEvents
    /\ events' = events \o news
    /\ UNCHANGED <<polling, renderVars, m_overlayVisible, m_lastButtons, m_keyboardVisible>>

(* What is not a key of the keyboard dismisses it. *)
Dismissed == IF keyboard = NoField THEN <<>> ELSE <<[type |-> "closed"]>>

MoveTo(p) ==
    /\ p # place /\ held = {}
    /\ place' = p
    /\ keyboard' = NoField
    /\ thumbnailShown' = (thumbnailShown \/ (~Visible /\ Visible'))
    /\ UNCHANGED held
    /\ Tells(Dismissed \o (IF place = "ours" THEN <<[type |-> "hidden"]>> ELSE <<>>)
                       \o (IF p = "ours" THEN <<[type |-> "shown"]>> ELSE <<>>))

Press(b) ==
    /\ place = "ours" /\ b \notin held
    /\ held' = held \cup {b}
    /\ keyboard' = NoField
    /\ UNCHANGED <<place, thumbnailShown>>
    /\ Tells(Dismissed \o <<[type |-> "down", button |-> b]>>)

(* While a keyboard is up the fields are out of reach: it is modal. *)
Release(b, f) ==
    /\ b \in held
    /\ keyboard # NoField => f = NoField
    /\ held' = held \ {b}
    /\ UNCHANGED <<place, keyboard, thumbnailShown>>
    /\ Tells(<<[type |-> "up", button |-> b, field |-> f]>>)

EndKeyboard ==
    /\ keyboard # NoField
    /\ keyboard' = NoField
    /\ UNCHANGED <<place, held, thumbnailShown>>
    /\ \E done \in {<<>>, <<[type |-> "done"]>>}, closed \in {<<>>, <<[type |-> "closed"]>>} :
         done \o closed # <<>> /\ Tells(done \o closed)

-----------------------------------------------------------------------------
(* Rendering. *)

(* Anything MainWidget shows changes; the scene tells of it when it is back in the *)
(* event loop.                                                                     *)
SceneChanges ==
    /\ stale' = TRUE
    /\ changedPending' = TRUE
    /\ failed' = FALSE
    /\ UNCHANGED <<runtimeVars, events, thumbnailShown, polling, m_renderRequested,
                   m_overlayVisible, m_lastButtons, m_keyboardVisible>>

(* Mutant: a change is not noticed while the overlay is closed. *)
SceneChangedShown ==
    /\ ~polling /\ changedPending
    /\ changedPending' = FALSE
    /\ m_renderRequested' = (m_renderRequested \/ m_overlayVisible)
    /\ UNCHANGED <<runtimeVars, events, thumbnailShown, polling, stale, failed,
                   m_overlayVisible, m_lastButtons, m_keyboardVisible>>

(* The lambda connected to QGraphicsScene::changed. *)
SceneChanged ==
    /\ ~polling /\ changedPending
    /\ changedPending' = FALSE
    /\ m_renderRequested' = TRUE
    /\ UNCHANGED <<runtimeVars, events, thumbnailShown, polling, stale, failed,
                   m_overlayVisible, m_lastButtons, m_keyboardVisible>>

(* Mutant: the request is taken before the visibility is looked at. *)
RenderEagerly ==
    /\ m_renderRequested' = FALSE
    /\ IF Visible
       THEN stale' \in {stale, FALSE} /\ failed' = stale'
       ELSE UNCHANGED <<stale, failed>>

(* RenderOverlay: the request is kept while nothing is visible, and is gone when *)
(* SetOverlayTexture fails.                                                      *)
RenderOverlay ==
    IF Visible
    THEN m_renderRequested' = FALSE /\ stale' \in {stale, FALSE} /\ failed' = stale'
    ELSE UNCHANGED <<m_renderRequested, stale, failed>>

RenderTimer ==
    /\ ~polling /\ m_renderRequested
    /\ RenderOverlay
    /\ UNCHANGED <<runtimeVars, events, thumbnailShown, polling, changedPending,
                   m_overlayVisible, m_lastButtons, m_keyboardVisible>>

-----------------------------------------------------------------------------
(* Events. *)

EventTimer ==
    /\ ~polling
    /\ polling' = TRUE
    /\ UNCHANGED <<runtimeVars, events, thumbnailShown, renderVars, m_overlayVisible,
                   m_lastButtons, m_keyboardVisible>>

RequestRender == m_renderRequested' = TRUE /\ failed' = FALSE

OverlayShown ==
    /\ m_overlayVisible' = TRUE
    /\ RequestRender
    /\ UNCHANGED <<keyboard, m_lastButtons, m_keyboardVisible>>

OverlayHidden ==
    /\ m_overlayVisible' = FALSE
    /\ UNCHANGED <<keyboard, failed, m_renderRequested, m_lastButtons, m_keyboardVisible>>

(* Mutant: a button the code has no case for. *)
AsItself(button) == button

(* Whatever is not the right button counts as the left one. *)
AsQtButton(button) == IF button = "right" THEN "right" ELSE "left"

(* Mutant: the middle button stays the middle button when it comes up. *)
ReleasedExactly(button) == m_lastButtons \ {button}

Released(button) == m_lastButtons \ {AsQtButton(button)}

MouseDown(button) ==
    /\ m_lastButtons' = m_lastButtons \cup {AsQtButton(button)}
    /\ UNCHANGED <<keyboard, failed, m_renderRequested, m_overlayVisible, m_keyboardVisible>>

(* Mutant: the keyboard counts as visible before the runtime was asked. *)
ShowKeyboardOptimist(field) ==
    /\ m_keyboardVisible' = TRUE
    /\ \/ keyboard = NoField /\ keyboard' = field
       \/ UNCHANGED keyboard

(* ShowKeyboard, which fails when the runtime wants, and while a keyboard is up. *)
ShowKeyboard(field) ==
    \/ keyboard = NoField /\ keyboard' = field /\ m_keyboardVisible' = TRUE
    \/ UNCHANGED <<keyboard, m_keyboardVisible>>

(* mouseReleaseEvent of the field under the pointer asks for the keyboard. *)
MouseUp(button, field) ==
    /\ m_lastButtons' = Released(button)
    /\ IF field = NoField THEN UNCHANGED <<keyboard, m_keyboardVisible>> ELSE ShowKeyboard(field)
    /\ UNCHANGED <<failed, m_renderRequested, m_overlayVisible>>

KeyboardEnded ==
    /\ m_keyboardVisible' = FALSE
    /\ UNCHANGED <<keyboard, failed, m_renderRequested, m_overlayVisible, m_lastButtons>>

PollNextOverlayEvent ==
    /\ polling /\ events # <<>>
    /\ events' = Tail(events)
    /\ UNCHANGED <<place, held, thumbnailShown, polling, stale, changedPending>>
    /\ LET event == Head(events) IN
         \/ event.type = "shown" /\ OverlayShown
         \/ event.type = "hidden" /\ OverlayHidden
         \/ event.type = "down" /\ MouseDown(event.button)
         \/ event.type = "up" /\ MouseUp(event.button, event.field)
         \/ event.type \in {"done", "closed"} /\ KeyboardEnded

(* The thumbnail's events come last. *)
PollThumbnail ==
    /\ polling /\ events = <<>>
    /\ polling' = FALSE
    /\ thumbnailShown' = FALSE
    /\ IF thumbnailShown THEN RequestRender ELSE UNCHANGED <<failed, m_renderRequested>>
    /\ UNCHANGED <<runtimeVars, events, stale, changedPending, m_overlayVisible,
                   m_lastButtons, m_keyboardVisible>>

Next ==
    \/ \E p \in {"closed", "elsewhere", "beside", "ours"} : MoveTo(p)
    \/ \E b \in Buttons : Press(b) \/ \E f \in Fields \cup {NoField} : Release(b, f)
    \/ EndKeyboard
    \/ SceneChanges \/ SceneChanged \/ RenderTimer
    \/ EventTimer \/ PollNextOverlayEvent \/ PollThumbnail

(* PollEvents returns, and the loop delivers its timer and the queued signal. *)
Fairness ==
    /\ WF_vars(PollNextOverlayEvent) /\ WF_vars(PollThumbnail)
    /\ SF_vars(RenderTimer) /\ SF_vars(SceneChanged)

Spec == Init /\ [][Next]_vars /\ Fairness

-----------------------------------------------------------------------------
(* A picture that is out of date has its request, whenever it went out of date:   *)
(* before, while or after the overlay was hidden, unless the runtime refused it.   *)
StaleIsRequested == stale => m_renderRequested \/ changedPending \/ failed

(* Whoever looks at the overlay sees what the scene shows in the end. *)
DrawnInTheEnd == stale /\ Visible ~> ~stale \/ ~Visible \/ failed

(* UpdateKeyboardPosition acts on every keyboard that is up, and on one that is   *)
(* not only until its end is polled.                                              *)
KeyboardKnown ==
    /\ keyboard # NoField => m_keyboardVisible
    /\ m_keyboardVisible => \/ keyboard # NoField
                            \/ \E i \in DOMAIN events : events[i].type \in {"done", "closed"}

(* Once its events are polled the controller agrees with the runtime whether the   *)
(* overlay is open, so each opening switches the tab once, and counts no button as  *)
(* held that is not, or the scene would keep the mouse grabbed for what was pressed. *)
(* Buttons that count as one may be let go early.                                   *)
PolledInStep ==
    events = <<>> => /\ m_overlayVisible <=> place = "ours"
                     /\ m_lastButtons \subseteq {AsQtButton(b) : b \in held}

=============================================================================
