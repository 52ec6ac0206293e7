------------------------------ MODULE FadeTabs ------------------------------
(***************************************************************************)
(* How MainWidget shows its tabs: SwitchTab and the animations of          *)
(* FadeWidget.  A tab that fades out calls back when it is done, and the   *)
(* next one fades in; a switch without animation shows and hides at once.  *)
(***************************************************************************)
EXTENDS MainWidget

VARIABLES
    pages,  \* what is drawn of each tab, and the animations in m_animations
    hasty   \* history: a tab was switched to while an animation ran

vars == <<appVars, pages, hasty>>

NoTab == "NONE"

TypeOK ==
    /\ AppTypeOK
    /\ pages \in [visible : SUBSET Tabs,
                  opacity : [Tabs -> {"zero", "part", "max"}],
                  animation : [Tabs -> {"none", "fadeOut", "fadeIn"}],
                  next : [Tabs -> Tabs \cup {NoTab}],
                  identifierLabel : BOOLEAN]
    /\ hasty \in BOOLEAN

Animating == {t \in Tabs : pages.animation[t] # "none"}
Settled == Animating = {}

(* The constructor shows the settings, without animation. *)
Init ==
    /\ AppInit
    /\ pages = [visible |-> {"SETTINGS"},
                opacity |-> [t \in Tabs |-> "max"],
                animation |-> [t \in Tabs |-> "none"],
                next |-> [t \in Tabs |-> NoTab],
                identifierLabel |-> TRUE]
    /\ hasty = FALSE

-----------------------------------------------------------------------------
(* The animation of t goes, and so does its callback: told that it was aborted *)
(* it does nothing.                                                             *)
CancelAnimation(p, t) == [p EXCEPT !.animation[t] = "none", !.next[t] = NoTab]

(* The callback of a fade-in that is over, which only the settings have. *)
Done(p, t) == IF t = "SETTINGS" THEN [p EXCEPT !.identifierLabel = TRUE] ELSE p

(* The first value of a fade-in is the opacity there is, or none if t was hidden. *)
FadeIn(p, t) ==
    LET c == CancelAnimation(p, t) IN
    IF t \in c.visible /\ c.opacity[t] = "max" THEN Done(c, t)
    ELSE [c EXCEPT !.visible = @ \cup {t},
                   !.animation[t] = "fadeIn",
                   !.opacity[t] = IF t \in c.visible THEN @ ELSE "zero"]

Hide(p, t) == [p EXCEPT !.visible = @ \ {t}]

(* Mutant: a tab that is transparent already is hidden, and nobody is called back. *)
FadeOutOnly(p, t, next) ==
    LET c == CancelAnimation(p, t) IN
    IF c.opacity[t] = "zero" THEN Hide(c, t)
    ELSE IF t \notin c.visible THEN FadeIn(c, next)
    ELSE [c EXCEPT !.animation[t] = "fadeOut", !.next[t] = next]

(* t fades out if there is something to see of it, then the next tab fades in. *)
FadeOut(p, t, next) ==
    LET c == CancelAnimation(p, t) IN
    IF c.opacity[t] = "zero" THEN FadeIn(Hide(c, t), next)
    ELSE IF t \notin c.visible THEN FadeIn(c, next)
    ELSE [c EXCEPT !.animation[t] = "fadeOut", !.next[t] = next]

FadeOutIn(p, out, in) == FadeOut(CancelAnimation(CancelAnimation(p, in), out), out, in)

-----------------------------------------------------------------------------
(* Mutant: the others are not hidden. *)
ShownOver(tab) ==
    [pages EXCEPT !.visible = @ \cup {tab}, !.identifierLabel = (tab = "SETTINGS")]

(* SwitchTab without animation touches neither animations nor opacities. *)
ShownAtOnce(tab) ==
    [pages EXCEPT !.visible = {tab}, !.identifierLabel = (tab = "SETTINGS")]

(* SwitchTab with animation; the label of the settings comes when they are there. *)
Faded(tab) ==
    [FadeOutIn(pages, m_currentTab, tab)
       EXCEPT !.identifierLabel = (tab = "SETTINGS" /\ @)]

Switches(tab) ==
    /\ SwitchTab(tab)
    /\ hasty' = (hasty \/ ~Settled)

(* One of the four buttons. *)
Clicked(tab) ==
    /\ Switches(tab)
    /\ pages' = Faded(tab)

VROverlayShown ==
    LET tab == IF m_serverState = "CONNECTED" THEN "NOTIFICATIONS" ELSE "SETTINGS" IN
    /\ Switches(tab)
    /\ pages' = ShownAtOnce(tab)

VRNotificationOpened ==
    /\ m_serverState = "CONNECTED"
    /\ Switches("NOTIFICATIONS")
    /\ pages' = ShownAtOnce("NOTIFICATIONS")

ServerChanges ==
    /\ AppNext
    /\ UNCHANGED <<m_currentTab, pages, hasty>>

(* An animation is under way. *)
AnimationRuns(t) ==
    /\ t \in Animating
    /\ pages' = [pages EXCEPT !.opacity[t] = "part"]
    /\ UNCHANGED <<appVars, hasty>>

FadeOutFinished(t) ==
    /\ pages.animation[t] = "fadeOut"
    /\ pages' = FadeIn([Hide(CancelAnimation(pages, t), t) EXCEPT !.opacity[t] = "zero"],
                       pages.next[t])
    /\ UNCHANGED <<appVars, hasty>>

FadeInFinished(t) ==
    /\ pages.animation[t] = "fadeIn"
    /\ pages' = Done([CancelAnimation(pages, t) EXCEPT !.opacity[t] = "max"], t)
    /\ UNCHANGED <<appVars, hasty>>

Next ==
    \/ \E tab \in Tabs : Clicked(tab)
    \/ VROverlayShown \/ VRNotificationOpened
    \/ ServerChanges
    \/ \E t \in Tabs : AnimationRuns(t) \/ FadeOutFinished(t) \/ FadeInFinished(t)

SafeSpec == Init /\ [][Next]_vars

-----------------------------------------------------------------------------
(* As long as nobody switched during an animation: when the animations are over *)
(* the current tab is the only one shown, with the label if it is the settings.  *)
CurrentAlone ==
    ~hasty /\ Settled
      => /\ pages.visible = {m_currentTab}
         /\ pages.identifierLabel = (m_currentTab = "SETTINGS")

(* However tabs are switched, cancelled and switched back, one of them is shown: *)
(* every tab that is hidden makes place for another in the same step.             *)
NeverEmpty == pages.visible # {}

(* Who opens the overlay from its badge sees the current tab, not a transparent one. *)
BadgeShowsTab ==
    ~hasty /\ Settled => pages.opacity[m_currentTab] = "max"

=============================================================================
