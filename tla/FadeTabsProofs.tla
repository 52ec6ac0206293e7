---------------------------- MODULE FadeTabsProofs ----------------------------
(***************************************************************************)
(* Theorems about FadeTabs: what is seen of the tabs, whatever the order   *)
(* in which they are switched and their animations end.                    *)
(***************************************************************************)
EXTENDS FadeTabs, TLAPS

-----------------------------------------------------------------------------
(* What TypeOK says of pages. *)
Pages == [visible : SUBSET Tabs,
          opacity : [Tabs -> {"zero", "part", "max"}],
          animation : [Tabs -> {"none", "fadeOut", "fadeIn"}],
          next : [Tabs -> Tabs \cup {NoTab}],
          identifierLabel : BOOLEAN]

(* The callback of each fade-out has a tab to show. *)
OneComesNext(p) == \A t \in Tabs : p.animation[t] = "fadeOut" => p.next[t] \in Tabs

(* Without the animation of t, which is the only thing that goes. *)
LEMMA Cancelled ==
  ASSUME NEW p \in Pages, NEW t \in Tabs
  PROVE  /\ CancelAnimation(p, t) \in Pages
         /\ CancelAnimation(p, t).visible = p.visible
         /\ CancelAnimation(p, t).opacity = p.opacity
         /\ CancelAnimation(p, t).animation = [p.animation EXCEPT ![t] = "none"]
         /\ CancelAnimation(p, t).next = [p.next EXCEPT ![t] = NoTab]
         /\ CancelAnimation(p, t).identifierLabel = p.identifierLabel
BY DEF CancelAnimation, Pages

(* Without t among the tabs that are drawn. *)
LEMMA Hidden ==
  ASSUME NEW p \in Pages, NEW t \in Tabs
  PROVE  /\ Hide(p, t) \in Pages
         /\ Hide(p, t).visible = p.visible \ {t}
         /\ Hide(p, t).opacity = p.opacity
         /\ Hide(p, t).animation = p.animation
         /\ Hide(p, t).next = p.next
         /\ Hide(p, t).identifierLabel = p.identifierLabel
BY DEF Hide, Pages

(* After a fade-in only the label of the settings may be new. *)
LEMMA IsDone ==
  ASSUME NEW p \in Pages, NEW t \in Tabs
  PROVE  /\ Done(p, t) \in Pages
         /\ Done(p, t).visible = p.visible
         /\ Done(p, t).opacity = p.opacity
         /\ Done(p, t).animation = p.animation
         /\ Done(p, t).next = p.next
         /\ Done(p, t).identifierLabel = (t = "SETTINGS" \/ p.identifierLabel)
BY DEF Done, Pages

(* A tab that fades in is drawn from the start. *)
LEMMA FadesIn ==
  ASSUME NEW p \in Pages, NEW t \in Tabs, OneComesNext(p)
  PROVE  /\ FadeIn(p, t) \in Pages /\ OneComesNext(FadeIn(p, t))
         /\ FadeIn(p, t).visible = p.visible \cup {t}
         /\ t \notin p.visible =>
              /\ FadeIn(p, t).animation = [p.animation EXCEPT ![t] = "fadeIn"]
              /\ FadeIn(p, t).identifierLabel = p.identifierLabel
<1> DEFINE c == CancelAnimation(p, t)
<1>1. /\ c \in Pages /\ c.visible = p.visible
      /\ c.animation = [p.animation EXCEPT ![t] = "none"]
      /\ c.next = [p.next EXCEPT ![t] = NoTab]
      /\ c.identifierLabel = p.identifierLabel
  BY Cancelled
<1>2. p.animation \in [Tabs -> {"none", "fadeOut", "fadeIn"}]
        /\ p.next \in [Tabs -> Tabs \cup {NoTab}]
  BY DEF Pages
<1>3. FadeIn(p, t) = IF t \in c.visible /\ c.opacity[t] = "max" THEN Done(c, t)
                     ELSE [c EXCEPT !.visible = @ \cup {t},
                                    !.animation[t] = "fadeIn",
                                    !.opacity[t] = IF t \in c.visible THEN @ ELSE "zero"]
  BY DEF FadeIn
<1> HIDE DEF c
<1>4. CASE t \in c.visible /\ c.opacity[t] = "max"
  <2>1. FadeIn(p, t) = Done(c, t)
    BY <1>3, <1>4
  <2>2. Done(c, t) \in Pages /\ Done(c, t).visible = c.visible
          /\ Done(c, t).animation = c.animation /\ Done(c, t).next = c.next
    BY <1>1, IsDone
  <2> QED
    BY <1>1, <1>2, <1>4, <2>1, <2>2 DEF OneComesNext
<1>5. CASE ~(t \in c.visible /\ c.opacity[t] = "max")
  <2> DEFINE q == [c EXCEPT !.visible = @ \cup {t},
                            !.animation[t] = "fadeIn",
                            !.opacity[t] = IF t \in c.visible THEN @ ELSE "zero"]
  <2>1. /\ q \in Pages /\ q.visible = c.visible \cup {t}
        /\ q.animation = [c.animation EXCEPT ![t] = "fadeIn"]
        /\ q.next = c.next /\ q.identifierLabel = c.identifierLabel
    BY <1>1 DEF Pages
  <2>2. FadeIn(p, t) = q
    BY <1>3, <1>5
  <2> HIDE DEF q
  <2>3. q.animation = [p.animation EXCEPT ![t] = "fadeIn"]
    BY <1>1, <1>2, <2>1
  <2>4. OneComesNext(q)
    BY <1>1, <1>2, <2>1, <2>3 DEF OneComesNext
  <2> QED
    BY <1>1, <2>1, <2>2, <2>3, <2>4
<1> QED
  BY <1>4, <1>5

(* f shows t, which fades out and is followed by next, or next, which fades in. *)
Fading(p, t, next, f) ==
  /\ f.visible = p.visible \/ t \notin p.visible
  /\ t \in p.visible =>
       /\ f.animation = [p.animation EXCEPT ![t] = "fadeOut"]
       /\ f.next = [p.next EXCEPT ![t] = next]
       /\ f.identifierLabel = p.identifierLabel

Followed(p, t, next, f) ==
  /\ f.visible = (p.visible \ {t}) \cup {next}
  /\ next \notin p.visible \ {t} =>
       /\ f.animation = [p.animation EXCEPT ![t] = "none", ![next] = "fadeIn"]
       /\ f.identifierLabel = p.identifierLabel

(* FadeOut shows one of the two: t as long as there is something of it to see, or next. *)
LEMMA FadesOut ==
  ASSUME NEW p \in Pages, NEW t \in Tabs, NEW next \in Tabs, OneComesNext(p)
  PROVE  /\ FadeOut(p, t, next) \in Pages /\ OneComesNext(FadeOut(p, t, next))
         /\ FadeOut(p, t, next).visible # {}
         /\ \/ Fading(p, t, next, FadeOut(p, t, next))
            \/ Followed(p, t, next, FadeOut(p, t, next))
<1> DEFINE c == CancelAnimation(p, t)
<1>1. /\ c \in Pages /\ c.visible = p.visible
      /\ c.animation = [p.animation EXCEPT ![t] = "none"]
      /\ c.next = [p.next EXCEPT ![t] = NoTab]
      /\ c.identifierLabel = p.identifierLabel
  BY Cancelled
<1>2. /\ p.animation \in [Tabs -> {"none", "fadeOut", "fadeIn"}]
      /\ p.next \in [Tabs -> Tabs \cup {NoTab}]
  BY DEF Pages
<1>3. OneComesNext(c)
  BY <1>1, <1>2 DEF OneComesNext
<1>4. FadeOut(p, t, next) =
        IF c.opacity[t] = "zero" THEN FadeIn(Hide(c, t), next)
        ELSE IF t \notin c.visible THEN FadeIn(c, next)
        ELSE [c EXCEPT !.animation[t] = "fadeOut", !.next[t] = next]
  BY DEF FadeOut
<1> HIDE DEF c
<1>5. CASE c.opacity[t] = "zero"
  <2> DEFINE h == Hide(c, t)
  <2>1. /\ h \in Pages /\ h.visible = p.visible \ {t}
        /\ h.animation = [p.animation EXCEPT ![t] = "none"] /\ h.next = c.next
        /\ h.identifierLabel = p.identifierLabel
    BY <1>1, Hidden
  <2>2. FadeOut(p, t, next) = FadeIn(h, next)
    BY <1>4, <1>5
  <2> HIDE DEF h
  <2>3. OneComesNext(h)
    BY <1>1, <1>3, <2>1 DEF OneComesNext
  <2>4. /\ FadeIn(h, next) \in Pages /\ OneComesNext(FadeIn(h, next))
        /\ FadeIn(h, next).visible = h.visible \cup {next}
        /\ next \notin h.visible =>
             /\ FadeIn(h, next).animation = [h.animation EXCEPT ![next] = "fadeIn"]
             /\ FadeIn(h, next).identifierLabel = h.identifierLabel
    BY <2>1, <2>3, FadesIn
  <2>5. [h.animation EXCEPT ![next] = "fadeIn"] =
          [p.animation EXCEPT ![t] = "none", ![next] = "fadeIn"]
    BY <1>2, <2>1
  <2> QED
    BY <2>1, <2>2, <2>4, <2>5 DEF Followed
<1>6. CASE c.opacity[t] # "zero" /\ t \notin c.visible
  <2>1. FadeOut(p, t, next) = FadeIn(c, next)
    BY <1>4, <1>6
  <2>2. /\ FadeIn(c, next) \in Pages /\ OneComesNext(FadeIn(c, next))
        /\ FadeIn(c, next).visible = c.visible \cup {next}
    BY <1>1, <1>3, FadesIn
  <2> QED
    BY <1>1, <1>6, <2>1, <2>2 DEF Fading
<1>7. CASE c.opacity[t] # "zero" /\ t \in c.visible
  <2> DEFINE q == [c EXCEPT !.animation[t] = "fadeOut", !.next[t] = next]
  <2>1. /\ q \in Pages /\ q.visible = c.visible
        /\ q.animation = [c.animation EXCEPT ![t] = "fadeOut"]
        /\ q.next = [c.next EXCEPT ![t] = next] /\ q.identifierLabel = c.identifierLabel
    BY <1>1 DEF Pages
  <2>2. FadeOut(p, t, next) = q
    BY <1>4, <1>7
  <2> HIDE DEF q
  <2>3. /\ q.animation = [p.animation EXCEPT ![t] = "fadeOut"]
        /\ q.next = [p.next EXCEPT ![t] = next]
    BY <1>1, <1>2, <2>1
  <2>4. OneComesNext(q)
    BY <1>1, <1>2, <1>3, <2>1, <2>3 DEF OneComesNext
  <2> QED
    BY <1>1, <1>7, <2>1, <2>2, <2>3, <2>4 DEF Fading
<1> QED
  BY <1>5, <1>6, <1>7

-----------------------------------------------------------------------------
(* As long as nobody switches during an animation: the current tab stands alone, or the *)
(* last one fades out and will be followed by it, or it fades in.                         *)
AtRest ==
  /\ \A t \in Tabs : pages.animation[t] = "none"
  /\ pages.visible = {m_currentTab}
  /\ pages.identifierLabel = (m_currentTab = "SETTINGS")

FadesAway ==
  \E o \in Tabs \ {m_currentTab} :
    /\ \A t \in Tabs : pages.animation[t] = IF t = o THEN "fadeOut" ELSE "none"
    /\ pages.next[o] = m_currentTab
    /\ pages.visible = {o}
    /\ ~pages.identifierLabel

Appears ==
  /\ \A t \in Tabs : pages.animation[t] = IF t = m_currentTab THEN "fadeIn" ELSE "none"
  /\ pages.visible = {m_currentTab}
  /\ ~pages.identifierLabel

OneAtATime == ~hasty => AtRest \/ FadesAway \/ Appears

PagesInv ==
  pages \in Pages /\ OneComesNext(pages) /\ NeverEmpty /\ OneAtATime

(* MainWidget keeps its types. *)
LEMMA NextApp == AppTypeOK /\ [AppNext]_appVars => AppTypeOK'
BY DEF AppTypeOK, AppNext, appVars, StartServer, StopServer, SessionGranted, SessionAnnounced,
       SessionCloses, SessionEnds, SwitchTab, ServerStates, Tabs

(* Every step of FadeTabs is one of MainWidget's, or none. *)
LEMMA NextIsMainWidget == [Next]_vars => [AppNext]_appVars
<1>1. \A tab : SwitchTab(tab) /\ tab \in Tabs => AppNext
  BY DEF AppNext
<1> QED
  BY <1>1 DEF Next, vars, appVars, Clicked, VROverlayShown, VRNotificationOpened, Switches,
              ServerChanges, AnimationRuns, FadeOutFinished, FadeInFinished, Tabs

(* A switch with an animation, from one tab that stands alone to another. *)
LEMMA ClickIsFade ==
  ASSUME AppTypeOK, PagesInv, NEW tab \in Tabs, Clicked(tab)
  PROVE  PagesInv'
<1> DEFINE o == m_currentTab
           b == CancelAnimation(pages, tab)
           c == CancelAnimation(b, o)
           f == FadeOut(c, o, tab)
<1>1. o \in Tabs /\ tab # o /\ m_currentTab' = tab
  BY DEF AppTypeOK, Clicked, Switches, SwitchTab
<1>2. /\ pages \in Pages /\ OneComesNext(pages)
      /\ pages.animation \in [Tabs -> {"none", "fadeOut", "fadeIn"}]
      /\ pages.next \in [Tabs -> Tabs \cup {NoTab}]
  BY DEF PagesInv, Pages
<1>3. /\ b \in Pages /\ b.visible = pages.visible
      /\ b.animation = [pages.animation EXCEPT ![tab] = "none"]
      /\ b.next = [pages.next EXCEPT ![tab] = NoTab]
      /\ b.identifierLabel = pages.identifierLabel
  BY <1>2, Cancelled
<1>4. /\ c \in Pages /\ c.visible = b.visible
      /\ c.animation = [b.animation EXCEPT ![o] = "none"]
      /\ c.next = [b.next EXCEPT ![o] = NoTab]
      /\ c.identifierLabel = b.identifierLabel
  BY <1>1, <1>3, Cancelled
<1>5. pages' = [f EXCEPT !.identifierLabel = (tab = "SETTINGS" /\ @)]
  BY DEF Clicked, Faded, FadeOutIn
<1> HIDE DEF b, c
<1>6. OneComesNext(c)
  BY <1>1, <1>2, <1>3, <1>4 DEF OneComesNext
<1>7. /\ f \in Pages /\ OneComesNext(f) /\ f.visible # {}
      /\ Fading(c, o, tab, f) \/ Followed(c, o, tab, f)
  BY <1>1, <1>4, <1>6, FadesOut
<1> HIDE DEF f
<1>8. /\ pages' \in Pages /\ pages'.visible = f.visible /\ pages'.animation = f.animation
      /\ pages'.next = f.next
  BY <1>5, <1>7 DEF Pages
<1>9. pages'.identifierLabel = (tab = "SETTINGS" /\ f.identifierLabel)
  BY <1>5, <1>7 DEF Pages
<1>10. OneComesNext(pages') /\ NeverEmpty'
  BY <1>7, <1>8 DEF OneComesNext, NeverEmpty
<1>11. ASSUME ~hasty' PROVE AtRest' \/ FadesAway' \/ Appears'
  <2>1. ~hasty /\ Settled
    BY <1>11 DEF Clicked, Switches
  <2>2. AtRest
    BY <1>1, <2>1 DEF PagesInv, OneAtATime, FadesAway, Appears, Settled, Animating
  <2>3. /\ \A t \in Tabs : c.animation[t] = "none"
        /\ c.visible = {o} /\ c.identifierLabel = (o = "SETTINGS")
        /\ c.animation \in [Tabs -> {"none", "fadeOut", "fadeIn"}]
        /\ c.next \in [Tabs -> Tabs \cup {NoTab}]
    BY <1>2, <1>3, <1>4, <2>2 DEF AtRest, Pages
  <2>4. CASE Fading(c, o, tab, f)
    <3>1. /\ \A t \in Tabs : pages'.animation[t] = IF t = o THEN "fadeOut" ELSE "none"
          /\ pages'.next[o] = tab /\ pages'.visible = {o}
      BY <1>1, <1>8, <2>3, <2>4 DEF Fading
    <3>2. ~pages'.identifierLabel
      BY <1>1, <1>9, <2>3, <2>4 DEF Fading
    <3> QED
      BY <1>1, <3>1, <3>2 DEF FadesAway
  <2>5. CASE Followed(c, o, tab, f)
    <3>1. /\ \A t \in Tabs : pages'.animation[t] = IF t = tab THEN "fadeIn" ELSE "none"
          /\ pages'.visible = {tab}
      BY <1>1, <1>8, <2>3, <2>5 DEF Followed
    <3>2. ~pages'.identifierLabel
      BY <1>1, <1>9, <2>3, <2>5 DEF Followed
    <3> QED
      BY <1>1, <3>1, <3>2 DEF Appears
  <2> QED
    BY <1>7, <2>4, <2>5
<1> QED
  BY <1>8, <1>10, <1>11 DEF PagesInv, OneAtATime

(* A switch without an animation. *)
LEMMA ShowIsAtOnce ==
  ASSUME AppTypeOK, PagesInv, NEW tab \in Tabs, Switches(tab), pages' = ShownAtOnce(tab)
  PROVE  PagesInv'
<1>1. pages \in Pages /\ m_currentTab' = tab
  BY DEF PagesInv, Switches, SwitchTab
<1>2. pages' = [pages EXCEPT !.visible = {tab}, !.identifierLabel = (tab = "SETTINGS")]
  BY DEF ShownAtOnce
<1> DEFINE label == tab = "SETTINGS"
           alone == {tab}
<1>3. /\ label \in BOOLEAN /\ alone \in SUBSET Tabs
      /\ pages' = [pages EXCEPT !.visible = alone, !.identifierLabel = label]
  BY <1>2
<1> HIDE DEF label, alone
<1>4. /\ pages' \in Pages /\ pages'.visible = alone /\ pages'.animation = pages.animation
      /\ pages'.next = pages.next /\ pages'.identifierLabel = label
  BY <1>1, <1>3 DEF Pages
<1>5. pages'.visible = {tab}
  BY <1>4 DEF alone
<1>6. pages'.identifierLabel = (tab = "SETTINGS")
  BY <1>4 DEF label
<1>7. ASSUME ~hasty' PROVE AtRest'
  <2>1. Settled
    BY <1>7 DEF Switches
  <2> QED
    BY <1>1, <1>4, <1>5, <1>6, <2>1 DEF AtRest, Settled, Animating
<1> QED
  BY <1>4, <1>5, <1>7 DEF PagesInv, OneComesNext, NeverEmpty, OneAtATime

(* The end of a fade-out: the tab is hidden, and the one that comes next appears. *)
LEMMA FadeOutGivesWay ==
  ASSUME AppTypeOK, PagesInv, NEW t \in Tabs, FadeOutFinished(t)
  PROVE  PagesInv'
<1> DEFINE c == CancelAnimation(pages, t)
           h == Hide(c, t)
           z == [h EXCEPT !.opacity[t] = "zero"]
           n == pages.next[t]
<1>1. /\ pages \in Pages /\ OneComesNext(pages) /\ pages.animation[t] = "fadeOut"
      /\ n \in Tabs
      /\ pages.animation \in [Tabs -> {"none", "fadeOut", "fadeIn"}]
  BY DEF PagesInv, Pages, FadeOutFinished, OneComesNext
<1>2. /\ c \in Pages /\ c.visible = pages.visible
      /\ c.animation = [pages.animation EXCEPT ![t] = "none"]
      /\ c.next = [pages.next EXCEPT ![t] = NoTab]
      /\ c.identifierLabel = pages.identifierLabel
  BY <1>1, Cancelled
<1> HIDE DEF c
<1>3. /\ h \in Pages /\ h.visible = c.visible \ {t} /\ h.animation = c.animation
      /\ h.next = c.next /\ h.identifierLabel = c.identifierLabel
  BY <1>2, Hidden
<1> HIDE DEF h
<1>4. /\ z \in Pages /\ z.visible = h.visible /\ z.animation = h.animation
      /\ z.next = h.next /\ z.identifierLabel = h.identifierLabel
  BY <1>3 DEF Pages
<1>5. pages' = FadeIn(z, n)
  BY DEF FadeOutFinished, z, h, c
<1> HIDE DEF z
<1>6. OneComesNext(z)
  <2>1. pages.next \in [Tabs -> Tabs \cup {NoTab}]
    BY <1>1 DEF Pages
  <2> QED
    BY <1>1, <1>2, <1>3, <1>4, <2>1 DEF OneComesNext
<1> HIDE DEF n
<1>7. /\ pages' \in Pages /\ OneComesNext(pages')
      /\ pages'.visible = z.visible \cup {n}
      /\ n \notin z.visible =>
           /\ pages'.animation = [z.animation EXCEPT ![n] = "fadeIn"]
           /\ pages'.identifierLabel = z.identifierLabel
  BY <1>1, <1>4, <1>5, <1>6, FadesIn
<1>8. ASSUME ~hasty' PROVE Appears'
  <2>1. ~hasty /\ m_currentTab' = m_currentTab
    BY <1>8 DEF FadeOutFinished, appVars
  <2>2. FadesAway
    BY <1>1, <2>1 DEF PagesInv, OneAtATime, AtRest, Appears
  <2>3. /\ \A u \in Tabs \ {t} : pages.animation[u] = "none"
        /\ n = m_currentTab /\ pages.visible = {t} /\ ~pages.identifierLabel
    BY <1>1, <2>2 DEF FadesAway, n
  <2>4. z.visible = {} /\ z.animation = [u \in Tabs |-> "none"]
    BY <1>1, <1>2, <1>3, <1>4, <2>3
  <2>5. ~pages'.identifierLabel
    BY <1>2, <1>3, <1>4, <1>7, <2>3, <2>4
  <2> QED
    BY <1>1, <1>7, <2>1, <2>3, <2>4, <2>5 DEF Appears
<1> QED
  BY <1>7, <1>8 DEF PagesInv, NeverEmpty, OneAtATime

(* The end of a fade-in: the tab is there, with the label if it is the settings. *)
LEMMA FadeInSettles ==
  ASSUME AppTypeOK, PagesInv, NEW t \in Tabs, FadeInFinished(t)
  PROVE  PagesInv'
<1> DEFINE c == CancelAnimation(pages, t)
           m == [c EXCEPT !.opacity[t] = "max"]
<1>1. /\ pages \in Pages /\ OneComesNext(pages) /\ pages.animation[t] = "fadeIn"
      /\ pages.animation \in [Tabs -> {"none", "fadeOut", "fadeIn"}]
      /\ pages.next \in [Tabs -> Tabs \cup {NoTab}]
  BY DEF PagesInv, Pages, FadeInFinished
<1>2. /\ c \in Pages /\ c.visible = pages.visible
      /\ c.animation = [pages.animation EXCEPT ![t] = "none"]
      /\ c.next = [pages.next EXCEPT ![t] = NoTab]
      /\ c.identifierLabel = pages.identifierLabel
  BY <1>1, Cancelled
<1> HIDE DEF c
<1>3. /\ m \in Pages /\ m.visible = c.visible /\ m.animation = c.animation
      /\ m.next = c.next /\ m.identifierLabel = c.identifierLabel
  BY <1>2 DEF Pages
<1>4. pages' = Done(m, t)
  BY DEF FadeInFinished, m, c
<1> HIDE DEF m
<1>5. /\ pages' \in Pages /\ pages'.visible = m.visible /\ pages'.animation = m.animation
      /\ pages'.next = m.next /\ pages'.identifierLabel = (t = "SETTINGS" \/ m.identifierLabel)
  BY <1>3, <1>4, IsDone
<1>6. OneComesNext(pages')
  BY <1>1, <1>2, <1>3, <1>5 DEF OneComesNext
<1>7. ASSUME ~hasty' PROVE AtRest'
  <2>1. ~hasty /\ m_currentTab' = m_currentTab
    BY <1>7 DEF FadeInFinished, appVars
  <2>2. Appears
    BY <1>1, <2>1 DEF PagesInv, OneAtATime, AtRest, FadesAway
  <2>3. t = m_currentTab
    BY <1>1, <2>2 DEF Appears
  <2>4. (\A u \in Tabs : pages'.animation[u] = "none") /\ pages'.visible = {t}
    BY <1>1, <1>2, <1>3, <1>5, <2>2, <2>3 DEF Appears
  <2>5. pages'.identifierLabel = (t = "SETTINGS")
    BY <1>2, <1>3, <1>5, <2>2 DEF Appears
  <2> QED
    BY <2>1, <2>3, <2>4, <2>5 DEF AtRest
<1> QED
  BY <1>2, <1>3, <1>5, <1>6, <1>7 DEF PagesInv, NeverEmpty, OneAtATime

(* PagesInv, step by step. *)
LEMMA NextPages == AppTypeOK /\ PagesInv /\ [Next]_vars => PagesInv'
<1> SUFFICES ASSUME AppTypeOK, PagesInv, [Next]_vars PROVE PagesInv'
  OBVIOUS
<1>1. CASE VROverlayShown \/ VRNotificationOpened
  <2>1. \E tab \in Tabs : Switches(tab) /\ pages' = ShownAtOnce(tab)
    BY <1>1 DEF VROverlayShown, VRNotificationOpened, Tabs
  <2> QED
    BY <2>1, ShowIsAtOnce
<1>2. CASE ServerChanges \/ UNCHANGED vars
  <2>1. UNCHANGED <<m_currentTab, pages, hasty>>
    BY <1>2 DEF ServerChanges, vars, appVars
  <2> QED
    BY <2>1 DEF PagesInv, OneComesNext, NeverEmpty, OneAtATime, AtRest, FadesAway, Appears
<1>3. ASSUME NEW t \in Tabs, AnimationRuns(t) PROVE PagesInv'
  <2>1. /\ pages \in Pages /\ pages' = [pages EXCEPT !.opacity[t] = "part"]
        /\ UNCHANGED <<m_currentTab, hasty>>
    BY <1>3 DEF AnimationRuns, PagesInv, appVars
  <2>2. /\ pages' \in Pages /\ pages'.visible = pages.visible
        /\ pages'.animation = pages.animation /\ pages'.next = pages.next
        /\ pages'.identifierLabel = pages.identifierLabel
    BY <2>1 DEF Pages
  <2> QED
    BY <2>1, <2>2
       DEF PagesInv, OneComesNext, NeverEmpty, OneAtATime, AtRest, FadesAway, Appears
<1> QED
  BY <1>1, <1>2, <1>3, ClickIsFade, FadeOutGivesWay, FadeInSettles DEF Next

(* PagesInv holds when the window comes up. *)
LEMMA InitPages == Init => AppTypeOK /\ PagesInv
<1> SUFFICES ASSUME Init PROVE AppTypeOK /\ PagesInv
  OBVIOUS
<1>1. AppTypeOK
  BY DEF Init, AppInit, AppTypeOK, ServerStates, Tabs
<1>2. pages \in Pages /\ pages.visible = {"SETTINGS"} /\ pages.identifierLabel = TRUE
        /\ \A t \in Tabs : pages.animation[t] = "none"
  BY DEF Init, Pages, Tabs
<1> QED
  BY <1>1, <1>2 DEF Init, AppInit, PagesInv, OneComesNext, NeverEmpty, OneAtATime, AtRest

(* MainWidget's types and PagesInv hold in every state. *)
LEMMA PagesAreKept == SafeSpec => [](AppTypeOK /\ PagesInv)
<1>1. AppTypeOK /\ PagesInv /\ [Next]_vars => (AppTypeOK /\ PagesInv)'
  BY NextApp, NextIsMainWidget, NextPages
<1> QED
  BY <1>1, InitPages, PTL DEF SafeSpec

(* Types: every animation, opacity and callback is of one of the four tabs. *)
THEOREM TypesAreKept == SafeSpec => []TypeOK
<1>1. Init => hasty \in BOOLEAN
  BY DEF Init
<1>2. hasty \in BOOLEAN /\ [Next]_vars => (hasty \in BOOLEAN)'
  BY Zenon DEF Next, vars, Clicked, VROverlayShown, VRNotificationOpened, Switches,
               ServerChanges, AnimationRuns, FadeOutFinished, FadeInFinished
<1>3. AppTypeOK /\ PagesInv /\ hasty \in BOOLEAN => TypeOK
  BY DEF PagesInv, Pages, TypeOK
<1> QED
  BY <1>1, <1>2, <1>3, PagesAreKept, PTL DEF SafeSpec

(* There is always a tab to see, even after hasty switches that cancel animations. *)
THEOREM SomethingIsShown == SafeSpec => []NeverEmpty
<1>1. PagesInv => NeverEmpty
  BY DEF PagesInv
<1> QED
  BY <1>1, PagesAreKept, PTL

(* Without such a switch the current tab stands alone once the animations are over. *)
THEOREM CurrentTabStandsAlone == SafeSpec => []CurrentAlone
<1>1. PagesInv /\ AppTypeOK => CurrentAlone
  <2>1. ASSUME AppTypeOK, Settled PROVE ~FadesAway /\ ~Appears
    BY <2>1 DEF AppTypeOK, Settled, Animating, FadesAway, Appears
  <2> QED
    BY <2>1 DEF PagesInv, OneAtATime, AtRest, CurrentAlone
<1> QED
  BY <1>1, PagesAreKept, PTL

=============================================================================
