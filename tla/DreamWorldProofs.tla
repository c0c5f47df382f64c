-------------------------- MODULE DreamWorldProofs --------------------------
(***************************************************************************)
(* Theorems about DreamWorld, for any number of projects and whatever      *)
(* happens in whatever order.                                              *)
(***************************************************************************)
EXTENDS DreamWorld, TLAPS

\* The steps by what they change: the canvas and the browser ...
BootStep == CanvasLoads \/ MobileChanges \/ syncMedia
ContextStep == onVisibilityChange \/ onContextLost \/ onContextRestored \/ RestoreFrame
DrawStep == resize \/ Nudge
\* ... the street ...
StreetStep == SyncFrame \/ ReleaseLoader
WayStep ==
  \/ Scrolling \/ Wheel \/ \E scene \in Projects \cup {Contact} : Navigate(scene)
  \/ \E forward \in BOOLEAN : Turn(forward)
LoopStep == handleExitLoop \/ LoopTimer \/ RevealTimer
\* ... and the dialog.
DialogStep ==
  \/ \E p \in Projects : FocusButton(p) \/ openProject(p) \/ OpenFrame(p) \/ restoreDialogFocus(p)
  \/ closeProject \/ CloseTimer \/ followDialogLink \/ FollowTimer

\* A step belongs to one part of the page, or nothing happens.
LEMMA StepCases ==
  ASSUME [Next]_vars
  PROVE  \/ BootStep \/ ContextStep \/ DrawStep \/ StreetStep \/ WayStep \/ LoopStep
         \/ DialogStep \/ UNCHANGED vars
BY DEF Next, BootStep, ContextStep, DrawStep, StreetStep, WayStep, LoopStep, DialogStep

-----------------------------------------------------------------------------
(* The canvas *)

GlType ==
  /\ media \in BOOLEAN /\ hidden \in BOOLEAN /\ context \in BOOLEAN
  /\ gl \in [loaded : BOOLEAN, live : BOOLEAN, avail : BOOLEAN, visible : BOOLEAN,
             reduced : BOOLEAN, frame : BOOLEAN, still : BOOLEAN, restore : BOOLEAN,
             relost : BOOLEAN, host : {"poster", "ready", "fallback"}]

\* A visible scene has a context, or had it when its frame was asked for; a scene knows
\* of its context and of the media query.
CanvasInv ==
  /\ GlType
  /\ gl.live => gl.loaded /\ gl.reduced = media /\ (gl.avail <=> context)
  /\ gl.visible => gl.live /\ ~hidden /\ (context \/ gl.relost)
  /\ gl.frame => gl.visible /\ ~gl.reduced
  /\ gl.visible /\ ~gl.reduced => gl.frame \/ gl.still
  /\ gl.restore => context \/ gl.relost
  /\ gl.host = "ready" => gl.live /\ (context \/ gl.relost)
  /\ gl.host = "ready" /\ ~hidden /\ context => gl.visible \/ gl.restore

\* The strengthened invariant contains the property.
LEMMA CanvasInvHonest == CanvasInv => CanvasHonest
BY DEF CanvasInv, GlType, CanvasHonest

\* Asking for a frame, or drawing one at once, keeps the canvas honest.
LEMMA CanvasDraws ==
  ASSUME CanvasInv, gl' \in {gl, requestRender(gl), renderNow(gl)}, UNCHANGED browser
  PROVE  CanvasInv'
BY DEF CanvasInv, GlType, requestRender, renderNow, browser

\* Starting over, which drops the controller, keeps the canvas honest.
LEMMA CanvasBoots ==
  ASSUME CanvasInv, boot(media'), media' \in BOOLEAN, UNCHANGED <<hidden, context>>
  PROVE  CanvasInv'
BY DEF CanvasInv, GlType, boot

\* Every step of the page keeps what is known of the canvas.
LEMMA CanvasStep == CanvasInv /\ [Next]_vars => CanvasInv'
<1> SUFFICES ASSUME CanvasInv, [Next]_vars
             PROVE  CanvasInv'
  OBVIOUS
<1>1. CASE BootStep
  <2>1. CASE CanvasLoads \/ MobileChanges
    BY <2>1, CanvasBoots DEF CanvasLoads, MobileChanges, browser, CanvasInv, GlType
  <2>2. CASE syncMedia /\ gl.loaded
    BY <2>2, CanvasBoots DEF syncMedia, CanvasInv, GlType
  <2>3. CASE syncMedia /\ ~gl.loaded
    BY <2>3 DEF syncMedia, CanvasInv, GlType
  <2>4. QED
    BY <1>1, <2>1, <2>2, <2>3 DEF BootStep
<1>2. CASE onVisibilityChange
  BY <1>2 DEF onVisibilityChange, setVisible, CanvasInv, GlType
<1>3. CASE onContextLost
  BY <1>3 DEF onContextLost, setVisible, CanvasInv, GlType
<1>4. CASE onContextRestored
  BY <1>4 DEF onContextRestored, CanvasInv, GlType
<1>5. CASE RestoreFrame
  BY <1>5 DEF RestoreFrame, setVisible, renderNow, CanvasInv, GlType, browser
<1>6. CASE DrawStep
  BY <1>6, CanvasDraws DEF DrawStep, resize, Nudge
<1>7. CASE StreetStep
  BY <1>7, CanvasDraws DEF StreetStep, SyncFrame, ReleaseLoader
<1>8. CASE WayStep
  BY <1>8, CanvasDraws
     DEF WayStep, Scrolling, Wheel, Navigate, Turn, scrollToScene, scroll, At, OnlyWay
<1>9. CASE LoopStep
  BY <1>9, CanvasDraws DEF LoopStep, handleExitLoop, LoopTimer, RevealTimer, At, OnlyLoop
<1>10. CASE DialogStep
  BY <1>10, CanvasDraws
     DEF DialogStep, FocusButton, openProject, OpenFrame, restoreDialogFocus, closeProject,
         CloseTimer, followDialogLink, FollowTimer, scroll, At, OnlyDialog
<1>11. CASE UNCHANGED vars
  BY <1>11, CanvasDraws DEF vars
<1>12. QED
  BY <1>1, <1>2, <1>3, <1>4, <1>5, <1>6, <1>7, <1>8, <1>9, <1>10, <1>11, StepCases DEF ContextStep

\* The canvas never covers the poster without something to show, never draws in a hidden tab,
\* in reduced motion or without a context but for the frame that was asked for before, and
\* does not stop while it is seen (DreamCanvas.tsx, dreamScene.ts).
THEOREM CanvasIsHonest == Spec => []CanvasHonest
<1>1. Init => CanvasInv
  BY DEF Init, CanvasInv, GlType
<1>2. QED
  BY <1>1, CanvasStep, CanvasInvHonest, PTL DEF Spec

-----------------------------------------------------------------------------
(* The street and its dialogs *)

StreetType ==
  /\ street \in [reduced : BOOLEAN, synced : BOOLEAN, loading : BOOLEAN]
  /\ looping \in {"no", "closing", "revealing"}
  /\ following \subseteq BOOLEAN
  /\ active \in Home .. Contact
  /\ goal \in Projects \cup {Contact, None}
  /\ events \in 0 .. MaxEvents

DialogType ==
  /\ dialog \in [project : Projects, phase : {"opening", "open", "closing"}] \cup {NoDialog}
  /\ opening \subseteq Projects /\ refocus \subseteq Projects
  /\ timer \in Projects \cup {None} /\ focus \in Projects \cup {None}

\* The types, split by the part of the page they speak of.
LEMMA TypeParts == TypeOK <=> GlType /\ StreetType /\ DialogType
BY DEF TypeOK, GlType, StreetType, DialogType

\* The scenes and projects are numbers from the home scene to the contact scene.
LEMMA Scenes ==
  /\ Places \in Nat /\ Places > 0 /\ MaxEvents \in Nat
  /\ Projects \subseteq Home .. Contact /\ Contact \in Home .. Contact /\ Home \in Home .. Contact
  /\ None \notin Projects
BY DreamAssumption DEF Projects, Home, Contact, None

\* Scrolling, navigation and the exit keep to scenes that exist.
LEMMA StreetTypeStep ==
  ASSUME CanvasInv, StreetType, [Next]_vars
  PROVE  StreetType'
<1> USE Scenes DEF StreetType, Event
<1>1. CASE BootStep
  <2>1. CASE CanvasLoads \/ MobileChanges
    <3>1. UNCHANGED <<street, wayVars>> /\ events' \in 0 .. MaxEvents
      BY <2>1 DEF CanvasLoads, MobileChanges, OnlyCanvas
    <3>2. QED
      BY <3>1 DEF wayVars
  <2>2. CASE syncMedia
    <3>1. media' \in BOOLEAN /\ events' \in 0 .. MaxEvents
      BY <2>2 DEF syncMedia, CanvasInv, GlType
    <3>2. QED
      BY <2>2, <3>1 DEF syncMedia
  <2>3. QED
    BY <1>1, <2>1, <2>2 DEF BootStep
<1>2. CASE ContextStep \/ DrawStep
  BY <1>2 DEF ContextStep, onVisibilityChange, onContextLost, onContextRestored, RestoreFrame,
     DrawStep, resize, Nudge, OnlyCanvas, wayVars
<1>3. CASE StreetStep
  BY <1>3 DEF StreetStep, SyncFrame, ReleaseLoader, wayVars, CanvasInv, GlType
<1>4. CASE WayStep
  <2>1. CASE Scrolling
    BY <2>1 DEF Scrolling, At, OnlyWay, Home, Contact, Projects, None
  <2>2. CASE Wheel
    BY <2>2 DEF Wheel, At, OnlyWay
  <2>3. ASSUME NEW scene \in Projects \cup {Contact}, Navigate(scene)
        PROVE  StreetType'
    BY <2>3 DEF Navigate, scrollToScene, scroll, At, OnlyWay
  <2>4. ASSUME NEW forward \in BOOLEAN, Turn(forward)
        PROVE  StreetType'
    <3>1. directoryIndex \in Projects
      BY DEF directoryIndex, Projects
    <3>2. PICK scene \in Projects : scrollToScene(scene)
      BY <2>4, <3>1 DEF Turn, Projects
    <3>3. QED
      BY <2>4, <3>2 DEF Turn, scrollToScene, scroll, At, OnlyWay
  <2>5. QED
    BY <1>4, <2>1, <2>2, <2>3, <2>4 DEF WayStep
<1>5. CASE LoopStep
  <2>1. CASE handleExitLoop
    <3>1. looping' = "closing" /\ UNCHANGED <<street, following, active, goal>>
      BY <2>1 DEF handleExitLoop, OnlyLoop
    <3>2. events' \in 0 .. MaxEvents
      BY <2>1 DEF handleExitLoop
    <3>3. QED
      BY <3>1, <3>2
  <2>2. CASE LoopTimer
    <3>1. looping' = "revealing" /\ active' = Home /\ goal' = None /\ UNCHANGED <<street, following, events>>
      BY <2>2 DEF LoopTimer, At, OnlyLoop
    <3>2. QED
      BY <3>1
  <2>3. CASE RevealTimer
    BY <2>3 DEF RevealTimer, OnlyLoop
  <2>4. QED
    BY <1>5, <2>1, <2>2, <2>3 DEF LoopStep
<1>6. CASE DialogStep
  <2>1. ASSUME NEW p \in Projects,
               FocusButton(p) \/ openProject(p) \/ OpenFrame(p) \/ restoreDialogFocus(p)
        PROVE  StreetType'
    BY <2>1 DEF FocusButton, openProject, OpenFrame, restoreDialogFocus, OnlyDialog, wayVars
  <2>2. CASE closeProject \/ CloseTimer
    BY <2>2 DEF closeProject, CloseTimer, OnlyDialog, wayVars
  <2>3. CASE followDialogLink
    BY <2>3 DEF followDialogLink, OnlyDialog
  <2>4. CASE FollowTimer
    BY <2>4 DEF FollowTimer, scroll, At
  <2>5. QED
    BY <1>6, <2>1, <2>2, <2>3, <2>4 DEF DialogStep
<1>7. CASE UNCHANGED vars
  BY <1>7 DEF vars, wayVars
<1>8. QED
  BY <1>1, <1>2, <1>3, <1>4, <1>5, <1>6, <1>7, StepCases

DialogInv == DialogType /\ DialogHoldsItsOwn

\* What leaves the dialog and its timers alone keeps what is known of them.
LEMMA DialogStays ==
  ASSUME DialogInv, UNCHANGED dialogVars
  PROVE  DialogInv'
BY DEF DialogInv, DialogType, DialogHoldsItsOwn, dialogVars, Shell

\* Every step keeps a dialog and its timer together.
LEMMA DialogInvStep == DialogInv /\ [Next]_vars => DialogInv'
<1> SUFFICES ASSUME DialogInv, [Next]_vars
             PROVE  DialogInv'
  OBVIOUS
<1> USE Scenes DEF DialogInv, DialogType, DialogHoldsItsOwn, Shell, NoDialog, None
<1>1. ASSUME NEW p \in Projects,
             FocusButton(p) \/ openProject(p) \/ OpenFrame(p) \/ restoreDialogFocus(p)
      PROVE  DialogInv'
  <2>1. CASE FocusButton(p) \/ restoreDialogFocus(p)
    BY <2>1 DEF FocusButton, restoreDialogFocus
  <2>2. CASE openProject(p)
    BY <2>2 DEF openProject, FocusInside
  <2>3. CASE OpenFrame(p)
    BY <2>3 DEF OpenFrame
  <2>4. QED
    BY <1>1, <2>1, <2>2, <2>3
<1>2. CASE closeProject
  BY <1>2 DEF closeProject
<1>3. CASE CloseTimer
  BY <1>3 DEF CloseTimer
<1>4. CASE followDialogLink
  BY <1>4 DEF followDialogLink
<1>5. CASE BootStep \/ ContextStep \/ DrawStep \/ FollowTimer
  BY <1>5, DialogStays
     DEF FollowTimer, BootStep, CanvasLoads, MobileChanges, syncMedia, ContextStep, onVisibilityChange,
         onContextLost, onContextRestored, RestoreFrame, DrawStep, resize, Nudge, OnlyCanvas
<1>6. CASE StreetStep \/ WayStep \/ LoopStep
  BY <1>6, DialogStays
     DEF StreetStep, SyncFrame, ReleaseLoader, WayStep, Scrolling, Wheel, Navigate, Turn,
         LoopStep, handleExitLoop, LoopTimer, RevealTimer, OnlyLoop
<1>7. CASE UNCHANGED vars
  BY <1>7, DialogStays DEF vars
<1>8. QED
  BY <1>1, <1>2, <1>3, <1>4, <1>5, <1>6, <1>7, StepCases DEF DialogStep

\* The page begins with all of it.
LEMMA InitInv == Init => CanvasInv /\ StreetType /\ DialogInv
BY Scenes
   DEF Init, CanvasInv, GlType, StreetType, DialogInv, DialogType, DialogHoldsItsOwn, Shell,
       NoDialog, None, Home

\* Every variable keeps its type: no scene beyond the ends of the street is gone to.
THEOREM TypeCorrect == Spec => []TypeOK
<1>1. CanvasInv /\ StreetType /\ DialogInv => TypeOK
  BY TypeParts DEF CanvasInv, DialogInv
<1>2. CanvasInv /\ StreetType /\ DialogInv /\ [Next]_vars => (CanvasInv /\ StreetType /\ DialogInv)'
  BY CanvasStep, StreetTypeStep, DialogInvStep
<1>3. QED
  BY <1>1, <1>2, InitInv, PTL DEF Spec

\* However dialogs follow each other, a timer closes only the dialog it was set for, and the
\* focus does not go behind a dialog (DreamPortfolio.tsx).
THEOREM DialogsAreSeparate == Spec => []DialogHoldsItsOwn
<1>1. DialogInv => DialogHoldsItsOwn
  BY DEF DialogInv
<1>2. QED
  BY <1>1, DialogInvStep, InitInv, PTL DEF Spec
=============================================================================
