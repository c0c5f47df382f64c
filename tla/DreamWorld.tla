----------------------------- MODULE DreamWorld -----------------------------
(***************************************************************************)
(* The landing page: a street of places (DreamPortfolio.tsx) in front of a *)
(* drawn world (DreamWorld.tsx, DreamCanvas.tsx, dreamScene.ts).  What     *)
(* happens when timers, animation frames, the visitor, the media query and *)
(* the WebGL context do not wait for each other.  What is drawn, copy and  *)
(* layout are left out.                                                    *)
(***************************************************************************)
EXTENDS Naturals

CONSTANTS Places,     \* number of projects along the street
          Linked,     \* those whose link leads to the contact section
          MaxEvents   \* bound: what the visitor and the browser do

ASSUME DreamAssumption ==
  Places \in Nat \ {0} /\ Linked \subseteq 1 .. Places /\ MaxEvents \in Nat

Projects == 1 .. Places
Home == 0
About == Places + 1
Contact == Places + 2
None == 0

VARIABLES
  media,     \* the visitor prefers reduced motion
  hidden,    \* the tab is hidden; no animation frame comes
  context,   \* the canvas has its WebGL context
  gl,        \* DreamCanvas and the controller of dreamScene.ts
  street,    \* reducedMotion of DreamPortfolio, and its loader
  dialog,    \* dialogState
  opening,   \* projects whose dialog has an animation frame to come, that opens it
  timer,     \* closeTimerRef: the project whose dialog the timer will close
  focus,     \* the project whose button has the focus
  refocus,   \* frames of restoreDialogFocus
  looping,   \* the way back from the exit: "no", "closing" or "revealing"
  following, \* timers of followDialogLink, by whether the visitor preferred reduced motion
  active,    \* activeScene
  goal,      \* the scene that Lenis scrolls to
  events     \* bound counter

browser == <<media, hidden, context>>
dialogVars == <<dialog, opening, timer, focus, refocus>>
wayVars == <<looping, following, active, goal>>
vars == <<browser, gl, street, dialogVars, wayVars, events>>

NoDialog == [project |-> None, phase |-> "none"]

TypeOK ==
  /\ media \in BOOLEAN /\ hidden \in BOOLEAN /\ context \in BOOLEAN
  /\ gl \in [loaded : BOOLEAN, live : BOOLEAN, avail : BOOLEAN, visible : BOOLEAN,
             reduced : BOOLEAN, frame : BOOLEAN, still : BOOLEAN, restore : BOOLEAN,
             relost : BOOLEAN, host : {"poster", "ready", "fallback"}]
  /\ street \in [reduced : BOOLEAN, synced : BOOLEAN, loading : BOOLEAN]
  /\ dialog \in [project : Projects, phase : {"opening", "open", "closing"}] \cup {NoDialog}
  /\ opening \subseteq Projects /\ refocus \subseteq Projects
  /\ timer \in Projects \cup {None} /\ focus \in Projects \cup {None}
  /\ looping \in {"no", "closing", "revealing"}
  /\ following \subseteq BOOLEAN
  /\ active \in Home .. Contact
  /\ goal \in Projects \cup {Contact, None}
  /\ events \in 0 .. MaxEvents

Init ==
  /\ media \in BOOLEAN /\ hidden \in BOOLEAN /\ context = TRUE
  /\ gl = [loaded |-> FALSE, live |-> FALSE, avail |-> TRUE, visible |-> FALSE,
           reduced |-> FALSE, frame |-> FALSE, still |-> FALSE, restore |-> FALSE,
           relost |-> FALSE, host |-> "poster"]
  /\ street = [reduced |-> FALSE, synced |-> FALSE, loading |-> TRUE]
  /\ dialog = NoDialog /\ opening = {} /\ timer = None
  /\ focus = None /\ refocus = {}
  /\ looping = "no" /\ following = {} /\ active = Home /\ goal = None
  /\ events = 0

Event == events < MaxEvents /\ events' = events + 1

-----------------------------------------------------------------------------
(* The controller of the scene.  `frame' stands for the whole loop: renderFrame *)
(* asks for the next frame.  `still' notes that renderNow stopped the loop.     *)

requestRender(g) ==
  IF g.live /\ g.visible /\ ~g.reduced THEN [g EXCEPT !.frame = TRUE, !.still = FALSE] ELSE g

\* Cancels the frame, draws, and asks for none.
renderNow(g) ==
  IF g.live THEN [g EXCEPT !.frame = FALSE, !.still = g.visible /\ ~g.reduced] ELSE g

\* Mutant: a lost context leaves the scene visible.
SetShown(g, v) ==
  IF g.live THEN [g EXCEPT !.visible = ~hidden, !.frame = ~hidden /\ ~g.reduced,
                           !.still = FALSE] ELSE g

setVisible(g, v) ==
  IF g.live THEN [g EXCEPT !.visible = v, !.frame = v /\ ~g.reduced, !.still = FALSE] ELSE g

-----------------------------------------------------------------------------
(* DreamCanvas *)

OnlyCanvas == UNCHANGED <<street, dialogVars, wayVars>>

\* Cleanup and boot of the effect with the media as they are then.  A scene cannot be
\* created without a context, and may fail with one.
boot(reduced) ==
  \E ok \in BOOLEAN :
    /\ ok => context
    /\ gl' = [loaded |-> TRUE, live |-> ok, avail |-> TRUE, visible |-> ok /\ ~hidden,
              reduced |-> reduced, frame |-> ok /\ ~hidden /\ ~reduced, still |-> FALSE,
              restore |-> FALSE, relost |-> FALSE, host |-> IF ok THEN "ready" ELSE "fallback"]

CanvasLoads ==
  /\ ~gl.loaded
  /\ boot(media)
  /\ OnlyCanvas
  /\ UNCHANGED <<browser, events>>

MobileChanges ==
  /\ Event /\ gl.loaded
  /\ boot(media)
  /\ OnlyCanvas
  /\ UNCHANGED browser

onVisibilityChange ==
  /\ Event
  /\ hidden' = ~hidden
  /\ gl' = setVisible(gl, ~hidden' /\ gl.avail)
  /\ OnlyCanvas
  /\ UNCHANGED <<media, context>>

\* A frame that is to show a restored canvas is not cancelled.
onContextLost ==
  /\ Event /\ gl.loaded /\ context
  /\ context' = FALSE
  /\ gl' = [setVisible(gl, FALSE) EXCEPT !.avail = FALSE, !.host = "fallback",
                                         !.relost = gl.restore]
  /\ OnlyCanvas
  /\ UNCHANGED <<media, hidden>>

onContextRestored ==
  /\ ~context
  /\ context' = TRUE
  /\ gl' = [gl EXCEPT !.avail = TRUE, !.restore = TRUE]
  /\ OnlyCanvas
  /\ UNCHANGED <<media, hidden, events>>

\* The canvas is shown again, and drawn once.
RestoreFrame ==
  /\ gl.restore /\ ~hidden
  /\ gl' = IF gl.live
             THEN [renderNow(setVisible(gl, TRUE)) EXCEPT !.restore = FALSE, !.host = "ready"]
             ELSE [gl EXCEPT !.restore = FALSE]
  /\ OnlyCanvas
  /\ UNCHANGED <<browser, events>>

resize ==
  /\ gl' = renderNow(gl)
  /\ OnlyCanvas
  /\ UNCHANGED <<browser, events>>

\* The pointer, a door, or the idle timer.
Nudge ==
  /\ gl' = requestRender(gl)
  /\ OnlyCanvas
  /\ UNCHANGED <<browser, events>>

-----------------------------------------------------------------------------
(* DreamPortfolio: motion, loader, scrolling *)

\* Both components listen to the media query.  Without Lenis its scrolling ends.
syncMedia ==
  /\ Event
  /\ media' = ~media
  /\ IF gl.loaded THEN boot(media') ELSE UNCHANGED gl
  /\ street' = [street EXCEPT !.reduced = media']
  /\ goal' = IF media' THEN None ELSE goal
  /\ UNCHANGED <<hidden, context, dialogVars, looping, following, active>>

\* The street looks at the query in its first frame, the world at once.
SyncFrame ==
  /\ ~street.synced /\ ~hidden
  /\ street' = [street EXCEPT !.reduced = media, !.synced = TRUE]
  /\ goal' = IF media THEN None ELSE goal
  /\ UNCHANGED <<browser, gl, dialogVars, looping, following, active, events>>

\* The loader goes, whatever became of the canvas; why is only noted.
ReleaseLoader ==
  /\ street.loading /\ ~hidden
  /\ street' = [street EXCEPT !.loading = FALSE]
  /\ UNCHANGED <<browser, gl, dialogVars, wayVars, events>>

\* Progress is published to the canvas.
At(scene) == active' = scene /\ gl' = requestRender(gl)

scroll(scene, reduced) ==
  IF reduced THEN At(scene) /\ goal' = None
             ELSE goal' = scene /\ UNCHANGED <<active, gl>>
scrollToScene(scene) == scroll(scene, street.reduced)

OnlyWay == UNCHANGED <<browser, street, looping, following>>

\* The shell is inert while there is a dialog.
Shell == dialog = NoDialog

\* The header, the hero, the street directory, and enterProject of a linked project.
Navigate(scene) ==
  /\ Event /\ Shell
  /\ scrollToScene(scene)
  /\ OnlyWay
  /\ UNCHANGED dialogVars

directoryIndex == IF active \in Projects THEN active ELSE IF active = Home THEN 1 ELSE Places

\* Mutant: the last project has a next one.
TurnOn(forward) ==
  /\ Event /\ Shell
  /\ scrollToScene(IF forward THEN directoryIndex + 1 ELSE directoryIndex - 1)
  /\ OnlyWay
  /\ UNCHANGED dialogVars

\* The buttons and keys of the mobile directory, disabled at its ends.
Turn(forward) ==
  /\ Event /\ Shell
  /\ IF forward THEN directoryIndex < Places /\ scrollToScene(directoryIndex + 1)
                ELSE directoryIndex > 1 /\ scrollToScene(directoryIndex - 1)
  /\ OnlyWay
  /\ UNCHANGED dialogVars

\* Frames of Lenis, past the scenes on the way.
Scrolling ==
  /\ goal # None /\ ~hidden
  /\ At(IF active < goal THEN active + 1 ELSE IF active > goal THEN active - 1 ELSE active)
  /\ goal' = IF active' = goal THEN None ELSE goal
  /\ OnlyWay
  /\ UNCHANGED <<dialogVars, events>>

\* The visitor scrolls, which Lenis lets happen behind a dialog too.
Wheel ==
  /\ Event
  /\ \E scene \in Home .. Contact :
       (scene = active + 1 \/ active = scene + 1) /\ At(scene)
  /\ goal' = None
  /\ OnlyWay
  /\ UNCHANGED dialogVars

-----------------------------------------------------------------------------
(* The dialog of a project *)

OnlyDialog == UNCHANGED <<browser, gl, street>>

FocusButton(p) ==
  /\ Shell
  /\ focus' = p
  /\ gl' = requestRender(gl)
  /\ UNCHANGED <<browser, street, dialog, opening, timer, refocus, wayVars, events>>

\* The effects of a new dialog take the focus from the page, and keep it.
FocusInside == focus' = None

\* Mutant: a timer is left to itself.
OpenWithTimer(p) ==
  /\ Event /\ Shell
  /\ dialog' = [project |-> p, phase |-> IF street.reduced THEN "open" ELSE "opening"]
  /\ opening' = IF street.reduced THEN opening ELSE opening \cup {p}
  /\ FocusInside
  /\ OnlyDialog
  /\ UNCHANGED <<timer, refocus, wayVars>>

\* A dialog opens, in two steps if there is motion, and no timer is left.
openProject(p) ==
  /\ Event /\ Shell
  /\ timer' = None
  /\ dialog' = [project |-> p, phase |-> IF street.reduced THEN "open" ELSE "opening"]
  /\ opening' = IF street.reduced THEN opening ELSE opening \cup {p}
  /\ FocusInside
  /\ OnlyDialog
  /\ UNCHANGED <<refocus, wayVars>>

\* In the next frame; a dialog told to close in between opens again until its timer.
OpenFrame(p) ==
  /\ p \in opening /\ ~hidden
  /\ opening' = opening \ {p}
  /\ dialog' = IF dialog.project = p THEN [dialog EXCEPT !.phase = "open"] ELSE dialog
  /\ OnlyDialog
  /\ UNCHANGED <<timer, focus, refocus, wayVars, events>>

\* Mutant: Escape in a closing dialog clears the timer and leaves it so.
CloseTwice ==
  /\ Event /\ ~Shell
  /\ dialog' = [dialog EXCEPT !.phase = "closing"]
  /\ timer' = IF timer = None THEN dialog.project ELSE None
  /\ OnlyDialog
  /\ UNCHANGED <<opening, focus, refocus, wayVars>>

\* The button, Escape or a click beside the dialog: at once, or by a new timer.
closeProject ==
  /\ Event /\ ~Shell
  /\ IF street.reduced
       THEN /\ dialog' = NoDialog /\ timer' = None
            /\ refocus' = refocus \cup {dialog.project}
       ELSE /\ dialog' = [dialog EXCEPT !.phase = "closing"]
            /\ timer' = dialog.project
            /\ UNCHANGED refocus
  /\ OnlyDialog
  /\ UNCHANGED <<opening, focus, wayVars>>

CloseTimer ==
  /\ timer # None
  /\ timer' = None
  /\ dialog' = NoDialog
  /\ refocus' = refocus \cup {timer}
  /\ OnlyDialog
  /\ UNCHANGED <<opening, focus, wayVars, events>>

\* A button behind a dialog cannot be focused.
restoreDialogFocus(p) ==
  /\ p \in refocus /\ ~hidden
  /\ refocus' = refocus \ {p}
  /\ focus' = IF Shell THEN p ELSE focus
  /\ OnlyDialog
  /\ UNCHANGED <<dialog, opening, timer, wayVars, events>>

\* The dialog goes at once, its timer stays; the scrolling is left to another one.
followDialogLink ==
  /\ Event /\ dialog.project \in Linked
  /\ dialog' = NoDialog
  /\ following' = following \cup {street.reduced}
  /\ OnlyDialog
  /\ UNCHANGED <<opening, timer, focus, refocus, looping, active, goal>>

\* In a later turn, with the motion preferred at the click, and behind a dialog that has
\* been opened by then.
FollowTimer ==
  \E reduced \in following :
    /\ following' = following \ {reduced}
    /\ scroll(Contact, reduced)
    /\ UNCHANGED <<browser, street, dialogVars, looping, events>>

-----------------------------------------------------------------------------
(* The exit *)

OnlyLoop == UNCHANGED <<browser, street, dialogVars>>

\* Its button is disabled while the way back is on.
handleExitLoop ==
  /\ Event /\ Shell /\ looping = "no"
  /\ looping' = "closing"
  /\ OnlyLoop
  /\ UNCHANGED <<gl, following, active, goal>>

LoopTimer ==
  /\ looping = "closing"
  /\ looping' = "revealing"
  /\ At(Home) /\ goal' = None
  /\ OnlyLoop
  /\ UNCHANGED <<following, events>>

RevealTimer ==
  /\ looping = "revealing"
  /\ looping' = "no"
  /\ OnlyLoop
  /\ UNCHANGED <<gl, following, active, goal, events>>

-----------------------------------------------------------------------------
Next ==
  \/ CanvasLoads \/ MobileChanges \/ onVisibilityChange \/ onContextLost
  \/ onContextRestored \/ RestoreFrame \/ resize \/ Nudge
  \/ syncMedia \/ SyncFrame \/ ReleaseLoader \/ Scrolling \/ Wheel
  \/ \E scene \in Projects \cup {Contact} : Navigate(scene)
  \/ \E forward \in BOOLEAN : Turn(forward)
  \/ \E p \in Projects : FocusButton(p) \/ openProject(p) \/ OpenFrame(p) \/ restoreDialogFocus(p)
  \/ closeProject \/ CloseTimer \/ followDialogLink \/ FollowTimer
  \/ handleExitLoop \/ LoopTimer \/ RevealTimer

Spec == Init /\ [][Next]_vars

\* Timers fire, and frames come as long as the tab is shown.
FairSpec ==
  /\ Spec
  /\ WF_vars(CloseTimer) /\ WF_vars(LoopTimer) /\ WF_vars(RevealTimer)
  /\ WF_vars(RestoreFrame) /\ WF_vars(ReleaseLoader) /\ WF_vars(SyncFrame)

-----------------------------------------------------------------------------
(* Properties *)

\* Nothing is drawn in a hidden tab, in reduced motion or without a context, the loop
\* runs whenever the scene is visible, and the canvas covers the poster only if it has
\* something to show.  Two exceptions: renderNow (resize, restored context) stops the loop until
\* something asks for a frame, and a context lost again before the frame that shows the
\* restored canvas is shown as if it were there.
CanvasHonest ==
  /\ gl.frame => gl.live /\ ~hidden /\ ~gl.reduced /\ (context \/ gl.relost)
  /\ gl.live /\ ~hidden /\ context /\ gl.host = "ready" /\ ~media
       => gl.frame \/ gl.still \/ gl.restore
  /\ gl.live => gl.reduced = media
  /\ gl.host = "ready" => gl.live /\ (context \/ gl.relost)

\* The timer of a dialog never closes another one, and no button behind a dialog takes
\* the focus, however fast dialogs follow each other.
DialogHoldsItsOwn ==
  /\ timer # None /\ ~Shell => dialog.project = timer
  /\ ~Shell => focus = None

\* A dialog told to close closes, the way back from the exit ends, the loader goes, a
\* canvas whose context is back is shown, and street and world agree about motion; frames may
\* have to wait for the tab.
WorldSettles ==
  /\ dialog.phase = "closing" ~> Shell
  /\ looping # "no" ~> looping = "no"
  /\ street.loading ~> ~street.loading \/ hidden
  /\ (gl.live /\ context /\ gl.host = "fallback")
       ~> (gl.host = "ready" \/ ~context \/ ~gl.live \/ hidden)
  /\ street.reduced # media ~> street.reduced = media \/ hidden
=============================================================================
