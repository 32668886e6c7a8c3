---------------------------- MODULE FramePipeline ----------------------------
(***************************************************************************)
(* The dual-core frame pipeline of the firmware (main/main.cpp,            *)
(* main/sw_renderer.h, main/dsi_display.cpp).                              *)
(*                                                                         *)
(* Four actors share the two stage framebuffers fb[0..1] and the two panel *)
(* framebuffers s_dpi_fbs[0..1]:                                           *)
(*   rt   the runtime task scratch_rt on Core 1                            *)
(*   hp   the task render_helper on Core 0                                 *)
(*   app  app_main: launches a game, pauses it for an overlay, ends it     *)
(*   the hardware: the PPA engine that copies a stage framebuffer into a   *)
(*        panel framebuffer, and the panel's scan-out (vsync).             *)
(* Each action is the code between two synchronisation points of one actor.*)
(***************************************************************************)
EXTENDS Naturals

CONSTANTS
  GraceCovers, \* TRUE: the fixed 50 ms pause delay outlasts the frame in flight
  PpaTimely    \* TRUE: every PPA operation ends within the 100 ms the code waits

ASSUME GraceIsBoolean == GraceCovers \in BOOLEAN
ASSUME TimelyIsBoolean == PpaTimely \in BOOLEAN

VARIABLES
  rt, hp, app,   \* where each task stands
  sem,           \* the binary semaphores
  alive,         \* the five handshake semaphores exist
  helperRun,     \* s_helper_run
  running,       \* scratch_running
  paused,        \* scratch_paused
  goOn,          \* the first result of stepScratchProject
  cur,           \* SWRenderer::currentFb
  offered,       \* the last completed frame was given to dsi_display_update
  ppa,           \* the PPA operation in progress: busy, source, destination
  back,          \* s_dpi_back_idx
  pend, scan     \* panel buffer submitted, panel buffer being scanned out

tasks == <<rt, hp, app>>
flags == <<alive, helperRun, running, paused, goOn>>
panel == <<back, pend, scan>>
vars == <<tasks, sem, flags, cur, offered, ppa, panel>>

Fbs == {0, 1}
Handshake == {"renderStart", "renderDone", "sprStart", "sprDone", "helperExited"}
Sems == Handshake \cup {"runtimeDone", "ppaDone", "swapDone"}

\* xSemaphoreGive on a binary semaphore; a take that found it given.
Give(s) == sem' = [sem EXCEPT ![s] = 1]
Take(s) == sem[s] = 1 /\ sem' = [sem EXCEPT ![s] = 0]
\* A take with a timeout whose result the caller ignores.
TakeOrTimeout(s, timely) == Take(s) \/ (~timely /\ sem[s] = 0 /\ UNCHANGED sem)

Init ==
  /\ rt = "off" /\ hp = "none" /\ app = "menu"
  /\ sem = [s \in Sems |-> IF s = "ppaDone" THEN 1 ELSE 0]
  /\ alive = FALSE /\ helperRun = FALSE
  /\ running = FALSE /\ paused = FALSE /\ goOn = TRUE
  /\ cur = 0 /\ offered = TRUE
  /\ ppa = [busy |-> FALSE, src |-> 0, dst |-> 0]
  /\ back = 1 /\ pend = 0 /\ scan = 0
-----------------------------------------------------------------------------
(* Faulty variants of the actions below, one per property: substituting    *)
(* one for the action it is named after must break that property.          *)

RtWaitClear_NoWait ==
  /\ rt = "waitClear" /\ rt' = "pen"
  /\ UNCHANGED <<hp, app, sem, flags, cur, offered, ppa, panel>>
RtSwap_NoWrap ==
  /\ rt = "bubbles" /\ rt' = (IF paused THEN "kick" ELSE "waitPpa")
  /\ cur' = cur + 1 /\ offered' = ~paused
  /\ UNCHANGED <<hp, app, sem, flags, ppa, panel>>
RtSwap_NoFlip ==
  /\ rt = "bubbles" /\ rt' = (IF paused THEN "kick" ELSE "waitPpa")
  /\ offered' = ~paused
  /\ UNCHANGED <<hp, app, sem, flags, cur, ppa, panel>>
RtSwap_IgnorePause ==
  /\ rt = "bubbles" /\ rt' = "waitPpa"
  /\ cur' = 1 - cur /\ offered' = TRUE
  /\ UNCHANGED <<hp, app, sem, flags, ppa, panel>>
RtWaitPpa_NoWait ==
  /\ rt = "waitPpa" /\ rt' = "present"
  /\ UNCHANGED <<hp, app, sem, flags, cur, offered, ppa, panel>>
RtDrain_Keep ==
  /\ rt = "drain" /\ rt' = "waitVsync"
  /\ UNCHANGED <<hp, app, sem, flags, cur, offered, ppa, panel>>
RtWakeSprites_None ==
  /\ rt = "wakeSprites" /\ rt' = "waitExit"
  /\ UNCHANGED <<hp, app, sem, flags, cur, offered, ppa, panel>>
RtWaitExit_NoWait ==
  /\ rt = "waitExit" /\ rt' = "delete"
  /\ UNCHANGED <<hp, app, sem, flags, cur, offered, ppa, panel>>
HpDraw_NoGive ==
  /\ hp = "draw" /\ hp' = "waitStart"
  /\ UNCHANGED <<rt, app, sem, flags, cur, offered, ppa, panel>>
-----------------------------------------------------------------------------
(* The runtime task, scratch_runtime_task.                                 *)

RtGo(from, to) == rt = from /\ rt' = to /\ UNCHANGED <<hp, app>>

\* Creates the semaphores and the helper and starts the first clear.
RtStart ==
  /\ rt = "start" /\ rt' = "loop" /\ hp' = "waitStart" /\ UNCHANGED app
  /\ sem' = [s \in Sems |-> IF s = "renderStart" THEN 1
                            ELSE IF s \in Handshake THEN 0 ELSE sem[s]]
  /\ alive' = TRUE /\ helperRun' = TRUE
  /\ UNCHANGED <<running, paused, goOn, cur, offered, ppa, panel>>

\* The loop test; while paused the loop only delays.
RtLoop ==
  /\ \/ running /\ ~paused /\ RtGo("loop", "step")
     \/ ~running /\ RtGo("loop", "stop")
  /\ UNCHANGED <<sem, flags, cur, offered, ppa, panel>>

\* stepScratchProject: FALSE when the project asked to stop; a bad_alloc
\* that escapes it is caught and counts as TRUE.
RtStep ==
  /\ RtGo("step", "waitClear")
  /\ goOn' \in BOOLEAN
  /\ UNCHANGED <<sem, alive, helperRun, running, paused, cur, offered, ppa, panel>>

RtWaitClear ==
  /\ RtGo("waitClear", "pen") /\ Take("renderDone")
  /\ UNCHANGED <<flags, cur, offered, ppa, panel>>

\* compositePenLayer, then the helper may draw its half of the sprites.
RtPen ==
  /\ RtGo("pen", "draw") /\ Give("sprStart")
  /\ UNCHANGED <<flags, cur, offered, ppa, panel>>

\* The odd-indexed sprites.
RtDraw ==
  /\ RtGo("draw", "waitSprites")
  /\ UNCHANGED <<sem, flags, cur, offered, ppa, panel>>

RtWaitSprites ==
  /\ RtGo("waitSprites", "bubbles") /\ Take("sprDone")
  /\ UNCHANGED <<flags, cur, offered, ppa, panel>>

\* Speech bubbles and monitors, then swapFramebuffer; while paused the
\* completed frame is not sent to the display.
RtSwap ==
  /\ RtGo("bubbles", IF paused THEN "kick" ELSE "waitPpa")
  /\ cur' = 1 - cur /\ offered' = ~paused
  /\ UNCHANGED <<sem, flags, ppa, panel>>

\* dsi_display_update: wait (at most 100 ms) for the previous PPA operation.
RtWaitPpa ==
  /\ RtGo("waitPpa", "present") /\ TakeOrTimeout("ppaDone", PpaTimely)
  /\ UNCHANGED <<flags, cur, offered, ppa, panel>>

\* esp_lcd_panel_draw_bitmap submits the back buffer; the roles swap.
Submit == pend' = back /\ back' = 1 - back /\ UNCHANGED scan

RtPresent ==
  /\ RtGo("present", "drain") /\ Submit
  /\ UNCHANGED <<sem, flags, cur, offered, ppa>>

\* Drop a vsync event older than the submission ...
RtDrain ==
  /\ RtGo("drain", "waitVsync") /\ sem' = [sem EXCEPT !["swapDone"] = 0]
  /\ UNCHANGED <<flags, cur, offered, ppa, panel>>

\* ... and wait for the next one.  The panel refreshes well within the 50 ms
\* timeout, which can only strike when an overlay took the event instead.
RtWaitVsync ==
  /\ RtGo("waitVsync", "scale") /\ TakeOrTimeout("swapDone", GraceCovers)
  /\ UNCHANGED <<flags, cur, offered, ppa, panel>>

\* Start the PPA on the completed frame, into the new back buffer.  The
\* client takes one pending transaction: a busy engine, or any other driver
\* error, gives ppaDone back at once.
RtScale ==
  /\ RtGo("scale", "kick")
  /\ \/ /\ ~ppa.busy
        /\ ppa' = [busy |-> TRUE, src |-> 1 - cur, dst |-> back]
        /\ UNCHANGED sem
     \/ Give("ppaDone") /\ UNCHANGED ppa
  /\ UNCHANGED <<flags, cur, offered, panel>>

\* Start the next frame's clear; leave the loop if the project stopped.
RtKick ==
  /\ RtGo("kick", IF goOn THEN "loop" ELSE "stop") /\ Give("renderStart")
  /\ UNCHANGED <<flags, cur, offered, ppa, panel>>

\* Shutdown of the helper, then of the task.
RtStop ==
  /\ RtGo("stop", "wakeClear")
  /\ running' = FALSE /\ helperRun' = FALSE
  /\ UNCHANGED <<sem, alive, paused, goOn, cur, offered, ppa, panel>>

RtWakeClear ==
  /\ RtGo("wakeClear", "wakeSprites") /\ Give("renderStart")
  /\ UNCHANGED <<flags, cur, offered, ppa, panel>>

RtWakeSprites ==
  /\ RtGo("wakeSprites", "waitExit") /\ Give("sprStart")
  /\ UNCHANGED <<flags, cur, offered, ppa, panel>>

RtWaitExit ==
  /\ RtGo("waitExit", "delete") /\ Take("helperExited")
  /\ UNCHANGED <<flags, cur, offered, ppa, panel>>

RtDelete ==
  /\ RtGo("delete", "off") /\ Give("runtimeDone")
  /\ alive' = FALSE
  /\ UNCHANGED <<helperRun, running, paused, goOn, cur, offered, ppa, panel>>

RtNext ==
  \/ RtStart \/ RtLoop \/ RtStep \/ RtWaitClear \/ RtPen \/ RtDraw
  \/ RtWaitSprites \/ RtSwap \/ RtWaitPpa \/ RtPresent \/ RtDrain
  \/ RtWaitVsync \/ RtScale \/ RtKick \/ RtStop \/ RtWakeClear
  \/ RtWakeSprites \/ RtWaitExit \/ RtDelete
-----------------------------------------------------------------------------
(* The helper, render_helper_task.                                         *)

HpGo(from, to) ==
  /\ hp = from /\ hp' = to
  /\ UNCHANGED <<rt, app, flags, cur, offered, ppa, panel>>

HpTakeStart == HpGo("waitStart", "checkStart") /\ Take("renderStart")
HpCheckStart ==
  /\ HpGo("checkStart", IF helperRun THEN "clear" ELSE "exit")
  /\ UNCHANGED sem
\* Phase 1: clearDirty, drawBackdropFull or clear on fb[currentFb].
HpClear == HpGo("clear", "waitSprites") /\ Give("renderDone")
HpTakeSprites == HpGo("waitSprites", "checkSprites") /\ Take("sprStart")
HpCheckSprites ==
  /\ HpGo("checkSprites", IF helperRun THEN "draw" ELSE "exit")
  /\ UNCHANGED sem
\* Phase 2: the even-indexed sprites.
HpDraw == HpGo("draw", "waitStart") /\ Give("sprDone")
HpExit == HpGo("exit", "none") /\ Give("helperExited")

HpNext ==
  \/ HpTakeStart \/ HpCheckStart \/ HpClear \/ HpTakeSprites
  \/ HpCheckSprites \/ HpDraw \/ HpExit
-----------------------------------------------------------------------------
(* app_main: the game loop, game_overlay_check and the LVGL overlay.       *)

AppGo(from, to) == app = from /\ app' = to /\ UNCHANGED <<rt, hp>>
InUpdate == rt \in {"waitPpa", "present", "drain", "waitVsync", "scale"}

\* load_and_run: scratch_running = true, then the task is created.
Launch ==
  /\ app = "menu" /\ app' = "game"
  /\ rt = "off" /\ rt' = "start" /\ UNCHANGED hp
  /\ running' = TRUE
  /\ UNCHANGED <<sem, alive, helperRun, paused, goOn, cur, offered, ppa, panel>>

\* One turn of the game loop: scratch_running was read, and the pads were.
Poll ==
  /\ \/ AppGo("game", "check") /\ running
     \/ AppGo("check", "game")
  /\ UNCHANGED <<sem, flags, cur, offered, ppa, panel>>

\* Start or Back pressed: freeze the display, then wait 50 ms.
Pause ==
  /\ AppGo("check", "grace")
  /\ paused' = TRUE
  /\ UNCHANGED <<sem, alive, helperRun, running, goOn, cur, offered, ppa, panel>>

GraceOver ==
  /\ AppGo("grace", "overlay")
  /\ GraceCovers => ~InUpdate /\ ~ppa.busy
  /\ UNCHANGED <<sem, flags, cur, offered, ppa, panel>>

\* LVGL paints the back buffer (a blocking PPA operation of its own client)
\* and presents it; dsi_clear_both_fbs at dismissal presents once more.
OverlayPresent ==
  /\ \/ AppGo("overlay", "ovDrain")
     \/ AppGo("overlay", "endDrain")
  /\ Submit
  /\ UNCHANGED <<sem, flags, cur, offered, ppa>>

OverlayDrain ==
  /\ \/ AppGo("ovDrain", "ovVsync")
     \/ AppGo("endDrain", "endVsync")
  /\ sem' = [sem EXCEPT !["swapDone"] = 0]
  /\ UNCHANGED <<flags, cur, offered, ppa, panel>>

OverlayVsync ==
  /\ \/ AppGo("ovVsync", "overlay")
     \/ AppGo("endVsync", "resume")
  /\ TakeOrTimeout("swapDone", GraceCovers)
  /\ UNCHANGED <<flags, cur, offered, ppa, panel>>

\* The overlay is dismissed; the player may have chosen to leave the game.
Resume ==
  /\ \/ AppGo("resume", "game")
     \/ AppGo("resume", "quit")
  /\ paused' = FALSE
  /\ UNCHANGED <<sem, alive, helperRun, running, goOn, cur, offered, ppa, panel>>

Quit ==
  /\ AppGo("quit", "game") /\ running' = FALSE
  /\ UNCHANGED <<sem, alive, helperRun, paused, goOn, cur, offered, ppa, panel>>

\* The game loop ended: wait for the runtime task, tear down, show the menu.
Join ==
  /\ AppGo("game", "menu") /\ ~running
  /\ Take("runtimeDone")
  /\ UNCHANGED <<flags, cur, offered, ppa, panel>>

AppNext ==
  \/ Launch \/ Poll \/ Pause \/ GraceOver \/ OverlayPresent \/ OverlayDrain
  \/ OverlayVsync \/ Resume \/ Quit \/ Join
-----------------------------------------------------------------------------
(* Interrupts: ppa_srm_done_cb and dpi_refresh_done_cb.                    *)

PpaDone ==
  /\ ppa.busy /\ ppa' = [ppa EXCEPT !.busy = FALSE]
  /\ Give("ppaDone")
  /\ UNCHANGED <<tasks, flags, cur, offered, panel>>

\* End of a refresh: the panel commits the buffer last submitted.
Vsync ==
  /\ scan' = pend /\ Give("swapDone")
  /\ UNCHANGED <<tasks, flags, cur, offered, ppa, back, pend>>

Next == RtNext \/ HpNext \/ AppNext \/ PpaDone \/ Vsync

Spec == Init /\ [][Next]_vars

\* Both tasks run at the same priority, each on a core of its own, and the
\* hardware runs on.  app_main is scheduled, but the player need not press a
\* button: neither Launch, Pause nor the dismissal of an overlay is fair.
Fairness ==
  /\ WF_vars(RtNext) /\ WF_vars(HpNext) /\ WF_vars(PpaDone) /\ WF_vars(Vsync)
  /\ WF_vars(Poll \/ GraceOver \/ OverlayDrain \/ OverlayVsync \/ Resume
                  \/ Quit \/ Join)

FairSpec == Spec /\ Fairness
-----------------------------------------------------------------------------
(* Properties.                                                             *)

RtStates == {"off", "start", "loop", "step", "waitClear", "pen", "draw",
             "waitSprites", "bubbles", "waitPpa", "present", "drain",
             "waitVsync", "scale", "kick", "stop", "wakeClear", "wakeSprites",
             "waitExit", "delete"}
HpStates == {"none", "waitStart", "checkStart", "clear", "waitSprites",
             "checkSprites", "draw", "exit"}
OverlayStates == {"overlay", "ovDrain", "ovVsync", "endDrain", "endVsync"}
AppStates == {"menu", "game", "check", "grace", "resume", "quit"} \cup OverlayStates

\* The range of every variable of the pipeline.
TypeOK ==
  /\ rt \in RtStates /\ hp \in HpStates /\ app \in AppStates
  /\ sem \in [Sems -> {0, 1}]
  /\ alive \in BOOLEAN /\ helperRun \in BOOLEAN /\ running \in BOOLEAN
  /\ paused \in BOOLEAN /\ goOn \in BOOLEAN /\ offered \in BOOLEAN
  /\ cur \in Fbs /\ back \in Fbs /\ pend \in Fbs /\ scan \in Fbs
  /\ ppa \in [busy : BOOLEAN, src : Fbs, dst : Fbs]

Composing == rt \in {"pen", "draw", "waitSprites", "bubbles"}

\* The four semaphores order the two cores: the helper never clears the
\* buffer the runtime composes, and it draws sprites only inside the window in
\* which the runtime draws too, so never while scripts change the sprites, the
\* pen layer is composited, or bubbles and monitors are painted on top.
FrameExclusion ==
  /\ hp = "clear" => ~Composing
  /\ hp = "draw" => rt \in {"draw", "waitSprites"}

\* The handshake semaphores are deleted only when no task will use them.
SemaphoresLive == hp # "none" => alive

\* While the PPA reads a completed stage framebuffer nobody writes it, unless
\* the pause made the runtime skip the dsi_display_update that would have
\* waited for it.
Writing == hp \in {"clear", "draw"} \/ Composing
PpaSourceIntact == ppa.busy /\ Writing /\ offered => ppa.src # cur

\* The PPA writes neither the panel buffer on screen nor one submitted to be.
PanelIntact == ppa.busy => ppa.dst \notin {scan, pend}

\* While an overlay is up the runtime stays out of the panel: "skip step +
\* render so nothing touches the DPI FB" (main.cpp:615).
OverlayOwnsPanel == app \in OverlayStates => ~InUpdate /\ ~ppa.busy

\* The pair (currentFb, what was done to that buffer) implements DoubleBuffer:
\* every published frame was cleared and composed exactly once.
Phase ==
  IF hp = "clear" THEN "clearing"
  ELSE IF Composing THEN "composing"
  ELSE IF hp \in {"waitSprites", "checkSprites"} THEN "cleared"
  ELSE "stale"
DB == INSTANCE DoubleBuffer WITH target <- cur, phase <- Phase
FramesAreWhole == DB!Spec

\* A frame once begun ends: the two cores never wait for each other forever.
FrameEnds == rt = "step" ~> rt \in {"loop", "off"}

\* A player who leaves the game gets back to the menu: the runtime and the
\* helper both exit, whatever they were doing.
QuitReachesMenu == app = "quit" ~> app = "menu"
=============================================================================
