------------------------- MODULE FramePipelineProofs -------------------------
(***************************************************************************)
(* Machine-checked proofs about FramePipeline, for every value of          *)
(* GraceCovers and PpaTimely: the two cores exclude each other, the        *)
(* semaphores outlive their users, and the pipeline implements             *)
(* DoubleBuffer.  All three rest on HandshakeInv, which says where the     *)
(* single baton of the handshake is at every point of the runtime's loop:  *)
(* in a semaphore, or held by the helper, but never in two places.         *)
(***************************************************************************)
EXTENDS FramePipeline, TLAPS

AtRest == {"off", "start"}
BeforePen == {"loop", "step", "waitClear", "stop"}
SharedDraw == {"draw", "waitSprites"}
AfterDraw == {"bubbles", "waitPpa", "present", "drain", "waitVsync", "scale", "kick"}
Shutdown == {"wakeClear", "wakeSprites", "waitExit", "delete"}

\* Nothing in the five semaphores except one token in s (no token if s = "none").
OnlyToken(s) == \A t \in Handshake : sem[t] = (IF t = s THEN 1 ELSE 0)

AtRestInv == rt \in AtRest => hp = "none" /\ ~alive
ActiveInv == rt \notin AtRest => alive
RunInv == rt \in BeforePen \cup {"pen"} \cup SharedDraw \cup AfterDraw => helperRun
BeforePenInv ==
  rt \in BeforePen =>
    \/ hp = "waitStart" /\ OnlyToken("renderStart")
    \/ hp \in {"checkStart", "clear"} /\ OnlyToken("none")
    \/ hp = "waitSprites" /\ OnlyToken("renderDone")
PenInv == rt = "pen" => hp = "waitSprites" /\ OnlyToken("none")
SharedDrawInv ==
  rt \in SharedDraw =>
    \/ hp = "waitSprites" /\ OnlyToken("sprStart")
    \/ hp \in {"checkSprites", "draw"} /\ OnlyToken("none")
    \/ hp = "waitStart" /\ OnlyToken("sprDone")
AfterDrawInv == rt \in AfterDraw => hp = "waitStart" /\ OnlyToken("none")
ShutdownInv ==
  rt \in Shutdown =>
    /\ ~helperRun /\ hp # "draw"
    /\ sem["helperExited"] = 1 => hp = "none"
    /\ rt = "delete" => hp = "none"

HandshakeInv ==
  /\ AtRestInv /\ ActiveInv /\ RunInv
  /\ BeforePenInv /\ PenInv /\ SharedDrawInv /\ AfterDrawInv /\ ShutdownInv

IInv == TypeOK /\ HandshakeInv
-----------------------------------------------------------------------------
(* Type correctness.                                                       *)

\* Every variable keeps its range whatever task or interrupt steps.
THEOREM TypeCorrect == Spec => []TypeOK
<1> USE DEF TypeOK, Sems, Handshake, Fbs, RtStates, HpStates, AppStates, OverlayStates
<1>1. Init => TypeOK
  <2> SUFFICES ASSUME Init PROVE TypeOK
    OBVIOUS
  <2>1. sem \in [Sems -> {0, 1}] /\ rt \in RtStates /\ hp \in HpStates /\ app \in AppStates
    BY DEF Init
  <2>2. ppa \in [busy : BOOLEAN, src : Fbs, dst : Fbs]
    BY DEF Init
  <2>3. {alive, helperRun, running, paused, goOn, offered} \subseteq BOOLEAN
    BY Zenon DEF Init
  <2>4. {cur, back, pend, scan} \subseteq Fbs
    BY DEF Init
  <2> QED
    BY <2>1, <2>2, <2>3, <2>4
<1>2. TypeOK /\ [Next]_vars => TypeOK'
  <2> SUFFICES ASSUME TypeOK, [Next]_vars PROVE TypeOK'
    OBVIOUS
  <2>1. CASE RtStart
    BY <2>1 DEF RtStart, Give, Take, TakeOrTimeout, Submit, flags, panel, tasks
  <2>2. CASE RtLoop
    BY <2>2 DEF RtLoop, RtGo, Give, Take, TakeOrTimeout, Submit, flags, panel, tasks
  <2>3. CASE RtStep
    BY <2>3 DEF RtStep, RtGo, Give, Take, TakeOrTimeout, Submit, flags, panel, tasks
  <2>4. CASE RtWaitClear
    BY <2>4 DEF RtWaitClear, RtGo, Give, Take, TakeOrTimeout, Submit, flags, panel, tasks
  <2>5. CASE RtPen
    BY <2>5 DEF RtPen, RtGo, Give, Take, TakeOrTimeout, Submit, flags, panel, tasks
  <2>6. CASE RtDraw
    BY <2>6 DEF RtDraw, RtGo, Give, Take, TakeOrTimeout, Submit, flags, panel, tasks
  <2>7. CASE RtWaitSprites
    BY <2>7 DEF RtWaitSprites, RtGo, Give, Take, TakeOrTimeout, Submit,
       flags, panel, tasks
  <2>8. CASE RtSwap
    BY <2>8 DEF RtSwap, RtGo, Give, Take, TakeOrTimeout, Submit, flags, panel, tasks
  <2>9. CASE RtWaitPpa
    BY <2>9 DEF RtWaitPpa, RtGo, Give, Take, TakeOrTimeout, Submit, flags, panel, tasks
  <2>10. CASE RtPresent
    BY <2>10 DEF RtPresent, RtGo, Give, Take, TakeOrTimeout, Submit, flags, panel, tasks
  <2>11. CASE RtDrain
    BY <2>11 DEF RtDrain, RtGo, Give, Take, TakeOrTimeout, Submit, flags, panel, tasks
  <2>12. CASE RtWaitVsync
    BY <2>12 DEF RtWaitVsync, RtGo, Give, Take, TakeOrTimeout, Submit, flags, panel, tasks
  <2>13. CASE RtScale
    <3>1. {alive, helperRun, running, paused, goOn, offered}' \subseteq BOOLEAN
      BY Zenon, <2>13 DEF RtScale, RtGo, Give, Take, TakeOrTimeout, Submit, flags, panel, tasks
    <3>2. sem' \in [Sems -> {0, 1}] /\ ppa' \in [busy : BOOLEAN, src : Fbs, dst : Fbs]
      <4>1. sem' \in [Sems -> {0, 1}]
        BY <2>13 DEF RtScale, Give
      <4>2. CASE UNCHANGED ppa
        BY <4>1, <4>2
      <4>3. CASE ppa' = [busy |-> TRUE, src |-> 1 - cur, dst |-> back]
        <5>1. 1 - cur \in Fbs /\ back \in Fbs
          OBVIOUS
        <5> QED
          BY <4>1, <4>3, <5>1
      <4> QED
        BY <4>2, <4>3, <2>13 DEF RtScale
    <3>3. {cur, back, pend, scan}' \subseteq Fbs
      BY <2>13 DEF RtScale, RtGo, Give, Take, TakeOrTimeout, Submit, flags, panel, tasks
    <3>4. rt' \in RtStates /\ hp' \in HpStates /\ app' \in AppStates
      BY <2>13 DEF RtScale, RtGo, Give, Take, TakeOrTimeout, Submit, flags, panel, tasks
    <3> QED
      BY <3>1, <3>2, <3>3, <3>4
  <2>14. CASE RtKick
    BY <2>14 DEF RtKick, RtGo, Give, Take, TakeOrTimeout, Submit, flags, panel, tasks
  <2>15. CASE RtStop
    <3>1. {alive, helperRun, running, paused, goOn, offered}' \subseteq BOOLEAN
      BY Zenon, <2>15 DEF RtStop, RtGo, Give, Take, TakeOrTimeout, Submit, flags, panel, tasks
    <3>2. sem' \in [Sems -> {0, 1}] /\ ppa' \in [busy : BOOLEAN, src : Fbs, dst : Fbs]
      BY <2>15 DEF RtStop, RtGo, Give, Take, TakeOrTimeout, Submit, flags, panel, tasks
    <3>3. {cur, back, pend, scan}' \subseteq Fbs
      BY <2>15 DEF RtStop, RtGo, Give, Take, TakeOrTimeout, Submit, flags, panel, tasks
    <3>4. rt' \in RtStates /\ hp' \in HpStates /\ app' \in AppStates
      BY <2>15 DEF RtStop, RtGo, Give, Take, TakeOrTimeout, Submit, flags, panel, tasks
    <3> QED
      BY <3>1, <3>2, <3>3, <3>4
  <2>16. CASE RtWakeClear
    BY <2>16 DEF RtWakeClear, RtGo, Give, Take, TakeOrTimeout, Submit, flags, panel, tasks
  <2>17. CASE RtWakeSprites
    BY <2>17 DEF RtWakeSprites, RtGo, Give, Take, TakeOrTimeout, Submit,
       flags, panel, tasks
  <2>18. CASE RtWaitExit
    BY <2>18 DEF RtWaitExit, RtGo, Give, Take, TakeOrTimeout, Submit, flags, panel, tasks
  <2>19. CASE RtDelete
    <3>1. {alive, helperRun, running, paused, goOn, offered}' \subseteq BOOLEAN
      BY Zenon, <2>19 DEF RtDelete, RtGo, Give, Take, TakeOrTimeout, Submit, flags, panel, tasks
    <3>2. sem' \in [Sems -> {0, 1}] /\ ppa' \in [busy : BOOLEAN, src : Fbs, dst : Fbs]
      BY <2>19 DEF RtDelete, RtGo, Give, Take, TakeOrTimeout, Submit, flags, panel, tasks
    <3>3. {cur, back, pend, scan}' \subseteq Fbs
      BY <2>19 DEF RtDelete, RtGo, Give, Take, TakeOrTimeout, Submit, flags, panel, tasks
    <3>4. rt' \in RtStates /\ hp' \in HpStates /\ app' \in AppStates
      BY <2>19 DEF RtDelete, RtGo, Give, Take, TakeOrTimeout, Submit, flags, panel, tasks
    <3> QED
      BY <3>1, <3>2, <3>3, <3>4
  <2>20. CASE HpTakeStart
    BY <2>20 DEF HpTakeStart, HpGo, Give, Take, TakeOrTimeout, Submit, flags, panel, tasks
  <2>21. CASE HpCheckStart
    BY <2>21 DEF HpCheckStart, HpGo, Give, Take, TakeOrTimeout, Submit,
       flags, panel, tasks
  <2>22. CASE HpClear
    BY <2>22 DEF HpClear, HpGo, Give, Take, TakeOrTimeout, Submit, flags, panel, tasks
  <2>23. CASE HpTakeSprites
    BY <2>23 DEF HpTakeSprites, HpGo, Give, Take, TakeOrTimeout, Submit,
       flags, panel, tasks
  <2>24. CASE HpCheckSprites
    BY <2>24 DEF HpCheckSprites, HpGo, Give, Take, TakeOrTimeout, Submit,
       flags, panel, tasks
  <2>25. CASE HpDraw
    BY <2>25 DEF HpDraw, HpGo, Give, Take, TakeOrTimeout, Submit, flags, panel, tasks
  <2>26. CASE HpExit
    BY <2>26 DEF HpExit, HpGo, Give, Take, TakeOrTimeout, Submit, flags, panel, tasks
  <2>27. CASE Launch
    BY <2>27 DEF Launch, Give, Take, TakeOrTimeout, Submit, flags, panel, tasks
  <2>28. CASE Poll
    BY <2>28 DEF Poll, AppGo, Give, Take, TakeOrTimeout, Submit, flags, panel, tasks
  <2>29. CASE Pause
    BY <2>29 DEF Pause, AppGo, Give, Take, TakeOrTimeout, Submit, flags, panel, tasks
  <2>30. CASE GraceOver
    BY <2>30 DEF GraceOver, AppGo, Give, Take, TakeOrTimeout, Submit, flags, panel, tasks
  <2>31. CASE OverlayPresent
    BY <2>31 DEF OverlayPresent, AppGo, Give, Take, TakeOrTimeout, Submit,
       flags, panel, tasks
  <2>32. CASE OverlayDrain
    BY <2>32 DEF OverlayDrain, AppGo, Give, Take, TakeOrTimeout, Submit,
       flags, panel, tasks
  <2>33. CASE OverlayVsync
    BY <2>33 DEF OverlayVsync, AppGo, Give, Take, TakeOrTimeout, Submit,
       flags, panel, tasks
  <2>34. CASE Resume
    <3>1. {alive, helperRun, running, paused, goOn, offered}' \subseteq BOOLEAN
      BY Zenon, <2>34 DEF Resume, AppGo, Give, Take, TakeOrTimeout, Submit, flags, panel, tasks
    <3>2. sem' \in [Sems -> {0, 1}] /\ ppa' \in [busy : BOOLEAN, src : Fbs, dst : Fbs]
      BY <2>34 DEF Resume, AppGo, Give, Take, TakeOrTimeout, Submit, flags, panel, tasks
    <3>3. {cur, back, pend, scan}' \subseteq Fbs
      BY <2>34 DEF Resume, AppGo, Give, Take, TakeOrTimeout, Submit, flags, panel, tasks
    <3>4. rt' \in RtStates /\ hp' \in HpStates /\ app' \in AppStates
      BY <2>34 DEF Resume, AppGo, Give, Take, TakeOrTimeout, Submit, flags, panel, tasks
    <3> QED
      BY <3>1, <3>2, <3>3, <3>4
  <2>35. CASE Quit
    <3>1. {alive, helperRun, running, paused, goOn, offered}' \subseteq BOOLEAN
      BY Zenon, <2>35 DEF Quit, AppGo, Give, Take, TakeOrTimeout, Submit, flags, panel, tasks
    <3>2. sem' \in [Sems -> {0, 1}] /\ ppa' \in [busy : BOOLEAN, src : Fbs, dst : Fbs]
      BY <2>35 DEF Quit, AppGo, Give, Take, TakeOrTimeout, Submit, flags, panel, tasks
    <3>3. {cur, back, pend, scan}' \subseteq Fbs
      BY <2>35 DEF Quit, AppGo, Give, Take, TakeOrTimeout, Submit, flags, panel, tasks
    <3>4. rt' \in RtStates /\ hp' \in HpStates /\ app' \in AppStates
      BY <2>35 DEF Quit, AppGo, Give, Take, TakeOrTimeout, Submit, flags, panel, tasks
    <3> QED
      BY <3>1, <3>2, <3>3, <3>4
  <2>36. CASE Join
    BY <2>36 DEF Join, AppGo, Give, Take, TakeOrTimeout, Submit, flags, panel, tasks
  <2>37. CASE PpaDone
    <3>1. {alive, helperRun, running, paused, goOn, offered}' \subseteq BOOLEAN
      BY Zenon, <2>37 DEF PpaDone, Give, Take, TakeOrTimeout, Submit, flags, panel, tasks
    <3>2. sem' \in [Sems -> {0, 1}] /\ ppa' \in [busy : BOOLEAN, src : Fbs, dst : Fbs]
      BY <2>37 DEF PpaDone, Give, Take, TakeOrTimeout, Submit, flags, panel, tasks
    <3>3. {cur, back, pend, scan}' \subseteq Fbs
      BY <2>37 DEF PpaDone, Give, Take, TakeOrTimeout, Submit, flags, panel, tasks
    <3>4. rt' \in RtStates /\ hp' \in HpStates /\ app' \in AppStates
      BY <2>37 DEF PpaDone, Give, Take, TakeOrTimeout, Submit, flags, panel, tasks
    <3> QED
      BY <3>1, <3>2, <3>3, <3>4
  <2>38. CASE Vsync
    BY <2>38 DEF Vsync, Give, Take, TakeOrTimeout, Submit, flags, panel, tasks
  <2>39. CASE UNCHANGED vars
    BY <2>39 DEF vars, flags, panel, tasks
  <2> QED
    BY <2>1, <2>2, <2>3, <2>4, <2>5, <2>6, <2>7, <2>8, <2>9, <2>10, <2>11,
       <2>12, <2>13, <2>14, <2>15, <2>16, <2>17, <2>18, <2>19, <2>20, <2>21,
       <2>22, <2>23, <2>24, <2>25, <2>26, <2>27, <2>28, <2>29, <2>30, <2>31,
       <2>32, <2>33, <2>34, <2>35, <2>36, <2>37, <2>38, <2>39
    DEF Next, RtNext, HpNext, AppNext
<1> QED
  BY <1>1, <1>2, PTL DEF Spec

-----------------------------------------------------------------------------
(* The handshake invariant.                                                *)

LEMMA HandshakeInit == Init => HandshakeInv
BY DEF Init, HandshakeInv, AtRestInv, ActiveInv, RunInv, BeforePenInv, PenInv, SharedDrawInv, AfterDrawInv, ShutdownInv, OnlyToken, AtRest, BeforePen, SharedDraw, AfterDraw, Shutdown

LEMMA HandshakeStep == IInv /\ [Next]_vars => HandshakeInv'
<1> SUFFICES ASSUME TypeOK, HandshakeInv, [Next]_vars PROVE HandshakeInv'
  BY DEF IInv
<1> USE DEF HandshakeInv, AtRestInv, ActiveInv, RunInv, BeforePenInv, PenInv,
            SharedDrawInv, AfterDrawInv, ShutdownInv, OnlyToken, AtRest,
            BeforePen, SharedDraw, AfterDraw, Shutdown, TypeOK, Sems,
            Handshake
<1>1. CASE RtStart
  BY <1>1 DEF RtStart, Give, Take, TakeOrTimeout, Submit, flags, tasks
<1>2. CASE RtLoop
  BY <1>2 DEF RtLoop, RtGo, Give, Take, TakeOrTimeout, Submit, flags, tasks
<1>3. CASE RtStep
  BY <1>3 DEF RtStep, RtGo, Give, Take, TakeOrTimeout, Submit, flags, tasks
<1>4. CASE RtWaitClear
  BY <1>4 DEF RtWaitClear, RtGo, Give, Take, TakeOrTimeout, Submit, flags, tasks
<1>5. CASE RtPen
  BY <1>5 DEF RtPen, RtGo, Give, Take, TakeOrTimeout, Submit, flags, tasks
<1>6. CASE RtDraw
  BY <1>6 DEF RtDraw, RtGo, Give, Take, TakeOrTimeout, Submit, flags, tasks
<1>7. CASE RtWaitSprites
  BY <1>7 DEF RtWaitSprites, RtGo, Give, Take, TakeOrTimeout, Submit, flags, tasks
<1>8. CASE RtSwap
  BY <1>8 DEF RtSwap, RtGo, Give, Take, TakeOrTimeout, Submit, flags, tasks
<1>9. CASE RtWaitPpa
  BY <1>9 DEF RtWaitPpa, RtGo, Give, Take, TakeOrTimeout, Submit, flags, tasks
<1>10. CASE RtPresent
  BY <1>10 DEF RtPresent, RtGo, Give, Take, TakeOrTimeout, Submit, flags, tasks
<1>11. CASE RtDrain
  BY <1>11 DEF RtDrain, RtGo, Give, Take, TakeOrTimeout, Submit, flags, tasks
<1>12. CASE RtWaitVsync
  BY <1>12 DEF RtWaitVsync, RtGo, Give, Take, TakeOrTimeout, Submit, flags, tasks
<1>13. CASE RtScale
  BY <1>13 DEF RtScale, RtGo, Give, Take, TakeOrTimeout, Submit, flags, tasks
<1>14. CASE RtKick
  BY <1>14 DEF RtKick, RtGo, Give, Take, TakeOrTimeout, Submit, flags, tasks
<1>15. CASE RtStop
  BY <1>15 DEF RtStop, RtGo, Give, Take, TakeOrTimeout, Submit, flags, tasks
<1>16. CASE RtWakeClear
  BY <1>16 DEF RtWakeClear, RtGo, Give, Take, TakeOrTimeout, Submit, flags, tasks
<1>17. CASE RtWakeSprites
  BY <1>17 DEF RtWakeSprites, RtGo, Give, Take, TakeOrTimeout, Submit, flags, tasks
<1>18. CASE RtWaitExit
  BY <1>18 DEF RtWaitExit, RtGo, Give, Take, TakeOrTimeout, Submit, flags, tasks
<1>19. CASE RtDelete
  BY <1>19 DEF RtDelete, RtGo, Give, Take, TakeOrTimeout, Submit, flags, tasks
<1>20. CASE HpTakeStart
  BY <1>20 DEF HpTakeStart, HpGo, Give, Take, TakeOrTimeout, Submit, flags, tasks
<1>21. CASE HpCheckStart
  BY <1>21 DEF HpCheckStart, HpGo, Give, Take, TakeOrTimeout, Submit, flags, tasks
<1>22. CASE HpClear
  BY <1>22 DEF HpClear, HpGo, Give, Take, TakeOrTimeout, Submit, flags, tasks
<1>23. CASE HpTakeSprites
  BY <1>23 DEF HpTakeSprites, HpGo, Give, Take, TakeOrTimeout, Submit, flags, tasks
<1>24. CASE HpCheckSprites
  BY <1>24 DEF HpCheckSprites, HpGo, Give, Take, TakeOrTimeout, Submit, flags, tasks
<1>25. CASE HpDraw
  BY <1>25 DEF HpDraw, HpGo, Give, Take, TakeOrTimeout, Submit, flags, tasks
<1>26. CASE HpExit
  BY <1>26 DEF HpExit, HpGo, Give, Take, TakeOrTimeout, Submit, flags, tasks
<1>27. CASE Launch
  BY <1>27 DEF Launch, Give, Take, TakeOrTimeout, Submit, flags, tasks
<1>28. CASE Poll
  BY <1>28 DEF Poll, AppGo, Give, Take, TakeOrTimeout, Submit, flags, tasks
<1>29. CASE Pause
  BY <1>29 DEF Pause, AppGo, Give, Take, TakeOrTimeout, Submit, flags, tasks
<1>30. CASE GraceOver
  BY <1>30 DEF GraceOver, AppGo, Give, Take, TakeOrTimeout, Submit, flags, tasks
<1>31. CASE OverlayPresent
  BY <1>31 DEF OverlayPresent, AppGo, Give, Take, TakeOrTimeout, Submit, flags, tasks
<1>32. CASE OverlayDrain
  BY <1>32 DEF OverlayDrain, AppGo, Give, Take, TakeOrTimeout, Submit, flags, tasks
<1>33. CASE OverlayVsync
  BY <1>33 DEF OverlayVsync, AppGo, Give, Take, TakeOrTimeout, Submit, flags, tasks
<1>34. CASE Resume
  BY <1>34 DEF Resume, AppGo, Give, Take, TakeOrTimeout, Submit, flags, tasks
<1>35. CASE Quit
  BY <1>35 DEF Quit, AppGo, Give, Take, TakeOrTimeout, Submit, flags, tasks
<1>36. CASE Join
  BY <1>36 DEF Join, AppGo, Give, Take, TakeOrTimeout, Submit, flags, tasks
<1>37. CASE PpaDone
  BY <1>37 DEF PpaDone, Give, Take, TakeOrTimeout, Submit, flags, tasks
<1>38. CASE Vsync
  BY <1>38 DEF Vsync, Give, Take, TakeOrTimeout, Submit, flags, tasks
<1>39. CASE UNCHANGED vars
  BY <1>39 DEF vars, flags, tasks
<1> QED
  BY <1>1, <1>2, <1>3, <1>4, <1>5, <1>6, <1>7, <1>8, <1>9, <1>10, <1>11,
     <1>12, <1>13, <1>14, <1>15, <1>16, <1>17, <1>18, <1>19, <1>20, <1>21,
     <1>22, <1>23, <1>24, <1>25, <1>26, <1>27, <1>28, <1>29, <1>30, <1>31,
     <1>32, <1>33, <1>34, <1>35, <1>36, <1>37, <1>38, <1>39
  DEF Next, RtNext, HpNext, AppNext

\* The handshake invariant holds throughout.
THEOREM HandshakeCorrect == Spec => []HandshakeInv
<1>1. Init => HandshakeInv
  BY HandshakeInit
<1>2. TypeOK /\ TypeOK' /\ HandshakeInv /\ [Next]_vars => HandshakeInv'
  BY HandshakeStep DEF IInv
<1> QED
  BY <1>1, <1>2, TypeCorrect, PTL DEF Spec

\* FrameExclusion: neither core touches the buffer out of its turn.
THEOREM MutualExclusion == Spec => []FrameExclusion
<1>1. TypeOK /\ HandshakeInv => FrameExclusion
  BY DEF TypeOK, RtStates, FrameExclusion, Composing, HandshakeInv, BeforePenInv,
         PenInv, SharedDrawInv, AfterDrawInv, ShutdownInv, AtRestInv, AtRest,
         BeforePen, SharedDraw, AfterDraw, Shutdown
<1> QED
  BY <1>1, TypeCorrect, HandshakeCorrect, PTL

\* SemaphoresLive: the semaphores exist as long as the helper does.
THEOREM SemaphoresOutliveHelper == Spec => []SemaphoresLive
<1>1. HandshakeInv => SemaphoresLive
  BY DEF HandshakeInv, AtRestInv, ActiveInv, SemaphoresLive
<1> QED
  BY <1>1, HandshakeCorrect, PTL

-----------------------------------------------------------------------------
(* The pipeline implements DoubleBuffer.                                   *)

LEMMA FramesInit == Init => DB!Init
BY DEF Init, DB!Init, Phase, Composing

LEMMA FramesStep == IInv /\ [Next]_vars => [DB!Next]_<<cur, Phase>>
<1> SUFFICES ASSUME TypeOK, HandshakeInv, [Next]_vars
             PROVE  DB!Next \/ UNCHANGED <<cur, Phase>>
  BY DEF IInv
<1> USE DEF HandshakeInv, BeforePenInv, PenInv, SharedDrawInv, AfterDrawInv,
            ShutdownInv, AtRestInv, OnlyToken, AtRest, BeforePen, SharedDraw,
            AfterDraw, Shutdown, TypeOK, Phase, Composing
<1>1. CASE RtStart
  BY <1>1 DEF RtStart
<1>2. CASE RtLoop
  BY <1>2 DEF RtLoop, RtGo
<1>3. CASE RtStep
  BY <1>3 DEF RtStep, RtGo
<1>4. CASE RtWaitClear
  BY <1>4 DEF RtWaitClear, RtGo, Take, Sems, Handshake, DB!Next, DB!Compose, DB!Goes
<1>5. CASE RtPen
  BY <1>5 DEF RtPen, RtGo
<1>6. CASE RtDraw
  BY <1>6 DEF RtDraw, RtGo
<1>7. CASE RtWaitSprites
  BY <1>7 DEF RtWaitSprites, RtGo, Take, Sems, Handshake
<1>8. CASE RtSwap
  BY <1>8 DEF RtSwap, RtGo, DB!Next, DB!Publish, DB!Goes
<1>9. CASE RtWaitPpa
  BY <1>9 DEF RtWaitPpa, RtGo
<1>10. CASE RtPresent
  BY <1>10 DEF RtPresent, RtGo
<1>11. CASE RtDrain
  BY <1>11 DEF RtDrain, RtGo
<1>12. CASE RtWaitVsync
  BY <1>12 DEF RtWaitVsync, RtGo
<1>13. CASE RtScale
  BY <1>13 DEF RtScale, RtGo
<1>14. CASE RtKick
  BY <1>14 DEF RtKick, RtGo
<1>15. CASE RtStop
  BY <1>15 DEF RtStop, RtGo
<1>16. CASE RtWakeClear
  BY <1>16 DEF RtWakeClear, RtGo
<1>17. CASE RtWakeSprites
  BY <1>17 DEF RtWakeSprites, RtGo
<1>18. CASE RtWaitExit
  BY <1>18 DEF RtWaitExit, RtGo
<1>19. CASE RtDelete
  BY <1>19 DEF RtDelete, RtGo
<1>20. CASE HpTakeStart
  BY <1>20 DEF HpTakeStart, HpGo
<1>21. CASE HpCheckStart
  BY <1>21 DEF HpCheckStart, HpGo, DB!Next, DB!BeginClear, DB!Goes
<1>22. CASE HpClear
  BY <1>22 DEF HpClear, HpGo, DB!Next, DB!EndClear, DB!Goes
<1>23. CASE HpTakeSprites
  BY <1>23 DEF HpTakeSprites, HpGo
<1>24. CASE HpCheckSprites
  BY <1>24 DEF HpCheckSprites, HpGo, DB!Next, DB!Abandon, DB!Goes
<1>25. CASE HpDraw
  BY <1>25 DEF HpDraw, HpGo
<1>26. CASE HpExit
  BY <1>26 DEF HpExit, HpGo
<1>27. CASE Launch
  BY <1>27 DEF Launch
<1>28. CASE Poll
  BY <1>28 DEF Poll, AppGo
<1>29. CASE Pause
  BY <1>29 DEF Pause, AppGo
<1>30. CASE GraceOver
  BY <1>30 DEF GraceOver, AppGo
<1>31. CASE OverlayPresent
  BY <1>31 DEF OverlayPresent, AppGo
<1>32. CASE OverlayDrain
  BY <1>32 DEF OverlayDrain, AppGo
<1>33. CASE OverlayVsync
  BY <1>33 DEF OverlayVsync, AppGo
<1>34. CASE Resume
  BY <1>34 DEF Resume, AppGo
<1>35. CASE Quit
  BY <1>35 DEF Quit, AppGo
<1>36. CASE Join
  BY <1>36 DEF Join, AppGo
<1>37. CASE PpaDone
  BY <1>37 DEF PpaDone, tasks
<1>38. CASE Vsync
  BY <1>38 DEF Vsync, tasks
<1>39. CASE UNCHANGED vars
  BY <1>39 DEF vars, tasks
<1> QED
  BY <1>1, <1>2, <1>3, <1>4, <1>5, <1>6, <1>7, <1>8, <1>9, <1>10, <1>11,
     <1>12, <1>13, <1>14, <1>15, <1>16, <1>17, <1>18, <1>19, <1>20, <1>21,
     <1>22, <1>23, <1>24, <1>25, <1>26, <1>27, <1>28, <1>29, <1>30, <1>31,
     <1>32, <1>33, <1>34, <1>35, <1>36, <1>37, <1>38, <1>39
  DEF Next, RtNext, HpNext, AppNext

\* FramesAreWhole: a published frame was cleared and composed exactly once.
THEOREM PipelineImplementsDoubleBuffer == Spec => FramesAreWhole
<1>1. Init => DB!Init
  BY FramesInit
<1>2. TypeOK /\ HandshakeInv /\ [Next]_vars => [DB!Next]_<<cur, Phase>>
  BY FramesStep DEF IInv
<1> QED
  BY <1>1, <1>2, TypeCorrect, HandshakeCorrect, PTL DEF Spec, DB!Spec, FramesAreWhole

-----------------------------------------------------------------------------
(* The asynchronous PPA and the panel, under the timing the code relies on. *)

\* The engine is idle once its completion was signalled, and stays idle while
\* the runtime moves from that signal to the next operation.
EngineInv ==
  /\ sem["ppaDone"] = 1 => ~ppa.busy
  /\ rt \in {"present", "drain", "waitVsync", "scale"} =>
       ~ppa.busy /\ sem["ppaDone"] = 0

\* It reads the buffer that is not the draw target, except between the swap
\* and the wait for it.
SourceInv ==
  ppa.busy /\ offered /\ rt # "waitPpa" => ppa.src = 1 - cur

LEMMA EngineStep ==
  ASSUME PpaTimely, TypeOK, EngineInv, [Next]_vars
  PROVE  EngineInv'
<1> USE DEF EngineInv, TypeOK, Sems, Handshake
<1>1. CASE RtStart
  BY <1>1 DEF RtStart, Give, Take, TakeOrTimeout, Submit, flags, panel, tasks
<1>2. CASE RtLoop
  BY <1>2 DEF RtLoop, RtGo, Give, Take, TakeOrTimeout, Submit, flags, panel, tasks
<1>3. CASE RtStep
  BY <1>3 DEF RtStep, RtGo, Give, Take, TakeOrTimeout, Submit, flags, panel, tasks
<1>4. CASE RtWaitClear
  BY <1>4 DEF RtWaitClear, RtGo, Give, Take, TakeOrTimeout, Submit, flags, panel, tasks
<1>5. CASE RtPen
  BY <1>5 DEF RtPen, RtGo, Give, Take, TakeOrTimeout, Submit, flags, panel, tasks
<1>6. CASE RtDraw
  BY <1>6 DEF RtDraw, RtGo, Give, Take, TakeOrTimeout, Submit, flags, panel, tasks
<1>7. CASE RtWaitSprites
  BY <1>7 DEF RtWaitSprites, RtGo, Give, Take, TakeOrTimeout, Submit, flags, panel, tasks
<1>8. CASE RtSwap
  BY <1>8 DEF RtSwap, RtGo, Give, Take, TakeOrTimeout, Submit, flags, panel, tasks
<1>9. CASE RtWaitPpa
  BY <1>9 DEF RtWaitPpa, RtGo, Give, Take, TakeOrTimeout, Submit, flags, panel, tasks
<1>10. CASE RtPresent
  BY <1>10 DEF RtPresent, RtGo, Give, Take, TakeOrTimeout, Submit, flags, panel, tasks
<1>11. CASE RtDrain
  BY <1>11 DEF RtDrain, RtGo, Give, Take, TakeOrTimeout, Submit, flags, panel, tasks
<1>12. CASE RtWaitVsync
  BY <1>12 DEF RtWaitVsync, RtGo, Give, Take, TakeOrTimeout, Submit, flags, panel, tasks
<1>13. CASE RtScale
  BY <1>13 DEF RtScale, RtGo, Give, Take, TakeOrTimeout, Submit, flags, panel, tasks
<1>14. CASE RtKick
  BY <1>14 DEF RtKick, RtGo, Give, Take, TakeOrTimeout, Submit, flags, panel, tasks
<1>15. CASE RtStop
  BY <1>15 DEF RtStop, RtGo, Give, Take, TakeOrTimeout, Submit, flags, panel, tasks
<1>16. CASE RtWakeClear
  BY <1>16 DEF RtWakeClear, RtGo, Give, Take, TakeOrTimeout, Submit, flags, panel, tasks
<1>17. CASE RtWakeSprites
  BY <1>17 DEF RtWakeSprites, RtGo, Give, Take, TakeOrTimeout, Submit, flags, panel, tasks
<1>18. CASE RtWaitExit
  BY <1>18 DEF RtWaitExit, RtGo, Give, Take, TakeOrTimeout, Submit, flags, panel, tasks
<1>19. CASE RtDelete
  BY <1>19 DEF RtDelete, RtGo, Give, Take, TakeOrTimeout, Submit, flags, panel, tasks
<1>20. CASE HpTakeStart
  BY <1>20 DEF HpTakeStart, HpGo, Give, Take, TakeOrTimeout, Submit, flags, panel, tasks
<1>21. CASE HpCheckStart
  BY <1>21 DEF HpCheckStart, HpGo, Give, Take, TakeOrTimeout, Submit, flags, panel, tasks
<1>22. CASE HpClear
  BY <1>22 DEF HpClear, HpGo, Give, Take, TakeOrTimeout, Submit, flags, panel, tasks
<1>23. CASE HpTakeSprites
  BY <1>23 DEF HpTakeSprites, HpGo, Give, Take, TakeOrTimeout, Submit, flags, panel, tasks
<1>24. CASE HpCheckSprites
  BY <1>24 DEF HpCheckSprites, HpGo, Give, Take, TakeOrTimeout, Submit,
     flags, panel, tasks
<1>25. CASE HpDraw
  BY <1>25 DEF HpDraw, HpGo, Give, Take, TakeOrTimeout, Submit, flags, panel, tasks
<1>26. CASE HpExit
  BY <1>26 DEF HpExit, HpGo, Give, Take, TakeOrTimeout, Submit, flags, panel, tasks
<1>27. CASE Launch
  BY <1>27 DEF Launch, Give, Take, TakeOrTimeout, Submit, flags, panel, tasks
<1>28. CASE Poll
  BY <1>28 DEF Poll, AppGo, Give, Take, TakeOrTimeout, Submit, flags, panel, tasks
<1>29. CASE Pause
  BY <1>29 DEF Pause, AppGo, Give, Take, TakeOrTimeout, Submit, flags, panel, tasks
<1>30. CASE GraceOver
  BY <1>30 DEF GraceOver, AppGo, Give, Take, TakeOrTimeout, Submit, flags, panel, tasks
<1>31. CASE OverlayPresent
  BY <1>31 DEF OverlayPresent, AppGo, Give, Take, TakeOrTimeout, Submit,
     flags, panel, tasks
<1>32. CASE OverlayDrain
  BY <1>32 DEF OverlayDrain, AppGo, Give, Take, TakeOrTimeout, Submit, flags, panel, tasks
<1>33. CASE OverlayVsync
  BY <1>33 DEF OverlayVsync, AppGo, Give, Take, TakeOrTimeout, Submit, flags, panel, tasks
<1>34. CASE Resume
  BY <1>34 DEF Resume, AppGo, Give, Take, TakeOrTimeout, Submit, flags, panel, tasks
<1>35. CASE Quit
  BY <1>35 DEF Quit, AppGo, Give, Take, TakeOrTimeout, Submit, flags, panel, tasks
<1>36. CASE Join
  BY <1>36 DEF Join, AppGo, Give, Take, TakeOrTimeout, Submit, flags, panel, tasks
<1>37. CASE PpaDone
  BY <1>37 DEF PpaDone, Give, Take, TakeOrTimeout, Submit, flags, panel, tasks
<1>38. CASE Vsync
  BY <1>38 DEF Vsync, Give, Take, TakeOrTimeout, Submit, flags, panel, tasks
<1>39. CASE UNCHANGED vars
  BY <1>39 DEF vars, flags, panel, tasks
<1> QED
  BY <1>1, <1>2, <1>3, <1>4, <1>5, <1>6, <1>7, <1>8, <1>9, <1>10, <1>11, 
     <1>12, <1>13, <1>14, <1>15, <1>16, <1>17, <1>18, <1>19, <1>20, <1>21, 
     <1>22, <1>23, <1>24, <1>25, <1>26, <1>27, <1>28, <1>29, <1>30, <1>31, 
     <1>32, <1>33, <1>34, <1>35, <1>36, <1>37, <1>38, <1>39
  DEF Next, RtNext, HpNext, AppNext

LEMMA SourceStep ==
  ASSUME PpaTimely, TypeOK, EngineInv, SourceInv, [Next]_vars
  PROVE  SourceInv'
<1> USE DEF EngineInv, SourceInv, TypeOK, Fbs, Sems, Handshake
<1>1. CASE RtStart
  BY <1>1 DEF RtStart, Give, Take, TakeOrTimeout, Submit, flags, panel, tasks
<1>2. CASE RtLoop
  BY <1>2 DEF RtLoop, RtGo, Give, Take, TakeOrTimeout, Submit, flags, panel, tasks
<1>3. CASE RtStep
  BY <1>3 DEF RtStep, RtGo, Give, Take, TakeOrTimeout, Submit, flags, panel, tasks
<1>4. CASE RtWaitClear
  BY <1>4 DEF RtWaitClear, RtGo, Give, Take, TakeOrTimeout, Submit, flags, panel, tasks
<1>5. CASE RtPen
  BY <1>5 DEF RtPen, RtGo, Give, Take, TakeOrTimeout, Submit, flags, panel, tasks
<1>6. CASE RtDraw
  BY <1>6 DEF RtDraw, RtGo, Give, Take, TakeOrTimeout, Submit, flags, panel, tasks
<1>7. CASE RtWaitSprites
  BY <1>7 DEF RtWaitSprites, RtGo, Give, Take, TakeOrTimeout, Submit, flags, panel, tasks
<1>8. CASE RtSwap
  BY <1>8 DEF RtSwap, RtGo, Give, Take, TakeOrTimeout, Submit, flags, panel, tasks
<1>9. CASE RtWaitPpa
  BY <1>9 DEF RtWaitPpa, RtGo, Give, Take, TakeOrTimeout, Submit, flags, panel, tasks
<1>10. CASE RtPresent
  BY <1>10 DEF RtPresent, RtGo, Give, Take, TakeOrTimeout, Submit, flags, panel, tasks
<1>11. CASE RtDrain
  BY <1>11 DEF RtDrain, RtGo, Give, Take, TakeOrTimeout, Submit, flags, panel, tasks
<1>12. CASE RtWaitVsync
  BY <1>12 DEF RtWaitVsync, RtGo, Give, Take, TakeOrTimeout, Submit, flags, panel, tasks
<1>13. CASE RtScale
  BY <1>13 DEF RtScale, RtGo, Give, Take, TakeOrTimeout, Submit, flags, panel, tasks
<1>14. CASE RtKick
  BY <1>14 DEF RtKick, RtGo, Give, Take, TakeOrTimeout, Submit, flags, panel, tasks
<1>15. CASE RtStop
  BY <1>15 DEF RtStop, RtGo, Give, Take, TakeOrTimeout, Submit, flags, panel, tasks
<1>16. CASE RtWakeClear
  BY <1>16 DEF RtWakeClear, RtGo, Give, Take, TakeOrTimeout, Submit, flags, panel, tasks
<1>17. CASE RtWakeSprites
  BY <1>17 DEF RtWakeSprites, RtGo, Give, Take, TakeOrTimeout, Submit, flags, panel, tasks
<1>18. CASE RtWaitExit
  BY <1>18 DEF RtWaitExit, RtGo, Give, Take, TakeOrTimeout, Submit, flags, panel, tasks
<1>19. CASE RtDelete
  BY <1>19 DEF RtDelete, RtGo, Give, Take, TakeOrTimeout, Submit, flags, panel, tasks
<1>20. CASE HpTakeStart
  BY <1>20 DEF HpTakeStart, HpGo, Give, Take, TakeOrTimeout, Submit, flags, panel, tasks
<1>21. CASE HpCheckStart
  BY <1>21 DEF HpCheckStart, HpGo, Give, Take, TakeOrTimeout, Submit, flags, panel, tasks
<1>22. CASE HpClear
  BY <1>22 DEF HpClear, HpGo, Give, Take, TakeOrTimeout, Submit, flags, panel, tasks
<1>23. CASE HpTakeSprites
  BY <1>23 DEF HpTakeSprites, HpGo, Give, Take, TakeOrTimeout, Submit, flags, panel, tasks
<1>24. CASE HpCheckSprites
  BY <1>24 DEF HpCheckSprites, HpGo, Give, Take, TakeOrTimeout, Submit,
     flags, panel, tasks
<1>25. CASE HpDraw
  BY <1>25 DEF HpDraw, HpGo, Give, Take, TakeOrTimeout, Submit, flags, panel, tasks
<1>26. CASE HpExit
  BY <1>26 DEF HpExit, HpGo, Give, Take, TakeOrTimeout, Submit, flags, panel, tasks
<1>27. CASE Launch
  BY <1>27 DEF Launch, Give, Take, TakeOrTimeout, Submit, flags, panel, tasks
<1>28. CASE Poll
  BY <1>28 DEF Poll, AppGo, Give, Take, TakeOrTimeout, Submit, flags, panel, tasks
<1>29. CASE Pause
  BY <1>29 DEF Pause, AppGo, Give, Take, TakeOrTimeout, Submit, flags, panel, tasks
<1>30. CASE GraceOver
  BY <1>30 DEF GraceOver, AppGo, Give, Take, TakeOrTimeout, Submit, flags, panel, tasks
<1>31. CASE OverlayPresent
  BY <1>31 DEF OverlayPresent, AppGo, Give, Take, TakeOrTimeout, Submit,
     flags, panel, tasks
<1>32. CASE OverlayDrain
  BY <1>32 DEF OverlayDrain, AppGo, Give, Take, TakeOrTimeout, Submit, flags, panel, tasks
<1>33. CASE OverlayVsync
  BY <1>33 DEF OverlayVsync, AppGo, Give, Take, TakeOrTimeout, Submit, flags, panel, tasks
<1>34. CASE Resume
  BY <1>34 DEF Resume, AppGo, Give, Take, TakeOrTimeout, Submit, flags, panel, tasks
<1>35. CASE Quit
  BY <1>35 DEF Quit, AppGo, Give, Take, TakeOrTimeout, Submit, flags, panel, tasks
<1>36. CASE Join
  BY <1>36 DEF Join, AppGo, Give, Take, TakeOrTimeout, Submit, flags, panel, tasks
<1>37. CASE PpaDone
  BY <1>37 DEF PpaDone, Give, Take, TakeOrTimeout, Submit, flags, panel, tasks
<1>38. CASE Vsync
  BY <1>38 DEF Vsync, Give, Take, TakeOrTimeout, Submit, flags, panel, tasks
<1>39. CASE UNCHANGED vars
  BY <1>39 DEF vars, flags, panel, tasks
<1> QED
  BY <1>1, <1>2, <1>3, <1>4, <1>5, <1>6, <1>7, <1>8, <1>9, <1>10, <1>11, 
     <1>12, <1>13, <1>14, <1>15, <1>16, <1>17, <1>18, <1>19, <1>20, <1>21, 
     <1>22, <1>23, <1>24, <1>25, <1>26, <1>27, <1>28, <1>29, <1>30, <1>31, 
     <1>32, <1>33, <1>34, <1>35, <1>36, <1>37, <1>38, <1>39
  DEF Next, RtNext, HpNext, AppNext

\* PpaSourceIntact: no one writes a stage framebuffer the PPA still reads, as
\* long as no completed frame was withheld from the display.
THEOREM PpaReadsIntact == ASSUME PpaTimely PROVE Spec => []PpaSourceIntact
<1>1. Init => EngineInv /\ SourceInv
  BY DEF Init, EngineInv, SourceInv, Sems
<1>2. TypeOK /\ EngineInv /\ SourceInv /\ [Next]_vars => EngineInv' /\ SourceInv'
  BY EngineStep, SourceStep
<1>3. TypeOK /\ HandshakeInv /\ SourceInv => PpaSourceIntact
  BY DEF TypeOK, Fbs, HandshakeInv, AfterDrawInv, AfterDraw, SourceInv,
         PpaSourceIntact, Writing, Composing
<1> QED
  BY <1>1, <1>2, <1>3, TypeCorrect, HandshakeCorrect, PTL DEF Spec

\* From the end of the grace delay until the game resumes, the runtime is out of
\* dsi_display_update and the engine it started is idle.
PausedInv ==
  /\ app \in {"grace", "resume"} \cup OverlayStates => paused
  /\ app \in {"resume"} \cup OverlayStates => ~InUpdate /\ ~ppa.busy

\* The two panel buffers never coincide in role; a vsync event seen in the wait
\* is one that committed the submission.
PanelInv ==
  /\ pend = 1 - back
  /\ rt = "waitVsync" /\ sem["swapDone"] = 1 => scan = pend
  /\ rt = "scale" => scan = pend
  /\ ppa.busy => ppa.dst = back /\ scan = pend

LEMMA PausedStep ==
  ASSUME GraceCovers, TypeOK, PausedInv, [Next]_vars
  PROVE  PausedInv'
<1> USE DEF PausedInv, InUpdate, OverlayStates, TypeOK
<1>1. CASE RtStart
  BY <1>1 DEF RtStart, flags, panel, tasks
<1>2. CASE RtLoop
  BY <1>2 DEF RtLoop, RtGo, flags, panel, tasks
<1>3. CASE RtStep
  BY <1>3 DEF RtStep, RtGo, flags, panel, tasks
<1>4. CASE RtWaitClear
  BY <1>4 DEF RtWaitClear, RtGo, flags, panel, tasks
<1>5. CASE RtPen
  BY <1>5 DEF RtPen, RtGo, flags, panel, tasks
<1>6. CASE RtDraw
  BY <1>6 DEF RtDraw, RtGo, flags, panel, tasks
<1>7. CASE RtWaitSprites
  BY <1>7 DEF RtWaitSprites, RtGo, flags, panel, tasks
<1>8. CASE RtSwap
  BY <1>8 DEF RtSwap, RtGo, flags, panel, tasks
<1>9. CASE RtWaitPpa
  BY <1>9 DEF RtWaitPpa, RtGo, flags, panel, tasks
<1>10. CASE RtPresent
  BY <1>10 DEF RtPresent, RtGo, flags, panel, tasks
<1>11. CASE RtDrain
  BY <1>11 DEF RtDrain, RtGo, flags, panel, tasks
<1>12. CASE RtWaitVsync
  BY <1>12 DEF RtWaitVsync, RtGo, flags, panel, tasks
<1>13. CASE RtScale
  BY <1>13 DEF RtScale, RtGo, flags, panel, tasks
<1>14. CASE RtKick
  BY <1>14 DEF RtKick, RtGo, flags, panel, tasks
<1>15. CASE RtStop
  BY <1>15 DEF RtStop, RtGo, flags, panel, tasks
<1>16. CASE RtWakeClear
  BY <1>16 DEF RtWakeClear, RtGo, flags, panel, tasks
<1>17. CASE RtWakeSprites
  BY <1>17 DEF RtWakeSprites, RtGo, flags, panel, tasks
<1>18. CASE RtWaitExit
  BY <1>18 DEF RtWaitExit, RtGo, flags, panel, tasks
<1>19. CASE RtDelete
  BY <1>19 DEF RtDelete, RtGo, flags, panel, tasks
<1>20. CASE HpTakeStart
  BY <1>20 DEF HpTakeStart, HpGo, flags, panel, tasks
<1>21. CASE HpCheckStart
  BY <1>21 DEF HpCheckStart, HpGo, flags, panel, tasks
<1>22. CASE HpClear
  BY <1>22 DEF HpClear, HpGo, flags, panel, tasks
<1>23. CASE HpTakeSprites
  BY <1>23 DEF HpTakeSprites, HpGo, flags, panel, tasks
<1>24. CASE HpCheckSprites
  BY <1>24 DEF HpCheckSprites, HpGo, flags, panel, tasks
<1>25. CASE HpDraw
  BY <1>25 DEF HpDraw, HpGo, flags, panel, tasks
<1>26. CASE HpExit
  BY <1>26 DEF HpExit, HpGo, flags, panel, tasks
<1>27. CASE Launch
  BY <1>27 DEF Launch, flags, panel, tasks
<1>28. CASE Poll
  BY <1>28 DEF Poll, AppGo, flags, panel, tasks
<1>29. CASE Pause
  BY <1>29 DEF Pause, AppGo, flags, panel, tasks
<1>30. CASE GraceOver
  BY <1>30 DEF GraceOver, AppGo, flags, panel, tasks
<1>31. CASE OverlayPresent
  BY <1>31 DEF OverlayPresent, AppGo, flags, panel, tasks
<1>32. CASE OverlayDrain
  BY <1>32 DEF OverlayDrain, AppGo, flags, panel, tasks
<1>33. CASE OverlayVsync
  BY <1>33 DEF OverlayVsync, AppGo, flags, panel, tasks
<1>34. CASE Resume
  BY <1>34 DEF Resume, AppGo, flags, panel, tasks
<1>35. CASE Quit
  BY <1>35 DEF Quit, AppGo, flags, panel, tasks
<1>36. CASE Join
  BY <1>36 DEF Join, AppGo, flags, panel, tasks
<1>37. CASE PpaDone
  BY <1>37 DEF PpaDone, flags, panel, tasks
<1>38. CASE Vsync
  BY <1>38 DEF Vsync, flags, panel, tasks
<1>39. CASE UNCHANGED vars
  BY <1>39 DEF vars, flags, panel, tasks
<1> QED
  BY <1>1, <1>2, <1>3, <1>4, <1>5, <1>6, <1>7, <1>8, <1>9, <1>10, <1>11, 
     <1>12, <1>13, <1>14, <1>15, <1>16, <1>17, <1>18, <1>19, <1>20, <1>21, 
     <1>22, <1>23, <1>24, <1>25, <1>26, <1>27, <1>28, <1>29, <1>30, <1>31, 
     <1>32, <1>33, <1>34, <1>35, <1>36, <1>37, <1>38, <1>39
  DEF Next, RtNext, HpNext, AppNext

LEMMA PanelStep ==
  ASSUME GraceCovers, PpaTimely, TypeOK, EngineInv, PausedInv, PanelInv, [Next]_vars
  PROVE  PanelInv'
<1> USE DEF PanelInv, PausedInv, EngineInv, InUpdate, OverlayStates, TypeOK, Fbs,
            Sems, Handshake
<1>1. CASE RtStart
  BY <1>1 DEF RtStart, Give, Take, TakeOrTimeout, Submit, flags, panel, tasks
<1>2. CASE RtLoop
  BY <1>2 DEF RtLoop, RtGo, Give, Take, TakeOrTimeout, Submit, flags, panel, tasks
<1>3. CASE RtStep
  BY <1>3 DEF RtStep, RtGo, Give, Take, TakeOrTimeout, Submit, flags, panel, tasks
<1>4. CASE RtWaitClear
  BY <1>4 DEF RtWaitClear, RtGo, Give, Take, TakeOrTimeout, Submit, flags, panel, tasks
<1>5. CASE RtPen
  BY <1>5 DEF RtPen, RtGo, Give, Take, TakeOrTimeout, Submit, flags, panel, tasks
<1>6. CASE RtDraw
  BY <1>6 DEF RtDraw, RtGo, Give, Take, TakeOrTimeout, Submit, flags, panel, tasks
<1>7. CASE RtWaitSprites
  BY <1>7 DEF RtWaitSprites, RtGo, Give, Take, TakeOrTimeout, Submit, flags, panel, tasks
<1>8. CASE RtSwap
  BY <1>8 DEF RtSwap, RtGo, Give, Take, TakeOrTimeout, Submit, flags, panel, tasks
<1>9. CASE RtWaitPpa
  BY <1>9 DEF RtWaitPpa, RtGo, Give, Take, TakeOrTimeout, Submit, flags, panel, tasks
<1>10. CASE RtPresent
  BY <1>10 DEF RtPresent, RtGo, Give, Take, TakeOrTimeout, Submit, flags, panel, tasks
<1>11. CASE RtDrain
  BY <1>11 DEF RtDrain, RtGo, Give, Take, TakeOrTimeout, Submit, flags, panel, tasks
<1>12. CASE RtWaitVsync
  BY <1>12 DEF RtWaitVsync, RtGo, Give, Take, TakeOrTimeout, Submit, flags, panel, tasks
<1>13. CASE RtScale
  BY <1>13 DEF RtScale, RtGo, Give, Take, TakeOrTimeout, Submit, flags, panel, tasks
<1>14. CASE RtKick
  BY <1>14 DEF RtKick, RtGo, Give, Take, TakeOrTimeout, Submit, flags, panel, tasks
<1>15. CASE RtStop
  BY <1>15 DEF RtStop, RtGo, Give, Take, TakeOrTimeout, Submit, flags, panel, tasks
<1>16. CASE RtWakeClear
  BY <1>16 DEF RtWakeClear, RtGo, Give, Take, TakeOrTimeout, Submit, flags, panel, tasks
<1>17. CASE RtWakeSprites
  BY <1>17 DEF RtWakeSprites, RtGo, Give, Take, TakeOrTimeout, Submit, flags, panel, tasks
<1>18. CASE RtWaitExit
  BY <1>18 DEF RtWaitExit, RtGo, Give, Take, TakeOrTimeout, Submit, flags, panel, tasks
<1>19. CASE RtDelete
  BY <1>19 DEF RtDelete, RtGo, Give, Take, TakeOrTimeout, Submit, flags, panel, tasks
<1>20. CASE HpTakeStart
  BY <1>20 DEF HpTakeStart, HpGo, Give, Take, TakeOrTimeout, Submit, flags, panel, tasks
<1>21. CASE HpCheckStart
  BY <1>21 DEF HpCheckStart, HpGo, Give, Take, TakeOrTimeout, Submit, flags, panel, tasks
<1>22. CASE HpClear
  BY <1>22 DEF HpClear, HpGo, Give, Take, TakeOrTimeout, Submit, flags, panel, tasks
<1>23. CASE HpTakeSprites
  BY <1>23 DEF HpTakeSprites, HpGo, Give, Take, TakeOrTimeout, Submit, flags, panel, tasks
<1>24. CASE HpCheckSprites
  BY <1>24 DEF HpCheckSprites, HpGo, Give, Take, TakeOrTimeout, Submit,
     flags, panel, tasks
<1>25. CASE HpDraw
  BY <1>25 DEF HpDraw, HpGo, Give, Take, TakeOrTimeout, Submit, flags, panel, tasks
<1>26. CASE HpExit
  BY <1>26 DEF HpExit, HpGo, Give, Take, TakeOrTimeout, Submit, flags, panel, tasks
<1>27. CASE Launch
  BY <1>27 DEF Launch, Give, Take, TakeOrTimeout, Submit, flags, panel, tasks
<1>28. CASE Poll
  BY <1>28 DEF Poll, AppGo, Give, Take, TakeOrTimeout, Submit, flags, panel, tasks
<1>29. CASE Pause
  BY <1>29 DEF Pause, AppGo, Give, Take, TakeOrTimeout, Submit, flags, panel, tasks
<1>30. CASE GraceOver
  BY <1>30 DEF GraceOver, AppGo, Give, Take, TakeOrTimeout, Submit, flags, panel, tasks
<1>31. CASE OverlayPresent
  BY <1>31 DEF OverlayPresent, AppGo, Give, Take, TakeOrTimeout, Submit,
     flags, panel, tasks
<1>32. CASE OverlayDrain
  BY <1>32 DEF OverlayDrain, AppGo, Give, Take, TakeOrTimeout, Submit, flags, panel, tasks
<1>33. CASE OverlayVsync
  BY <1>33 DEF OverlayVsync, AppGo, Give, Take, TakeOrTimeout, Submit, flags, panel, tasks
<1>34. CASE Resume
  BY <1>34 DEF Resume, AppGo, Give, Take, TakeOrTimeout, Submit, flags, panel, tasks
<1>35. CASE Quit
  BY <1>35 DEF Quit, AppGo, Give, Take, TakeOrTimeout, Submit, flags, panel, tasks
<1>36. CASE Join
  BY <1>36 DEF Join, AppGo, Give, Take, TakeOrTimeout, Submit, flags, panel, tasks
<1>37. CASE PpaDone
  BY <1>37 DEF PpaDone, Give, Take, TakeOrTimeout, Submit, flags, panel, tasks
<1>38. CASE Vsync
  BY <1>38 DEF Vsync, Give, Take, TakeOrTimeout, Submit, flags, panel, tasks
<1>39. CASE UNCHANGED vars
  BY <1>39 DEF vars, flags, panel, tasks
<1> QED
  BY <1>1, <1>2, <1>3, <1>4, <1>5, <1>6, <1>7, <1>8, <1>9, <1>10, <1>11, 
     <1>12, <1>13, <1>14, <1>15, <1>16, <1>17, <1>18, <1>19, <1>20, <1>21, 
     <1>22, <1>23, <1>24, <1>25, <1>26, <1>27, <1>28, <1>29, <1>30, <1>31, 
     <1>32, <1>33, <1>34, <1>35, <1>36, <1>37, <1>38, <1>39
  DEF Next, RtNext, HpNext, AppNext

\* OverlayOwnsPanel: an overlay has the panel to itself.
THEOREM OverlayExclusion == ASSUME GraceCovers PROVE Spec => []OverlayOwnsPanel
<1>1. Init => PausedInv
  BY DEF Init, PausedInv, OverlayStates
<1>2. TypeOK /\ PausedInv /\ [Next]_vars => PausedInv'
  BY PausedStep
<1>3. PausedInv => OverlayOwnsPanel
  BY DEF PausedInv, OverlayOwnsPanel
<1> QED
  BY <1>1, <1>2, <1>3, TypeCorrect, PTL DEF Spec

\* PanelIntact: the PPA never writes a panel buffer that is shown or submitted.
THEOREM PanelNeverTorn == ASSUME GraceCovers, PpaTimely PROVE Spec => []PanelIntact
<1>1. Init => EngineInv /\ PausedInv /\ PanelInv
  BY DEF Init, EngineInv, PausedInv, PanelInv, OverlayStates, Sems
<1>2. TypeOK /\ EngineInv /\ PausedInv /\ PanelInv /\ [Next]_vars
        => EngineInv' /\ PausedInv' /\ PanelInv'
  BY EngineStep, PausedStep, PanelStep
<1>3. TypeOK /\ PanelInv => PanelIntact
  BY DEF TypeOK, Fbs, PanelInv, PanelIntact
<1> QED
  BY <1>1, <1>2, <1>3, TypeCorrect, PTL DEF Spec
=============================================================================
