----------------------------- MODULE DoubleBuffer -----------------------------
(***************************************************************************)
(* What the frame pipeline promises about the stage framebuffers, with the *)
(* tasks and semaphores abstracted away: one buffer is the draw target,    *)
(* and it is published only after it was cleared and then composed once.   *)
(***************************************************************************)
EXTENDS Naturals

VARIABLES
  target, \* the buffer being prepared: 0 or 1
  phase   \* what has been done to it

Phases == {"stale", "clearing", "cleared", "composing"}

Init == target = 0 /\ phase = "stale"

Goes(from, to) == phase = from /\ phase' = to

BeginClear == Goes("stale", "clearing") /\ UNCHANGED target
EndClear   == Goes("clearing", "cleared") /\ UNCHANGED target
Compose    == Goes("cleared", "composing") /\ UNCHANGED target
Publish    == Goes("composing", "stale") /\ target' = 1 - target
\* The game ends before the cleared buffer is used.
Abandon    == Goes("cleared", "stale") /\ UNCHANGED target

Next == BeginClear \/ EndClear \/ Compose \/ Publish \/ Abandon

Spec == Init /\ [][Next]_<<target, phase>>
=============================================================================
