------------------------------ MODULE SpriteList ------------------------------
(***************************************************************************)
(* The list of sprites of a running project, Scratch::sprites, and what    *)
(* scripts do to it while the executor is iterating over it                *)
(* (blocks/control.cpp, blocks/looks.cpp, blockExecutor.cpp, runtime.cpp). *)
(*                                                                         *)
(* sprites is front to back with the stage last; every sprite caches its   *)
(* distance from the back in its field layer, and the blocks recompute a   *)
(* position from that cache. A script is opaque except for the blocks that *)
(* change the list: any sprite may run any sequence of them.               *)
(***************************************************************************)
EXTENDS Integers, Sequences, FiniteSets

CONSTANTS
  Originals,  \* the sprites of the project file, without the stage
  Stage,      \* the stage
  Clones,     \* the addresses a cloned sprite can get
  None,       \* no sprite
  MaxClones,  \* Scratch::maxClones
  DeleteOnce  \* TRUE: no script runs "delete this clone" twice

ASSUME SpritesDisjoint ==
  /\ Stage \notin Originals /\ Originals \cap Clones = {} /\ Stage \notin Clones
  /\ None \notin Originals \cup Clones \cup {Stage}
ASSUME OriginalsFinite == IsFiniteSet(Originals)
ASSUME MaxClonesNat == MaxClones \in Nat
ASSUME DeleteOnceBoolean == DeleteOnce \in BOOLEAN

Sprites == Originals \cup Clones \cup {Stage}
StartRuns == 0..2  \* start runs of a clone are counted up to two

VARIABLES
  sprites,     \* Scratch::sprites, frontmost first
  layer,       \* Sprite::layer
  toDelete,    \* the sprites whose toDelete is set
  active,      \* the sprites with a block waiting in some blocksToRepeat
  started,     \* how often the start scripts of a clone have been run
  cloneQueue, cloneCount,
  phase,       \* the part of stepScratchProject being executed
  loop,        \* the iteration over the sprites in progress
  starting,    \* cloningSprite of runCloneStarts
  self, owner, \* the sprite a script runs on, the sprite its blocks belong to
  purging      \* inside the deletion loop of stopClicked

list == <<sprites, layer>>
marks == <<toDelete, active, started>>
clones == <<cloneQueue, cloneCount>>
script == <<self, owner>>
vars == <<list, marks, clones, phase, loop, starting, script, purging>>

Listed == {sprites[k] : k \in 1..Len(sprites)}

\* The position of x in s.
At(s, x) == CHOOSE k \in 1..Len(s) : s[k] = x
\* The list s with x put behind position i, without position i, and with the
\* element at i moved to j (std::rotate over the positions between them).
InsertBehind(s, i, x) ==
  [k \in 1..Len(s)+1 |-> IF k <= i THEN s[k] ELSE IF k = i+1 THEN x ELSE s[k-1]]
Without(s, i) == [k \in 1..Len(s)-1 |-> IF k < i THEN s[k] ELSE s[k+1]]
Moved(s, i, j) ==
  [k \in 1..Len(s) |-> IF k = j THEN s[i]
                       ELSE IF i <= k /\ k < j THEN s[k+1]
                       ELSE IF j < k /\ k <= i THEN s[k-1]
                       ELSE s[k]]
\* The sequence s, in which x occurs at most once, without x (std::remove).
Erased(s, x) == IF \E k \in 1..Len(s) : s[k] = x THEN Without(s, At(s, x)) ELSE s
\* The loops that recompute layer from the position, over first..last.
Relayered(s, ly, first, last) ==
  [x \in Sprites |-> IF \E k \in first..last : s[k] = x THEN Len(s) - At(s, x) ELSE ly[x]]
\* Where a sprite is, according to its layer.
Position(x) == Len(sprites) - layer[x]

\* How the iteration over sprites is affected by a change of the list: a copy
\* is not; a live vector is read through the same memory, up to the end that
\* was computed first; a reallocation leaves the loop on the freed memory.
Reread(s) == [k \in 1..Len(loop.seq) |-> IF k <= Len(s) THEN s[k] ELSE loop.seq[k]]
LoopAfter(s) == IF loop.over = "live" THEN [loop EXCEPT !.seq = Reread(s)] ELSE loop
LoopFreed == [loop EXCEPT !.over = "freed"]

Init ==
  /\ sprites \in {s \in [1..Cardinality(Originals)+1 -> Originals \cup {Stage}] :
                    /\ \A j, k \in DOMAIN s : s[j] = s[k] => j = k
                    /\ s[Cardinality(Originals)+1] = Stage}
  /\ layer = Relayered(sprites, [x \in Sprites |-> 0], 1, Len(sprites))
  /\ toDelete = {} /\ active = {} /\ started = [c \in Clones |-> 0]
  /\ cloneQueue = <<>> /\ cloneCount = 0
  /\ phase = "idle" /\ loop = [over |-> "copy", seq |-> <<>>, i |-> 1]
  /\ starting = None /\ self = None /\ owner = None /\ purging = FALSE
-----------------------------------------------------------------------------
(* Faulty variants of actions below, one per property.                     *)

Running == self # None /\ ~purging
Idle == self = None /\ ~purging
Visiting(p) == Idle /\ phase = p /\ loop.i <= Len(loop.seq)
Finished(p) == Idle /\ phase = p /\ loop.i > Len(loop.seq)
Visited == loop.seq[loop.i]

DeleteThisClone_Any ==
  /\ Running /\ cloneCount > -MaxClones
  /\ toDelete' = toDelete \cup {self} /\ cloneCount' = cloneCount - 1
  /\ UNCHANGED <<list, active, started, cloneQueue, phase, loop, starting, script, purging>>
GoToPosition_BehindStage(j) ==
  /\ Running /\ self # Stage
  /\ j \in 1..Len(sprites) /\ j # Position(self)
  /\ sprites' = Moved(sprites, Position(self), j)
  /\ layer' = Relayered(sprites', layer, 1, Len(sprites))
  /\ loop' = LoopAfter(sprites')
  /\ UNCHANGED <<marks, clones, phase, starting, script, purging>>
GoToPosition_Swap(j) ==
  /\ Running /\ self # Stage
  /\ j \in 1..Len(sprites)-1 /\ j # Position(self)
  /\ sprites' = [sprites EXCEPT ![j] = self, ![Position(self)] = sprites[j]]
  /\ layer' = Relayered(sprites', layer, 1, Len(sprites))
  /\ loop' = LoopAfter(sprites')
  /\ UNCHANGED <<marks, clones, phase, starting, script, purging>>
CreateClone_KeepLayers(c, t) ==
  /\ Running /\ cloneCount < MaxClones
  /\ t \in Originals \cup ({self} \ {Stage}) /\ c \in Clones \ Listed
  /\ sprites' = InsertBehind(sprites, Position(t), c)
  /\ layer' = [layer EXCEPT ![c] = layer[t]]
  /\ toDelete' = toDelete \ {c} /\ active' = active \ {c}
  /\ started' = [started EXCEPT ![c] = 0]
  /\ cloneQueue' = Append(cloneQueue, c) /\ cloneCount' = cloneCount + 1
  /\ loop' = LoopAfter(sprites')
  /\ UNCHANGED <<phase, starting, script, purging>>
StopAll_KeepCount ==
  /\ Running
  /\ cloneQueue' = <<>> /\ active' = {} /\ purging' = TRUE
  /\ UNCHANGED <<list, toDelete, started, cloneCount, phase, loop, starting, script>>
NextClone_DropRest ==
  /\ Finished("clones") /\ cloneQueue # <<>>
  /\ starting' = Head(cloneQueue) /\ cloneQueue' = <<>>
  /\ phase' = "clones" /\ loop' = [over |-> "live", seq |-> sprites, i |-> 1]
  /\ UNCHANGED <<list, marks, cloneCount, script, purging>>
SweepClone_KeepQueue ==
  /\ Finished("repeats")
  /\ \E k \in 1..Len(sprites) :
       /\ sprites[k] \in toDelete /\ \A j \in 1..k-1 : sprites[j] \notin toDelete
       /\ sprites' = Without(sprites, k)
       /\ toDelete' = toDelete \ {sprites[k]} /\ active' = active \ {sprites[k]}
  /\ UNCHANGED <<layer, started, clones, phase, loop, starting, script, purging>>
-----------------------------------------------------------------------------
(* The blocks a running script can execute.                                *)

\* control_create_clone_of: "myself" or a sprite of the project by name.
CreateClone(c, t) ==
  /\ Running /\ cloneCount < MaxClones
  /\ t \in Originals \cup ({self} \ {Stage}) /\ c \in Clones \ Listed
  /\ sprites' = InsertBehind(sprites, Position(t), c)
  /\ layer' = Relayered(sprites', [layer EXCEPT ![c] = layer[t]], 1, Position(t))
  /\ toDelete' = toDelete \ {c} /\ active' = active \ {c}
  /\ started' = [started EXCEPT ![c] = 0]
  /\ cloneQueue' = Append(cloneQueue, c) /\ cloneCount' = cloneCount + 1
  /\ loop' \in {LoopAfter(sprites')} \cup (IF loop.over = "live" THEN {LoopFreed} ELSE {})
  /\ UNCHANGED <<phase, starting, script, purging>>

\* control_delete_this_clone. It ends only the innermost runBlock: inside an
\* if the blocks behind the if still run.
DeleteThisClone ==
  /\ Running /\ self \in Clones
  /\ DeleteOnce => self \notin toDelete
  /\ cloneCount > -MaxClones  \* bound
  /\ toDelete' = toDelete \cup {self} /\ cloneCount' = cloneCount - 1
  /\ UNCHANGED <<list, active, started, cloneQueue, phase, loop, starting, script, purging>>

\* looks_goforwardbackwardlayers and looks_gotofrontback; the stage stays last.
GoToPosition(j) ==
  /\ Running /\ self # Stage
  /\ j \in 1..Len(sprites)-1 /\ j # Position(self)
  /\ sprites' = Moved(sprites, Position(self), j)
  /\ layer' = IF j < Position(self) THEN Relayered(sprites', layer, j, Position(self))
                                    ELSE Relayered(sprites', layer, Position(self), j)
  /\ loop' = LoopAfter(sprites')
  /\ UNCHANGED <<marks, clones, phase, starting, script, purging>>

\* control_stop "all": stopClicked clears every script and queue ...
StopAll ==
  /\ Running
  /\ cloneCount' = 0 /\ cloneQueue' = <<>> /\ active' = {} /\ purging' = TRUE
  /\ UNCHANGED <<list, toDelete, started, phase, loop, starting, script>>
\* ... deletes the clones one by one ...
PurgeClone ==
  /\ purging
  /\ \E k \in 1..Len(sprites) :
       /\ sprites[k] \in Clones /\ \A j \in 1..k-1 : sprites[j] \notin Clones
       /\ sprites' = Without(sprites, k)
       /\ toDelete' = toDelete \ {sprites[k]}
       /\ loop' = LoopAfter(sprites')
  /\ UNCHANGED <<layer, active, started, clones, phase, starting, script, purging>>
\* ... and renumbers. A script of a deleted clone does not go on; another may,
\* when the block stood in a custom block.
PurgeDone ==
  /\ purging /\ Listed \cap Clones = {}
  /\ layer' = Relayered(sprites, layer, 1, Len(sprites))
  /\ purging' = FALSE /\ self' = IF self \in Clones THEN None ELSE self
  /\ loop' = IF phase = "clones" /\ self \in Clones THEN [loop EXCEPT !.i = @ + 1] ELSE loop
  /\ UNCHANGED <<sprites, marks, clones, phase, starting, owner>>

\* The script ends or yields until the next frame.
EndScript ==
  /\ Running
  /\ self' = None
  /\ active' \in {active \ {self}, active \cup {self}}
  /\ loop' = IF phase = "clones" THEN [loop EXCEPT !.i = @ + 1] ELSE loop
  /\ UNCHANGED <<list, toDelete, started, clones, phase, starting, owner, purging>>
-----------------------------------------------------------------------------
(* stepScratchProject: the loops that run scripts.                         *)

NoLoop == [over |-> "copy", seq |-> <<>>, i |-> 1]
Iterate(p, how) == phase' = p /\ loop' = [over |-> how, seq |-> sprites, i |-> 1]
Advance ==
  /\ loop' = [loop EXCEPT !.i = @ + 1]
  /\ UNCHANGED <<list, marks, clones, phase, starting, script, purging>>
\* runBlock does nothing on a sprite that is to be deleted.
RunOn(x) ==
  /\ x \in Listed \ toDelete /\ self' = x
  /\ UNCHANGED <<list, marks, clones, phase, loop, starting, purging>>

\* executeKeyHats takes a copy of the list; so do runBroadcast, runBackdrop
\* and runRepeatBlocks.
StartKeyHats ==
  /\ Idle /\ phase = "idle" /\ Iterate("keys", "copy")
  /\ UNCHANGED <<list, marks, clones, starting, script, purging>>
RunHat == (Visiting("keys") \/ Visiting("dispatch")) /\ RunOn(Visited) /\ UNCHANGED owner
NextSprite == (Visiting("keys") \/ Visiting("dispatch") \/ Visiting("repeats")) /\ Advance

\* doSpriteClicking: the loop is over the list itself and its variable is a
\* reference into it, read again for every click hat of the sprite.
StartClick ==
  /\ Finished("keys") /\ Iterate("click", "live")
  /\ UNCHANGED <<list, marks, clones, starting, script, purging>>
ClickSprite == Visiting("click") /\ owner = None /\ RunOn(Visited) /\ owner' = Visited
ClickNextHat == Visiting("click") /\ owner # None /\ RunOn(Visited) /\ UNCHANGED owner
NotClicked == Visiting("click") /\ owner = None /\ Advance

\* runCloneStarts: for each queued clone a loop over the list itself.
BeginCloneStarts ==
  /\ Idle
  /\ \/ phase = "idle" \/ Finished("keys") \/ Finished("click")
     \/ phase = "click" /\ owner # None
  /\ phase' = "clones" /\ loop' = NoLoop /\ owner' = None
  /\ UNCHANGED <<list, marks, clones, starting, self, purging>>
NextClone ==
  /\ Finished("clones") /\ cloneQueue # <<>>
  /\ starting' = Head(cloneQueue) /\ cloneQueue' = Tail(cloneQueue)
  /\ Iterate("clones", "live")
  /\ UNCHANGED <<list, marks, cloneCount, script, purging>>
OtherSprite == Visiting("clones") /\ (Visited # starting \/ Visited \notin Listed \ toDelete)
               /\ Advance
StartClone ==
  /\ Visiting("clones") /\ Visited = starting /\ starting \in Listed \ toDelete
  /\ self' = starting
  /\ started' = [started EXCEPT ![starting] = IF @ = 2 THEN 2 ELSE @ + 1]
  /\ UNCHANGED <<list, toDelete, active, clones, phase, loop, starting, owner, purging>>

\* runBroadcasts and runBackdrops, then runRepeatBlocks.
ClonesStarted == Finished("clones") /\ cloneQueue = <<>>
StartDispatch ==
  /\ ClonesStarted \/ Finished("dispatch")
  /\ Iterate("dispatch", "copy") /\ starting' = None
  /\ UNCHANGED <<list, marks, clones, script, purging>>
StartRepeats ==
  /\ ClonesStarted \/ Finished("dispatch")
  /\ Iterate("repeats", "copy") /\ starting' = None
  /\ UNCHANGED <<list, marks, clones, script, purging>>
RunRepeat == Visiting("repeats") /\ Visited \in active /\ RunOn(Visited) /\ UNCHANGED owner

\* The end of runRepeatBlocks: the marked clones are deleted one by one and
\* the rest is renumbered.
SweepClone ==
  /\ Finished("repeats")
  /\ \E k \in 1..Len(sprites) :
       /\ sprites[k] \in toDelete /\ \A j \in 1..k-1 : sprites[j] \notin toDelete
       /\ sprites' = Without(sprites, k)
       /\ toDelete' = toDelete \ {sprites[k]} /\ active' = active \ {sprites[k]}
       /\ cloneQueue' = Erased(cloneQueue, sprites[k])
  /\ UNCHANGED <<layer, started, cloneCount, phase, loop, starting, script, purging>>
SweepDone ==
  /\ Finished("repeats") /\ Listed \cap toDelete = {}
  /\ layer' = Relayered(sprites, layer, 1, Len(sprites))
  /\ phase' = "idle" /\ loop' = NoLoop
  /\ UNCHANGED <<sprites, marks, clones, starting, script, purging>>

ScriptStep ==
  \/ \E c \in Clones, t \in Originals \cup Clones : CreateClone(c, t)
  \/ DeleteThisClone
  \/ \E j \in 1..Len(sprites) : GoToPosition(j)
  \/ StopAll \/ PurgeClone \/ PurgeDone \/ EndScript
LoopStep ==
  \/ StartKeyHats \/ RunHat \/ NextSprite
  \/ StartClick \/ ClickSprite \/ ClickNextHat \/ NotClicked
  \/ BeginCloneStarts \/ NextClone \/ OtherSprite \/ StartClone
  \/ StartDispatch \/ StartRepeats \/ RunRepeat \/ SweepClone \/ SweepDone
Next == ScriptStep \/ LoopStep
Spec == Init /\ [][Next]_vars
-----------------------------------------------------------------------------
(* Properties.                                                             *)

\* The variables stay in range; at most MaxClones sprites count as clones
\* (create_clone_of tests the limit before it counts, control.cpp:69).
TypeOK ==
  /\ sprites \in Seq(Sprites) /\ layer \in [Sprites -> Int]
  /\ toDelete \subseteq Clones /\ active \subseteq Sprites
  /\ started \in [Clones -> StartRuns]
  /\ cloneQueue \in Seq(Clones) /\ cloneCount \in -MaxClones..MaxClones
  /\ phase \in {"idle", "keys", "click", "clones", "dispatch", "repeats"}
  /\ loop \in [over : {"copy", "live", "freed"}, seq : Seq(Sprites), i : Nat \ {0}]
  /\ starting \in Clones \cup {None}
  /\ self \in Sprites \cup {None} /\ owner \in Sprites \cup {None} /\ purging \in BOOLEAN

\* No sprite is listed twice or lost, and the stage stays behind all others,
\* whatever the clones and layer blocks do (the blocks rely on it: they take
\* the last index for the stage's, looks.cpp:291 and 314).
ListWellFormed ==
  /\ \A j, k \in 1..Len(sprites) : sprites[j] = sprites[k] => j = k
  /\ Originals \subseteq Listed
  /\ Len(sprites) >= 1 /\ sprites[Len(sprites)] = Stage

\* The layer cached in a sprite is its distance from the back, whenever a
\* script can use it to find the sprite's position (control.cpp:123,
\* looks.cpp:290 and 313 compute an index from it without a check).
Renumbering == purging \/ Finished("repeats")
LayerIsPosition ==
  ~Renumbering => \A k \in 1..Len(sprites) : layer[sprites[k]] = Len(sprites) - k

\* cloneCount is the number of clones that are not going away.
CountIsClones ==
  ~purging => cloneCount = Cardinality((Listed \cap Clones) \ toDelete)

\* A clone waiting to be started is in the list (runCloneStarts reads the
\* blocks of what it pops) and no clone waits twice.
QueueAlive ==
  ~purging => /\ \A k \in 1..Len(cloneQueue) : cloneQueue[k] \in Listed
              /\ \A j, k \in 1..Len(cloneQueue) : cloneQueue[j] = cloneQueue[k] => j = k

\* A clone is not forgotten: until its start scripts have run it is in the
\* queue or being looked for by runCloneStarts.
NoCloneForgotten ==
  ~purging => \A c \in (Listed \cap Clones) \ toDelete :
                started[c] = 0 => c = starting \/ \E k \in 1..Len(cloneQueue) : cloneQueue[k] = c

\* Moving, creating or deleting a sprite leaves the order of the others.
Before(s, x, y) == \E j, k \in 1..Len(s) : j < k /\ s[j] = x /\ s[k] = y
OrderKept ==
  [][\A x, y \in Listed \cap Listed' : x # self /\ y # self =>
       (Before(sprites, x, y) <=> Before(sprites', x, y))]_vars

\* A click script runs on the sprite it belongs to (blockExecutor.cpp:302).
ClickedScriptRunsOnOwner == phase = "click" /\ self # None /\ owner # None => self = owner
==============================================================================
