---------------------------- MODULE BlockExecutor ----------------------------
(***************************************************************************)
(* The block executor (blockExecutor.cpp and the control, event and        *)
(* procedure blocks) running the scripts of a sprite that is not a clone.  *)
(*                                                                         *)
(* runBlock walks a chain on the C++ stack. A block that has to go on in a *)
(* later frame is in the chain's blocksToRepeat: the stack is abandoned    *)
(* and each frame goes on with the last block of every queue. A step here  *)
(* is a handler up to a nested call of runBlock, or from its return on.    *)
(***************************************************************************)
EXTENDS Integers, Sequences, FiniteSets

CONSTANTS
  Programs,   \* the programs to run
  Blocks, Chains, Messages, None,
  MaxTimes,   \* TIMES of a repeat block
  MaxPresses  \* bound: how many events the player causes

Ops == {"whenkey", "whenreceive", "definition", "do", "if", "repeat", "until", "forever",
        "wait", "waituntil", "call", "stopthis", "stopother", "stopall", "broadcast", "bwait"}
Holders == {"if", "repeat", "until", "forever"}  \* they have a body
\* The blocks b is nested in.
Holding(p) == {p.parent[x] : x \in Blocks} \ {None}
Around(p, b) ==
  {x \in Holding(p) :
     /\ p.parent[b] # None
     /\ \A S \in SUBSET Holding(p) :
          p.parent[b] \in S /\ (\A y \in S : p.parent[y] \in S \cup {None}) => x \in S}
\* The blocks of a project: each in one chain, the bodies properly nested.
WellFormed(p) ==
  /\ p.op \in [Blocks -> Ops] /\ p.chain \in [Blocks -> Chains] /\ p.msg \in [Blocks -> Messages]
  /\ {p.next, p.sub, p.sub2, p.parent} \subseteq [Blocks -> Blocks \cup {None}]
  /\ p.head \in [Chains -> Blocks \cup {None}] /\ p.calls \in [Blocks -> Chains]
  /\ \A c \in Chains : p.head[c] # None => p.chain[p.head[c]] = c /\ p.parent[p.head[c]] = None
  /\ \A b \in Blocks :
       /\ p.next[b] # None => p.parent[p.next[b]] = p.parent[b] /\ p.chain[p.next[b]] = p.chain[b]
       /\ \A s \in {p.sub[b], p.sub2[b]} \ {None} : p.parent[s] = b
       /\ p.parent[b] # None => p.op[p.parent[b]] \in Holders /\ p.chain[p.parent[b]] = p.chain[b]
       /\ b \notin Around(p, b)
       /\ p.op[b] = "definition" => p.head[p.chain[b]] = b
       /\ p.op[b] = "call" => LET h == p.head[p.calls[b]] IN h # None /\ p.op[h] = "definition"

ASSUME ChainsFinite == IsFiniteSet(Chains)
ASSUME BoundsNat == MaxTimes \in Nat /\ MaxPresses \in Nat
ASSUME NoneIsNoBlock == None \notin Blocks
ASSUME ProgramsWellFormed == \A p \in Programs : WellFormed(p)

\* No procedure calls itself, none is called from two chains or stops the other
\* scripts: the chains that run for one another are a stack.
Procedure(p, c) == p.head[c] # None /\ p.op[p.head[c]] = "definition"
CallBlocks(p) == {b \in Blocks : p.op[b] = "call"}
Ranks(p) == {r \in [Chains -> 0..Cardinality(Chains)] :
               \A b \in CallBlocks(p) : r[p.calls[b]] < r[p.chain[b]]}
Sequential(p) ==
  /\ Ranks(p) # {}
  /\ \A b, d \in CallBlocks(p) : p.calls[b] = p.calls[d] => p.chain[b] = p.chain[d]
  /\ \A b \in Blocks : p.op[b] \in {"stopother", "stopall"} => ~Procedure(p, p.chain[b])

\* The messages that are waited for: one chain sends each, which is neither a
\* procedure nor a receiver; if there are several receivers, only it stops others.
Receiver(p, m, c) == p.head[c] # None /\ p.op[p.head[c]] = "whenreceive" /\ p.msg[p.head[c]] = m
Single(p, m) == \A c, d \in Chains : Receiver(p, m, c) /\ Receiver(p, m, d) => c = d
OneSender(p) ==
  \A b \in Blocks : p.op[b] = "bwait" =>
    LET c == p.chain[b]  m == p.msg[b] IN
    /\ ~Procedure(p, c) /\ \A x \in Messages : ~Receiver(p, x, c)
    /\ \A d \in Blocks : p.op[d] \in {"broadcast", "bwait"} /\ p.msg[d] = m => p.chain[d] = c
    /\ Single(p, m) \/ \A d \in Blocks : p.op[d] \in {"stopother", "stopall"} => p.chain[d] = c

VARIABLES
  prog,     \* the program: op, next, sub, sub2, parent, chain, calls, msg of a
            \* block, head of a chain, the procedures that run without refresh
  rep,      \* blocksToRepeat of a chain
  times,    \* repeatTimes of a block
  ptr,      \* the blocks whose customBlockPtr is set
  brun,     \* broadcastsRun of a block
  queue,    \* Scratch::broadcastQueue
  cs,       \* the calls of runBlock in progress
  phase, todo,  \* the loop of the frame in progress, the chains it has to visit
  presses   \* the events so far

data == <<times, ptr, brun, queue>>
loop == <<phase, todo, presses>>
vars == <<prog, rep, data, cs, loop>>

Op(b) == prog.op[b]
ChainOf(b) == prog.chain[b]
Receivers(m) == {c \in Chains : Receiver(prog, m, c)}
Triggered == {c \in Chains : prog.head[c] # None /\ Op(prog.head[c]) = "whenkey"}

(* blocksToRepeat.                                                         *)
Queued(q, b) == \E k \in 1..Len(q[ChainOf(b)]) : q[ChainOf(b)][k] = b
\* addToRepeatQueue and removeFromRepeatQueue: the latter drops the last block,
\* whichever it is.
Added(q, b) == IF Queued(q, b) THEN q ELSE [q EXCEPT ![ChainOf(b)] = Append(@, b)]
Removed(q, b) ==
  [q EXCEPT ![ChainOf(b)] = IF @ = <<>> THEN @ ELSE SubSeq(@, 1, Len(@) - 1)]
Active(q, c) == q[c] # <<>>  \* hasActiveRepeats, isScriptRunning

(* The calls of runBlock.                                                  *)
\* b: currentBlock; fr: fromRepeat; ws: *withoutScreenRefresh;
\* pt: about to execute b, inside a nested call, or back from it
Frame(b, fr, ws) == [b |-> b, fr |-> fr, ws |-> ws, pt |-> "exec"]
Top == cs[Len(cs)]
At(op, pt) == cs # <<>> /\ Top.pt = pt /\ Op(Top.b) = op
Nested(f) == Append([cs EXCEPT ![Len(cs)].pt = "sub"], f)
Enter(b) == Nested(Frame(b, FALSE, Top.ws))
\* BlockResult::RETURN, or the end of the chain
Leave == LET s == SubSeq(cs, 1, Len(cs) - 1)
         IN  IF s = <<>> THEN s ELSE [s EXCEPT ![Len(s)].pt = "back"]
\* BlockResult::CONTINUE
Continue == IF prog.next[Top.b] = None THEN Leave
            ELSE [cs EXCEPT ![Len(cs)] = Frame(prog.next[Top.b], FALSE, Top.ws)]

Init ==
  /\ prog \in Programs
  /\ rep = [c \in Chains |-> <<>>] /\ times = [b \in Blocks |-> 0]
  /\ ptr = {} /\ brun = [b \in Blocks |-> {}] /\ queue = <<>>
  /\ cs = <<>> /\ phase = "input" /\ todo = {} /\ presses = 0

\* A handler that leaves the frame's loops alone.
Handler == UNCHANGED <<prog, loop>>
-----------------------------------------------------------------------------
(* Faulty variants of actions below.                                       *)

IfBack_Always ==
  /\ At("if", "back")
  /\ cs' = Continue /\ rep' = Removed(rep, Top.b)
  /\ UNCHANGED data /\ Handler
Repeat_OneMore ==
  /\ At("repeat", "exec")
  /\ LET q == IF Top.fr THEN rep ELSE Added(rep, Top.b) IN
     \E n \in IF Top.fr THEN {times[Top.b]} ELSE 0..MaxTimes :
       IF n < 0
       THEN /\ rep' = Removed(q, Top.b) /\ cs' = Continue
            /\ times' = [times EXCEPT ![Top.b] = n]
       ELSE /\ rep' = q /\ cs' = IF prog.sub[Top.b] = None THEN Leave ELSE Enter(prog.sub[Top.b])
            /\ times' = [times EXCEPT ![Top.b] = IF prog.sub[Top.b] = None THEN n - 1 ELSE n]
  /\ UNCHANGED <<ptr, brun, queue>> /\ Handler
RepeatBack_NoCount ==
  /\ At("repeat", "back") /\ cs' = Leave
  /\ UNCHANGED <<rep, data>> /\ Handler
Returned_AtOnce(q) ==
  ptr' = ptr \ {Top.b} /\ rep' = Removed(q, Top.b) /\ cs' = Continue
Returned_NotQueued(q) ==
  IF Top.b \notin ptr \/ ~Active(q, prog.calls[Top.b])
  THEN ptr' = ptr \ {Top.b} /\ rep' = Removed(rep, Top.b) /\ cs' = Continue
  ELSE rep' = rep /\ cs' = Leave /\ UNCHANGED ptr
StartRepeats_OneBroadcast ==
  /\ cs = <<>> /\ phase = "broadcasts" /\ todo = {}
  /\ phase' = "repeats" /\ todo' = Chains
  /\ UNCHANGED <<prog, rep, data, cs, presses>>
Receive_NoRestart ==
  /\ cs = <<>> /\ phase = "broadcasts"
  /\ \E c \in todo : todo' = todo \ {c} /\ cs' = <<Frame(prog.head[c], FALSE, FALSE)>>
  /\ UNCHANGED <<prog, rep, data, phase, presses>>
-----------------------------------------------------------------------------
(* The handlers.                                                           *)

Do == /\ \E op \in {"whenkey", "whenreceive", "definition", "do"} : At(op, "exec")
      /\ cs' = Continue /\ UNCHANGED <<rep, data>> /\ Handler

\* control_if, control_if_else: taken up again from the queue, the body is over.
If ==
  /\ At("if", "exec")
  /\ \/ Top.fr /\ rep' = Removed(rep, Top.b) /\ cs' = Continue
     \/ /\ ~Top.fr
        /\ \E sub \in {prog.sub[Top.b], prog.sub2[Top.b]} :
             IF sub = None
             THEN rep' = Removed(Added(rep, Top.b), Top.b) /\ cs' = Continue
             ELSE rep' = Added(rep, Top.b) /\ cs' = Enter(sub)
  /\ UNCHANGED data /\ Handler
\* The script goes on behind the if unless the body has left something to do.
IfBack ==
  /\ At("if", "back")
  /\ LET q == rep[ChainOf(Top.b)] IN
     IF q = <<>> \/ q[Len(q)] # Top.b
     THEN cs' = Leave /\ UNCHANGED rep
     ELSE cs' = Continue /\ rep' = Removed(rep, Top.b)
  /\ UNCHANGED data /\ Handler

Body == IF prog.sub[Top.b] = None THEN Leave ELSE Enter(prog.sub[Top.b])
\* Whether fresh from the script or from the queue.
Requeued == IF Top.fr THEN rep ELSE Added(rep, Top.b)

\* control_repeat
Repeat ==
  /\ At("repeat", "exec")
  /\ \E n \in IF Top.fr THEN {times[Top.b]} ELSE 0..MaxTimes :
       IF n <= 0
       THEN /\ rep' = Removed(Requeued, Top.b) /\ cs' = Continue
            /\ times' = [times EXCEPT ![Top.b] = n]
       ELSE /\ rep' = Requeued /\ cs' = Body
            /\ times' = [times EXCEPT ![Top.b] = IF prog.sub[Top.b] = None THEN n - 1 ELSE n]
  /\ UNCHANGED <<ptr, brun, queue>> /\ Handler
RepeatBack ==
  /\ At("repeat", "back")
  /\ times' = [times EXCEPT ![Top.b] = @ - 1] /\ cs' = Leave
  /\ UNCHANGED <<rep, ptr, brun, queue>> /\ Handler

\* control_repeat_until, control_while and control_for_each
Until ==
  /\ At("until", "exec")
  /\ \/ rep' = Removed(Requeued, Top.b) /\ cs' = Continue
     \/ rep' = Requeued /\ cs' = Body
  /\ UNCHANGED data /\ Handler
Forever ==
  /\ At("forever", "exec") /\ rep' = Requeued /\ cs' = Body
  /\ UNCHANGED data /\ Handler
LoopBack ==
  /\ At("until", "back") \/ At("forever", "back")
  /\ cs' = Leave /\ UNCHANGED <<rep, data>> /\ Handler

\* control_wait: only a visit from the queue looks at the timer.
Wait ==
  /\ At("wait", "exec") /\ rep' = Requeued /\ cs' = Leave
  /\ UNCHANGED data /\ Handler
Elapsed ==
  /\ At("wait", "exec") /\ Top.fr
  /\ rep' = Removed(rep, Top.b) /\ cs' = Continue
  /\ UNCHANGED data /\ Handler
WaitUntil ==
  /\ At("waituntil", "exec")
  /\ \/ rep' = Requeued /\ cs' = Leave
     \/ rep' = Removed(Requeued, Top.b) /\ cs' = Continue
  /\ UNCHANGED data /\ Handler

\* procedures_call and runCustomBlock
Callee == prog.calls[Top.b]
NoRefresh == Callee \in prog.norefresh \/ Top.ws
Call ==
  /\ At("call", "exec") /\ ~Top.fr
  /\ ptr' = ptr \cup {Top.b}
  /\ cs' = Nested(Frame(prog.head[Callee], FALSE, NoRefresh))
  /\ UNCHANGED <<rep, times, brun, queue>> /\ Handler
\* runRepeatsWithoutRefresh: the procedure is run on until its queue is empty.
Drain ==
  /\ At("call", "back") /\ NoRefresh /\ Active(rep, Callee)
  /\ cs' = Nested(Frame(rep[Callee][Len(rep[Callee])], TRUE, TRUE))
  /\ UNCHANGED <<rep, data>> /\ Handler
\* Is the procedure over? q is the queue with the call in it.
Returned(q) ==
  IF Top.b \notin ptr \/ ~Active(q, Callee)
  THEN ptr' = ptr \ {Top.b} /\ rep' = Removed(q, Top.b) /\ cs' = Continue
  ELSE rep' = q /\ cs' = Leave /\ UNCHANGED ptr
CallBack ==
  /\ At("call", "back") /\ ~(NoRefresh /\ Active(rep, Callee))
  /\ Returned(Added(rep, Top.b)) /\ UNCHANGED <<times, brun, queue>> /\ Handler
CallAgain ==
  /\ At("call", "exec") /\ Top.fr
  /\ Returned(rep) /\ UNCHANGED <<times, brun, queue>> /\ Handler

\* control_stop
StopThis ==
  /\ At("stopthis", "exec")
  /\ rep' = [rep EXCEPT ![ChainOf(Top.b)] = <<>>] /\ cs' = Leave
  /\ UNCHANGED data /\ Handler
StopOther ==
  /\ At("stopother", "exec")
  /\ rep' = [c \in Chains |-> IF c = ChainOf(Top.b) THEN rep[c] ELSE <<>>] /\ cs' = Continue
  /\ UNCHANGED data /\ Handler
StopAll ==
  /\ At("stopall", "exec")
  /\ rep' = [c \in Chains |-> <<>>] /\ queue' = <<>> /\ cs' = Leave
  /\ UNCHANGED <<times, ptr, brun>> /\ Handler

\* event_broadcast
Broadcast ==
  /\ At("broadcast", "exec")
  /\ queue' = Append(queue, prog.msg[Top.b]) /\ cs' = Continue
  /\ UNCHANGED <<rep, times, ptr, brun>> /\ Handler
\* event_broadcastandwait: it waits for the receivers that are active at its
\* first visit from the queue.
BroadcastAndWait ==
  /\ At("bwait", "exec") /\ ~Top.fr
  /\ IF Receivers(prog.msg[Top.b]) = {}
     THEN cs' = Continue /\ UNCHANGED <<queue, rep>>
     ELSE queue' = Append(queue, prog.msg[Top.b]) /\ rep' = Added(rep, Top.b) /\ cs' = Leave
  /\ UNCHANGED <<times, ptr, brun>> /\ Handler
BroadcastWaiting ==
  /\ At("bwait", "exec") /\ Top.fr
  /\ LET run == IF brun[Top.b] # {} THEN brun[Top.b]
                ELSE {c \in Receivers(prog.msg[Top.b]) : Active(rep, c)}
     IN  IF \E c \in run : Active(rep, c)
         THEN brun' = [brun EXCEPT ![Top.b] = run] /\ cs' = Leave /\ UNCHANGED rep
         ELSE brun' = [brun EXCEPT ![Top.b] = {}] /\ cs' = Continue /\ rep' = Removed(rep, Top.b)
  /\ UNCHANGED <<times, ptr, queue>> /\ Handler

Step ==
  \/ Do \/ If \/ IfBack \/ Repeat \/ RepeatBack \/ Until \/ Forever \/ LoopBack
  \/ Wait \/ Elapsed \/ WaitUntil \/ Call \/ Drain \/ CallBack \/ CallAgain
  \/ StopThis \/ StopOther \/ StopAll \/ Broadcast \/ BroadcastAndWait \/ BroadcastWaiting
-----------------------------------------------------------------------------
(* stepScratchProject: the events, the broadcasts, the queues.             *)

Idle(p) == cs = <<>> /\ phase = p
Goto(p, cset) == phase' = p /\ todo' = cset
Run(f) == cs' = <<f>>

\* The keys newly pressed select the hats to run; each is ignored while its
\* script is running. Hats are visited in any order.
Input ==
  /\ Idle("input")
  /\ \E hats \in SUBSET Triggered :
       /\ presses + Cardinality(hats) <= MaxPresses
       /\ presses' = presses + Cardinality(hats) /\ Goto("hats", hats)
  /\ UNCHANGED <<prog, rep, data, cs>>
RunHat ==
  /\ Idle("hats")
  /\ \E c \in todo :
       /\ todo' = todo \ {c}
       /\ IF Active(rep, c) THEN UNCHANGED cs ELSE Run(Frame(prog.head[c], FALSE, FALSE))
  /\ UNCHANGED <<prog, rep, data, phase, presses>>
HatsDone == Idle("hats") /\ todo = {} /\ Goto("broadcasts", {})
            /\ UNCHANGED <<prog, rep, data, cs, presses>>

\* runBroadcasts
NextBroadcast ==
  /\ Idle("broadcasts") /\ todo = {} /\ queue # <<>>
  /\ queue' = Tail(queue) /\ Goto(phase, Receivers(Head(queue)))
  /\ UNCHANGED <<prog, rep, times, ptr, brun, cs, presses>>
\* restartScript: the chain and the procedures being called from it.
Calls(c) == {prog.calls[b] : b \in {d \in ptr : Op(d) = "call" /\ ChainOf(d) = c /\ Queued(rep, d)}}
CallGraph(c) ==
  {d \in Chains : \A S \in SUBSET Chains : c \in S /\ (\A e \in S : Calls(e) \subseteq S) => d \in S}
Receive ==
  /\ Idle("broadcasts")
  /\ \E c \in todo :
       /\ todo' = todo \ {c}
       /\ rep' = [d \in Chains |-> IF d \in CallGraph(c) THEN <<>> ELSE rep[d]]
       /\ Run(Frame(prog.head[c], FALSE, FALSE))
  /\ UNCHANGED <<prog, data, phase, presses>>

\* runRepeatBlocks visits every chain once, in the order of a hash table.
StartRepeats ==
  /\ Idle("broadcasts") /\ todo = {} /\ queue = <<>>
  /\ Goto("repeats", Chains)
  /\ UNCHANGED <<prog, rep, data, cs, presses>>
Visit ==
  /\ Idle("repeats")
  /\ \E c \in todo :
       /\ todo' = todo \ {c}
       /\ IF Active(rep, c) THEN Run(Frame(rep[c][Len(rep[c])], TRUE, FALSE)) ELSE UNCHANGED cs
  /\ UNCHANGED <<prog, rep, data, phase, presses>>
FrameDone ==
  /\ Idle("repeats") /\ todo = {} /\ Goto("input", {})
  /\ UNCHANGED <<prog, rep, data, cs, presses>>

Scheduler == Input \/ RunHat \/ HatsDone \/ NextBroadcast \/ Receive \/ StartRepeats \/ Visit \/ FrameDone
Next == Step \/ Scheduler
Spec == Init /\ [][Next]_vars
\* The game loop goes on, and a timer that is looked at again and again is
\* found to have run out.
FairSpec ==
  Spec /\ WF_vars(Next) /\ \A b \in Blocks : SF_vars(cs # <<>> /\ Top.b = b /\ Elapsed)
-----------------------------------------------------------------------------
(* Properties.                                                             *)

\* The variables stay in range; a queue never holds a block twice, so it is
\* never longer than its chain.
TypeOK ==
  /\ rep \in [Chains -> Seq(Blocks)]
  /\ \A c \in Chains : \A j, k \in 1..Len(rep[c]) :
        ChainOf(rep[c][k]) = c /\ (rep[c][j] = rep[c][k] => j = k)
  /\ times \in [Blocks -> 0..MaxTimes] /\ ptr \subseteq Blocks
  /\ brun \in [Blocks -> SUBSET Chains] /\ queue \in Seq(Messages)
  /\ cs \in Seq([b : Blocks, fr : BOOLEAN, ws : BOOLEAN, pt : {"exec", "sub", "back"}])
  /\ phase \in {"input", "hats", "broadcasts", "repeats"} /\ todo \subseteq Chains
  /\ presses \in 0..MaxPresses

\* Between two runs the queue of a chain is a path through nested blocks, the
\* innermost last: taking up the last block and dropping the last block is
\* then the same as taking up and dropping the right one.
WellNested ==
  cs = <<>> => \A c \in Chains : \A k \in 1..Len(rep[c])-1 : rep[c][k] \in Around(prog, rep[c][k+1])

\* removeFromRepeatQueue, which drops whatever is last, drops the block whose
\* handler calls it; only the stop blocks drop others.
Stops == {"stopthis", "stopother", "stopall"}
DropsItself ==
  [][cs # <<>> /\ Op(Top.b) \notin Stops =>
       \A b \in Blocks : Queued(rep, b) /\ ~Queued(rep', b) => b = Top.b]_vars

\* A procedure with something left to do has a caller that waits for it: no
\* chain is left behind that the frames go on running (blockExecutor.cpp:43-47).
NoOrphan ==
  \A b \in Blocks : Op(b) = "definition" /\ Active(rep, ChainOf(b)) =>
    \E d \in Blocks : /\ Op(d) = "call" /\ prog.calls[d] = ChainOf(b)
                      /\ Queued(rep, d) \/ \E k \in 1..Len(cs) : cs[k].b = d

\* A script goes on behind "broadcast and wait" only when the message has been
\* delivered and none of its receivers has anything left to do.
BroadcastWaits ==
  [][BroadcastWaiting /\ ~Queued(rep', Top.b) =>
       /\ \A k \in 1..Len(queue) : queue[k] # prog.msg[Top.b]
       /\ \A c \in Receivers(prog.msg[Top.b]) : ~Active(rep, c)]_vars

\* Every frame comes to its end (blockExecutor.hpp:100).
FrameEnds == []<>(phase = "input")
\* Every frame comes to its end, and so does every script, unless its blocks make
\* it run for ever.
ScriptsEnd == FrameEnds /\ <>[](\A c \in Chains : ~Active(rep, c))

\* Where a chain is: at the block being executed, else at the last one queued.
Token(c) ==
  LET calls == {k \in 1..Len(cs) : ChainOf(cs[k].b) = c}
      last == [b |-> IF rep[c] = <<>> THEN None ELSE rep[c][Len(rep[c])], back |-> rep[c] # <<>>]
  IN  IF calls = {} THEN last
      ELSE LET f == cs[CHOOSE k \in calls : \A j \in calls : j <= k]
           IN  IF f.pt = "exec" THEN [b |-> f.b, back |-> f.fr]
               ELSE IF Op(f.b) = "call" THEN [b |-> f.b, back |-> TRUE] ELSE last
\* A body counts when it is begun, the code counts it when it is left.
Begun(b) == \E k \in 1..Len(cs) : cs[k].b = b /\ cs[k].pt # "exec"
Where == [c \in Chains |-> Token(c)]
Pending == [b \in Blocks |-> IF Op(b) = "repeat" /\ Begun(b) THEN times[b] - 1 ELSE times[b]]
SC == INSTANCE Scripts WITH tok <- Where, left <- Pending
\* The call stack and the queues together run every script block by block in
\* the order of its nesting, loops as often as they say, calls to their end.
ScriptsFollowed == SC!Spec
==============================================================================
