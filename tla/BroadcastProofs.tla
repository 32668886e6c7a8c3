--------------------------- MODULE BroadcastProofs ---------------------------
(***************************************************************************)
(* Proofs about the broadcasts of BlockExecutor: "broadcast and wait"      *)
(* (events.cpp:14-62) goes on only when its message has been delivered and *)
(* no receiver has anything left to do. It looks for the receivers at its  *)
(* first visit from the queue; the proof is that the frame delivers the    *)
(* message before it makes that visit, and that nothing falsifies what was *)
(* found then. This needs the hypothesis OneSender: a script goes on too   *)
(* early when it waits in a procedure, when another chain sends the same   *)
(* message, or when one stops it while it waits for several receivers.     *)
(***************************************************************************)
EXTENDS BlockExecutorProofs

AllOneSender == \A p \in Programs : OneSender(p)

Sent(m) == \E k \in 1..Len(queue) : queue[k] = m
Running(c) == Active(rep, c) \/ \E k \in 1..Len(cs) : ChainOf(cs[k].b) = c
Waiters == {b \in Blocks : Op(b) = "bwait"}

\* The chain the repeats loop is at is not visited again in this frame.
Visited == phase = "repeats" /\ cs # <<>> => ChainOf(cs[1].b) \notin todo
\* A message is queued in the repeats loop only when its sender has had its visit:
\* when the sender is visited, the message of its last visit has been delivered.
Undelivered ==
  \A b \in Waiters :
    /\ phase = "repeats" /\ Sent(prog.msg[b]) => ChainOf(b) \notin todo
    /\ cs # <<>> /\ Top.b = b /\ Top.pt = "exec" /\ Top.fr => phase = "repeats" /\ ~Sent(prog.msg[b])
\* While broadcastsRun is set the sender waits, the message is not under way, and
\* of its receivers only those that were found run.
Awaited(b) ==
  LET R == Receivers(prog.msg[b]) IN
  /\ Queued(rep, b) /\ ~Sent(prog.msg[b]) /\ (phase = "broadcasts" => todo \cap R = {})
  /\ \A c \in R : Running(c) => c \in brun[b]
\* A single receiver is found or there is none: what an abandoned wait has left
\* in broadcastsRun is then right for the next one too.
Await ==
  \A b \in Waiters :
    /\ brun[b] \subseteq Receivers(prog.msg[b])
    /\ brun[b] # {} => Single(prog, prog.msg[b]) \/ Awaited(b)
BInv == IInv /\ Visited /\ Undelivered /\ Await

LEMMA SenderFacts ==
  ASSUME AllOneSender, prog \in Programs, NEW b \in Waiters
  PROVE  LET c == ChainOf(b)  m == prog.msg[b] IN
         /\ b \in Blocks /\ Op(b) = "bwait" /\ c \in Chains /\ m \in Messages
         /\ ~Procedure(prog, c) /\ \A x \in Messages : c \notin Receivers(x)
         /\ \A d \in Blocks : Op(d) \in {"broadcast", "bwait"} /\ prog.msg[d] = m => ChainOf(d) = c
         /\ \/ Single(prog, m)
            \/ \A d \in Blocks : Op(d) \in {"stopother", "stopall"} => ChainOf(d) = c
<1>1. b \in Blocks /\ prog.op[b] = "bwait" /\ OneSender(prog)
  BY DEF Waiters, Op, AllOneSender
<1>2. ChainOf(b) \in Chains /\ prog.msg[b] \in Messages
  BY <1>1, ProgramValid DEF Valid
<1> QED BY <1>1, <1>2 DEF OneSender, Op, ChainOf, Receivers

LEMMA ReceiverFacts ==
  ASSUME NEW m, NEW c \in Receivers(m)
  PROVE  /\ c \in Chains /\ ~Procedure(prog, c) /\ c \notin Triggered
         /\ \A x : c \in Receivers(x) => x = m
BY DEF Receivers, Receiver, Procedure, Triggered, Op

\* A waiter in the queue of the chain that is executed is what is executed.
LEMMA WaiterOnTop ==
  ASSUME IInv, Valid, cs # <<>>, Top.pt = "exec",
         NEW b \in Blocks, Op(b) = "bwait", Queued(rep, b), ChainOf(Top.b) = ChainOf(b)
  PROVE  Top.b = b /\ Top.fr
<1> DEFINE c == ChainOf(b)
           q == rep[c]
<1>1. Top.b \in Blocks /\ q \in Seq(Blocks) /\ Len(q) \in Nat
  BY TopTyped DEF IInv
<1>2. PICK k \in 1..Len(q) : q[k] = b
  BY DEF Queued
<1>3. \A x \in Blocks : b \notin Around(prog, x)
  BY DEF Valid, Holders
<1>4. Top.fr
  BY <1>1, <1>2, <1>3 DEF IInv, AtTop, Inside
<1>5. q # <<>> /\ q[Len(q)] = Top.b
  BY <1>4 DEF IInv, AtTop, Ends
<1>6. k < Len(q) => b \in Around(prog, q[Len(q)])
  <2>1. c \in Chains /\ Len(q) \in 1..Len(q)
    BY <1>1, <1>2 DEF Valid
  <2> QED BY <1>2, <2>1 DEF IInv, QueueNest
<1> QED BY <1>1, <1>2, <1>3, <1>4, <1>5, <1>6

\* A handler does not change which chain the stack began with.
LEMMA BottomKept ==
  ASSUME IInv, Valid, cs # <<>>, StackElements, cs' # <<>>
  PROVE  ChainOf(cs'[1].b) = ChainOf(cs[1].b)
<1>1. Len(cs) \in Nat /\ Len(cs) # 0 /\ Len(cs') \in Nat /\ Len(cs') # 0 /\ Top = cs[Len(cs)]
  BY Typed DEF IInv, StackElements, Top
<1>2. CASE Len(cs) = 1
  <2>1. \/ Len(cs') = 1 /\ ChainOf(cs'[Len(cs')].b) = ChainOf(Top.b)
        \/ cs'[Len(cs)].b = Top.b
    BY <1>1, <1>2 DEF StackElements, Below, NewTop
  <2>2. Len(cs') = 1 => cs'[Len(cs')] = cs'[1]
    OBVIOUS
  <2>3. cs'[Len(cs)] = cs'[1] /\ cs[Len(cs)] = cs[1]
    BY <1>2
  <2> QED BY <1>1, <2>1, <2>2, <2>3
<1>3. CASE Len(cs) # 1
  <2>1. \A n \in Nat : n # 0 /\ n # 1 => 1 \in 1..n-1
    OBVIOUS
  <2>2. 1 \in 1..Len(cs)-1
    BY <1>1, <1>3, <2>1
  <2> QED BY <2>2 DEF StackElements
<1> QED BY <1>2, <1>3

\* A handler starts no chain but a procedure.
LEMMA RunningKept ==
  ASSUME AllSequential, IInv, Valid, Handled, NEW c \in Chains, ~Procedure(prog, c),
         Active(rep', c) \/ \E k \in 1..Len(cs') : ChainOf(cs'[k].b) = c
  PROVE  Running(c)
<1> DEFINE n == Len(cs)
<1>1. cs # <<>> /\ prog' = prog /\ StackElements /\ QueueChange
  BY StackElementwise DEF Handled, RestChange
<1>2. n \in 1..n /\ Top = cs[n] /\ Top.b \in Blocks /\ n \in Nat /\ Len(cs') \in Nat
  BY <1>1, TopTyped, Typed DEF IInv, StackElements
<1>3. CASE ChainOf(Top.b) = c
  BY <1>2, <1>3 DEF Running
<1>4. CASE ChainOf(Top.b) # c /\ Active(rep', c)
  <2>1. rep'[c] = rep[c] \/ rep'[c] = <<>>
    BY <1>1, <1>4, QueueBlocks
  <2> QED BY <1>4, <2>1 DEF Active, Running
<1>5. ASSUME ChainOf(Top.b) # c, NEW k \in 1..Len(cs'), ChainOf(cs'[k].b) = c
      PROVE  Running(c)
  <2>1. Op(Top.b) = "call" => prog.calls[Top.b] # c
    BY <1>2 DEF Valid
  <2>2. k \in 1..n-1
    BY <1>1, <1>2, <1>5, <2>1 DEF StackElements, NewTop, Below
  <2>3. k \in 1..n /\ cs'[k].b = cs[k].b
    BY <1>1, <1>2, <2>2 DEF StackElements
  <2> QED BY <1>5, <2>3 DEF Running
<1> QED BY <1>3, <1>4, <1>5

\* What the handlers do to messages and waits.
LEMMA MessagesSent ==
  ASSUME AllSequential, IInv, Step, NEW m \in Messages, \E k \in 1..Len(queue') : queue'[k] = m
  PROVE  \/ Sent(m)
         \/ /\ cs # <<>> /\ Top.pt = "exec" /\ Op(Top.b) \in {"broadcast", "bwait"} /\ prog.msg[Top.b] = m
            /\ Op(Top.b) = "bwait" => ~Top.fr
<1>1. queue \in Seq(Messages) /\ Len(queue) \in Nat
  BY Typed DEF IInv
<1>2. CASE queue' = queue
  BY <1>2 DEF Sent
<1>3. CASE StopAll
  <2>1. queue' = <<>> /\ \A k \in 1..0 : FALSE
    BY <1>3 DEF StopAll
  <2> QED BY <2>1
<1>4. ASSUME cs # <<>>, Top.pt = "exec", Op(Top.b) \in {"broadcast", "bwait"}, Op(Top.b) = "bwait" => ~Top.fr,
             queue' = Append(queue, prog.msg[Top.b])
      PROVE  \/ Sent(m)
             \/ prog.msg[Top.b] = m
  <2>1. prog.msg[Top.b] \in Messages
    BY <1>4, ProgramValid, TopTyped DEF IInv, Valid
  <2>2. \A k \in 1..Len(queue') : (k \in 1..Len(queue) /\ queue'[k] = queue[k]) \/ queue'[k] = prog.msg[Top.b]
    BY <1>1, <1>4, <2>1
  <2> QED BY <2>2 DEF Sent
<1>5. CASE Broadcast \/ BroadcastAndWait
  BY <1>2, <1>4, <1>5 DEF Broadcast, BroadcastAndWait, At
<1> QED BY <1>2, <1>3, <1>5 DEF Step, data, Handler,
  Do, If, IfBack, Repeat, RepeatBack, Until, Forever, LoopBack, Wait, Elapsed, WaitUntil, Call, Drain,
  CallBack, CallAgain, StopThis, StopOther, BroadcastWaiting
LEMMA WaitsStarted ==
  ASSUME Step
  PROVE  brun' = brun \/ BroadcastWaiting
BY DEF Step, data, Handler,
  Do, If, IfBack, Repeat, RepeatBack, Until, Forever, LoopBack, Wait, Elapsed, WaitUntil, Call, Drain,
  CallBack, CallAgain, Returned, StopThis, StopOther, StopAll, Broadcast, BroadcastAndWait
LEMMA StepExecutes ==
  ASSUME IInv, Valid, Step, Top.pt # "exec"
  PROVE  Op(Top.b) \notin Stops
BY DEF Step, Do, If, IfBack, Repeat, RepeatBack, Until, Forever, LoopBack, Wait, Elapsed, WaitUntil, Call,
  Drain, CallBack, CallAgain, StopThis, StopOther, StopAll, Broadcast, BroadcastAndWait, BroadcastWaiting,
  At, Stops

\* A waiter leaves its queue by going on, or is dropped by a stop of another chain.
LEMMA WaiterKept ==
  ASSUME AllSequential, IInv, Valid, Step, NEW b \in Blocks, Op(b) = "bwait", Queued(rep, b)
  PROVE  \/ Queued(rep', b)
         \/ BroadcastWaiting /\ Top.b = b /\ brun'[b] = {}
         \/ ChainOf(Top.b) # ChainOf(b) /\ Op(Top.b) \in {"stopother", "stopall"}
<1> SUFFICES ASSUME ~Queued(rep', b), ~(ChainOf(Top.b) # ChainOf(b) /\ Op(Top.b) \in {"stopother", "stopall"})
             PROVE  BroadcastWaiting /\ Top.b = b /\ brun'[b] = {}
  OBVIOUS
<1>1. Handled /\ cs # <<>> /\ prog' = prog /\ QueueChange
  BY StepHandled DEF Handled, RestChange
<1>2. Top.b = b
  BY <1>1, QueueBlocks DEF Holders
<1>3. At("bwait", "exec")
  BY <1>1, <1>2 DEF Step, Do, If, IfBack, Repeat, RepeatBack, Until, Forever, LoopBack, Wait, Elapsed, WaitUntil,
     Call, Drain, CallBack, CallAgain, StopThis, StopOther, StopAll, Broadcast, BroadcastAndWait, BroadcastWaiting, At
<1>4. Top.fr
  BY <1>1, <1>2, <1>3, WaiterOnTop DEF At
<1>5. BroadcastWaiting
  BY <1>2, <1>3, <1>4 DEF Step, Do, If, IfBack, Repeat, RepeatBack, Until, Forever, LoopBack, Wait, Elapsed, WaitUntil,
     Call, Drain, CallBack, CallAgain, StopThis, StopOther, StopAll, Broadcast, BroadcastAndWait, At
<1>6. brun'[b] = {}
  <2>1. rep' = rep => Queued(rep', b)
    BY DEF Queued
  <2>2. brun \in [Blocks -> SUBSET Chains]
    BY Typed DEF IInv
  <2> QED BY <1>1, <1>2, <1>5, <2>1, <2>2 DEF BroadcastWaiting
<1> QED BY <1>2, <1>5, <1>6

\* The handlers keep the order of delivery and visit.
LEMMA VisitedStep ==
  ASSUME AllSequential, IInv, Visited, Step
  PROVE  Visited'
<1>1. Handled /\ cs # <<>> /\ prog' = prog /\ phase' = phase /\ todo' = todo /\ Valid /\ StackElements
  BY StepHandled, ProgramValid, StackElementwise DEF Handled, RestChange, IInv
<1>2. cs' # <<>> => ChainOf(cs'[1].b) = ChainOf(cs[1].b)
  BY <1>1, BottomKept
<1> QED BY <1>1, <1>2 DEF Visited, ChainOf

LEMMA UndeliveredStep ==
  ASSUME AllSequential, AllOneSender, BInv, Step
  PROVE  Undelivered'
<1>1. /\ Handled /\ cs # <<>> /\ prog' = prog /\ phase' = phase /\ todo' = todo
      /\ Valid /\ StackElements /\ IInv /\ prog \in Programs
  BY StepHandled, ProgramValid, StackElementwise DEF Handled, RestChange, IInv, BInv
<1>2. Waiters' = Waiters
  BY <1>1 DEF Waiters, Op
<1> SUFFICES ASSUME NEW b \in Waiters
             PROVE  /\ phase = "repeats" /\ (Sent(prog.msg[b]))' => ChainOf(b) \notin todo
                    /\ ~(cs' # <<>> /\ Top'.b = b /\ Top'.pt = "exec" /\ Top'.fr)
  BY <1>1, <1>2 DEF Undelivered, ChainOf
<1> DEFINE c == ChainOf(b)
           m == prog.msg[b]
<1>3. /\ b \in Blocks /\ Op(b) = "bwait" /\ c \in Chains /\ m \in Messages /\ ~Procedure(prog, c)
      /\ \A d \in Blocks : Op(d) \in {"broadcast", "bwait"} /\ prog.msg[d] = m => ChainOf(d) = c
  BY <1>1, SenderFacts
<1>4. ASSUME phase = "repeats", \E k \in 1..Len(queue') : queue'[k] = m
      PROVE  c \notin todo
  <2>1. CASE Sent(m)
    BY <1>4, <2>1 DEF BInv, Undelivered
  <2>2. CASE ~Sent(m)
    <3>1. ChainOf(Top.b) = c
      BY <1>1, <1>3, <1>4, <2>2, MessagesSent, TopTyped DEF IInv
    <3>2. 1 \in 1..Len(cs)
      BY <1>1, Typed
    <3>3. ChainOf(cs[1].b) = c
      BY <1>1, <1>3, <3>1, <3>2, OneChain
    <3> QED BY <1>1, <1>4, <3>3 DEF BInv, Visited
  <2> QED BY <2>1, <2>2
<1>5. ~(cs' # <<>> /\ Top'.b = b /\ Top'.pt = "exec" /\ Top'.fr)
  <2> SUFFICES ASSUME cs' # <<>>, Top'.b = b, Top'.pt = "exec", Top'.fr
               PROVE  FALSE
    OBVIOUS
  <2>1. Len(cs) \in Nat /\ Len(cs') \in Nat /\ Len(cs') # 0 /\ Top' = cs'[Len(cs')] /\ Top.b \in Blocks
    BY <1>1, Typed, TopTyped DEF StackElements, Top, IInv
  <2>2. Len(cs') # Len(cs) - 1
    <3> SUFFICES ASSUME Len(cs') = Len(cs) - 1 PROVE FALSE
      OBVIOUS
    <3>1. Len(cs') \in 1..Len(cs)-1
      BY <2>1
    <3> QED BY <1>1, <2>1, <3>1 DEF StackElements
  <2>3. Op(Top.b) = "call" /\ ChainOf(b) = prog.calls[Top.b]
    BY <1>1, <2>1, <2>2 DEF StackElements, NewTop
  <2> QED BY <1>1, <1>3, <2>1, <2>3 DEF Valid
<1> QED BY <1>1, <1>4, <1>5 DEF Sent

LEMMA AwaitStep ==
  ASSUME AllSequential, AllOneSender, BInv, Step
  PROVE  Await'
<1>1. /\ Handled /\ cs # <<>> /\ prog' = prog /\ phase' = phase /\ todo' = todo
      /\ Valid /\ StackElements /\ IInv /\ prog \in Programs /\ brun \in [Blocks -> SUBSET Chains]
  BY StepHandled, ProgramValid, StackElementwise, Typed DEF Handled, RestChange, IInv, BInv
<1>2. Waiters' = Waiters /\ \A m : Receivers(m)' = Receivers(m)
  BY <1>1 DEF Waiters, Op, Receivers
<1> SUFFICES ASSUME NEW b \in Waiters
             PROVE  /\ brun'[b] \subseteq Receivers(prog.msg[b])
                    /\ brun'[b] # {} /\ ~Single(prog, prog.msg[b]) => Awaited(b)'
  BY <1>1, <1>2 DEF Await
<1> DEFINE m == prog.msg[b]
           R == Receivers(m)
           Going(c) == Active(rep', c) \/ \E k \in 1..Len(cs') : ChainOf(cs'[k].b) = c
<1>3. /\ b \in Blocks /\ Op(b) = "bwait" /\ ChainOf(b) \in Chains /\ m \in Messages
      /\ ~Procedure(prog, ChainOf(b)) /\ ChainOf(b) \notin R
      /\ \A d \in Blocks : Op(d) \in {"broadcast", "bwait"} /\ prog.msg[d] = m => ChainOf(d) = ChainOf(b)
      /\ \/ Single(prog, m)
         \/ \A d \in Blocks : Op(d) \in {"stopother", "stopall"} => ChainOf(d) = ChainOf(b)
  BY <1>1, SenderFacts
<1>4. Top.b \in Blocks
  BY <1>1, TopTyped DEF IInv
<1>5. brun[b] \subseteq R /\ (brun[b] # {} => Single(prog, m) \/ Awaited(b))
  BY DEF BInv, Await
<1>6. ASSUME Queued(rep', b), ~\E k \in 1..Len(queue') : queue'[k] = m, phase = "broadcasts" => todo \cap R = {},
             \A c \in R : Going(c) => c \in brun'[b]
      PROVE  Awaited(b)'
  BY <1>1, <1>2, <1>6 DEF Awaited, Queued, Sent, Running, ChainOf
<1>7. CASE BroadcastWaiting /\ Top.b = b
  <2> DEFINE run == IF brun[b] # {} THEN brun[b] ELSE {c \in R : Active(rep, c)}
  <2>1. \/ brun' = [brun EXCEPT ![b] = run] /\ rep' = rep
        \/ brun' = [brun EXCEPT ![b] = {}]
    BY <1>7 DEF BroadcastWaiting
  <2>2. CASE brun' = [brun EXCEPT ![b] = {}]
    BY <1>1, <1>3, <2>2
  <2>3. CASE brun'[b] = run /\ rep' = rep /\ ~Single(prog, m)
    <3>1. run \subseteq R
      BY <1>5
    <3>2. Queued(rep', b)
      <4>1. Ends(rep[ChainOf(b)], b) /\ rep[ChainOf(b)] \in Seq(Blocks)
        BY <1>1, <1>7, TopTyped DEF BroadcastWaiting, At, IInv, AtTop
      <4> QED BY <2>3, <4>1 DEF Ends, Queued
    <3>3. phase = "repeats" /\ ~Sent(m) /\ queue' = queue
      BY <1>7 DEF BroadcastWaiting, At, BInv, Undelivered
    <3>4. ASSUME NEW c \in R, Going(c) PROVE c \in run
      <4>1. Op(b) # "call"
        BY <1>3
      <4>2. \A k \in 1..Len(cs') : ChainOf(cs'[k].b) = ChainOf(b)
        BY <1>1, <1>3, <1>7, <4>1, OneChainNext
      <4>3. Active(rep, c)
        BY <1>3, <2>3, <3>4, <4>2
      <4>4. brun[b] # {} => c \in brun[b]
        BY <1>5, <2>3, <4>3 DEF Awaited, Running
      <4> QED BY <4>3, <4>4
    <3> QED BY <1>6, <2>3, <3>1, <3>2, <3>3, <3>4 DEF Sent
  <2>4. brun'[b] = run \/ brun'[b] = {}
    BY <1>1, <1>3, <2>1
  <2>5. run \subseteq R
    BY <1>5
  <2> QED BY <1>1, <1>3, <2>1, <2>2, <2>3, <2>4, <2>5
<1>8. CASE ~(BroadcastWaiting /\ Top.b = b)
  <2>1. brun'[b] = brun[b]
    BY <1>1, <1>3, <1>4, <1>8, WaitsStarted DEF BroadcastWaiting
  <2> SUFFICES ASSUME brun[b] # {}, ~Single(prog, m) PROVE Awaited(b)'
    BY <1>5, <2>1
  <2>2. Awaited(b)
    BY <1>5
  <2>3. Queued(rep', b)
    BY <1>1, <1>3, <1>4, <1>8, <2>2, WaiterKept DEF Awaited
  <2>4. ~\E k \in 1..Len(queue') : queue'[k] = m
    <3> SUFFICES ASSUME \E k \in 1..Len(queue') : queue'[k] = m PROVE FALSE
      OBVIOUS
    <3>1. Top.pt = "exec" /\ Op(Top.b) \in {"broadcast", "bwait"} /\ prog.msg[Top.b] = m
          /\ (Op(Top.b) = "bwait" => ~Top.fr)
      BY <1>1, <1>3, <2>2, MessagesSent DEF Awaited
    <3>2. ChainOf(Top.b) = ChainOf(b)
      BY <1>3, <1>4, <3>1
    <3> QED BY <1>1, <1>3, <2>2, <3>1, <3>2, WaiterOnTop DEF Awaited
  <2>5. \A c \in R : Going(c) => c \in brun'[b]
    <3> SUFFICES ASSUME NEW c \in R, Going(c) PROVE c \in brun[b]
      BY <2>1
    <3>1. c \in Chains /\ ~Procedure(prog, c)
      BY ReceiverFacts
    <3>2. Running(c)
      BY <1>1, <3>1, RunningKept
    <3> QED BY <2>2, <3>2 DEF Awaited
  <2> QED BY <1>6, <2>2, <2>3, <2>4, <2>5 DEF Awaited
<1> QED BY <1>7, <1>8
-----------------------------------------------------------------------------
(* The loops of the frame.                                                 *)

\* What keeps Await between two runs.
LEMMA AwaitCalm ==
  ASSUME IInv, Await, cs = <<>>, prog' = prog, brun' = brun,
         \A b \in Waiters : Awaited(b) =>
           /\ Queued(rep, b) => Queued(rep', b)
           /\ Sent(prog.msg[b])' => Sent(prog.msg[b])
           /\ phase' = "broadcasts" => todo' \cap Receivers(prog.msg[b]) = {}
           /\ \A c \in Receivers(prog.msg[b]) : Running(c)' => Running(c)
  PROVE  Await'
<1>1. Waiters' = Waiters /\ \A m : Receivers(m)' = Receivers(m)
  BY DEF Waiters, Op, Receivers
<1> SUFFICES ASSUME NEW b \in Waiters, Awaited(b) PROVE Awaited(b)'
  BY <1>1 DEF Await
<1> QED BY <1>1 DEF Awaited, Queued, ChainOf

\* A call of runBlock from a loop of the frame.
LEMMA FirstRun ==
  ASSUME NEW f, cs' = <<f>>
  PROVE  cs' # <<>> /\ Top' = f /\ cs'[1] = f /\ \A k \in 1..Len(cs') : cs'[k] = f
<1>1. Len(<<f>>) = 1 /\ <<f>>[1] = f
  OBVIOUS
<1> QED BY <1>1 DEF Top

\* The queues are left alone and nothing is run.
LEMMA PauseKeeps ==
  ASSUME AllSequential, AllOneSender, BInv, Input \/ HatsDone \/ StartRepeats \/ FrameDone
  PROVE  Visited' /\ Undelivered' /\ Await'
<1>1. /\ cs = <<>> /\ UNCHANGED <<prog, rep, brun, queue, cs>>
      /\ \/ phase' # "repeats" /\ (phase' = "broadcasts" => todo' = {})
         \/ phase' = "repeats" /\ queue = <<>>
  BY DEF Input, HatsDone, StartRepeats, FrameDone, Idle, Goto, data
<1>2. queue = <<>> => \A m : ~Sent(m)
  <2>1. \A k \in 1..0 : FALSE
    OBVIOUS
  <2> QED BY <2>1 DEF Sent
<1>3. \A m : Sent(m)' <=> Sent(m)
  BY <1>1 DEF Sent
<1>4. Visited'
  BY <1>1 DEF Visited
<1>5. Undelivered'
  BY <1>1, <1>2, <1>3 DEF Undelivered, Sent
<1>6. Await'
  BY <1>1, <1>3, AwaitCalm DEF BInv, Queued, Sent, Running, Active, ChainOf
<1> QED BY <1>4, <1>5, <1>6

LEMMA HatKeeps ==
  ASSUME AllSequential, AllOneSender, BInv, RunHat
  PROVE  Visited' /\ Undelivered' /\ Await'
<1>1. PICK c \in todo : cs' \in {cs, <<Frame(prog.head[c], FALSE, FALSE)>>}
  BY DEF RunHat, Run
<1>2. cs = <<>> /\ UNCHANGED <<prog, rep, brun, queue, phase>> /\ phase = "hats" /\ IInv /\ Valid /\ c \in Chains
  BY ProgramValid, Typed DEF RunHat, Idle, data, BInv, IInv
<1>3. c \in Triggered
  BY <1>2 DEF IInv, ToStart
<1>4. ChainOf(prog.head[c]) = c
  BY <1>2, <1>3 DEF Valid, Triggered
<1>5. Visited'
  BY <1>2 DEF Visited
<1>6. Undelivered'
  <2>1. cs' # <<>> => ~Top'.fr
    BY <1>1, <1>2, FirstRun DEF Frame
  <2> QED BY <1>2, <2>1 DEF Undelivered
<1>7. ASSUME NEW m, NEW d \in Receivers(m), Running(d)' PROVE Running(d)
  <2>1. d # c
    BY <1>3, ReceiverFacts
  <2>2. \A k \in 1..Len(cs') : ChainOf(cs'[k].b) = c
    BY <1>1, <1>2, <1>4, Calm, FirstRun DEF Frame
  <2> QED BY <1>2, <1>7, <2>1, <2>2 DEF Running, Active, ChainOf
<1>8. Await'
  BY <1>2, <1>7, AwaitCalm DEF BInv, Queued, Sent, ChainOf
<1> QED BY <1>5, <1>6, <1>8

\* A message that is delivered was not waited for already.
LEMMA DeliveryKeeps ==
  ASSUME AllSequential, AllOneSender, BInv, NextBroadcast
  PROVE  Visited' /\ Undelivered' /\ Await'
<1>1. /\ cs = <<>> /\ UNCHANGED <<prog, rep, brun, cs, phase>> /\ phase = "broadcasts" /\ IInv
      /\ queue # <<>> /\ queue' = Tail(queue) /\ todo' = Receivers(Head(queue))
  BY DEF NextBroadcast, Idle, Goto, BInv
<1>2. queue \in Seq(Messages) /\ Len(queue) \in Nat
  BY <1>1, Typed DEF IInv
<1>3. Visited' /\ Undelivered'
  BY <1>1 DEF Visited, Undelivered
<1>4. ASSUME NEW m, Sent(m)' PROVE Sent(m)
  <2>1. \A k \in 1..Len(Tail(queue)) : k + 1 \in 1..Len(queue) /\ Tail(queue)[k] = queue[k+1]
    BY <1>1, <1>2
  <2> QED BY <1>1, <1>4, <2>1 DEF Sent
<1>5. Sent(Head(queue))
  <2>1. 1 \in 1..Len(queue) /\ queue[1] = Head(queue)
    BY <1>1, <1>2
  <2> QED BY <2>1 DEF Sent
<1>6. ASSUME NEW b \in Waiters, Awaited(b) PROVE todo' \cap Receivers(prog.msg[b]) = {}
  <2>1. Head(queue) # prog.msg[b]
    BY <1>5, <1>6 DEF Awaited
  <2>2. \A c \in Receivers(Head(queue)) : c \notin Receivers(prog.msg[b])
    BY <2>1, ReceiverFacts
  <2> QED BY <1>1, <2>2
<1>7. Await'
  BY <1>1, <1>4, <1>6, AwaitCalm DEF BInv, Queued, Running, Active, ChainOf
<1> QED BY <1>3, <1>7

\* restartScript reaches the receiver and procedures.
LEMMA RestartReaches ==
  ASSUME IInv, NEW c \in Chains, NEW d \in CallGraph(c)
  PROVE  d = c \/ Procedure(prog, d)
<1> DEFINE S == {c} \cup {e \in Chains : Procedure(prog, e)}
<1>1. \A e \in Chains : Calls(e) \subseteq {x \in Chains : Procedure(prog, x)}
  BY ProgramValid DEF IInv, TypeOK, Calls, Valid
<1>2. S \in SUBSET Chains /\ c \in S /\ \A e \in S : Calls(e) \subseteq S
  BY <1>1
<1>3. d \in S
  <2> HIDE DEF S
  <2> QED BY <1>2 DEF CallGraph
<1> QED BY <1>3

LEMMA ReceiveKeeps ==
  ASSUME AllSequential, AllOneSender, BInv, Receive
  PROVE  Visited' /\ Undelivered' /\ Await'
<1>1. PICK c \in todo :
        /\ todo' = todo \ {c}
        /\ rep' = [d \in Chains |-> IF d \in CallGraph(c) THEN <<>> ELSE rep[d]]
        /\ cs' = <<Frame(prog.head[c], FALSE, FALSE)>>
  BY DEF Receive, Run
<1>2. /\ cs = <<>> /\ UNCHANGED <<prog, brun, queue, phase>> /\ phase = "broadcasts" /\ IInv /\ Valid
      /\ c \in Chains /\ prog \in Programs
  BY ProgramValid, Typed DEF Receive, Idle, data, BInv, IInv
<1>3. c \in Receivers(prog.msg[prog.head[c]]) /\ prog.msg[prog.head[c]] \in Messages /\ ChainOf(prog.head[c]) = c
  BY <1>2 DEF IInv, ToStart, Receivers, Receiver, Op, Valid
<1>4. Visited'
  BY <1>2 DEF Visited
<1>5. Undelivered'
  <2>1. ~Top'.fr
    BY <1>1, FirstRun DEF Frame
  <2> QED BY <1>2, <2>1 DEF Undelivered
<1>6. ASSUME NEW b \in Waiters PROVE Queued(rep, b) => Queued(rep', b)
  <2>1. ChainOf(b) \in Chains /\ ~Procedure(prog, ChainOf(b)) /\ ChainOf(b) # c
    BY <1>2, <1>3, SenderFacts
  <2>2. ChainOf(b) \notin CallGraph(c)
    BY <1>2, <2>1, RestartReaches
  <2>3. rep'[ChainOf(b)] = rep[ChainOf(b)]
    BY <1>1, <2>1, <2>2
  <2> QED BY <2>3 DEF Queued
<1>7. ASSUME NEW b \in Waiters, Awaited(b), NEW d \in Receivers(prog.msg[b]), Running(d)' PROVE Running(d)
  <2>1. d # c /\ d \in Chains
    BY <1>2, <1>7, ReceiverFacts DEF Awaited
  <2>2. \A k \in 1..Len(cs') : ChainOf(cs'[k].b) = c
    BY <1>1, <1>3, FirstRun DEF Frame
  <2>3. rep'[d] = <<>> \/ rep'[d] = rep[d]
    BY <1>1, <2>1
  <2> QED BY <1>2, <1>7, <2>1, <2>2, <2>3 DEF Running, Active, ChainOf
<1>8. \A b \in Waiters : Awaited(b) => todo' \cap Receivers(prog.msg[b]) = {}
  BY <1>1, <1>2 DEF Awaited
<1>9. Await'
  BY <1>2, <1>6, <1>7, <1>8, AwaitCalm DEF BInv, Sent
<1> QED BY <1>4, <1>5, <1>9

\* A waiter that is visited finds its message delivered.
LEMMA VisitKeeps ==
  ASSUME AllSequential, AllOneSender, BInv, Visit
  PROVE  Visited' /\ Undelivered' /\ Await'
<1>1. PICK c \in todo :
        /\ todo' = todo \ {c}
        /\ \/ cs' = cs
           \/ Active(rep, c) /\ cs' = <<Frame(rep[c][Len(rep[c])], TRUE, FALSE)>>
  BY DEF Visit, Run
<1>2. /\ cs = <<>> /\ UNCHANGED <<prog, rep, brun, queue, phase>> /\ phase = "repeats" /\ IInv /\ Valid
      /\ c \in Chains /\ rep \in [Chains -> Seq(Blocks)]
  BY ProgramValid, Typed DEF Visit, Idle, data, BInv, IInv
<1>3. Active(rep, c) => ChainOf(rep[c][Len(rep[c])]) = c
  <2>1. rep[c] # <<>> => Len(rep[c]) \in 1..Len(rep[c])
    BY <1>2
  <2> QED BY <1>2, <2>1 DEF IInv, QueueNest, Active
<1>4. \A k \in 1..Len(cs') : ChainOf(cs'[k].b) = c /\ Active(rep, c)
  BY <1>1, <1>2, <1>3, Calm, FirstRun DEF Frame
<1>5. cs' # <<>> => ChainOf(cs'[1].b) = c /\ ChainOf(Top'.b) = c
  BY <1>1, <1>2, <1>3, FirstRun DEF Frame
<1>6. Visited'
  BY <1>1, <1>2, <1>5 DEF Visited, ChainOf
<1>7. Undelivered'
  <2> SUFFICES ASSUME NEW b \in Waiters
               PROVE  /\ Sent(prog.msg[b]) => ChainOf(b) \notin todo'
                      /\ cs' # <<>> /\ Top'.b = b => ~Sent(prog.msg[b])
    BY <1>2 DEF Undelivered, Waiters, Op, Sent, ChainOf
  <2> QED BY <1>1, <1>2, <1>5 DEF BInv, Undelivered
<1>8. Await'
  BY <1>2, <1>4, AwaitCalm DEF BInv, Queued, Sent, Running, Active, ChainOf
<1> QED BY <1>6, <1>7, <1>8
-----------------------------------------------------------------------------
LEMMA InitWaits ==
  ASSUME AllSequential, Init PROVE BInv
<1>1. IInv
  BY InitInv
<1> QED BY <1>1 DEF BInv, Init, Visited, Undelivered, Await, Waiters

LEMMA NextWaits ==
  ASSUME AllSequential, AllOneSender, BInv, [Next]_vars PROVE BInv'
<1>1. IInv'
  BY NextInv DEF BInv
<1>2. CASE Step
  BY <1>1, <1>2, VisitedStep, UndeliveredStep, AwaitStep DEF BInv
<1>3. CASE Scheduler
  BY <1>1, <1>3, PauseKeeps, HatKeeps, DeliveryKeeps, ReceiveKeeps, VisitKeeps DEF BInv, Scheduler
<1>4. CASE UNCHANGED vars
  <2>1. UNCHANGED <<prog, rep, brun, queue, cs, phase, todo>>
    BY <1>4 DEF vars, data, loop
  <2>2. Visited' /\ Undelivered'
    BY <2>1 DEF BInv, Visited, Undelivered, Waiters, Op, ChainOf, Sent, Top
  <2>3. Await'
    BY <2>1 DEF BInv, Await, Awaited, Waiters, Op, ChainOf, Sent, Receivers, Queued, Running, Active
  <2> QED BY <1>1, <2>2, <2>3 DEF BInv
<1> QED BY <1>2, <1>3, <1>4 DEF Next

LEMMA AlwaysWaits == AllSequential /\ AllOneSender => (Spec => []BInv)
<1>1. SUFFICES ASSUME AllSequential, AllOneSender PROVE Spec => []BInv
  OBVIOUS
<1>2. Init => BInv
  BY <1>1, InitWaits
<1>3. BInv /\ [Next]_vars => BInv'
  BY <1>1, NextWaits
<1> QED BY <1>2, <1>3, PTL DEF Spec

\* BroadcastWaits of BlockExecutor: a script goes on behind "broadcast and wait"
\* only when its message has been delivered and no receiver of it is active.
THEOREM SendersWait == AllSequential /\ AllOneSender => (Spec => BroadcastWaits)
<1> DEFINE A == BroadcastWaiting /\ ~Queued(rep', Top.b) =>
                  /\ \A k \in 1..Len(queue) : queue[k] # prog.msg[Top.b]
                  /\ \A c \in Receivers(prog.msg[Top.b]) : ~Active(rep, c)
<1>1. ASSUME AllSequential, AllOneSender, BInv, BroadcastWaiting, ~Queued(rep', Top.b)
      PROVE  /\ \A k \in 1..Len(queue) : queue[k] # prog.msg[Top.b]
             /\ \A c \in Receivers(prog.msg[Top.b]) : ~Active(rep, c)
  <2> DEFINE b == Top.b
             R == Receivers(prog.msg[b])
             run == IF brun[b] # {} THEN brun[b] ELSE {c \in R : Active(rep, c)}
  <2>1. IInv /\ Valid /\ cs # <<>> /\ Op(b) = "bwait" /\ Top.pt = "exec" /\ Top.fr
    BY <1>1, ProgramValid DEF BInv, IInv, BroadcastWaiting, At
  <2>2. b \in Waiters /\ rep[ChainOf(b)] \in Seq(Blocks)
    BY <2>1, TopTyped DEF IInv, Waiters
  <2>3. ~Sent(prog.msg[b])
    BY <1>1, <2>1, <2>2 DEF BInv, Undelivered
  <2>4. Queued(rep, b)
    BY <2>1, <2>2 DEF IInv, AtTop, Ends, Queued
  <2>5. ~\E c \in run : Active(rep, c)
    <3>1. rep' = rep => Queued(rep', b)
      BY <2>4 DEF Queued
    <3> QED BY <1>1, <3>1 DEF BroadcastWaiting
  <2>6. brun[b] \subseteq R /\ (brun[b] # {} => Single(prog, prog.msg[b]) \/ Awaited(b))
    BY <1>1, <2>2 DEF BInv, Await
  <2>7. ASSUME brun[b] = {} PROVE \A c \in R : ~Active(rep, c)
    <3>1. run = {c \in R : Active(rep, c)}
      BY <2>7
    <3> QED BY <2>5, <3>1
  <2>8. ASSUME brun[b] # {}, Single(prog, prog.msg[b]) PROVE \A c \in R : ~Active(rep, c)
    <3>1. \A c, d \in R : c = d
      BY <2>8 DEF Single, Receivers
    <3>2. run = brun[b]
      BY <2>8
    <3> HIDE DEF R
    <3> QED BY <2>5, <2>6, <2>8, <3>1, <3>2
  <2>9. ASSUME brun[b] # {}, Awaited(b) PROVE \A c \in R : ~Active(rep, c)
    <3>1. run = brun[b]
      BY <2>9
    <3>2. \A c \in R : Active(rep, c) => c \in brun[b]
      BY <2>9 DEF Awaited, Running
    <3> QED BY <2>5, <3>1, <3>2
  <2>10. \A c \in R : ~Active(rep, c)
    BY <2>6, <2>7, <2>8, <2>9
  <2> QED BY <2>3, <2>10 DEF Sent
<1>2. ASSUME AllSequential, AllOneSender, BInv, [Next]_vars PROVE [A]_vars
  BY <1>1, <1>2
<1>3. ASSUME AllSequential, AllOneSender PROVE Spec => [][A]_vars
  <2>1. Spec => []BInv
    BY <1>3, AlwaysWaits
  <2>2. BInv /\ [Next]_vars => [A]_vars
    BY <1>2, <1>3
  <2> HIDE DEF A
  <2> QED BY <2>1, <2>2, PTL DEF Spec
<1> QED BY <1>3 DEF BroadcastWaits
=============================================================================
