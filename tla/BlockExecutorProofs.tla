------------------------- MODULE BlockExecutorProofs -------------------------
(***************************************************************************)
(* Proofs about BlockExecutor, for all well-formed programs, any number of *)
(* blocks and chains: the repeat queues stay well nested, each handler     *)
(* drops itself only, no procedure is left without a caller. What is       *)
(* proved of procedures is proved for programs whose chains run one        *)
(* another like a stack (Sequential).                                      *)
(***************************************************************************)
EXTENDS BlockExecutor, FiniteSetTheorems, TLAPS

AllSequential == \A p \in Programs : Sequential(p)
-----------------------------------------------------------------------------
(* The nesting of the blocks of a program.                                 *)

\* Nesting is transitive.
LEMMA AroundTransitive ==
  ASSUME NEW p, NEW b, NEW y \in Around(p, b), NEW x \in Around(p, y)
  PROVE  x \in Around(p, b)
<1>1. x \in Holding(p) /\ p.parent[y] # None /\ p.parent[b] # None
  BY DEF Around
<1>2. ASSUME NEW S \in SUBSET Holding(p), p.parent[b] \in S,
             \A z \in S : p.parent[z] \in S \cup {None}
      PROVE  x \in S
  <2>1. y \in S
    BY <1>2 DEF Around
  <2>2. p.parent[y] \in S
    BY <1>1, <1>2, <2>1
  <2> QED BY <1>2, <2>2 DEF Around
<1> QED BY <1>1, <1>2 DEF Around

\* The block around a block is around it.
LEMMA AroundParent ==
  ASSUME NEW p, NEW b \in Blocks, p.parent[b] # None
  PROVE  p.parent[b] \in Around(p, b)
BY DEF Around, Holding

\* Around a block are the block around it and what is around that one.
LEMMA AroundOnly ==
  ASSUME NEW p, p.parent \in [Blocks -> Blocks \cup {None}],
         NEW b \in Blocks, NEW x \in Around(p, b)
  PROVE  p.parent[b] # None /\ (x = p.parent[b] \/ x \in Around(p, p.parent[b]))
<1> DEFINE q == p.parent[b]
           S == {q} \cup Around(p, q)
<1>1. q # None /\ q \in Blocks
  BY DEF Around
<1>2. Holding(p) \subseteq Blocks
  BY DEF Holding
<1>3. S \in SUBSET Holding(p)
  BY <1>1 DEF Around, Holding
<1>4. ASSUME NEW z \in S PROVE p.parent[z] \in S \cup {None}
  <2>1. CASE z = q
    BY <1>1, <2>1, AroundParent
  <2>2. CASE z \in Around(p, q) /\ p.parent[z] # None
    <3>1. z \in Blocks
      BY <1>2, <2>2 DEF Around
    <3>2. p.parent[z] \in Around(p, z)
      BY <2>2, <3>1, AroundParent
    <3>3. p.parent[z] \in Around(p, q)
      BY <2>2, <3>2, AroundTransitive
    <3> QED BY <3>3
  <2> QED BY <2>1, <2>2
<1>5. x \in S
  <2>1. q \in S
    OBVIOUS
  <2> HIDE DEF S
  <2> QED BY <1>3, <1>4, <2>1 DEF Around
<1> QED BY <1>1, <1>5

\* The block x is nested in is a holder of the same chain.
LEMMA AroundHolders ==
  ASSUME NEW p, WellFormed(p), NEW b \in Blocks, NEW x \in Around(p, b)
  PROVE  x \in Blocks /\ p.op[x] \in Holders /\ p.chain[x] = p.chain[b]
<1> DEFINE S == {y \in Holding(p) : p.chain[y] = p.chain[b]}
<1>1. /\ p.parent \in [Blocks -> Blocks \cup {None}]
      /\ \A y \in Blocks : p.parent[y] # None =>
           p.op[p.parent[y]] \in Holders /\ p.chain[p.parent[y]] = p.chain[y]
  BY DEF WellFormed
<1>2. x \in Holding(p) /\ p.parent[b] # None
  BY DEF Around
<1>3. Holding(p) \subseteq Blocks /\ \A y \in Holding(p) : p.op[y] \in Holders
  BY <1>1 DEF Holding
<1>4. S \in SUBSET Holding(p) /\ p.parent[b] \in S
  BY <1>1, <1>2 DEF Holding
<1>5. ASSUME NEW z \in S PROVE p.parent[z] \in S \cup {None}
  BY <1>1, <1>3 DEF Holding
<1>6. x \in S
  <2> HIDE DEF S
  <2> QED BY <1>4, <1>5 DEF Around
<1> QED BY <1>2, <1>3, <1>6

\* What the executor may rely on in a program.
Valid ==
  /\ \A b \in Blocks :
       /\ Op(b) \in Ops /\ ChainOf(b) \in Chains /\ prog.calls[b] \in Chains /\ prog.msg[b] \in Messages
       /\ prog.next[b] # None =>
            /\ prog.next[b] \in Blocks /\ ChainOf(prog.next[b]) = ChainOf(b)
            /\ Around(prog, prog.next[b]) = Around(prog, b)
       /\ \A s \in {prog.sub[b], prog.sub2[b]} \ {None} :
            /\ s \in Blocks /\ ChainOf(s) = ChainOf(b)
            /\ Around(prog, s) = Around(prog, b) \cup {b}
       /\ \A x \in Around(prog, b) :
            /\ x \in Blocks /\ Op(x) \in Holders /\ ChainOf(x) = ChainOf(b) /\ x # b
            /\ Around(prog, x) \subseteq Around(prog, b)
       /\ Op(b) = "call" => Procedure(prog, prog.calls[b])
  /\ \A c \in Chains : prog.head[c] # None =>
       /\ prog.head[c] \in Blocks /\ ChainOf(prog.head[c]) = c
       /\ Around(prog, prog.head[c]) = {}
LEMMA ProgramValid ==
  ASSUME prog \in Programs
  PROVE  Valid
<1> DEFINE p == prog
<1>1. WellFormed(p)
  BY ProgramsWellFormed
<1>2. /\ p.op \in [Blocks -> Ops] /\ p.chain \in [Blocks -> Chains] /\ p.msg \in [Blocks -> Messages]
      /\ p.next \in [Blocks -> Blocks \cup {None}] /\ p.sub \in [Blocks -> Blocks \cup {None}]
      /\ p.sub2 \in [Blocks -> Blocks \cup {None}] /\ p.parent \in [Blocks -> Blocks \cup {None}]
      /\ p.head \in [Chains -> Blocks \cup {None}] /\ p.calls \in [Blocks -> Chains]
  BY <1>1 DEF WellFormed
<1>3. /\ \A c \in Chains : p.head[c] # None => p.chain[p.head[c]] = c /\ p.parent[p.head[c]] = None
      /\ \A b \in Blocks :
           /\ p.next[b] # None => p.parent[p.next[b]] = p.parent[b] /\ p.chain[p.next[b]] = p.chain[b]
           /\ \A s \in {p.sub[b], p.sub2[b]} \ {None} : p.parent[s] = b
           /\ p.parent[b] # None => p.op[p.parent[b]] \in Holders /\ p.chain[p.parent[b]] = p.chain[b]
           /\ b \notin Around(p, b)
           /\ p.op[b] = "call" => LET h == p.head[p.calls[b]] IN h # None /\ p.op[h] = "definition"
  BY <1>1 DEF WellFormed
<1> HIDE DEF p
\* Around depends on the block around.
<1>4. ASSUME NEW b \in Blocks, NEW x \in Blocks, p.parent[x] = p.parent[b]
      PROVE  Around(p, x) = Around(p, b)
  BY <1>4 DEF Around
<1>5. ASSUME NEW b \in Blocks, NEW s \in Blocks, p.parent[s] = b
      PROVE  Around(p, s) = Around(p, b) \cup {b}
  <2>1. b \in Around(p, s)
    BY <1>5, NoneIsNoBlock, AroundParent
  <2>2. Around(p, b) \subseteq Around(p, s)
    BY <2>1, AroundTransitive
  <2>3. Around(p, s) \subseteq Around(p, b) \cup {b}
    BY <1>2, <1>5, AroundOnly
  <2> QED BY <2>1, <2>2, <2>3
<1>6. ASSUME NEW b \in Blocks PROVE
       /\ p.next[b] # None =>
            /\ p.next[b] \in Blocks /\ p.chain[p.next[b]] = p.chain[b]
            /\ Around(p, p.next[b]) = Around(p, b)
       /\ \A s \in {p.sub[b], p.sub2[b]} \ {None} :
            /\ s \in Blocks /\ p.chain[s] = p.chain[b]
            /\ Around(p, s) = Around(p, b) \cup {b}
  <2>1. ASSUME p.next[b] # None
        PROVE  p.next[b] \in Blocks /\ p.chain[p.next[b]] = p.chain[b] /\ Around(p, p.next[b]) = Around(p, b)
    BY <1>2, <1>3, <1>4, <2>1
  <2>2. ASSUME NEW s \in {p.sub[b], p.sub2[b]} \ {None}
        PROVE  s \in Blocks /\ p.chain[s] = p.chain[b] /\ Around(p, s) = Around(p, b) \cup {b}
    <3>1. s \in Blocks /\ p.parent[s] = b
      BY <1>2, <1>3, <2>2
    <3> QED BY <1>3, <1>5, <3>1, NoneIsNoBlock
  <2> QED BY <2>1, <2>2
<1>7. ASSUME NEW b \in Blocks, NEW x \in Around(p, b)
      PROVE  /\ x \in Blocks /\ p.op[x] \in Holders /\ p.chain[x] = p.chain[b] /\ x # b
             /\ Around(p, x) \subseteq Around(p, b)
  BY <1>1, <1>3, AroundHolders, AroundTransitive DEF p
<1>8. ASSUME NEW c \in Chains, p.head[c] # None
      PROVE  p.head[c] \in Blocks /\ p.chain[p.head[c]] = c /\ Around(p, p.head[c]) = {}
  BY <1>2, <1>3, <1>8 DEF Around
<1>9. ASSUME NEW b \in Blocks, p.op[b] = "call" PROVE Procedure(p, p.calls[b])
  BY <1>3, <1>9 DEF Procedure
<1> QED BY <1>2, <1>6, <1>7, <1>8, <1>9 DEF Valid, p, Op, ChainOf
-----------------------------------------------------------------------------
(* The calls of runBlock in progress.                                      *)

Frames == [b : Blocks, fr : BOOLEAN, ws : BOOLEAN, pt : {"exec", "sub", "back"}]
GoOn(x) == [cs EXCEPT ![Len(cs)] = Frame(x, FALSE, Top.ws)]

LEMMA LeaveFacts ==
  ASSUME cs \in Seq(Frames), cs # <<>>
  PROVE  /\ Leave \in Seq(Frames) /\ Len(Leave) = Len(cs) - 1
         /\ \A k \in 1..Len(cs)-1 :
              /\ Leave[k].b = cs[k].b
              /\ Leave[k].pt = IF k < Len(cs) - 1 THEN cs[k].pt ELSE "back"
<1> DEFINE n == Len(cs)
           s == SubSeq(cs, 1, n - 1)
<1>1. n \in Nat /\ n # 0
  OBVIOUS
<1>2. s \in Seq(Frames) /\ Len(s) = n - 1 /\ \A k \in 1..n-1 : s[k] = cs[k] /\ cs[k] \in Frames
  <2>1. \A k \in 1..n-1 : k \in 1..n
    BY <1>1
  <2>2. \A k \in 1..n : cs[k] \in Frames
    OBVIOUS
  <2>3. s \in Seq(Frames) /\ Len(s) = n - 1
    BY <1>1
  <2>4. \A k \in 1..n-1 : s[k] = cs[k]
    BY <1>1
  <2> QED BY <2>1, <2>2, <2>3, <2>4
<1>3. Leave = IF s = <<>> THEN s ELSE [s EXCEPT ![Len(s)].pt = "back"]
  BY DEF Leave
<1> HIDE DEF s
<1>4. CASE s = <<>>
  <2>1. Leave = s /\ n - 1 = 0
    BY <1>1, <1>2, <1>3, <1>4
  <2>2. \A k \in 1..Len(cs)-1 : FALSE
    <3>1. \A k \in 1..0 : FALSE
      OBVIOUS
    <3> QED BY <2>1, <3>1, Zenon
  <2>3. Leave \in Seq(Frames) /\ Len(Leave) = Len(cs) - 1
    BY <1>2, <2>1
  <2> QED BY <2>2, <2>3
<1>5. CASE s # <<>>
  <2> DEFINE t == [s EXCEPT ![n-1].pt = "back"]
  <2>1. Leave = t /\ n - 1 \in 1..n-1
    BY <1>1, <1>2, <1>3, <1>5
  <2>2. [s[n-1] EXCEPT !.pt = "back"] \in Frames
    BY <1>2, <2>1 DEF Frames
  <2>3. t \in Seq(Frames) /\ Len(t) = n - 1
    BY <1>1, <1>2, <2>1, <2>2
  <2>4. ASSUME NEW k \in 1..n-1
        PROVE  t[k].b = cs[k].b /\ t[k].pt = IF k < n - 1 THEN cs[k].pt ELSE "back"
    <3>1. CASE k < n - 1
      <4>1. t[k] = s[k]
        BY <1>1, <1>2, <3>1
      <4> QED BY <1>2, <3>1, <4>1
    <3>2. CASE k = n - 1
      <4>1. t[k] = [s[k] EXCEPT !.pt = "back"]
        BY <1>1, <1>2, <3>2
      <4> QED BY <1>1, <1>2, <3>2, <4>1 DEF Frames
    <3> QED BY <1>1, <3>1, <3>2
  <2> QED BY <2>1, <2>3, <2>4
<1> QED BY <1>4, <1>5

LEMMA NestedFacts ==
  ASSUME cs \in Seq(Frames), cs # <<>>, NEW f \in Frames
  PROVE  /\ Nested(f) \in Seq(Frames) /\ Len(Nested(f)) = Len(cs) + 1
         /\ Nested(f)[Len(cs)+1] = f
         /\ \A k \in 1..Len(cs) :
              /\ Nested(f)[k].b = cs[k].b
              /\ Nested(f)[k].pt = IF k < Len(cs) THEN cs[k].pt ELSE "sub"
<1> DEFINE n == Len(cs)
           s == [cs EXCEPT ![n].pt = "sub"]
<1>1. n \in Nat /\ n # 0 /\ n \in 1..n /\ \A k \in 1..n : cs[k] \in Frames
  OBVIOUS
<1>2. [cs[n] EXCEPT !.pt = "sub"] \in Frames
  BY <1>1 DEF Frames
<1>3. s \in Seq(Frames) /\ Len(s) = n
  BY <1>1, <1>2
<1>4. ASSUME NEW k \in 1..n
      PROVE  s[k].b = cs[k].b /\ s[k].pt = IF k < n THEN cs[k].pt ELSE "sub"
  <2>1. CASE k < n
    <3>1. s[k] = cs[k]
      BY <1>1, <2>1
    <3> QED BY <2>1, <3>1
  <2>2. CASE k = n
    <3>1. s[k] = [cs[k] EXCEPT !.pt = "sub"]
      BY <1>1, <2>2
    <3> QED BY <1>1, <2>2, <3>1 DEF Frames
  <2> QED BY <1>1, <2>1, <2>2
<1>5. Nested(f) = Append(s, f)
  BY DEF Nested
<1> HIDE DEF s
<1>6. Append(s, f) \in Seq(Frames) /\ Len(Append(s, f)) = n + 1 /\ Append(s, f)[n+1] = f
  BY <1>1, <1>3
<1>7. \A k \in 1..n : Append(s, f)[k] = s[k]
  BY <1>1, <1>3
<1> QED BY <1>4, <1>5, <1>6, <1>7

LEMMA GoOnFacts ==
  ASSUME cs \in Seq(Frames), cs # <<>>, NEW x \in Blocks
  PROVE  /\ GoOn(x) \in Seq(Frames) /\ Len(GoOn(x)) = Len(cs)
         /\ GoOn(x)[Len(cs)] = Frame(x, FALSE, Top.ws)
         /\ \A k \in 1..Len(cs)-1 : GoOn(x)[k] = cs[k]
<1>1. Len(cs) \in Nat /\ Len(cs) # 0 /\ cs[Len(cs)] \in Frames
  OBVIOUS
<1>2. Frame(x, FALSE, Top.ws) \in Frames
  BY <1>1 DEF Frames, Frame, Top
<1> DEFINE f == Frame(x, FALSE, Top.ws)
<1>3. GoOn(x) = [cs EXCEPT ![Len(cs)] = f] /\ f \in Frames
  BY <1>2 DEF GoOn
<1> HIDE DEF f
<1>4. /\ [cs EXCEPT ![Len(cs)] = f] \in Seq(Frames) /\ Len([cs EXCEPT ![Len(cs)] = f]) = Len(cs)
      /\ [cs EXCEPT ![Len(cs)] = f][Len(cs)] = f
      /\ \A k \in 1..Len(cs)-1 : [cs EXCEPT ![Len(cs)] = f][k] = cs[k]
  BY <1>1, <1>3
<1> QED BY <1>3, <1>4 DEF f
-----------------------------------------------------------------------------
(* The inductive invariant.                                                *)

\* The blocks that wait in a queue.
Queueable == Holders \cup {"wait", "waituntil", "call", "bwait"}
Inside(q, b) == \A k \in 1..Len(q) : q[k] \in Around(prog, b)
Ends(q, b) == q # <<>> /\ q[Len(q)] = b
OnStack(b) == \E k \in 1..Len(cs) : cs[k].b = b /\ cs[k].pt # "exec"
Rank == CHOOSE r \in Ranks(prog) : TRUE

\* At any time the queue of a chain is a path through nested blocks.
QueueNest ==
  \A c \in Chains : \A j, k \in 1..Len(rep[c]) :
    /\ ChainOf(rep[c][k]) = c /\ Op(rep[c][k]) \in Queueable
    /\ j < k => rep[c][j] \in Around(prog, rep[c][k])
\* The calls of runBlock: nested blocks of a chain, then those of a procedure it
\* calls, and so on.
StackShape ==
  \A k \in 1..Len(cs) : IF k < Len(cs) THEN cs[k].pt = "sub" ELSE cs[k].pt \in {"exec", "back"}
StackNest ==
  \A j, k \in 1..Len(cs) : j < k =>
    \/ ChainOf(cs[j].b) = ChainOf(cs[k].b) /\ cs[j].b \in Around(prog, cs[k].b)
    \/ Procedure(prog, ChainOf(cs[k].b)) /\ Rank[ChainOf(cs[j].b)] > Rank[ChainOf(cs[k].b)]
\* A block taken up again is the last of its queue; a block met on the way has
\* only the blocks around it in the queue, and so has a call in progress.
AtTop ==
  cs # <<>> /\ Top.pt = "exec" =>
    IF Top.fr THEN Ends(rep[ChainOf(Top.b)], Top.b) ELSE Inside(rep[ChainOf(Top.b)], Top.b)
CallsInProgress ==
  \A k \in 1..Len(cs) : cs[k].pt # "exec" /\ Op(cs[k].b) = "call" =>
    cs[k].b \in ptr /\ Inside(rep[ChainOf(cs[k].b)], cs[k].b)
Pointers == \A b \in CallBlocks(prog) : Queued(rep, b) => b \in ptr
\* A procedure that runs has a caller that waits for it.
HasCaller ==
  \A c \in Chains :
    /\ Procedure(prog, c)
    /\ Active(rep, c) \/ \E k \in 1..Len(cs) : ChainOf(cs[k].b) = c
    => \E d \in CallBlocks(prog) : prog.calls[d] = c /\ (Queued(rep, d) \/ OnStack(d))
Counting == \A k \in 1..Len(cs) : cs[k].pt # "exec" /\ Op(cs[k].b) = "repeat" => times[cs[k].b] > 0
ToStart ==
  /\ phase = "hats" => todo \subseteq Triggered
  /\ phase = "broadcasts" => \A c \in todo : prog.head[c] # None /\ Op(prog.head[c]) = "whenreceive"
IInv == /\ TypeOK /\ QueueNest /\ StackShape /\ StackNest /\ AtTop /\ CallsInProgress /\ Pointers
        /\ HasCaller /\ Counting /\ ToStart /\ prog \in Programs

LEMMA RankFacts ==
  ASSUME AllSequential, prog \in Programs
  PROVE  /\ Rank \in [Chains -> Nat]
         /\ \A b \in CallBlocks(prog) : Rank[prog.calls[b]] < Rank[ChainOf(b)]
<1>1. Ranks(prog) # {}
  BY DEF AllSequential, Sequential
<1>2. Rank \in Ranks(prog)
  BY <1>1 DEF Rank
<1>3. Cardinality(Chains) \in Nat
  BY ChainsFinite, FS_CardinalityType
<1> QED BY <1>2, <1>3 DEF Ranks, ChainOf

-----------------------------------------------------------------------------
(* What a handler does to the queues, the calls in progress and the rest.  *)

QueueChange ==
  LET b == Top.b  c == ChainOf(b)  q == rep[c] IN
  /\ rep' \in [Chains -> Seq(Blocks)]
  /\ \/ rep'[c] = q
     \/ rep'[c] = Append(q, b) /\ Inside(q, b) /\ Op(b) \in Queueable
     \/ Ends(q, b) /\ rep'[c] = SubSeq(q, 1, Len(q) - 1)
     \/ rep'[c] = <<>> /\ Inside(q, b) /\ Op(b) \in Stops
  /\ \/ \A d \in Chains : d # c => rep'[d] = rep[d]
     \/ (\A d \in Chains : d # c => rep'[d] = <<>>) /\ Op(b) \in {"stopother", "stopall"}
StackChange ==
  LET b == Top.b  c == ChainOf(b)  e == prog.calls[b] IN
  \/ cs' = Leave
  \/ \E x \in Blocks :
       /\ cs' = GoOn(x) /\ ChainOf(x) = c /\ Around(prog, x) = Around(prog, b)
       /\ Inside(rep'[c], x)
  \/ \E x \in Blocks :
       /\ cs' = Nested(Frame(x, FALSE, Top.ws)) /\ Op(b) \in Holders
       /\ ChainOf(x) = c /\ Around(prog, x) = Around(prog, b) \cup {b}
       /\ Inside(rep'[c], x) /\ (Op(b) = "repeat" => times'[b] > 0)
  \/ \E x \in Blocks, f, w \in BOOLEAN :
       /\ cs' = Nested(Frame(x, f, w)) /\ Op(b) = "call" /\ ChainOf(x) = e
       /\ rep' = rep /\ b \in ptr' /\ Inside(rep[c], b)
       /\ IF f THEN Ends(rep[e], x) ELSE Inside(rep[e], x)
RestChange ==
  LET b == Top.b IN
  /\ ptr' \subseteq Blocks /\ ptr \ {b} \subseteq ptr' /\ (b \in ptr => b \in ptr' \/ ~Queued(rep', b))
  /\ Op(b) = "call" => /\ Queued(rep', b) => b \in ptr'
                       /\ \/ Queued(rep', b) \/ ~Active(rep, prog.calls[b])
                          \/ \E f \in Frames : cs' = Nested(f)
  /\ times' \in [Blocks -> 0..MaxTimes] /\ \A d \in Blocks \ {b} : times'[d] = times[d]
  /\ brun' \in [Blocks -> SUBSET Chains] /\ queue' \in Seq(Messages)
  /\ UNCHANGED <<prog, phase, todo, presses>>
Handled == cs # <<>> /\ QueueChange /\ StackChange /\ RestChange
LEMMA Typed ==
  ASSUME TypeOK
  PROVE  /\ rep \in [Chains -> Seq(Blocks)] /\ cs \in Seq(Frames) /\ Len(cs) \in Nat
         /\ times \in [Blocks -> 0..MaxTimes] /\ ptr \subseteq Blocks /\ todo \subseteq Chains
         /\ brun \in [Blocks -> SUBSET Chains] /\ queue \in Seq(Messages)
         /\ \A k \in 1..Len(cs) : cs[k] \in Frames /\ cs[k].b \in Blocks
<1>1. cs \in Seq(Frames)
  BY DEF TypeOK, Frames
<1>2. Len(cs) \in Nat /\ \A k \in 1..Len(cs) : cs[k] \in Frames
  BY <1>1
<1>3. \A f \in Frames : f.b \in Blocks
  BY DEF Frames
<1> QED BY <1>1, <1>2, <1>3 DEF TypeOK
LEMMA TopTyped ==
  ASSUME TypeOK, Valid, cs # <<>>
  PROVE  /\ Len(cs) \in 1..Len(cs) /\ Top = cs[Len(cs)] /\ Top \in Frames
         /\ Top.b \in Blocks /\ ChainOf(Top.b) \in Chains
         /\ rep[ChainOf(Top.b)] \in Seq(Blocks) /\ Len(rep[ChainOf(Top.b)]) \in Nat
<1>1. cs \in Seq(Frames) /\ rep \in [Chains -> Seq(Blocks)]
  BY Typed
<1>2. Len(cs) \in 1..Len(cs)
  BY <1>1
<1>3. Top = cs[Len(cs)] /\ Top \in Frames
  BY <1>1, <1>2 DEF Top
<1>4. Top.b \in Blocks
  BY <1>3 DEF Frames
<1>5. ChainOf(Top.b) \in Chains
  BY <1>4 DEF Valid
<1>6. rep[ChainOf(Top.b)] \in Seq(Blocks)
  BY <1>1, <1>5
<1>7. Len(rep[ChainOf(Top.b)]) \in Nat
  BY <1>6
<1> QED BY <1>2, <1>3, <1>4, <1>5, <1>6, <1>7

\* Whatever a handler does to the queues, they stay paths.
LEMMA QueueKept ==
  ASSUME IInv, Valid, cs # <<>>, QueueChange, prog' = prog
  PROVE  QueueNest'
<1> DEFINE b == Top.b
           c == ChainOf(b)
           q == rep[c]
<1>1. /\ b \in Blocks /\ c \in Chains /\ q \in Seq(Blocks)
      /\ rep \in [Chains -> Seq(Blocks)] /\ rep' \in [Chains -> Seq(Blocks)]
  BY Typed, TopTyped DEF IInv, QueueChange
<1> SUFFICES ASSUME NEW d \in Chains, NEW j \in 1..Len(rep'[d]), NEW k \in 1..Len(rep'[d])
             PROVE  /\ ChainOf(rep'[d][k]) = d /\ Op(rep'[d][k]) \in Queueable
                    /\ j < k => rep'[d][j] \in Around(prog, rep'[d][k])
  BY DEF QueueNest, ChainOf, Op
<1>2. CASE rep'[d] = rep[d]
  BY <1>2 DEF IInv, QueueNest
<1>3. CASE rep'[d] = <<>>
  <2>1. \A i \in 1..0 : FALSE
    OBVIOUS
  <2>2. Len(rep'[d]) = 0
    BY <1>3
  <2> QED BY <2>1, <2>2, Zenon
<1>4. CASE d = c /\ rep'[c] = Append(q, b) /\ Inside(q, b) /\ Op(b) \in Queueable
  <2>1. /\ Len(rep'[d]) = Len(q) + 1 /\ Len(q) \in Nat /\ rep'[d][Len(q)+1] = b
        /\ \A i \in 1..Len(q) : rep'[d][i] = q[i]
    BY <1>1, <1>4
  <2>2. CASE k = Len(q) + 1
    <3>1. j < k => j \in 1..Len(q)
      BY <2>1, <2>2
    <3> QED BY <1>4, <2>1, <2>2, <3>1 DEF Inside
  <2>3. CASE k \in 1..Len(q)
    <3>1. j < k => j \in 1..Len(q)
      BY <2>1, <2>3
    <3> QED BY <1>4, <2>1, <2>3, <3>1 DEF IInv, QueueNest
  <2> QED BY <2>1, <2>2, <2>3
<1>5. CASE d = c /\ Ends(q, b) /\ rep'[c] = SubSeq(q, 1, Len(q) - 1)
  <2>1. Len(q) \in Nat /\ Len(q) # 0
    BY <1>1, <1>5 DEF Ends
  <2>2. Len(rep'[d]) = Len(q) - 1 /\ \A i \in 1..Len(q)-1 : rep'[d][i] = q[i]
    BY <1>1, <1>5, <2>1
  <2>3. j \in 1..Len(q) /\ k \in 1..Len(q) /\ rep'[d][j] = q[j] /\ rep'[d][k] = q[k]
    BY <2>1, <2>2
  <2> QED BY <1>5, <2>3 DEF IInv, QueueNest
<1> QED BY <1>1, <1>2, <1>3, <1>4, <1>5 DEF QueueChange

\* The blocks of the calls in progress differ, and a call among them is in
\* another chain than what runs for it.
LEMMA StackFacts ==
  ASSUME AllSequential, IInv, Valid, NEW j \in 1..Len(cs), NEW k \in 1..Len(cs), j < k
  PROVE  /\ cs[j].b \in Blocks /\ cs[k].b \in Blocks /\ cs[j].b # cs[k].b
         /\ Op(cs[j].b) \notin Holders => ChainOf(cs[j].b) # ChainOf(cs[k].b)
<1>1. cs[j].b \in Blocks /\ cs[k].b \in Blocks
  BY Typed DEF IInv
<1>2. CASE ChainOf(cs[j].b) = ChainOf(cs[k].b) /\ cs[j].b \in Around(prog, cs[k].b)
  BY <1>1, <1>2 DEF Valid
<1>3. CASE Rank[ChainOf(cs[j].b)] > Rank[ChainOf(cs[k].b)]
  <2>1. ChainOf(cs[j].b) \in Chains /\ Rank \in [Chains -> Nat]
    BY <1>1, RankFacts DEF IInv, Valid
  <2>2. ChainOf(cs[j].b) # ChainOf(cs[k].b)
    BY <1>3, <2>1
  <2> QED BY <1>1, <2>2
<1> QED BY <1>1, <1>2, <1>3 DEF IInv, StackNest

\* In a script that no block calls, every call of runBlock is the script's own.
LEMMA OneChain ==
  ASSUME IInv, cs # <<>>, ~Procedure(prog, ChainOf(Top.b))
  PROVE  \A k \in 1..Len(cs) : ChainOf(cs[k].b) = ChainOf(Top.b)
<1>1. Len(cs) \in Nat /\ Len(cs) \in 1..Len(cs) /\ Top = cs[Len(cs)]
  BY TopTyped, Typed, ProgramValid DEF IInv
<1>2. \A k \in 1..Len(cs) : k < Len(cs) \/ k = Len(cs)
  BY <1>1
<1> QED BY <1>1, <1>2 DEF IInv, StackNest

\* The calls in progress after a step, call by call.
NewTop(x, f) == cs'[Len(cs')].b = x /\ cs'[Len(cs')].fr = f /\ cs'[Len(cs')].pt = "exec"
Below == Len(cs') = Len(cs) + 1 /\ cs'[Len(cs)].b = Top.b /\ cs'[Len(cs)].pt = "sub"
StackElements ==
  LET b == Top.b  c == ChainOf(b)  e == prog.calls[b]  n == Len(cs) IN
  /\ cs' \in Seq(Frames)
  /\ \A k \in 1..n-1 : /\ k \in 1..Len(cs') /\ cs'[k].b = cs[k].b
                       /\ cs[k].pt = "sub" /\ cs'[k].pt = IF k < Len(cs') THEN "sub" ELSE "back"
  /\ \/ Len(cs') = n - 1
     \/ \E x \in Blocks :
          /\ Len(cs') = n /\ NewTop(x, FALSE)
          /\ ChainOf(x) = c /\ Around(prog, x) = Around(prog, b) /\ Inside(rep'[c], x)
     \/ \E x \in Blocks :
          /\ Below /\ NewTop(x, FALSE) /\ Op(b) \in Holders
          /\ ChainOf(x) = c /\ Around(prog, x) = Around(prog, b) \cup {b}
          /\ Inside(rep'[c], x) /\ (Op(b) = "repeat" => times'[b] > 0)
     \/ \E x \in Blocks, f \in BOOLEAN :
          /\ Below /\ NewTop(x, f) /\ Op(b) = "call" /\ ChainOf(x) = e
          /\ rep' = rep /\ b \in ptr' /\ Inside(rep[c], b)
          /\ IF f THEN Ends(rep[e], x) ELSE Inside(rep[e], x)
LEMMA StackElementwise ==
  ASSUME IInv, Valid, cs # <<>>, StackChange
  PROVE  StackElements
<1> DEFINE b == Top.b
           c == ChainOf(b)
           n == Len(cs)
<1>1. cs \in Seq(Frames) /\ n \in Nat /\ n \in 1..n /\ Top \in Frames
  BY Typed, TopTyped DEF IInv
<1>2. \A k \in 1..n-1 : k \in 1..n /\ k < n /\ cs[k].pt = "sub"
  BY <1>1 DEF IInv, StackShape
<1>3. CASE cs' = Leave
  <2>1. /\ Leave \in Seq(Frames) /\ Len(Leave) = n - 1
        /\ \A k \in 1..n-1 : Leave[k].b = cs[k].b /\ Leave[k].pt = IF k < n - 1 THEN cs[k].pt ELSE "back"
    BY <1>1, LeaveFacts
  <2>2. cs' \in Seq(Frames) /\ Len(cs') = n - 1
    BY <1>3, <2>1
  <2>3. ASSUME NEW k \in 1..n-1
        PROVE  /\ k \in 1..Len(cs') /\ cs'[k].b = cs[k].b
               /\ cs[k].pt = "sub" /\ cs'[k].pt = IF k < Len(cs') THEN "sub" ELSE "back"
    BY <1>1, <1>2, <1>3, <2>1, <2>2
  <2> QED BY <2>2, <2>3 DEF StackElements
<1>4. ASSUME NEW x \in Blocks, cs' = GoOn(x)
      PROVE  /\ cs' \in Seq(Frames) /\ Len(cs') = n /\ NewTop(x, FALSE)
             /\ \A k \in 1..n-1 : /\ k \in 1..Len(cs') /\ cs'[k].b = cs[k].b
                                  /\ cs[k].pt = "sub" /\ cs'[k].pt = IF k < Len(cs') THEN "sub" ELSE "back"
  <2>1. /\ cs' \in Seq(Frames) /\ Len(cs') = n /\ cs'[n] = Frame(x, FALSE, Top.ws)
        /\ \A k \in 1..n-1 : cs'[k] = cs[k]
    BY <1>1, <1>4, GoOnFacts
  <2>2. NewTop(x, FALSE)
    BY <2>1 DEF NewTop, Frame
  <2> QED BY <1>1, <1>2, <2>1, <2>2
<1>5. ASSUME NEW x \in Blocks, NEW f \in BOOLEAN, NEW w \in BOOLEAN, cs' = Nested(Frame(x, f, w))
      PROVE  /\ cs' \in Seq(Frames) /\ Below /\ NewTop(x, f)
             /\ \A k \in 1..n-1 : /\ k \in 1..Len(cs') /\ cs'[k].b = cs[k].b
                                  /\ cs[k].pt = "sub" /\ cs'[k].pt = IF k < Len(cs') THEN "sub" ELSE "back"
  <2> DEFINE g == Frame(x, f, w)
  <2>1. g \in Frames /\ g.b = x /\ g.fr = f /\ g.pt = "exec"
    BY DEF Frame, Frames
  <2>2. cs' = Nested(g)
    BY <1>5
  <2> HIDE DEF g
  <2>3. /\ cs' \in Seq(Frames) /\ Len(cs') = n + 1 /\ cs'[n+1] = g
        /\ \A k \in 1..n : cs'[k].b = cs[k].b /\ cs'[k].pt = IF k < n THEN cs[k].pt ELSE "sub"
    BY <1>1, <2>1, <2>2, NestedFacts
  <2>4. NewTop(x, f)
    BY <2>1, <2>3 DEF NewTop
  <2>5. Below
    BY <1>1, <2>3 DEF Below, Top
  <2>6. ASSUME NEW k \in 1..n-1
        PROVE  /\ k \in 1..Len(cs') /\ cs'[k].b = cs[k].b
               /\ cs[k].pt = "sub" /\ cs'[k].pt = IF k < Len(cs') THEN "sub" ELSE "back"
    BY <1>1, <1>2, <2>3
  <2> QED BY <2>3, <2>4, <2>5, <2>6
<1>6. CASE \E x \in Blocks :
             /\ cs' = GoOn(x) /\ ChainOf(x) = c /\ Around(prog, x) = Around(prog, b)
             /\ Inside(rep'[c], x)
  BY <1>4, <1>6 DEF StackElements
<1>7. CASE \E x \in Blocks :
             /\ cs' = Nested(Frame(x, FALSE, Top.ws)) /\ Op(b) \in Holders
             /\ ChainOf(x) = c /\ Around(prog, x) = Around(prog, b) \cup {b}
             /\ Inside(rep'[c], x) /\ (Op(b) = "repeat" => times'[b] > 0)
  <2>1. Top.ws \in BOOLEAN /\ FALSE \in BOOLEAN
    BY <1>1 DEF Frames
  <2> QED BY <1>5, <1>7, <2>1 DEF StackElements
<1>8. CASE \E x \in Blocks, f, w \in BOOLEAN :
             /\ cs' = Nested(Frame(x, f, w)) /\ Op(b) = "call" /\ ChainOf(x) = prog.calls[b]
             /\ rep' = rep /\ b \in ptr' /\ Inside(rep[c], b)
             /\ IF f THEN Ends(rep[prog.calls[b]], x) ELSE Inside(rep[prog.calls[b]], x)
  <2>1. PICK x \in Blocks, f \in BOOLEAN, w \in BOOLEAN :
             /\ cs' = Nested(Frame(x, f, w)) /\ Op(b) = "call" /\ ChainOf(x) = prog.calls[b]
             /\ rep' = rep /\ b \in ptr' /\ Inside(rep[c], b)
             /\ IF f THEN Ends(rep[prog.calls[b]], x) ELSE Inside(rep[prog.calls[b]], x)
    BY <1>8
  <2> QED BY <1>5, <2>1 DEF StackElements
<1> QED BY <1>3, <1>6, <1>7, <1>8 DEF StackChange

LEMMA StackKept ==
  ASSUME AllSequential, IInv, Valid, cs # <<>>, StackElements, prog' = prog
  PROVE  StackShape' /\ StackNest'
<1> DEFINE b == Top.b
           c == ChainOf(b)
           n == Len(cs)
<1>1. n \in Nat /\ n \in 1..n /\ Top = cs[n] /\ b \in Blocks /\ c \in Chains /\ Len(cs') \in Nat
  BY Typed, TopTyped DEF IInv, StackElements
<1>2. \A k \in 1..n-1 : /\ k \in 1..Len(cs') /\ cs'[k].b = cs[k].b
                        /\ cs'[k].pt = IF k < Len(cs') THEN "sub" ELSE "back"
  BY DEF StackElements
\* A relation of two calls, by their blocks.
<1> DEFINE Rel(x, y) == \/ ChainOf(x) = ChainOf(y) /\ x \in Around(prog, y)
                        \/ Procedure(prog, ChainOf(y)) /\ Rank[ChainOf(x)] > Rank[ChainOf(y)]
<1>3. \A j, k \in 1..n : j < k => Rel(cs[j].b, cs[k].b)
  BY DEF IInv, StackNest
<1>4. SUFFICES StackShape' /\ \A j, k \in 1..Len(cs') : j < k => Rel(cs'[j].b, cs'[k].b)
  BY DEF StackNest, ChainOf, Rank, Procedure, Around, Op
<1>5. ASSUME NEW j \in 1..n-1, NEW k \in 1..n-1, j < k PROVE Rel(cs'[j].b, cs'[k].b)
  BY <1>1, <1>2, <1>3, <1>5
<1>6. CASE Len(cs') = n - 1
  <2>1. StackShape'
    BY <1>1, <1>2, <1>6 DEF StackShape
  <2> QED BY <1>5, <1>6, <2>1
<1>7. CASE \E x \in Blocks : /\ Len(cs') = n /\ NewTop(x, FALSE)
                             /\ ChainOf(x) = c /\ Around(prog, x) = Around(prog, b)
  <2>1. PICK x \in Blocks : /\ Len(cs') = n /\ NewTop(x, FALSE)
                            /\ ChainOf(x) = c /\ Around(prog, x) = Around(prog, b)
    BY <1>7
  <2>2. StackShape'
    BY <1>1, <1>2, <2>1 DEF StackShape, NewTop
  <2>3. ASSUME NEW j \in 1..n-1 PROVE Rel(cs'[j].b, cs'[n].b)
    <3>1. Rel(cs[j].b, b) /\ cs'[j].b = cs[j].b /\ cs'[n].b = x
      BY <1>1, <1>2, <1>3, <2>1 DEF NewTop
    <3> QED BY <2>1, <3>1
  <2>4. ASSUME NEW j \in 1..n, NEW k \in 1..n, j < k PROVE Rel(cs'[j].b, cs'[k].b)
    <3>1. j \in 1..n-1 /\ (k \in 1..n-1 \/ k = n)
      BY <1>1, <2>4
    <3> QED BY <1>5, <2>3, <2>4, <3>1
  <2> QED BY <2>1, <2>2, <2>4
<1>8. ASSUME Below, NEW x \in Blocks, NEW f, NewTop(x, f),
             \A j \in 1..n-1 : Rel(cs[j].b, x), Rel(b, x)
      PROVE  StackShape' /\ \A j, k \in 1..Len(cs') : j < k => Rel(cs'[j].b, cs'[k].b)
  <2>1. Len(cs') = n + 1 /\ cs'[n].b = b /\ cs'[n].pt = "sub" /\ cs'[n+1].b = x /\ cs'[n+1].pt = "exec"
    BY <1>1, <1>8 DEF Below, NewTop
  <2>2. StackShape'
    BY <1>1, <1>2, <2>1 DEF StackShape
  <2>3. ASSUME NEW j \in 1..n+1, NEW k \in 1..n+1, j < k PROVE Rel(cs'[j].b, cs'[k].b)
    <3>1. CASE k \in 1..n-1
      BY <1>1, <1>5, <2>3, <3>1
    <3>2. CASE k = n
      <4>1. j \in 1..n-1 /\ j \in 1..n /\ j < n
        BY <1>1, <2>3, <3>2
      <4>2. Rel(cs[j].b, b) /\ cs'[j].b = cs[j].b
        BY <1>1, <1>2, <1>3, <4>1
      <4> QED BY <2>1, <3>2, <4>2
    <3>3. CASE k = n+1 /\ j \in 1..n-1
      BY <1>2, <1>8, <2>1, <3>3
    <3>4. CASE k = n+1 /\ j = n
      BY <1>8, <2>1, <3>4
    <3> QED BY <1>1, <2>3, <3>1, <3>2, <3>3, <3>4
  <2> QED BY <2>1, <2>2, <2>3
<1>9. CASE \E x \in Blocks : /\ Below /\ NewTop(x, FALSE)
                             /\ ChainOf(x) = c /\ Around(prog, x) = Around(prog, b) \cup {b}
  <2>1. PICK x \in Blocks : /\ Below /\ NewTop(x, FALSE)
                            /\ ChainOf(x) = c /\ Around(prog, x) = Around(prog, b) \cup {b}
    BY <1>9
  <2>2. ASSUME NEW j \in 1..n-1 PROVE Rel(cs[j].b, x)
    <3>1. Rel(cs[j].b, b)
      BY <1>1, <1>3
    <3> QED BY <2>1, <3>1
  <2>3. Rel(b, x)
    BY <2>1
  <2> HIDE DEF Rel
  <2> QED BY <1>8, <2>1, <2>2, <2>3
<1>10. CASE \E x \in Blocks, f \in BOOLEAN :
              Below /\ NewTop(x, f) /\ Op(b) = "call" /\ ChainOf(x) = prog.calls[b]
  <2>1. PICK x \in Blocks, f \in BOOLEAN :
              Below /\ NewTop(x, f) /\ Op(b) = "call" /\ ChainOf(x) = prog.calls[b]
    BY <1>10
  <2>2. Procedure(prog, ChainOf(x)) /\ Rank[ChainOf(x)] < Rank[c] /\ Rank \in [Chains -> Nat] /\ ChainOf(x) \in Chains
    BY <1>1, <2>1, RankFacts DEF IInv, Valid, CallBlocks, Op
  <2>3. Rel(b, x)
    BY <1>1, <2>2
  <2>4. ASSUME NEW j \in 1..n-1 PROVE Rel(cs[j].b, x)
    <3>1. Rel(cs[j].b, b) /\ cs[j].b \in Blocks
      BY <1>1, <1>3, Typed DEF IInv
    <3>2. ChainOf(cs[j].b) \in Chains
      BY <3>1 DEF Valid
    <3>3. Rank[ChainOf(cs[j].b)] > Rank[ChainOf(x)]
      BY <1>1, <2>2, <3>1, <3>2
    <3> QED BY <2>2, <3>3
  <2> HIDE DEF Rel
  <2> QED BY <1>8, <2>1, <2>3, <2>4
<1> QED BY <1>6, <1>7, <1>9, <1>10 DEF StackElements

\* What a handler drops: its block, or what it stops.
LEMMA QueueBlocks ==
  ASSUME IInv, Valid, cs # <<>>, QueueChange, prog' = prog
  PROVE  LET b == Top.b  c == ChainOf(b) IN
         /\ \A d \in Chains : d # c =>
              rep'[d] = rep[d] \/ (rep'[d] = <<>> /\ Op(b) \in {"stopother", "stopall"})
         /\ \A d \in Blocks : Queued(rep', d) => d = b \/ Queued(rep, d)
         /\ \A d \in Blocks : Queued(rep, d) /\ ~Queued(rep', d) =>
              \/ d = b
              \/ ChainOf(d) = c /\ Op(b) \in Stops /\ Op(d) \in Holders
              \/ ChainOf(d) # c /\ rep'[ChainOf(d)] = <<>> /\ Op(b) \in {"stopother", "stopall"}
<1> DEFINE b == Top.b
           c == ChainOf(b)
           q == rep[c]
<1>1. /\ b \in Blocks /\ c \in Chains /\ q \in Seq(Blocks) /\ Len(q) \in Nat
      /\ rep \in [Chains -> Seq(Blocks)] /\ rep' \in [Chains -> Seq(Blocks)]
  BY Typed, TopTyped DEF IInv, QueueChange
<1>2. ASSUME NEW d \in Chains, d # c
      PROVE  rep'[d] = rep[d] \/ (rep'[d] = <<>> /\ Op(b) \in {"stopother", "stopall"})
  BY <1>2 DEF QueueChange
<1> DEFINE In(s, d) == \E k \in 1..Len(s) : s[k] = d
<1>3. \A d \in Blocks : /\ ChainOf(d) \in Chains /\ (Queued(rep, d) <=> In(rep[ChainOf(d)], d))
                        /\ (Queued(rep', d) <=> In(rep'[ChainOf(d)], d))
  BY DEF Valid, Queued, ChainOf
<1>4. \A d : ~In(<<>>, d)
  OBVIOUS
<1>5. ASSUME NEW d \in Blocks, In(rep'[c], d) PROVE d = b \/ In(q, d)
  <2>1. CASE rep'[c] = Append(q, b)
    BY <1>1, <1>5, <2>1
  <2>2. CASE Ends(q, b) /\ rep'[c] = SubSeq(q, 1, Len(q) - 1)
    <3>1. Len(q) # 0
      BY <1>1, <2>2 DEF Ends
    <3>2. Len(rep'[c]) = Len(q) - 1 /\ \A k \in 1..Len(q)-1 : rep'[c][k] = q[k]
      BY <1>1, <2>2, <3>1
    <3> QED BY <1>1, <1>5, <3>2
  <2> QED BY <1>4, <1>5, <2>1, <2>2 DEF QueueChange
<1>6. ASSUME NEW d \in Blocks, In(q, d), ~In(rep'[c], d), d # b
      PROVE  Op(b) \in Stops /\ Op(d) \in Holders
  <2>1. PICK k \in 1..Len(q) : q[k] = d
    BY <1>6
  <2>2. CASE rep'[c] = Append(q, b)
    BY <1>1, <1>6, <2>1, <2>2
  <2>3. CASE Ends(q, b) /\ rep'[c] = SubSeq(q, 1, Len(q) - 1)
    <3>1. Len(q) # 0
      BY <1>1, <2>3 DEF Ends
    <3>2. Len(rep'[c]) = Len(q) - 1 /\ \A i \in 1..Len(q)-1 : rep'[c][i] = q[i]
      BY <1>1, <2>3, <3>1
    <3>3. k # Len(q)
      BY <1>6, <2>1, <2>3 DEF Ends
    <3>4. k \in 1..Len(q)-1
      BY <1>1, <2>1, <3>3
    <3> QED BY <1>6, <2>1, <3>2, <3>4
  <2>4. CASE rep'[c] = <<>> /\ Inside(q, b) /\ Op(b) \in Stops
    BY <1>1, <2>1, <2>4 DEF Inside, Valid
  <2> QED BY <1>6, <2>2, <2>3, <2>4 DEF QueueChange
<1> HIDE DEF In, q
<1>7. ASSUME NEW d \in Blocks, Queued(rep', d) PROVE d = b \/ Queued(rep, d)
  <2>1. CASE ChainOf(d) = c
    BY <1>3, <1>5, <1>7, <2>1 DEF q
  <2>2. CASE ChainOf(d) # c
    BY <1>2, <1>3, <1>4, <1>7, <2>2
  <2> QED BY <2>1, <2>2
<1>8. ASSUME NEW d \in Blocks, Queued(rep, d), ~Queued(rep', d), d # b
      PROVE  \/ ChainOf(d) = c /\ Op(b) \in Stops /\ Op(d) \in Holders
             \/ ChainOf(d) # c /\ rep'[ChainOf(d)] = <<>> /\ Op(b) \in {"stopother", "stopall"}
  <2>1. CASE ChainOf(d) = c
    BY <1>3, <1>6, <1>8, <2>1 DEF q
  <2>2. CASE ChainOf(d) # c
    BY <1>2, <1>3, <1>8, <2>2
  <2> QED BY <2>1, <2>2
<1> QED BY <1>2, <1>7, <1>8

\* The next block is taken up with the right blocks in its queue.
LEMMA TopKept ==
  ASSUME IInv, Valid, cs # <<>>, StackElements, StackShape', prog' = prog
  PROVE  AtTop'
<1> SUFFICES ASSUME cs' # <<>>, Top'.pt = "exec"
             PROVE  IF Top'.fr THEN Ends(rep'[ChainOf(Top'.b)], Top'.b)
                    ELSE Inside(rep'[ChainOf(Top'.b)], Top'.b)
  BY DEF AtTop, ChainOf, Ends, Inside
<1>1. Len(cs) \in Nat /\ Len(cs') \in Nat /\ Len(cs') # 0 /\ Top' = cs'[Len(cs')]
  BY Typed DEF IInv, StackElements, Top
<1>2. Len(cs') # Len(cs) - 1
  <2> SUFFICES ASSUME Len(cs') = Len(cs) - 1 PROVE FALSE
    OBVIOUS
  <2>1. Len(cs') \in 1..Len(cs)-1
    BY <1>1
  <2>2. cs'[Len(cs')].pt = "back"
    BY <1>1, <2>1 DEF StackElements
  <2> QED BY <1>1, <2>2
<1> QED BY <1>1, <1>2 DEF StackElements, NewTop

\* The calls below the top: those of before.
LEMMA Lower ==
  ASSUME AllSequential, IInv, Valid, cs # <<>>, Handled, StackElements,
         NEW k \in 1..Len(cs'), cs'[k].pt # "exec"
  PROVE  \/ k \in 1..Len(cs)-1 /\ k \in 1..Len(cs) /\ k < Len(cs) /\ cs'[k].b = cs[k].b /\ cs[k].pt = "sub"
         \/ k = Len(cs) /\ cs'[k].b = Top.b /\ Below
<1>1. Len(cs) \in Nat /\ Len(cs') \in Nat
  BY Typed DEF IInv, StackElements
<1>2. CASE k \in 1..Len(cs)-1
  BY <1>1, <1>2 DEF StackElements
<1>3. CASE k = Len(cs) /\ Below
  BY <1>3 DEF Below
<1> QED BY <1>1, <1>2, <1>3 DEF StackElements, Below, NewTop

LEMMA CallsKept ==
  ASSUME AllSequential, IInv, Valid, Handled, StackElements
  PROVE  CallsInProgress' /\ Counting'
<1> DEFINE b == Top.b
           c == ChainOf(b)
           n == Len(cs)
<1>1. n \in Nat /\ n \in 1..n /\ Top = cs[n] /\ b \in Blocks /\ c \in Chains /\ prog' = prog /\ cs # <<>>
  BY Typed, TopTyped DEF IInv, Handled, RestChange
<1>2. ASSUME NEW k \in 1..Len(cs'), cs'[k].pt # "exec", Op(cs'[k].b) = "call"
      PROVE  cs'[k].b \in ptr' /\ Inside(rep'[ChainOf(cs'[k].b)], cs'[k].b)
  <2>1. CASE k \in 1..n /\ k < n /\ cs'[k].b = cs[k].b /\ cs[k].pt = "sub"
    <3> DEFINE d == cs[k].b
    <3>1. d \in ptr /\ Inside(rep[ChainOf(d)], d) /\ Op(d) = "call"
      BY <1>2, <2>1 DEF IInv, CallsInProgress
    <3>2. d \in Blocks /\ d # b /\ ChainOf(d) # c
      BY <1>1, <2>1, <3>1, StackFacts DEF Holders
    <3>3. d \in ptr'
      BY <3>1, <3>2 DEF Handled, RestChange
    <3>4. rep'[ChainOf(d)] = rep[ChainOf(d)] \/ rep'[ChainOf(d)] = <<>>
      BY <1>1, <3>2, QueueBlocks DEF Handled, Valid
    <3>5. Inside(<<>>, d)
      BY DEF Inside
    <3>6. Inside(rep'[ChainOf(d)], d)
      BY <3>1, <3>4, <3>5
    <3> QED BY <2>1, <3>3, <3>6
  <2>2. CASE k = n /\ cs'[k].b = b /\ Below
    <3>1. Len(cs') # n /\ Len(cs') # n - 1 /\ Op(b) \notin Holders
      BY <1>1, <1>2, <2>2 DEF Below, Holders
    <3>2. rep' = rep /\ b \in ptr' /\ Inside(rep[c], b)
      BY <3>1 DEF StackElements
    <3> QED BY <2>2, <3>2
  <2> QED BY <1>1, <1>2, <2>1, <2>2, Lower
<1>3. ASSUME NEW k \in 1..Len(cs'), cs'[k].pt # "exec", Op(cs'[k].b) = "repeat"
      PROVE  times'[cs'[k].b] > 0
  <2>1. CASE k \in 1..n /\ k < n /\ cs'[k].b = cs[k].b /\ cs[k].pt = "sub"
    <3>1. cs[k].b \in Blocks /\ cs[k].b # b
      BY <1>1, <2>1, StackFacts
    <3>2. times'[cs[k].b] = times[cs[k].b]
      BY <3>1 DEF Handled, RestChange
    <3> QED BY <1>3, <2>1, <3>2 DEF IInv, Counting
  <2>2. CASE k = n /\ cs'[k].b = b /\ Below
    <3>1. Len(cs') # n /\ Len(cs') # n - 1 /\ Op(b) # "call"
      BY <1>1, <1>3, <2>2 DEF Below
    <3>2. times'[b] > 0
      BY <1>3, <2>2, <3>1 DEF StackElements
    <3> QED BY <2>2, <3>2
  <2> QED BY <1>1, <1>3, <2>1, <2>2, Lower
<1> QED BY <1>1, <1>2, <1>3 DEF CallsInProgress, Counting, Op, ChainOf, Inside

LEMMA PointersKept ==
  ASSUME IInv, Valid, Handled
  PROVE  Pointers'
<1> SUFFICES ASSUME NEW d \in Blocks, Op(d) = "call", Queued(rep', d) PROVE d \in ptr'
  BY DEF Pointers, CallBlocks, Op, Queued, ChainOf, Handled, RestChange
<1>1. d = Top.b \/ Queued(rep, d)
  BY QueueBlocks DEF Handled, RestChange
<1>2. CASE d = Top.b
  BY <1>2 DEF Handled, RestChange
<1>3. CASE d # Top.b
  BY <1>1, <1>3 DEF IInv, Pointers, CallBlocks, Op, Handled, RestChange
<1> QED BY <1>2, <1>3

\* A procedure that runs keeps its caller.
LEMMA CallerKept ==
  ASSUME AllSequential, IInv, Valid, Handled, StackElements
  PROVE  HasCaller'
<1> DEFINE b == Top.b
           c == ChainOf(b)
           n == Len(cs)
           Keeps(d) == Queued(rep', d) \/ \E k \in 1..Len(cs') : cs'[k].b = d /\ cs'[k].pt # "exec"
<1>1. n \in Nat /\ n \in 1..n /\ Top = cs[n] /\ b \in Blocks /\ c \in Chains /\ prog' = prog /\ cs # <<>>
  BY Typed, TopTyped DEF IInv, Handled, RestChange
<1>2. Rank \in [Chains -> Nat] /\ \A d \in CallBlocks(prog) :
        d \in Blocks /\ Op(d) = "call" /\ Rank[prog.calls[d]] < Rank[ChainOf(d)] /\ ChainOf(d) \in Chains
  BY RankFacts DEF IInv, CallBlocks, Valid, Op
<1>3. Op(b) \in {"stopother", "stopall"} => ~Procedure(prog, c)
  BY <1>1 DEF AllSequential, Sequential, IInv, Op, ChainOf
<1>4. Len(cs') \in Nat /\ \A k \in 1..n-1 : k \in 1..Len(cs') /\ cs'[k].b = cs[k].b /\ cs'[k].pt # "exec"
  BY DEF StackElements
<1> SUFFICES ASSUME NEW P \in Chains, Procedure(prog, P),
                    Active(rep', P) \/ \E k \in 1..Len(cs') : ChainOf(cs'[k].b) = P
             PROVE  \E d \in CallBlocks(prog) : prog.calls[d] = P /\ Keeps(d)
  <2>2. \A d : Queued(rep, d)' <=> Queued(rep', d)
    BY <1>1 DEF Queued, ChainOf
  <2>1. \A d : OnStack(d)' <=> \E k \in 1..Len(cs') : cs'[k].b = d /\ cs'[k].pt # "exec"
    BY DEF OnStack
  <2> HIDE DEF Keeps
  <2> QED BY <1>1, <2>1, <2>2 DEF HasCaller, Active, Procedure, CallBlocks, ChainOf, Keeps
<1>5. ASSUME NEW d, NEW k \in 1..n-1, cs[k].b = d PROVE Keeps(d)
  BY <1>4, <1>5
\* P is not below a call of P, and not below a block that stops the others.
<1>6. ASSUME NEW k \in 1..n-1, ChainOf(cs[k].b) = P, P # c
      PROVE  Procedure(prog, c) /\ Rank[P] > Rank[c]
  <2>1. k \in 1..n /\ k < n
    BY <1>1
  <2> QED BY <1>1, <1>6, <2>1 DEF IInv, StackNest
<1>7. CASE P = c
  <2>1. \E k \in 1..n : ChainOf(cs[k].b) = P
    BY <1>1, <1>7
  <2>2. PICK d \in CallBlocks(prog) : prog.calls[d] = P /\ (Queued(rep, d) \/ OnStack(d))
    BY <2>1 DEF IInv, HasCaller
  <2>3. d \in Blocks /\ ChainOf(d) # c /\ d # b
    BY <1>1, <1>2, <1>7, <2>2
  <2>4. CASE OnStack(d)
    <3>1. PICK k \in 1..n : cs[k].b = d
      BY <2>4 DEF OnStack
    <3>2. k \in 1..n-1
      BY <1>1, <2>3, <3>1
    <3> QED BY <1>5, <2>2, <3>1, <3>2
  <2>5. CASE Queued(rep, d)
    <3>1. Queued(rep', d)
      BY <1>1, <1>3, <1>7, <2>3, <2>5, QueueBlocks DEF Handled
    <3> QED BY <2>2, <3>1
  <2> QED BY <2>2, <2>4, <2>5
<1>8. CASE P # c
  <2>1. Active(rep', P) => Active(rep, P) /\ rep'[P] = rep[P]
    BY <1>1, <1>8, QueueBlocks DEF Handled, Active
  <2>2. ASSUME NEW k \in 1..Len(cs'), ChainOf(cs'[k].b) = P
        PROVE  \/ k \in 1..n-1 /\ ChainOf(cs[k].b) = P
               \/ Op(b) = "call" /\ prog.calls[b] = P /\ Below
    <3>1. CASE k \in 1..n-1
      BY <1>4, <2>2, <3>1
    <3>2. CASE k = n /\ Below
      BY <1>8, <2>2, <3>2 DEF Below
    <3>3. CASE k \notin 1..n-1 /\ ~(k = n /\ Below)
      <4>1. Len(cs') # n - 1
        BY <1>1, <1>4, <2>2, <3>3
      <4>2. Len(cs') = n \/ Below
        BY <4>1 DEF StackElements
      <4>3. k = Len(cs')
        BY <1>1, <1>4, <2>2, <3>3, <4>2 DEF Below
      <4> QED BY <1>8, <2>2, <4>1, <4>3 DEF StackElements, NewTop
    <3> QED BY <3>1, <3>2, <3>3
  <2>3. CASE Op(b) = "call" /\ prog.calls[b] = P /\ Below
    <3>1. n \in 1..Len(cs') /\ cs'[n].b = b /\ cs'[n].pt # "exec"
      BY <1>1, <2>3 DEF Below
    <3>2. Keeps(b)
      BY <3>1
    <3>3. b \in CallBlocks(prog)
      BY <1>1, <2>3 DEF CallBlocks, Op
    <3> HIDE DEF Keeps
    <3> QED BY <2>3, <3>2, <3>3
  <2>4. CASE ~(Op(b) = "call" /\ prog.calls[b] = P /\ Below)
    <3>1. \/ Active(rep, P) /\ rep'[P] = rep[P]
          \/ \E k \in 1..n-1 : ChainOf(cs[k].b) = P
      BY <2>1, <2>2, <2>4
    <3>2. Active(rep, P) \/ \E k \in 1..n : ChainOf(cs[k].b) = P
      BY <1>1, <3>1
    <3>3. PICK d \in CallBlocks(prog) : prog.calls[d] = P /\ (Queued(rep, d) \/ OnStack(d))
      BY <3>2 DEF IInv, HasCaller
    <3>4. d \in Blocks /\ Op(d) = "call" /\ Rank[P] < Rank[ChainOf(d)] /\ ChainOf(d) \in Chains
      BY <1>2, <3>3
    <3>5. CASE d = b
      <4>1. Active(rep, P)
        <5>1. \A k \in 1..n-1 : ChainOf(cs[k].b) # P
          BY <1>1, <1>2, <1>6, <1>8, <3>4, <3>5
        <5> QED BY <3>1, <5>1
      <4>2. Queued(rep', b) \/ \E f \in Frames : cs' = Nested(f)
        BY <3>3, <3>4, <3>5, <4>1 DEF Handled, RestChange
      <4>3. ASSUME NEW f \in Frames, cs' = Nested(f) PROVE Keeps(b)
        <5>1. cs \in Seq(Frames)
          BY Typed DEF IInv
        <5>2. /\ Len(cs') = n + 1 /\ cs'[n].b = cs[n].b /\ cs'[n].pt = "sub"
          BY <1>1, <4>3, <5>1, NestedFacts
        <5>3. n \in 1..Len(cs')
          BY <1>1, <5>2
        <5> QED BY <1>1, <5>2, <5>3
      <4>4. Queued(rep', b) => Keeps(b)
        OBVIOUS
      <4> HIDE DEF Keeps
      <4> QED BY <3>3, <3>5, <4>2, <4>3, <4>4
    <3>6. CASE d # b /\ OnStack(d)
      <4>1. PICK k \in 1..n : cs[k].b = d
        BY <3>6 DEF OnStack
      <4>2. k \in 1..n-1
        BY <1>1, <3>6, <4>1
      <4> QED BY <1>5, <3>3, <4>1, <4>2
    <3>7. CASE d # b /\ Queued(rep, d)
      <4>1. Op(b) \notin {"stopother", "stopall"} \/ Queued(rep', d)
        <5> SUFFICES ASSUME Op(b) \in {"stopother", "stopall"}, ~Queued(rep', d) PROVE FALSE
          OBVIOUS
        <5>1. ChainOf(d) # c /\ rep'[ChainOf(d)] = <<>>
          BY <1>1, <3>4, <3>7, QueueBlocks DEF Handled, Holders
        <5>2. \A k \in 1..n-1 : ChainOf(cs[k].b) # P
          BY <1>3, <1>6, <1>8
        <5>3. Active(rep, P) /\ rep'[P] = rep[P]
          BY <3>1, <5>2
        <5>4. rep'[P] = <<>>
          <6>1. rep'[ChainOf(d)] # rep[ChainOf(d)]
            BY <1>1, <3>7, <5>1 DEF Queued, ChainOf
          <6> QED BY <1>8, <3>4, <5>1, <6>1 DEF Handled, QueueChange
        <5> QED BY <5>3, <5>4 DEF Active
      <4>2. Queued(rep', d)
        BY <1>1, <3>4, <3>7, <4>1, QueueBlocks DEF Handled, Holders
      <4> QED BY <3>3, <4>2
    <3> QED BY <3>3, <3>5, <3>6, <3>7
  <2> QED BY <2>3, <2>4
<1> QED BY <1>7, <1>8

\* A path through nested blocks holds no block twice.
LEMMA Distinctness ==
  ASSUME Valid, NEW q \in Seq(Blocks),
         \A j, k \in 1..Len(q) : j < k => q[j] \in Around(prog, q[k])
  PROVE  \A j, k \in 1..Len(q) : q[j] = q[k] => j = k
<1> SUFFICES ASSUME NEW j \in 1..Len(q), NEW k \in 1..Len(q), q[j] = q[k], j # k
             PROVE  FALSE
  OBVIOUS
<1>1. Len(q) \in Nat /\ q[j] \in Blocks /\ q[k] \in Blocks
  OBVIOUS
<1>2. j < k \/ k < j
  BY <1>1
<1> QED BY <1>1, <1>2 DEF Valid

\* The invariant survives every handler.
LEMMA HandledKeeps ==
  ASSUME AllSequential, IInv, Handled
  PROVE  IInv'
<1>1. cs # <<>> /\ prog' = prog /\ prog \in Programs
  BY DEF Handled, RestChange, IInv
<1>2. Valid
  BY <1>1, ProgramValid
<1>3. StackElements
  BY <1>1, <1>2, StackElementwise DEF Handled
<1>4. QueueNest'
  BY <1>1, <1>2, QueueKept DEF Handled
<1>5. StackShape' /\ StackNest'
  BY <1>1, <1>2, <1>3, StackKept
<1>6. AtTop' /\ CallsInProgress' /\ Counting' /\ Pointers' /\ HasCaller'
  BY <1>1, <1>2, <1>3, <1>5, TopKept, CallsKept, PointersKept, CallerKept
<1>7. TypeOK'
  <2>1. rep' \in [Chains -> Seq(Blocks)] /\ cs' \in Seq(Frames)
    BY <1>3 DEF Handled, QueueChange, StackElements
  <2>2. /\ \A c \in Chains : \A k \in 1..Len(rep'[c]) : ChainOf(rep'[c][k]) = c
        /\ \A c \in Chains : \A j, k \in 1..Len(rep'[c]) :
             j < k => rep'[c][j] \in Around(prog, rep'[c][k])
    BY <1>1, <1>4 DEF QueueNest, ChainOf
  <2>3. \A c \in Chains : \A j, k \in 1..Len(rep'[c]) :
          ChainOf(rep'[c][k]) = c /\ (rep'[c][j] = rep'[c][k] => j = k)
    <3> TAKE c \in Chains
    <3>1. rep'[c] \in Seq(Blocks)
      BY <2>1
    <3> QED BY <1>2, <2>2, <3>1, Distinctness
  <2>4. /\ times' \in [Blocks -> 0..MaxTimes] /\ ptr' \subseteq Blocks
        /\ brun' \in [Blocks -> SUBSET Chains] /\ queue' \in Seq(Messages)
        /\ UNCHANGED <<phase, todo, presses>>
    BY DEF Handled, RestChange
  <2> QED BY <1>1, <2>1, <2>3, <2>4 DEF TypeOK, IInv, Frames, ChainOf
<1>8. ToStart'
  BY <1>1 DEF IInv, ToStart, Triggered, Op, Handled, RestChange
<1> QED BY <1>1, <1>4, <1>5, <1>6, <1>7, <1>8 DEF IInv
-----------------------------------------------------------------------------
(* What the handlers have in common.                                       *)

\* addToRepeatQueue and removeFromRepeatQueue, of the block that is executed.
LEMMA OwnQueue ==
  ASSUME IInv, Valid, cs # <<>>
  PROVE  LET b == Top.b  c == ChainOf(b)  q == rep[c] IN
         /\ Inside(q, b) =>
              /\ ~Queued(rep, b) /\ Added(rep, b) = [rep EXCEPT ![c] = Append(q, b)]
              /\ Removed(Added(rep, b), b) = rep
              /\ \A k \in 1..Len(Append(q, b)) : Append(q, b)[k] \in Around(prog, b) \cup {b}
         /\ Ends(q, b) =>
              /\ Op(b) \in Queueable /\ Queued(rep, b)
              /\ Removed(rep, b) = [rep EXCEPT ![c] = SubSeq(q, 1, Len(q) - 1)]
              /\ Inside(SubSeq(q, 1, Len(q) - 1), b) /\ ~Queued(Removed(rep, b), b)
              /\ \A k \in 1..Len(q) : q[k] \in Around(prog, b) \cup {b}
<1> DEFINE b == Top.b
           c == ChainOf(b)
           q == rep[c]
<1>1. /\ b \in Blocks /\ c \in Chains /\ q \in Seq(Blocks) /\ Len(q) \in Nat
      /\ rep \in [Chains -> Seq(Blocks)]
  BY Typed, TopTyped DEF IInv
<1>2. b \notin Around(prog, b)
  BY <1>1 DEF Valid
<1>3. ASSUME Inside(q, b)
      PROVE  /\ ~Queued(rep, b) /\ Added(rep, b) = [rep EXCEPT ![c] = Append(q, b)]
             /\ Removed(Added(rep, b), b) = rep
             /\ \A k \in 1..Len(Append(q, b)) : Append(q, b)[k] \in Around(prog, b) \cup {b}
  <2> DEFINE r == Append(q, b)
  <2>1. ~Queued(rep, b)
    BY <1>2, <1>3 DEF Queued, Inside
  <2>2. Added(rep, b) = [rep EXCEPT ![c] = r]
    BY <2>1 DEF Added
  <2>3. /\ r \in Seq(Blocks) /\ Len(r) = Len(q) + 1 /\ r[Len(q)+1] = b /\ r # <<>>
        /\ \A k \in 1..Len(q) : r[k] = q[k]
    BY <1>1
  <2>4. \A k \in 1..Len(r) : r[k] \in Around(prog, b) \cup {b}
    BY <1>1, <1>3, <2>3 DEF Inside
  <2>5. SubSeq(r, 1, Len(r) - 1) = q
    BY <1>1
  <2>6. Removed(Added(rep, b), b) = rep
    <3> HIDE DEF r
    <3>1. Removed(Added(rep, b), b) = [rep EXCEPT ![c] = SubSeq(r, 1, Len(r) - 1)]
      BY <1>1, <2>2, <2>3 DEF Removed
    <3> QED BY <1>1, <2>5, <3>1
  <2> QED BY <2>1, <2>2, <2>4, <2>6
<1>4. ASSUME Ends(q, b)
      PROVE  /\ Op(b) \in Queueable /\ Queued(rep, b)
             /\ Removed(rep, b) = [rep EXCEPT ![c] = SubSeq(q, 1, Len(q) - 1)]
             /\ Inside(SubSeq(q, 1, Len(q) - 1), b) /\ ~Queued(Removed(rep, b), b)
             /\ \A k \in 1..Len(q) : q[k] \in Around(prog, b) \cup {b}
  <2> DEFINE r == SubSeq(q, 1, Len(q) - 1)
  <2>1. q # <<>> /\ q[Len(q)] = b /\ Len(q) \in 1..Len(q)
    BY <1>1, <1>4 DEF Ends
  <2>2. Op(b) \in Queueable /\ Queued(rep, b)
    BY <1>1, <2>1 DEF IInv, QueueNest, Queued
  <2>3. \A k \in 1..Len(q) : k < Len(q) => q[k] \in Around(prog, b)
    BY <1>1, <2>1 DEF IInv, QueueNest
  <2>4. Len(r) = Len(q) - 1 /\ r \in Seq(Blocks) /\ \A k \in 1..Len(q)-1 : r[k] = q[k]
    BY <1>1, <2>1
  <2>5. \A k \in 1..Len(q) : k < Len(q) \/ k = Len(q)
    BY <1>1
  <2>6. \A k \in 1..Len(q) : q[k] \in Around(prog, b) \cup {b}
    BY <2>1, <2>3, <2>5
  <2>7. \A k \in 1..Len(r) : k \in 1..Len(q)-1 /\ k \in 1..Len(q) /\ k < Len(q)
    BY <1>1, <2>4
  <2> HIDE DEF r
  <2>8. Inside(r, b)
    BY <2>3, <2>4, <2>7 DEF Inside
  <2>9. Removed(rep, b) = [rep EXCEPT ![c] = r]
    BY <1>1, <2>1 DEF Removed, r
  <2>10. ~Queued(Removed(rep, b), b)
    <3>1. Removed(rep, b)[c] = r
      BY <1>1, <2>9
    <3> QED BY <1>2, <2>8, <3>1 DEF Queued, Inside
  <2> QED BY <2>2, <2>6, <2>8, <2>9, <2>10 DEF r
<1> QED BY <1>3, <1>4

\* The queues after the block has been queued, unless it was, or dropped.
LEMMA OwnQueueChange ==
  ASSUME IInv, Valid, cs # <<>>
  PROVE  LET b == Top.b  c == ChainOf(b)  q == rep[c] IN
         /\ rep' = rep => QueueChange /\ rep'[c] = q
         /\ Inside(q, b) /\ Op(b) \in Queueable /\ rep' = Added(rep, b) =>
              /\ QueueChange /\ Queued(rep', b)
              /\ \A k \in 1..Len(rep'[c]) : rep'[c][k] \in Around(prog, b) \cup {b}
              /\ \A d \in Chains : d # c => rep'[d] = rep[d]
         /\ Ends(q, b) /\ rep' = Removed(rep, b) =>
              QueueChange /\ Inside(rep'[c], b) /\ ~Queued(rep', b)
<1> DEFINE b == Top.b
           c == ChainOf(b)
           q == rep[c]
<1>1. /\ b \in Blocks /\ c \in Chains /\ q \in Seq(Blocks) /\ Len(q) \in Nat
      /\ rep \in [Chains -> Seq(Blocks)]
  BY Typed, TopTyped DEF IInv
<1>2. rep' = rep => QueueChange
  BY <1>1 DEF QueueChange
<1>3. ASSUME Inside(q, b), Op(b) \in Queueable, rep' = Added(rep, b)
      PROVE  /\ QueueChange /\ Queued(rep', b)
             /\ \A k \in 1..Len(rep'[c]) : rep'[c][k] \in Around(prog, b) \cup {b}
             /\ \A d \in Chains : d # c => rep'[d] = rep[d]
  <2> DEFINE r == Append(q, b)
  <2>1. r \in Seq(Blocks) /\ Len(r) \in 1..Len(r) /\ r[Len(r)] = b
    BY <1>1
  <2>2. rep' = [rep EXCEPT ![c] = r] /\ \A k \in 1..Len(r) : r[k] \in Around(prog, b) \cup {b}
    BY <1>3, OwnQueue
  <2>3. rep'[c] = r /\ rep' \in [Chains -> Seq(Blocks)] /\ \A d \in Chains : d # c => rep'[d] = rep[d]
    <3> HIDE DEF r
    <3> QED BY <1>1, <2>1, <2>2
  <2>4. QueueChange
    BY <1>3, <2>3 DEF QueueChange
  <2>5. Queued(rep', b)
    <3> HIDE DEF r
    <3> QED BY <2>1, <2>3 DEF Queued
  <2> QED BY <2>2, <2>3, <2>4, <2>5
<1>4. ASSUME Ends(q, b), rep' = Removed(rep, b)
      PROVE  QueueChange /\ Inside(rep'[c], b) /\ ~Queued(rep', b)
  <2> DEFINE r == SubSeq(q, 1, Len(q) - 1)
  <2>1. r \in Seq(Blocks)
    <3>1. Len(q) # 0
      BY <1>1, <1>4 DEF Ends
    <3> QED BY <1>1, <3>1
  <2>2. rep' = [rep EXCEPT ![c] = r] /\ Inside(r, b) /\ ~Queued(rep', b)
    BY <1>4, OwnQueue
  <2>3. rep'[c] = r /\ rep' \in [Chains -> Seq(Blocks)] /\ \A d \in Chains : d # c => rep'[d] = rep[d]
    <3> HIDE DEF r
    <3> QED BY <1>1, <2>1, <2>2
  <2>4. QueueChange
    BY <1>4, <2>3 DEF QueueChange
  <2> QED BY <2>2, <2>3, <2>4
<1> QED BY <1>2, <1>3, <1>4

\* Where a block is executed, and the queues if it goes on later or is over.
LEMMA Requeue ==
  ASSUME IInv, Valid, cs # <<>>, Top.pt = "exec"
  PROVE  LET b == Top.b  c == ChainOf(b) IN
         /\ IF Top.fr THEN Ends(rep[c], b) /\ Op(b) \in Queueable ELSE Inside(rep[c], b)
         /\ Op(b) \in Queueable /\ rep' = Requeued =>
              QueueChange /\ \A k \in 1..Len(rep'[c]) : rep'[c][k] \in Around(prog, b) \cup {b}
         /\ Op(b) \in Queueable /\ rep' = Removed(Requeued, b) => QueueChange /\ Inside(rep'[c], b)
<1>1. IF Top.fr THEN Ends(rep[ChainOf(Top.b)], Top.b) ELSE Inside(rep[ChainOf(Top.b)], Top.b)
  BY DEF IInv, AtTop
<1>2. CASE Top.fr
  BY <1>1, <1>2, OwnQueue, OwnQueueChange DEF Requeued
<1>3. CASE ~Top.fr
  BY <1>1, <1>3, OwnQueue, OwnQueueChange DEF Requeued
<1> QED BY <1>1, <1>2, <1>3

\* The script goes on behind the block.
LEMMA ContinueChange ==
  ASSUME IInv, Valid, cs # <<>>, cs' = Continue, Inside(rep'[ChainOf(Top.b)], Top.b)
  PROVE  StackChange
<1>1. Top.b \in Blocks
  BY TopTyped DEF IInv
<1> DEFINE x == prog.next[Top.b]
<1>2. CASE x = None
  BY <1>2 DEF Continue, StackChange
<1>3. CASE x # None
  <2>1. x \in Blocks /\ ChainOf(x) = ChainOf(Top.b) /\ Around(prog, x) = Around(prog, Top.b)
    BY <1>1, <1>3 DEF Valid
  <2>2. cs' = GoOn(x)
    BY <1>3 DEF Continue, GoOn
  <2>3. Inside(rep'[ChainOf(Top.b)], x)
    BY <2>1 DEF Inside
  <2> QED BY <2>1, <2>2, <2>3 DEF StackChange
<1> QED BY <1>2, <1>3

\* A body is entered.
LEMMA EnterChange ==
  ASSUME IInv, Valid, cs # <<>>, Op(Top.b) \in Holders,
         NEW x \in {prog.sub[Top.b], prog.sub2[Top.b]} \ {None}, cs' = Enter(x),
         \A k \in 1..Len(rep'[ChainOf(Top.b)]) : rep'[ChainOf(Top.b)][k] \in Around(prog, Top.b) \cup {Top.b},
         Op(Top.b) = "repeat" => times'[Top.b] > 0
  PROVE  StackChange
<1>1. Top.b \in Blocks
  BY TopTyped DEF IInv
<1>2. x \in Blocks /\ ChainOf(x) = ChainOf(Top.b) /\ Around(prog, x) = Around(prog, Top.b) \cup {Top.b}
  BY <1>1 DEF Valid
<1>3. cs' = Nested(Frame(x, FALSE, Top.ws))
  BY DEF Enter
<1>4. Inside(rep'[ChainOf(Top.b)], x)
  BY <1>2 DEF Inside
<1> QED BY <1>2, <1>3, <1>4 DEF StackChange
LEMMA BodyChange ==
  ASSUME IInv, Valid, cs # <<>>, Op(Top.b) \in Holders, cs' = Body,
         \A k \in 1..Len(rep'[ChainOf(Top.b)]) : rep'[ChainOf(Top.b)][k] \in Around(prog, Top.b) \cup {Top.b},
         Op(Top.b) = "repeat" /\ prog.sub[Top.b] # None => times'[Top.b] > 0
  PROVE  StackChange
<1>1. CASE prog.sub[Top.b] = None
  BY <1>1 DEF Body, StackChange
<1>2. CASE prog.sub[Top.b] # None
  BY <1>2, EnterChange DEF Body
<1> QED BY <1>1, <1>2

\* Most handlers leave the pointers, the loop counts and the broadcasts alone.
LEMMA RestKept ==
  ASSUME IInv, cs # <<>>, Op(Top.b) # "call", Handler
  PROVE  /\ UNCHANGED data => RestChange
         /\ UNCHANGED <<times, ptr, brun>> /\ queue' \in Seq(Messages) => RestChange
         /\ UNCHANGED <<times, ptr, queue>> /\ brun' \in [Blocks -> SUBSET Chains] => RestChange
         /\ UNCHANGED <<ptr, brun, queue>> /\ times' \in [Blocks -> 0..MaxTimes]
              /\ (\A d \in Blocks \ {Top.b} : times'[d] = times[d]) => RestChange
BY Typed DEF IInv, Handler, RestChange, data, loop
-----------------------------------------------------------------------------
(* Each handler does what Handled says.                                    *)

LEMMA DoHandled ==
  ASSUME IInv, Valid, Do PROVE Handled
<1>1. cs # <<>> /\ Top.pt = "exec" /\ Op(Top.b) \in {"whenkey", "whenreceive", "definition", "do"}
  BY DEF Do, At
<1>2. Inside(rep[ChainOf(Top.b)], Top.b)
  BY <1>1, Requeue DEF Queueable, Holders
<1>3. cs' = Continue /\ rep' = rep /\ UNCHANGED data /\ Handler
  BY DEF Do, data
<1>4. QueueChange /\ Inside(rep'[ChainOf(Top.b)], Top.b)
  BY <1>1, <1>2, <1>3, OwnQueueChange
<1>5. StackChange
  BY <1>1, <1>3, <1>4, ContinueChange
<1> QED BY <1>1, <1>3, <1>4, <1>5, RestKept DEF Handled

LEMMA IfHandled ==
  ASSUME IInv, Valid, If PROVE Handled
<1>1. cs # <<>> /\ Top.pt = "exec" /\ Op(Top.b) = "if" /\ UNCHANGED data /\ Handler
  BY DEF If, At
<1>2. Op(Top.b) \in Queueable /\ Op(Top.b) \in Holders
  BY <1>1 DEF Queueable, Holders
<1>3. RestChange
  BY <1>1, RestKept
<1>4. CASE rep' = Removed(Requeued, Top.b) /\ cs' = Continue
  BY <1>1, <1>2, <1>3, <1>4, Requeue, ContinueChange DEF Handled
<1>5. ASSUME NEW x \in {prog.sub[Top.b], prog.sub2[Top.b]} \ {None}, rep' = Requeued, cs' = Enter(x)
      PROVE  Handled
  <2>1. QueueChange /\ \A k \in 1..Len(rep'[ChainOf(Top.b)]) :
          rep'[ChainOf(Top.b)][k] \in Around(prog, Top.b) \cup {Top.b}
    BY <1>1, <1>2, <1>5, Requeue
  <2>2. StackChange
    BY <1>1, <1>2, <1>5, <2>1, EnterChange
  <2> QED BY <1>1, <1>3, <2>1, <2>2 DEF Handled
<1> QED BY <1>4, <1>5 DEF If, Requeued

LEMMA IfBackHandled ==
  ASSUME IInv, Valid, IfBack PROVE Handled
<1>1. cs # <<>> /\ Op(Top.b) = "if" /\ UNCHANGED data /\ Handler
  BY DEF IfBack, At
<1>2. RestChange
  BY <1>1, RestKept
<1>3. CASE rep' = rep /\ cs' = Leave
  BY <1>1, <1>2, <1>3, OwnQueueChange DEF Handled, StackChange
<1>4. CASE Ends(rep[ChainOf(Top.b)], Top.b) /\ rep' = Removed(rep, Top.b) /\ cs' = Continue
  <2>1. QueueChange /\ Inside(rep'[ChainOf(Top.b)], Top.b)
    BY <1>1, <1>4, OwnQueueChange
  <2> QED BY <1>1, <1>2, <1>4, <2>1, ContinueChange DEF Handled
<1> QED BY <1>3, <1>4 DEF IfBack, Ends

LEMMA RepeatHandled ==
  ASSUME IInv, Valid, Repeat PROVE Handled
<1> DEFINE b == Top.b
<1>1. cs # <<>> /\ Top.pt = "exec" /\ Op(b) = "repeat" /\ UNCHANGED <<ptr, brun, queue>> /\ Handler
  BY DEF Repeat, At
<1>2. Op(b) \in Queueable /\ Op(b) \in Holders
  BY <1>1 DEF Queueable, Holders
<1>3. b \in Blocks /\ times \in [Blocks -> 0..MaxTimes] /\ MaxTimes \in Nat
  BY <1>1, Typed, TopTyped, BoundsNat DEF IInv
<1>4. PICK n \in IF Top.fr THEN {times[b]} ELSE 0..MaxTimes :
        IF n <= 0
        THEN /\ rep' = Removed(Requeued, b) /\ cs' = Continue
             /\ times' = [times EXCEPT ![b] = n]
        ELSE /\ rep' = Requeued /\ cs' = Body
             /\ times' = [times EXCEPT ![b] = IF prog.sub[b] = None THEN n - 1 ELSE n]
  BY DEF Repeat
<1>5. n \in 0..MaxTimes
  BY <1>3, <1>4
<1>6. \E m \in 0..MaxTimes : times' = [times EXCEPT ![b] = m]
  BY <1>3, <1>4, <1>5
<1>7. times' \in [Blocks -> 0..MaxTimes] /\ \A d \in Blocks \ {b} : times'[d] = times[d]
  BY <1>3, <1>6
<1>8. RestChange
  BY <1>1, <1>7, RestKept
<1>9. CASE n <= 0
  BY <1>1, <1>2, <1>4, <1>8, <1>9, Requeue, ContinueChange DEF Handled
<1>10. CASE ~(n <= 0)
  <2>1. rep' = Requeued /\ cs' = Body
    BY <1>4, <1>10
  <2>2. QueueChange /\ \A k \in 1..Len(rep'[ChainOf(b)]) : rep'[ChainOf(b)][k] \in Around(prog, b) \cup {b}
    BY <1>1, <1>2, <2>1, Requeue
  <2>3. prog.sub[b] # None => times'[b] > 0
    BY <1>3, <1>4, <1>5, <1>10
  <2>4. StackChange
    BY <1>1, <1>2, <2>1, <2>2, <2>3, BodyChange
  <2> QED BY <1>1, <1>8, <2>2, <2>4 DEF Handled
<1> QED BY <1>9, <1>10

LEMMA RepeatBackHandled ==
  ASSUME IInv, Valid, RepeatBack PROVE Handled
<1> DEFINE b == Top.b
<1>1. /\ cs # <<>> /\ Top.pt = "back" /\ Op(b) = "repeat" /\ UNCHANGED <<rep, ptr, brun, queue>> /\ Handler
      /\ times' = [times EXCEPT ![b] = @ - 1] /\ cs' = Leave
  BY DEF RepeatBack, At
<1>2. /\ b \in Blocks /\ times \in [Blocks -> 0..MaxTimes] /\ MaxTimes \in Nat
      /\ Len(cs) \in 1..Len(cs) /\ Top = cs[Len(cs)]
  BY <1>1, Typed, TopTyped, BoundsNat DEF IInv
<1>3. times[b] > 0
  BY <1>1, <1>2 DEF IInv, Counting
<1>4. times[b] - 1 \in 0..MaxTimes
  BY <1>2, <1>3
<1>5. times' \in [Blocks -> 0..MaxTimes] /\ \A d \in Blocks \ {b} : times'[d] = times[d]
  BY <1>1, <1>2, <1>4
<1> QED BY <1>1, <1>5, OwnQueueChange, RestKept DEF Handled, StackChange

LEMMA LoopHandled ==
  ASSUME IInv, Valid, Until \/ Forever PROVE Handled
<1>1. cs # <<>> /\ Top.pt = "exec" /\ Op(Top.b) \in {"until", "forever"} /\ UNCHANGED data /\ Handler
  BY DEF Until, Forever, At
<1>2. Op(Top.b) \in Queueable /\ Op(Top.b) \in Holders
  BY <1>1 DEF Queueable, Holders
<1>3. RestChange
  BY <1>1, RestKept
<1>4. CASE rep' = Removed(Requeued, Top.b) /\ cs' = Continue
  BY <1>1, <1>2, <1>3, <1>4, Requeue, ContinueChange DEF Handled
<1>5. CASE rep' = Requeued /\ cs' = Body
  <2>1. QueueChange /\ \A k \in 1..Len(rep'[ChainOf(Top.b)]) :
          rep'[ChainOf(Top.b)][k] \in Around(prog, Top.b) \cup {Top.b}
    BY <1>1, <1>2, <1>5, Requeue
  <2>2. StackChange
    BY <1>1, <1>2, <1>5, <2>1, BodyChange
  <2> QED BY <1>1, <1>3, <2>1, <2>2 DEF Handled
<1> QED BY <1>4, <1>5 DEF Until, Forever

LEMMA LoopBackHandled ==
  ASSUME IInv, Valid, LoopBack PROVE Handled
<1>1. /\ cs # <<>> /\ Op(Top.b) \in {"until", "forever"} /\ rep' = rep /\ UNCHANGED data /\ Handler
      /\ cs' = Leave
  BY DEF LoopBack, At
<1> QED BY <1>1, OwnQueueChange, RestKept DEF Handled, StackChange

LEMMA WaitHandled ==
  ASSUME IInv, Valid, Wait \/ Elapsed \/ WaitUntil PROVE Handled
<1>1. cs # <<>> /\ Top.pt = "exec" /\ Op(Top.b) \in {"wait", "waituntil"} /\ UNCHANGED data /\ Handler
  BY DEF Wait, Elapsed, WaitUntil, At
<1>2. Op(Top.b) \in Queueable
  BY <1>1 DEF Queueable
<1>3. RestChange
  BY <1>1, RestKept
<1>4. CASE rep' = Removed(Requeued, Top.b) /\ cs' = Continue
  BY <1>1, <1>2, <1>3, <1>4, Requeue, ContinueChange DEF Handled
<1>5. CASE rep' = Requeued /\ cs' = Leave
  BY <1>1, <1>2, <1>3, <1>5, Requeue DEF Handled, StackChange
<1> QED BY <1>4, <1>5 DEF Wait, Elapsed, WaitUntil, Requeued

LEMMA StopHandled ==
  ASSUME IInv, Valid, StopThis \/ StopOther \/ StopAll PROVE Handled
<1> DEFINE b == Top.b
           c == ChainOf(b)
<1>1. cs # <<>> /\ Top.pt = "exec" /\ Op(b) \in Stops /\ Handler
  BY DEF StopThis, StopOther, StopAll, At, Stops
<1>2. Inside(rep[c], b)
  BY <1>1, Requeue DEF Queueable, Holders, Stops
<1>3. rep \in [Chains -> Seq(Blocks)] /\ c \in Chains /\ <<>> \in Seq(Blocks) /\ <<>> \in Seq(Messages)
  BY <1>1, Typed, TopTyped DEF IInv
<1>4. CASE StopThis
  <2>1. /\ rep' \in [Chains -> Seq(Blocks)] /\ rep'[c] = <<>>
        /\ \A d \in Chains : d # c => rep'[d] = rep[d]
    BY <1>3, <1>4 DEF StopThis
  <2>2. QueueChange
    BY <1>1, <1>2, <2>1 DEF QueueChange
  <2> QED BY <1>1, <1>4, <2>2, RestKept DEF Handled, StackChange, StopThis, Stops
<1>5. CASE StopOther
  <2>1. /\ rep' \in [Chains -> Seq(Blocks)] /\ rep'[c] = rep[c]
        /\ \A d \in Chains : d # c => rep'[d] = <<>>
    BY <1>3, <1>5 DEF StopOther
  <2>2. QueueChange
    BY <1>5, <2>1 DEF QueueChange, StopOther, At
  <2>3. StackChange
    BY <1>1, <1>2, <1>5, <2>1, ContinueChange DEF StopOther
  <2> QED BY <1>1, <1>5, <2>2, <2>3, RestKept DEF Handled, StopOther, Stops
<1>6. CASE StopAll
  <2>1. /\ rep' \in [Chains -> Seq(Blocks)] /\ rep'[c] = <<>>
        /\ \A d \in Chains : d # c => rep'[d] = <<>>
    BY <1>3, <1>6 DEF StopAll
  <2>2. QueueChange
    BY <1>1, <1>2, <1>6, <2>1 DEF QueueChange, StopAll, At
  <2> QED BY <1>1, <1>3, <1>6, <2>2, RestKept DEF Handled, StackChange, StopAll, Stops
<1> QED BY <1>4, <1>5, <1>6

LEMMA BroadcastHandled ==
  ASSUME IInv, Valid, Broadcast \/ BroadcastAndWait \/ BroadcastWaiting PROVE Handled
<1> DEFINE b == Top.b
           c == ChainOf(b)
<1>1. cs # <<>> /\ Top.pt = "exec" /\ Op(b) \in {"broadcast", "bwait"} /\ Handler
  BY DEF Broadcast, BroadcastAndWait, BroadcastWaiting, At
<1>2. /\ queue \in Seq(Messages) /\ prog.msg[b] \in Messages /\ b \in Blocks
      /\ brun \in [Blocks -> SUBSET Chains]
  BY <1>1, Typed, TopTyped DEF IInv, Valid
<1>3. Append(queue, prog.msg[b]) \in Seq(Messages)
  BY <1>2
<1>4. CASE Broadcast
  <2>1. Inside(rep[c], b)
    BY <1>1, <1>4, Requeue DEF Broadcast, At, Queueable, Holders
  <2>2. rep' = rep /\ cs' = Continue /\ UNCHANGED <<times, ptr, brun>> /\ queue' \in Seq(Messages)
    BY <1>3, <1>4 DEF Broadcast
  <2> QED BY <1>1, <2>1, <2>2, OwnQueueChange, ContinueChange, RestKept DEF Handled
<1>5. CASE BroadcastAndWait
  <2>1. /\ UNCHANGED <<times, ptr, brun>> /\ queue' \in Seq(Messages) /\ Op(b) \in Queueable
        /\ \/ rep' = rep /\ cs' = Continue
           \/ rep' = Requeued /\ cs' = Leave
    BY <1>2, <1>3, <1>5 DEF BroadcastAndWait, Requeued, At, Queueable
  <2>2. Inside(rep[c], b)
    BY <1>1, <1>5, Requeue DEF BroadcastAndWait
  <2>3. RestChange
    BY <1>1, <2>1, RestKept
  <2>4. CASE rep' = rep /\ cs' = Continue
    BY <1>1, <2>2, <2>3, <2>4, OwnQueueChange, ContinueChange DEF Handled
  <2>5. CASE rep' = Requeued /\ cs' = Leave
    BY <1>1, <2>1, <2>3, <2>5, Requeue DEF Handled, StackChange
  <2> QED BY <2>1, <2>4, <2>5
<1>6. CASE BroadcastWaiting
  <2> DEFINE run == IF brun[b] # {} THEN brun[b]
                    ELSE {d \in Receivers(prog.msg[b]) : Active(rep, d)}
  <2>1. run \subseteq Chains
    BY <1>2 DEF Receivers
  <2>2. \/ brun' = [brun EXCEPT ![b] = run] /\ cs' = Leave /\ rep' = rep
        \/ brun' = [brun EXCEPT ![b] = {}] /\ cs' = Continue /\ rep' = Removed(Requeued, b)
    BY <1>6 DEF BroadcastWaiting, Requeued
  <2> HIDE DEF run
  <2>3. brun' \in [Blocks -> SUBSET Chains]
    BY <1>2, <2>1, <2>2
  <2>4. RestChange
    BY <1>1, <1>6, <2>3, RestKept DEF BroadcastWaiting
  <2>5. CASE cs' = Leave /\ rep' = rep
    BY <1>1, <2>4, <2>5, OwnQueueChange DEF Handled, StackChange
  <2>6. CASE cs' = Continue /\ rep' = Removed(Requeued, b)
    <3>1. Op(b) \in Queueable
      BY <1>6 DEF BroadcastWaiting, At, Queueable
    <3> QED BY <1>1, <2>4, <2>6, <3>1, Requeue, ContinueChange DEF Handled
  <2> QED BY <2>2, <2>5, <2>6
<1> QED BY <1>4, <1>5, <1>6

LEMMA CallHandled ==
  ASSUME AllSequential, IInv, Valid, Call \/ Drain \/ CallBack \/ CallAgain PROVE Handled
<1> DEFINE b == Top.b
           c == ChainOf(b)
           e == prog.calls[b]
<1>1. cs # <<>> /\ Op(b) = "call" /\ Handler /\ UNCHANGED <<times, brun, queue>>
  BY DEF Call, Drain, CallBack, CallAgain, At, data
<1>2. /\ b \in Blocks /\ c \in Chains /\ e \in Chains /\ Procedure(prog, e) /\ ptr \subseteq Blocks
      /\ rep \in [Chains -> Seq(Blocks)] /\ Len(cs) \in 1..Len(cs) /\ Len(cs) \in Nat /\ Top = cs[Len(cs)]
  BY <1>1, Typed, TopTyped DEF IInv, Valid
<1>3. Op(b) \in Queueable /\ b \in CallBlocks(prog)
  BY <1>1, <1>2 DEF Queueable, CallBlocks, Op
<1>4. e # c
  <2>1. Rank \in [Chains -> Nat] /\ Rank[e] < Rank[c]
    BY <1>3, RankFacts DEF IInv
  <2> QED BY <1>2, <2>1
<1>5. NoRefresh \in BOOLEAN
  BY DEF NoRefresh
<1>6. ASSUME ptr' \subseteq Blocks, ptr \ {b} \subseteq ptr', b \in ptr => b \in ptr' \/ ~Queued(rep', b),
             Queued(rep', b) => b \in ptr',
             Queued(rep', b) \/ ~Active(rep, e) \/ \E f \in Frames : cs' = Nested(f)
      PROVE  RestChange
  BY <1>1, <1>6, Typed DEF IInv, Handler, RestChange, loop
\* A call of a procedure that is under way already would have to be in this chain.
<1>7. CASE Call
  <2>1. /\ Top.pt = "exec" /\ ~Top.fr /\ ptr' = ptr \cup {b} /\ rep' = rep
        /\ cs' = Nested(Frame(prog.head[e], FALSE, NoRefresh))
    BY <1>7 DEF Call, At, Callee
  <2>2. Inside(rep[c], b)
    BY <1>1, <2>1, Requeue
  <2>3. rep[e] = <<>>
    <3> SUFFICES ASSUME Active(rep, e) PROVE FALSE
      BY DEF Active
    <3>1. PICK d \in CallBlocks(prog) : prog.calls[d] = e /\ (Queued(rep, d) \/ OnStack(d))
      BY <1>2 DEF IInv, HasCaller
    <3>2. d \in Blocks /\ Op(d) = "call" /\ ChainOf(d) = c
      BY <1>3, <3>1 DEF AllSequential, Sequential, IInv, CallBlocks, Op, ChainOf
    <3>3. CASE Queued(rep, d)
      <4>1. d \in Around(prog, b)
        BY <2>2, <3>2, <3>3 DEF Queued, Inside
      <4> QED BY <1>2, <3>2, <4>1 DEF Valid, Holders
    <3>4. CASE OnStack(d)
      <4>1. PICK k \in 1..Len(cs) : cs[k].b = d /\ cs[k].pt # "exec"
        BY <3>4 DEF OnStack
      <4>2. k < Len(cs)
        BY <1>2, <2>1, <4>1
      <4>3. ChainOf(d) # ChainOf(b)
        BY <1>2, <3>2, <4>1, <4>2, StackFacts DEF Holders
      <4> QED BY <3>2, <4>3
    <3> QED BY <3>1, <3>3, <3>4
  <2> DEFINE x == prog.head[e]
  <2>4. x \in Blocks /\ ChainOf(x) = e
    BY <1>2 DEF Valid, Procedure
  <2>5. Inside(rep[e], x)
    BY <2>3 DEF Inside
  <2>6. StackChange
    BY <1>1, <1>5, <2>1, <2>2, <2>4, <2>5 DEF StackChange
  <2>7. Frame(x, FALSE, NoRefresh) \in Frames
    BY <1>5, <2>4 DEF Frame, Frames
  <2>8. RestChange
    BY <1>2, <1>6, <2>1, <2>7
  <2> QED BY <1>1, <2>1, <2>6, <2>8, OwnQueueChange DEF Handled
<1>8. ASSUME Top.pt = "back" PROVE b \in ptr /\ Inside(rep[c], b)
  BY <1>1, <1>2, <1>8 DEF IInv, CallsInProgress
<1>9. CASE Drain
  <2> DEFINE x == rep[e][Len(rep[e])]
  <2>1. /\ b \in ptr /\ Inside(rep[c], b) /\ rep' = rep /\ ptr' = ptr
        /\ cs' = Nested(Frame(x, TRUE, TRUE)) /\ rep[e] # <<>>
    BY <1>8, <1>9 DEF Drain, At, data, Active, Callee
  <2>2. rep[e] \in Seq(Blocks) /\ Len(rep[e]) \in 1..Len(rep[e])
    <3>1. rep[e] \in Seq(Blocks)
      BY <1>2
    <3> QED BY <2>1, <3>1
  <2>3. x \in Blocks /\ ChainOf(x) = e
    BY <1>2, <2>2 DEF IInv, QueueNest
  <2>4. Ends(rep[e], x)
    BY <2>1 DEF Ends
  <2> HIDE DEF x
  <2>5. StackChange
    BY <1>1, <2>1, <2>3, <2>4 DEF StackChange
  <2>6. Frame(x, TRUE, TRUE) \in Frames
    BY <2>3 DEF Frame, Frames
  <2>7. RestChange
    BY <1>2, <1>6, <2>1, <2>6
  <2> QED BY <1>1, <2>1, <2>5, <2>7, OwnQueueChange DEF Handled
<1>10. CASE CallBack
  <2>1. b \in ptr /\ Inside(rep[c], b) /\ Returned(Added(rep, b))
    BY <1>8, <1>10 DEF CallBack, At
  <2>2. CASE ~Active(Added(rep, b), e)
    <3>1. ptr' = ptr \ {b} /\ rep' = rep /\ cs' = Continue /\ ~Queued(rep, b)
      BY <1>1, <2>1, <2>2, OwnQueue DEF Returned, Callee
    <3>2. Added(rep, b)[e] = rep[e]
      BY <1>2, <1>4 DEF Added
    <3>3. ~Active(rep, e)
      BY <2>2, <3>2 DEF Active
    <3>4. RestChange
      BY <1>2, <1>6, <3>1, <3>3
    <3> QED BY <1>1, <2>1, <3>1, <3>4, OwnQueueChange, ContinueChange DEF Handled
  <2>3. CASE Active(Added(rep, b), e)
    <3>1. rep' = Added(rep, b) /\ cs' = Leave /\ ptr' = ptr
      BY <2>1, <2>3 DEF Returned, Callee
    <3>2. QueueChange /\ Queued(rep', b)
      BY <1>1, <1>3, <2>1, <3>1, OwnQueueChange
    <3>3. RestChange
      BY <1>2, <1>6, <2>1, <3>1, <3>2
    <3> QED BY <1>1, <3>1, <3>2, <3>3 DEF Handled, StackChange
  <2> QED BY <2>2, <2>3
<1>11. CASE CallAgain
  <2>1. Top.pt = "exec" /\ Top.fr /\ Returned(rep)
    BY <1>11 DEF CallAgain, At
  <2>2. Ends(rep[c], b)
    BY <1>1, <2>1, Requeue
  <2>3. Queued(rep, b) /\ b \in ptr
    BY <1>1, <1>3, <2>2, OwnQueue DEF IInv, Pointers
  <2>4. CASE ~Active(rep, e)
    <3>1. ptr' = ptr \ {b} /\ rep' = Removed(rep, b) /\ cs' = Continue
      BY <2>1, <2>4 DEF Returned, Callee
    <3>2. QueueChange /\ Inside(rep'[c], b) /\ ~Queued(rep', b)
      BY <1>1, <2>2, <3>1, OwnQueueChange
    <3>3. RestChange
      BY <1>2, <1>6, <2>4, <3>1, <3>2
    <3> QED BY <1>1, <3>1, <3>2, <3>3, ContinueChange DEF Handled
  <2>5. CASE Active(rep, e)
    <3>1. rep' = rep /\ cs' = Leave /\ ptr' = ptr
      BY <2>1, <2>3, <2>5 DEF Returned, Callee
    <3>2. RestChange
      BY <1>2, <1>6, <2>3, <3>1
    <3> QED BY <1>1, <3>1, <3>2, OwnQueueChange DEF Handled, StackChange
  <2> QED BY <2>4, <2>5
<1> QED BY <1>7, <1>9, <1>10, <1>11

LEMMA StepHandled ==
  ASSUME AllSequential, IInv, Step PROVE Handled
<1>1. Valid
  BY ProgramValid DEF IInv
<1> QED BY <1>1, DoHandled, IfHandled, IfBackHandled, RepeatHandled, RepeatBackHandled, LoopHandled,
           LoopBackHandled, WaitHandled, CallHandled, StopHandled, BroadcastHandled DEF Step

\* Nor does a handler other than a call start any.
LEMMA OneChainNext ==
  ASSUME AllSequential, IInv, Valid, Handled, ~Procedure(prog, ChainOf(Top.b)), Op(Top.b) # "call"
  PROVE  \A k \in 1..Len(cs') : ChainOf(cs'[k].b) = ChainOf(Top.b)
<1> DEFINE n == Len(cs)
           c == ChainOf(Top.b)
<1>1. /\ StackElements /\ n \in Nat /\ cs # <<>> /\ Len(cs') \in Nat
      /\ n \in 1..n /\ \A k \in 1..n : ChainOf(cs[k].b) = c
  <2>1. cs # <<>> /\ StackElements
    BY StackElementwise DEF Handled
  <2>2. Len(cs') \in Nat
    BY <2>1 DEF StackElements
  <2>3. n \in Nat /\ n \in 1..n
    BY <2>1, Typed, TopTyped DEF IInv
  <2> QED BY <2>1, <2>2, <2>3, OneChain
<1>2. \A k \in 1..n-1 : k \in 1..n /\ cs'[k].b = cs[k].b
  BY <1>1 DEF StackElements
<1>3. \/ Len(cs') = n - 1
      \/ Len(cs') = n /\ ChainOf(cs'[n].b) = c
      \/ Len(cs') = n + 1 /\ ChainOf(cs'[n+1].b) = c /\ cs'[n].b = Top.b
  BY <1>1 DEF StackElements, NewTop, Below
<1>4. \A k \in 1..Len(cs') : k \in 1..n-1 \/ k = n \/ k = n + 1
  BY <1>1, <1>3
<1>5. \A k \in 1..n-1 : ChainOf(cs'[k].b) = c
  BY <1>1, <1>2
<1>6. ASSUME NEW k \in 1..Len(cs'), k = n PROVE ChainOf(cs'[k].b) = c
  BY <1>1, <1>3, <1>6
<1>7. ASSUME NEW k \in 1..Len(cs'), k = n + 1 PROVE ChainOf(cs'[k].b) = c
  BY <1>1, <1>3, <1>7
<1> QED BY <1>4, <1>5, <1>6, <1>7
-----------------------------------------------------------------------------
(* The loops of the frame.                                                 *)

\* Between two runs of scripts: some chains are stopped, at most one is run,
\* and a procedure is left active only if its caller is.
Scheduled ==
  /\ cs = <<>> /\ UNCHANGED <<prog, times, ptr, brun>>
  /\ rep' \in [Chains -> Seq(Blocks)]
  /\ \A d \in Chains : rep'[d] = rep[d] \/ rep'[d] = <<>>
  /\ \A d \in Chains : Procedure(prog, d) /\ Active(rep', d) =>
       \E b \in CallBlocks(prog) : prog.calls[b] = d /\ Queued(rep', b)
  /\ \/ cs' = <<>>
     \/ \E x \in Blocks, f \in BOOLEAN :
          /\ cs' = <<Frame(x, f, FALSE)>>
          /\ IF f THEN Ends(rep'[ChainOf(x)], x)
             ELSE rep'[ChainOf(x)] = <<>> /\ ~Procedure(prog, ChainOf(x))
  /\ queue' \in Seq(Messages) /\ todo' \subseteq Chains /\ presses' \in 0..MaxPresses
  /\ phase' \in {"input", "hats", "broadcasts", "repeats"}
  /\ ToStart'

\* The stack is empty.
LEMMA Calm ==
  ASSUME cs = <<>> PROVE \A k \in 1..Len(cs) : FALSE
<1>1. \A k \in 1..0 : FALSE
  OBVIOUS
<1> QED BY <1>1

LEMMA QueuesUntouched ==
  ASSUME IInv, cs = <<>>
  PROVE  \A d \in Chains : Procedure(prog, d) /\ Active(rep, d) =>
           \E b \in CallBlocks(prog) : prog.calls[b] = d /\ Queued(rep, b)
BY Calm DEF IInv, HasCaller, OnStack

LEMMA ScheduledKeeps ==
  ASSUME IInv, Scheduled
  PROVE  IInv'
<1>1. prog' = prog /\ prog \in Programs /\ Valid
  BY ProgramValid DEF IInv, Scheduled
<1>2. rep \in [Chains -> Seq(Blocks)] /\ rep' \in [Chains -> Seq(Blocks)]
  BY Typed DEF IInv, Scheduled
<1>3. ASSUME NEW d \in Chains, NEW k \in 1..Len(rep'[d]) PROVE rep'[d] = rep[d]
  <2>1. \A i \in 1..0 : FALSE
    OBVIOUS
  <2>2. CASE rep'[d] = <<>>
    BY <1>3, <2>1, <2>2
  <2> QED BY <2>2 DEF Scheduled
<1>4. \/ cs' = <<>>
      \/ \E x \in Blocks, f \in BOOLEAN :
           /\ Len(cs') = 1 /\ cs' \in Seq(Frames) /\ NewTop(x, f)
           /\ IF f THEN Ends(rep'[ChainOf(x)], x) ELSE rep'[ChainOf(x)] = <<>> /\ ~Procedure(prog, ChainOf(x))
  <2>1. ASSUME NEW x \in Blocks, NEW f \in BOOLEAN, cs' = <<Frame(x, f, FALSE)>>
        PROVE  Len(cs') = 1 /\ cs' \in Seq(Frames) /\ NewTop(x, f)
    <3> DEFINE g == Frame(x, f, FALSE)
    <3>1. g \in Frames /\ g.b = x /\ g.fr = f /\ g.pt = "exec"
      BY DEF Frame, Frames
    <3>2. cs' = <<g>>
      BY <2>1
    <3> HIDE DEF g
    <3> QED BY <3>1, <3>2 DEF NewTop
  <2> QED BY <2>1 DEF Scheduled
<1>5. QueueNest'
  <2>1. \A c \in Chains : \A j, k \in 1..Len(rep'[c]) :
          /\ ChainOf(rep'[c][k]) = c /\ Op(rep'[c][k]) \in Queueable
          /\ j < k => rep'[c][j] \in Around(prog, rep'[c][k])
    BY <1>3 DEF IInv, QueueNest
  <2> QED BY <1>1, <2>1 DEF QueueNest, ChainOf, Op
<1>6. cs' \in Seq(Frames) /\ \A k \in 1..Len(cs') : k = 1 /\ Len(cs') = 1 /\ cs'[k].pt = "exec"
  <2>1. \A k \in 1..0 : FALSE
    OBVIOUS
  <2>2. CASE cs' = <<>>
    BY <2>1, <2>2
  <2> QED BY <1>4, <2>2 DEF NewTop
<1>7. StackShape' /\ StackNest' /\ CallsInProgress' /\ Counting'
  BY <1>6 DEF StackShape, StackNest, CallsInProgress, Counting
<1>8. AtTop'
  <2> SUFFICES ASSUME cs' # <<>>, Top'.pt = "exec"
               PROVE  IF Top'.fr THEN Ends(rep'[ChainOf(Top'.b)], Top'.b)
                      ELSE Inside(rep'[ChainOf(Top'.b)], Top'.b)
    BY <1>1 DEF AtTop, ChainOf, Ends, Inside
  <2>1. Top' = cs'[Len(cs')]
    BY DEF Top
  <2>2. \A x : Inside(<<>>, x)
    BY DEF Inside
  <2> QED BY <1>4, <2>1, <2>2 DEF NewTop
<1>9. Pointers'
  <2>1. \A b \in CallBlocks(prog) : b \in Blocks /\ ChainOf(b) \in Chains
    BY <1>1 DEF CallBlocks, Valid
  <2>2. \A b \in CallBlocks(prog) : Queued(rep', b) => Queued(rep, b)
    BY <1>3, <2>1 DEF Queued
  <2>3. \A b \in CallBlocks(prog) : Queued(rep', b) => b \in ptr'
    BY <2>2 DEF IInv, Pointers, Scheduled
  <2> QED BY <1>1, <2>3 DEF Pointers, Queued, ChainOf
<1>10. HasCaller'
  <2>1. ASSUME NEW d \in Chains, Procedure(prog, d),
               Active(rep', d) \/ \E k \in 1..Len(cs') : ChainOf(cs'[k].b) = d
        PROVE  \E b \in CallBlocks(prog) : prog.calls[b] = d /\ Queued(rep', b)
    <3>1. Active(rep', d)
      <4> SUFFICES ASSUME NEW k \in 1..Len(cs'), ChainOf(cs'[k].b) = d PROVE Active(rep', d)
        BY <2>1
      <4>1. cs' # <<>> /\ k = Len(cs')
        BY <1>6
      <4>2. Ends(rep'[d], cs'[k].b)
        BY <1>4, <2>1, <4>1 DEF NewTop
      <4> QED BY <4>2 DEF Ends, Active
    <3> QED BY <2>1, <3>1 DEF Scheduled
  <2>2. \A b : Queued(rep', b) <=> Queued(rep, b)'
    BY <1>1 DEF Queued, ChainOf
  <2> QED BY <1>1, <2>1, <2>2 DEF HasCaller, Procedure, CallBlocks, Active, ChainOf
<1>11. TypeOK'
  <2>1. \A c \in Chains : \A j, k \in 1..Len(rep'[c]) :
          ChainOf(rep'[c][k]) = c /\ (rep'[c][j] = rep'[c][k] => j = k)
    BY <1>3 DEF IInv, TypeOK
  <2> QED BY <1>1, <1>2, <1>6, <2>1 DEF TypeOK, IInv, Scheduled, Frames, ChainOf
<1>12. ToStart'
  BY DEF Scheduled
<1> QED BY <1>1, <1>5, <1>7, <1>8, <1>9, <1>10, <1>11, <1>12 DEF IInv

LEMMA FrameScheduled ==
  ASSUME IInv, Input \/ RunHat \/ HatsDone \/ NextBroadcast \/ StartRepeats \/ Visit \/ FrameDone
  PROVE  Scheduled
<1>1. cs = <<>> /\ UNCHANGED <<prog, times, ptr, brun>> /\ rep' = rep
  BY DEF Input, RunHat, HatsDone, NextBroadcast, StartRepeats, Visit, FrameDone, Idle, data
<1>2. Valid /\ rep \in [Chains -> Seq(Blocks)] /\ todo \subseteq Chains /\ queue \in Seq(Messages)
  BY ProgramValid, Typed DEF IInv
<1>3. \A d \in Chains : Procedure(prog, d) /\ Active(rep', d) =>
        \E b \in CallBlocks(prog) : prog.calls[b] = d /\ Queued(rep', b)
  BY <1>1, QueuesUntouched
<1>4. phase \in {"input", "hats", "broadcasts", "repeats"} /\ presses \in 0..MaxPresses
  BY DEF IInv, TypeOK
\* What is left of the program does not change.
<1>5. ASSUME phase' = "hats" => todo' \subseteq Triggered,
             phase' = "broadcasts" => \A c \in todo' : prog.head[c] # None /\ Op(prog.head[c]) = "whenreceive"
      PROVE  ToStart'
  BY <1>1, <1>5 DEF ToStart, Triggered, Op
<1>6. CASE Input
  <2>1. PICK hats \in SUBSET Triggered :
          /\ presses + Cardinality(hats) <= MaxPresses
          /\ presses' = presses + Cardinality(hats) /\ phase' = "hats" /\ todo' = hats
    BY <1>6 DEF Input, Goto
  <2>2. hats \subseteq Chains /\ IsFiniteSet(hats)
    BY ChainsFinite, FS_Subset DEF Triggered
  <2>3. Cardinality(hats) \in Nat
    BY <2>2, FS_CardinalityType
  <2>4. presses' \in 0..MaxPresses
    BY <1>4, <2>1, <2>3, BoundsNat
  <2>5. ToStart'
    BY <1>5, <2>1
  <2> QED BY <1>1, <1>2, <1>3, <1>6, <2>1, <2>2, <2>4, <2>5 DEF Scheduled, Input, data
<1>7. CASE RunHat
  <2>1. PICK c \in todo :
          /\ todo' = todo \ {c}
          /\ IF Active(rep, c) THEN UNCHANGED cs ELSE cs' = <<Frame(prog.head[c], FALSE, FALSE)>>
    BY <1>7 DEF RunHat, Run
  <2>2. /\ UNCHANGED <<queue, phase, presses>> /\ phase = "hats" /\ todo' \subseteq Chains /\ c \in Chains
        /\ c \in Triggered /\ todo' \subseteq Triggered
    BY <1>2, <1>7, <2>1 DEF RunHat, Idle, data, IInv, ToStart
  <2>3. ToStart'
    BY <1>5, <2>2
  <2>4. prog.head[c] \in Blocks /\ ChainOf(prog.head[c]) = c /\ ~Procedure(prog, c)
    BY <1>2, <2>2 DEF Triggered, Valid, Procedure, Op
  <2>5. \/ cs' = <<>>
        \/ \E x \in Blocks, f \in BOOLEAN :
             /\ cs' = <<Frame(x, f, FALSE)>>
             /\ IF f THEN Ends(rep'[ChainOf(x)], x)
                ELSE rep'[ChainOf(x)] = <<>> /\ ~Procedure(prog, ChainOf(x))
    BY <1>1, <2>1, <2>4 DEF Active
  <2> QED BY <1>1, <1>2, <1>3, <1>4, <2>2, <2>3, <2>5 DEF Scheduled
<1>8. CASE NextBroadcast
  <2>1. /\ queue' = Tail(queue) /\ queue # <<>> /\ phase' = "broadcasts" /\ todo' = Receivers(Head(queue))
        /\ UNCHANGED <<cs, presses>>
    BY <1>8 DEF NextBroadcast, Goto, Idle
  <2>2. queue' \in Seq(Messages)
    BY <1>2, <2>1
  <2>3. ToStart' /\ todo' \subseteq Chains
    BY <1>5, <2>1 DEF Receivers, Receiver, Op
  <2> QED BY <1>1, <1>2, <1>3, <1>4, <2>1, <2>2, <2>3 DEF Scheduled
<1>9. CASE Visit
  <2>1. PICK c \in todo :
          /\ todo' = todo \ {c}
          /\ IF Active(rep, c) THEN cs' = <<Frame(rep[c][Len(rep[c])], TRUE, FALSE)>> ELSE UNCHANGED cs
    BY <1>9 DEF Visit, Run
  <2>2. /\ UNCHANGED <<queue, phase, presses>> /\ phase = "repeats" /\ todo' \subseteq Chains /\ c \in Chains
    BY <1>2, <1>9, <2>1 DEF Visit, Idle, data
  <2>3. ToStart'
    BY <1>5, <2>2
  <2>4. \/ cs' = <<>>
        \/ \E x \in Blocks, f \in BOOLEAN :
             /\ cs' = <<Frame(x, f, FALSE)>>
             /\ IF f THEN Ends(rep'[ChainOf(x)], x)
                ELSE rep'[ChainOf(x)] = <<>> /\ ~Procedure(prog, ChainOf(x))
    <3>1. CASE ~Active(rep, c)
      BY <1>1, <2>1, <3>1
    <3>2. CASE Active(rep, c)
      <4> DEFINE x == rep[c][Len(rep[c])]
      <4>1. rep[c] \in Seq(Blocks) /\ rep[c] # <<>> /\ Len(rep[c]) \in 1..Len(rep[c])
        <5>1. rep[c] \in Seq(Blocks) /\ rep[c] # <<>>
          BY <1>2, <2>2, <3>2 DEF Active
        <5> QED BY <5>1
      <4>2. x \in Blocks /\ ChainOf(x) = c
        BY <2>2, <4>1 DEF IInv, QueueNest
      <4>3. Ends(rep'[c], x)
        BY <1>1, <4>1 DEF Ends
      <4> HIDE DEF x
      <4>4. cs' = <<Frame(x, TRUE, FALSE)>>
        BY <2>1, <3>2 DEF x
      <4> QED BY <4>2, <4>3, <4>4
    <3> QED BY <3>1, <3>2
  <2> QED BY <1>1, <1>2, <1>3, <1>4, <2>2, <2>3, <2>4 DEF Scheduled
<1>10. CASE HatsDone \/ StartRepeats \/ FrameDone
  <2>1. /\ phase' \in {"broadcasts", "repeats", "input"} /\ todo' \subseteq Chains
        /\ phase' = "broadcasts" => todo' = {}
        /\ UNCHANGED <<cs, queue, presses>>
    BY <1>10 DEF HatsDone, StartRepeats, FrameDone, Goto, data
  <2>2. ToStart'
    BY <1>5, <2>1
  <2> QED BY <1>1, <1>2, <1>3, <1>4, <2>1, <2>2 DEF Scheduled
<1> QED BY <1>6, <1>7, <1>8, <1>9, <1>10

\* restartScript stops, with the script, every procedure it waits for.
LEMMA ReceiveScheduled ==
  ASSUME IInv, Receive
  PROVE  Scheduled
<1>1. PICK c \in todo :
        /\ todo' = todo \ {c}
        /\ rep' = [d \in Chains |-> IF d \in CallGraph(c) THEN <<>> ELSE rep[d]]
        /\ cs' = <<Frame(prog.head[c], FALSE, FALSE)>>
  BY DEF Receive, Run
<1>2. cs = <<>> /\ UNCHANGED <<prog, times, ptr, brun, queue, phase, presses>> /\ phase = "broadcasts"
  BY DEF Receive, Idle, data
<1>3. Valid /\ rep \in [Chains -> Seq(Blocks)] /\ todo \subseteq Chains /\ queue \in Seq(Messages)
  BY ProgramValid, Typed DEF IInv
<1>4. c \in CallGraph(c)
  BY <1>1, <1>3 DEF CallGraph
<1>5. ASSUME NEW e \in CallGraph(c), NEW d \in Calls(e), d \in Chains PROVE d \in CallGraph(c)
  <2>1. ASSUME NEW S \in SUBSET Chains, c \in S, \A x \in S : Calls(x) \subseteq S PROVE d \in S
    <3>1. e \in S
      BY <2>1 DEF CallGraph
    <3> QED BY <2>1, <3>1
  <2> QED BY <1>5, <2>1 DEF CallGraph
<1>6. /\ rep' \in [Chains -> Seq(Blocks)] /\ c \in Chains /\ rep'[c] = <<>>
      /\ \A d \in Chains : rep'[d] = rep[d] \/ rep'[d] = <<>>
      /\ \A d \in Chains \ CallGraph(c) : rep'[d] = rep[d]
  BY <1>1, <1>3, <1>4
<1>7. ASSUME NEW d \in Chains, Procedure(prog, d), Active(rep', d)
      PROVE  \E b \in CallBlocks(prog) : prog.calls[b] = d /\ Queued(rep', b)
  <2>1. d \notin CallGraph(c) /\ Active(rep, d)
    BY <1>1, <1>7 DEF Active
  <2>2. PICK b \in CallBlocks(prog) : prog.calls[b] = d /\ Queued(rep, b)
    BY <1>2, <1>7, <2>1, QueuesUntouched
  <2>3. b \in ptr /\ b \in Blocks /\ Op(b) = "call" /\ ChainOf(b) \in Chains
    BY <1>3, <2>2 DEF IInv, Pointers, CallBlocks, Op, Valid
  <2>4. d \in Calls(ChainOf(b))
    BY <2>2, <2>3 DEF Calls
  <2>5. ChainOf(b) \notin CallGraph(c)
    BY <1>5, <2>1, <2>4
  <2>6. Queued(rep', b)
    BY <1>6, <2>2, <2>3, <2>5 DEF Queued
  <2> QED BY <2>2, <2>6
<1>8. prog.head[c] # None /\ Op(prog.head[c]) = "whenreceive"
  BY <1>1, <1>2 DEF IInv, ToStart
<1>9. prog.head[c] \in Blocks /\ ChainOf(prog.head[c]) = c /\ ~Procedure(prog, c)
  BY <1>3, <1>6, <1>8 DEF Valid, Procedure, Op
<1>10. ToStart'
  BY <1>1, <1>2 DEF IInv, ToStart, Op
<1>11. phase' \in {"input", "hats", "broadcasts", "repeats"} /\ presses' \in 0..MaxPresses
  BY <1>2 DEF IInv, TypeOK
<1>12. \E x \in Blocks, f \in BOOLEAN :
         /\ cs' = <<Frame(x, f, FALSE)>>
         /\ IF f THEN Ends(rep'[ChainOf(x)], x)
            ELSE rep'[ChainOf(x)] = <<>> /\ ~Procedure(prog, ChainOf(x))
  BY <1>1, <1>6, <1>9
<1> QED BY <1>1, <1>2, <1>3, <1>6, <1>7, <1>10, <1>11, <1>12 DEF Scheduled
-----------------------------------------------------------------------------
(* The theorems.                                                           *)

LEMMA InitInv ==
  ASSUME Init PROVE IInv
<1>1. Valid
  BY ProgramValid DEF Init
<1>2. rep = [c \in Chains |-> <<>>] /\ cs = <<>> /\ todo = {} /\ phase = "input"
  BY DEF Init
<1>3. \A k \in 1..0 : FALSE
  OBVIOUS
<1>4. \A c \in Chains : rep[c] = <<>> /\ Len(rep[c]) = 0
  BY <1>2
<1>5. TypeOK
  <2>1. <<>> \in Seq(Blocks) /\ <<>> \in Seq(Messages) /\ <<>> \in Seq(Frames)
    OBVIOUS
  <2>2. 0 \in 0..MaxTimes /\ 0 \in 0..MaxPresses
    BY BoundsNat
  <2>3. rep \in [Chains -> Seq(Blocks)] /\ cs \in Seq(Frames)
    BY <1>2, <2>1
  <2>4. \A c \in Chains : \A j, k \in 1..Len(rep[c]) :
          ChainOf(rep[c][k]) = c /\ (rep[c][j] = rep[c][k] => j = k)
    BY <1>3, <1>4, Zenon
  <2> QED BY <2>1, <2>2, <2>3, <2>4 DEF TypeOK, Init, Frames
<1>6. QueueNest
  BY <1>3, <1>4, Zenon DEF QueueNest
<1>7. StackShape /\ StackNest /\ CallsInProgress /\ Counting /\ AtTop
  BY <1>2, Calm DEF StackShape, StackNest, CallsInProgress, Counting, AtTop
<1>8. Pointers
  <2>1. \A b \in CallBlocks(prog) : ChainOf(b) \in Chains
    BY <1>1 DEF CallBlocks, Valid
  <2> QED BY <1>3, <1>4, <2>1, Zenon DEF Pointers, Queued
<1>9. HasCaller
  BY <1>2, <1>4, Calm DEF HasCaller, Active
<1>10. ToStart
  BY <1>2 DEF ToStart
<1> QED BY <1>5, <1>6, <1>7, <1>8, <1>9, <1>10 DEF IInv, Init

LEMMA NextInv ==
  ASSUME AllSequential, IInv, [Next]_vars PROVE IInv'
<1>1. CASE Step
  BY <1>1, StepHandled, HandledKeeps
<1>2. CASE Scheduler
  BY <1>2, FrameScheduled, ReceiveScheduled, ScheduledKeeps DEF Scheduler
<1>3. CASE UNCHANGED vars
  <2>1. /\ prog' = prog /\ rep' = rep /\ times' = times /\ ptr' = ptr /\ brun' = brun /\ queue' = queue
        /\ cs' = cs /\ phase' = phase /\ todo' = todo /\ presses' = presses
    BY <1>3 DEF vars, data, loop
  <2>2. TypeOK' /\ QueueNest' /\ StackShape'
    BY <2>1 DEF IInv, TypeOK, QueueNest, StackShape, ChainOf, Op
  <2>3. StackNest'
    BY <2>1 DEF IInv, StackNest, ChainOf, Procedure, Rank
  <2>4. AtTop' /\ CallsInProgress'
    BY <2>1 DEF IInv, AtTop, CallsInProgress, ChainOf, Op, Top, Inside, Ends
  <2>5. Pointers' /\ Counting' /\ ToStart'
    BY <2>1 DEF IInv, Pointers, Counting, ToStart, Queued, ChainOf, Op, Triggered
  <2>6. HasCaller'
    BY <2>1 DEF IInv, HasCaller, Queued, OnStack, ChainOf, Active
  <2> QED BY <2>1, <2>2, <2>3, <2>4, <2>5, <2>6 DEF IInv
<1> QED BY <1>1, <1>2, <1>3 DEF Next

LEMMA AlwaysInv == AllSequential => (Spec => []IInv)
<1>1. SUFFICES ASSUME AllSequential PROVE Spec => []IInv
  OBVIOUS
<1>2. Init => IInv
  BY InitInv
<1>3. IInv /\ [Next]_vars => IInv'
  BY <1>1, NextInv
<1> QED BY <1>2, <1>3, PTL DEF Spec

\* TypeOK of BlockExecutor: the queues of addToRepeatQueue hold blocks of their
\* own chain, none of them twice, whatever the program and its loops.
THEOREM TypeCorrect == AllSequential => (Spec => []TypeOK)
<1>1. IInv => TypeOK
  BY DEF IInv
<1> QED BY <1>1, AlwaysInv, PTL

\* WellNested of BlockExecutor: between two runs of runBlock a queue is a path
\* through nested blocks, so what is last in it is the block to go on with.
THEOREM QueuesWellNested == AllSequential => (Spec => []WellNested)
<1>1. IInv => WellNested
  <2> SUFFICES ASSUME IInv, NEW c \in Chains, NEW k \in 1..Len(rep[c])-1
               PROVE  rep[c][k] \in Around(prog, rep[c][k+1])
    BY DEF WellNested
  <2>1. Len(rep[c]) \in Nat
    <3>1. rep[c] \in Seq(Blocks)
      BY Typed DEF IInv
    <3> QED BY <3>1
  <2>2. k \in 1..Len(rep[c]) /\ k+1 \in 1..Len(rep[c]) /\ k < k+1
    BY <2>1
  <2> QED BY <2>2 DEF IInv, QueueNest
<1> QED BY <1>1, AlwaysInv, PTL

\* NoOrphan of BlockExecutor: a procedure with something left to do has a call
\* that waits for it, in the queue of its chain or on the C++ stack.
THEOREM ProceduresHaveCallers == AllSequential => (Spec => []NoOrphan)
<1>1. IInv => NoOrphan
  <2> SUFFICES ASSUME IInv, NEW b \in Blocks, Op(b) = "definition", Active(rep, ChainOf(b))
               PROVE  \E d \in Blocks : /\ Op(d) = "call" /\ prog.calls[d] = ChainOf(b)
                                        /\ Queued(rep, d) \/ \E k \in 1..Len(cs) : cs[k].b = d
    BY DEF NoOrphan
  <2>1. prog.head[ChainOf(b)] = b /\ ChainOf(b) \in Chains
    BY ProgramsWellFormed DEF IInv, WellFormed, Op, ChainOf
  <2>2. Procedure(prog, ChainOf(b))
    BY <2>1, NoneIsNoBlock DEF Procedure, Op
  <2>3. PICK d \in CallBlocks(prog) : prog.calls[d] = ChainOf(b) /\ (Queued(rep, d) \/ OnStack(d))
    BY <2>1, <2>2 DEF IInv, HasCaller
  <2> QED BY <2>3 DEF CallBlocks, Op, OnStack
<1> QED BY <1>1, AlwaysInv, PTL

\* DropsItself of BlockExecutor: whatever removeFromRepeatQueue finds last in
\* the queue, it is the block whose handler calls it.
THEOREM HandlersDropThemselves == AllSequential => (Spec => DropsItself)
<1>1. ASSUME AllSequential, IInv, Next, cs # <<>>, Op(Top.b) \notin Stops,
             NEW b \in Blocks, Queued(rep, b), ~Queued(rep', b)
      PROVE  b = Top.b
  <2>1. Step
    BY <1>1 DEF Next, Scheduler, Input, RunHat, HatsDone, NextBroadcast, Receive, StartRepeats, Visit,
       FrameDone, Idle
  <2>2. Handled /\ Valid
    BY <1>1, <2>1, StepHandled, ProgramValid DEF IInv
  <2>3. prog' = prog /\ QueueChange
    BY <2>2 DEF Handled, RestChange
  <2> QED BY <1>1, <2>2, <2>3, QueueBlocks DEF Stops
<1> DEFINE A == cs # <<>> /\ Op(Top.b) \notin Stops =>
                  \A b \in Blocks : Queued(rep, b) /\ ~Queued(rep', b) => b = Top.b
<1>2. ASSUME AllSequential, IInv, [Next]_vars PROVE [A]_vars
  <2>1. CASE UNCHANGED vars
    BY <2>1
  <2>2. CASE Next
    BY <1>1, <1>2, <2>2
  <2> QED BY <1>2, <2>1, <2>2
<1>3. ASSUME AllSequential PROVE Spec => [][A]_vars
  <2>1. Spec => []IInv
    BY <1>3, AlwaysInv
  <2>2. IInv /\ [Next]_vars => [A]_vars
    BY <1>2, <1>3
  <2> HIDE DEF A
  <2> QED BY <2>1, <2>2, PTL DEF Spec
<1> QED BY <1>3 DEF DropsItself
=============================================================================
