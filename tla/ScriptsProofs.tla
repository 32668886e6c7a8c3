---------------------------- MODULE ScriptsProofs ----------------------------
(***************************************************************************)
(* BlockExecutor implements Scripts: the stack of runBlock calls and the   *)
(* repeat queues, abandoned and taken up again, run every script of a      *)
(* sequential program block by block in the order of its nesting.          *)
(***************************************************************************)
EXTENDS BlockExecutorProofs, WellFoundedInduction

\* The greatest of some numbers.
LEMMA GreatestExists ==
  ASSUME NEW n \in Nat, NEW K \in SUBSET (1..n), K # {}
  PROVE  \E k \in K : \A j \in K : j <= k
<1> DEFINE R == OpToRel(<, Nat)
           T == {n - k : k \in K}
<1>1. IsWellFoundedOn(R, Nat)
  BY NatLessThanWellFounded
<1>2. T \subseteq Nat /\ T # {}
  <2>1. \A k \in K : n - k \in Nat
    OBVIOUS
  <2> QED BY <2>1
<1>3. \A x, y \in Nat : y < x => <<y, x>> \in R
  BY DEF OpToRel
<1> HIDE DEF R
<1>4. PICK x \in T : \A y \in T : <<y, x>> \notin R
  <2> HIDE DEF T
  <2> QED BY <1>1, <1>2, WFMin
<1>5. PICK k \in K : x = n - k
  OBVIOUS
<1>6. ASSUME NEW j \in K PROVE j <= k
  <2>1. n - j \in T /\ n - j \in Nat /\ n - k \in Nat
    OBVIOUS
  <2>2. ~(n - j < n - k)
    BY <1>3, <1>4, <1>5, <2>1
  <2> QED BY <2>2
<1> QED BY <1>6
-----------------------------------------------------------------------------
(* Where a chain is, computed from any stack s and queues q.               *)

Resting(q) == [b |-> IF q = <<>> THEN None ELSE q[Len(q)], back |-> q # <<>>]
Held(f, q) == IF f.pt = "exec" THEN [b |-> f.b, back |-> f.fr]
              ELSE IF Op(f.b) = "call" THEN [b |-> f.b, back |-> TRUE] ELSE Resting(q)
CallsOf(s, c) == {k \in 1..Len(s) : ChainOf(s[k].b) = c}
TokenOf(s, q, c) ==
  IF CallsOf(s, c) = {} THEN Resting(q[c])
  ELSE Held(s[CHOOSE k \in CallsOf(s, c) : \A j \in CallsOf(s, c) : j <= k], q[c])
AllTokens(s, q) == [c \in Chains |-> TokenOf(s, q, c)]
BegunIn(s, b) == \E k \in 1..Len(s) : s[k].b = b /\ s[k].pt # "exec"
AllLeft(s, t) == [b \in Blocks |-> IF Op(b) = "repeat" /\ BegunIn(s, b) THEN t[b] - 1 ELSE t[b]]

LEMMA WhereNow ==
  ASSUME prog' = prog
  PROVE  /\ Where = AllTokens(cs, rep) /\ Where' = AllTokens(cs', rep')
         /\ Pending = AllLeft(cs, times) /\ Pending' = AllLeft(cs', times')
<1>1. Where = AllTokens(cs, rep) /\ Where' = AllTokens(cs', rep')
  BY DEF Where, AllTokens, TokenOf, Token, CallsOf, Held, Resting, ChainOf, Op
<1>2. Pending = AllLeft(cs, times) /\ Pending' = AllLeft(cs', times')
  BY DEF Pending, AllLeft, BegunIn, Begun, Op
<1> QED BY <1>1, <1>2

\* The call that tells where a chain is: the last one.
LEMMA TokenAt ==
  ASSUME NEW s \in Seq(Frames), NEW q, NEW c, NEW k \in 1..Len(s), ChainOf(s[k].b) = c,
         \A j \in 1..Len(s) : ChainOf(s[j].b) = c => j <= k
  PROVE  TokenOf(s, q, c) = Held(s[k], q[c])
<1>1. k \in CallsOf(s, c) /\ \A j \in CallsOf(s, c) : j <= k /\ j \in Nat
  BY DEF CallsOf
<1>2. \A i \in CallsOf(s, c) : (\A j \in CallsOf(s, c) : j <= i) => i = k
  BY <1>1
<1>3. (CHOOSE i \in CallsOf(s, c) : \A j \in CallsOf(s, c) : j <= i) = k
  BY <1>1, <1>2
<1> QED BY <1>1, <1>3 DEF TokenOf
LEMMA TokenRests ==
  ASSUME NEW s \in Seq(Frames), NEW q, NEW c, \A j \in 1..Len(s) : ChainOf(s[j].b) # c
  PROVE  TokenOf(s, q, c) = Resting(q[c])
<1>1. CallsOf(s, c) = {}
  BY DEF CallsOf
<1> QED BY <1>1 DEF TokenOf

\* A chain is where it was when its calls are the same, all of them nested, and
\* so is its queue.
SameCalls(s, t, m, c) ==
  /\ m \in Nat /\ m <= Len(s) /\ m <= Len(t)
  /\ \A k \in 1..m : s[k].b = t[k].b /\ s[k].pt # "exec" /\ t[k].pt # "exec"
  /\ \A k \in 1..Len(s) : k > m => ChainOf(s[k].b) # c
  /\ \A k \in 1..Len(t) : k > m => ChainOf(t[k].b) # c
LEMMA TokenSame ==
  ASSUME NEW s \in Seq(Frames), NEW t \in Seq(Frames), NEW q, NEW r, NEW c, q[c] = r[c],
         NEW m, SameCalls(s, t, m, c)
  PROVE  TokenOf(t, r, c) = TokenOf(s, q, c)
<1>1. Len(s) \in Nat /\ Len(t) \in Nat /\ m \in Nat /\ m <= Len(s) /\ m <= Len(t)
  BY DEF SameCalls
<1>2. CallsOf(s, c) \subseteq 1..m /\ CallsOf(t, c) \subseteq 1..m
  BY <1>1 DEF CallsOf, SameCalls
<1>3. CallsOf(t, c) = CallsOf(s, c)
  <2>1. \A k \in 1..m : k \in 1..Len(s) /\ k \in 1..Len(t)
    BY <1>1
  <2> QED BY <1>2, <2>1 DEF CallsOf, SameCalls
<1> DEFINE K == CallsOf(s, c)
           g == CHOOSE k \in K : \A j \in K : j <= k
<1>4. CASE K = {}
  BY <1>3, <1>4 DEF TokenOf
<1>5. CASE K # {}
  <2>1. \E k \in K : \A j \in K : j <= k
    BY <1>1, <1>2, <1>5, GreatestExists
  <2>2. g \in 1..m
    <3>1. g \in K
      BY <2>1
    <3> QED BY <1>2, <3>1
  <2> HIDE DEF g
  <2>3. s[g].b = t[g].b /\ s[g].pt # "exec" /\ t[g].pt # "exec"
    BY <2>2 DEF SameCalls
  <2>4. Held(t[g], r[c]) = Held(s[g], q[c])
    BY <2>3 DEF Held
  <2> QED BY <1>3, <1>5, <2>4 DEF TokenOf, g
<1> QED BY <1>4, <1>5
-----------------------------------------------------------------------------
(* Where the chains are after a call is left, goes on or makes another.    *)

LEMMA TopToken ==
  ASSUME IInv, Valid, cs # <<>>
  PROVE  TokenOf(cs, rep, ChainOf(Top.b)) = Held(Top, rep[ChainOf(Top.b)])
<1>1. cs \in Seq(Frames) /\ Len(cs) \in 1..Len(cs) /\ Top = cs[Len(cs)]
  BY Typed, TopTyped DEF IInv
<1>2. \A j \in 1..Len(cs) : j <= Len(cs)
  BY <1>1
<1> QED BY <1>1, <1>2, TokenAt

\* The calls below the top are in progress.
LEMMA BelowTop ==
  ASSUME IInv, Valid, cs # <<>>
  PROVE  /\ cs \in Seq(Frames) /\ Len(cs) \in Nat /\ Len(cs) \in 1..Len(cs) /\ Top = cs[Len(cs)]
         /\ Len(cs) - 1 \in Nat
         /\ \A k \in 1..Len(cs)-1 : k \in 1..Len(cs) /\ k < Len(cs) /\ cs[k].pt = "sub"
         /\ \A k \in 1..Len(cs) : k > Len(cs) - 1 => k = Len(cs)
<1>1. cs \in Seq(Frames) /\ Len(cs) \in Nat /\ Len(cs) \in 1..Len(cs) /\ Top = cs[Len(cs)]
  BY Typed, TopTyped DEF IInv
<1>2. \A k \in 1..Len(cs)-1 : k \in 1..Len(cs) /\ k < Len(cs)
  BY <1>1
<1> QED BY <1>1, <1>2 DEF IInv, StackShape

LEMMA LeaveTokens ==
  ASSUME AllSequential, IInv, Valid, cs # <<>>, NEW q
  PROVE  LET c == ChainOf(Top.b) IN
         /\ TokenOf(Leave, q, c) = Resting(q[c])
         /\ \A d \in Chains \ {c} : q[d] = rep[d] => TokenOf(Leave, q, d) = TokenOf(cs, rep, d)
<1> DEFINE n == Len(cs)
           c == ChainOf(Top.b)
<1>1. /\ cs \in Seq(Frames) /\ n \in Nat /\ n \in 1..n /\ Top = cs[n] /\ n - 1 \in Nat
      /\ \A k \in 1..n-1 : k \in 1..n /\ k < n /\ cs[k].pt = "sub"
      /\ \A k \in 1..n : k > n - 1 => k = n
  BY BelowTop
<1>2. /\ Leave \in Seq(Frames) /\ Len(Leave) = n - 1
      /\ \A k \in 1..n-1 : Leave[k].b = cs[k].b /\ Leave[k].pt # "exec"
  <2>1. /\ Leave \in Seq(Frames) /\ Len(Leave) = n - 1
        /\ \A k \in 1..n-1 : Leave[k].b = cs[k].b /\ Leave[k].pt = IF k < n - 1 THEN cs[k].pt ELSE "back"
    BY <1>1, LeaveFacts
  <2> QED BY <1>1, <2>1
<1>3. ASSUME NEW d \in Chains \ {c}, q[d] = rep[d]
      PROVE  TokenOf(Leave, q, d) = TokenOf(cs, rep, d)
  <2>1. \A k \in 1..n : k > n - 1 => ChainOf(cs[k].b) # d
    BY <1>1, <1>3
  <2>2. \A k \in 1..Len(Leave) : k > n - 1 => ChainOf(Leave[k].b) # d
    BY <1>1, <1>2
  <2>3. /\ n - 1 <= Len(cs) /\ n - 1 <= Len(Leave)
        /\ \A k \in 1..n-1 : cs[k].b = Leave[k].b /\ cs[k].pt # "exec" /\ Leave[k].pt # "exec"
    BY <1>1, <1>2
  <2>4. SameCalls(cs, Leave, n - 1, d)
    BY <1>1, <2>1, <2>2, <2>3 DEF SameCalls
  <2>5. cs \in Seq(Frames) /\ Leave \in Seq(Frames) /\ rep[d] = q[d]
    BY <1>1, <1>2, <1>3
  <2> QED BY <2>4, <2>5, TokenSame
<1>4. CASE \A k \in 1..n-1 : ChainOf(cs[k].b) # c
  <2>1. \A k \in 1..Len(Leave) : ChainOf(Leave[k].b) # c
    BY <1>2, <1>4
  <2> QED BY <1>2, <1>3, <2>1, TokenRests
<1>5. CASE \E k \in 1..n-1 : ChainOf(cs[k].b) = c
  <2> DEFINE K == CallsOf(Leave, c)
  <2>1. K # {} /\ K \subseteq 1..n-1
    BY <1>2, <1>5 DEF CallsOf
  <2>2. PICK k \in K : \A j \in K : j <= k
    BY <1>1, <2>1, GreatestExists
  <2>3. k \in 1..n-1 /\ k \in 1..Len(Leave) /\ ChainOf(Leave[k].b) = c /\ ChainOf(cs[k].b) = c
    BY <1>2, <2>1, <2>2 DEF CallsOf
  <2>4. \A j \in 1..Len(Leave) : ChainOf(Leave[j].b) = c => j <= k
    BY <2>2 DEF CallsOf
  <2>5. Op(cs[k].b) # "call"
    BY <1>1, <2>3, StackFacts DEF Holders
  <2>6. Held(Leave[k], q[c]) = Resting(q[c])
    BY <1>2, <2>3, <2>5 DEF Held
  <2> QED BY <1>2, <1>3, <2>3, <2>4, <2>6, TokenAt
<1> QED BY <1>4, <1>5

LEMMA GoOnTokens ==
  ASSUME IInv, Valid, cs # <<>>, NEW q, NEW x \in Blocks, ChainOf(x) = ChainOf(Top.b)
  PROVE  LET c == ChainOf(Top.b) IN
         /\ TokenOf(GoOn(x), q, c) = [b |-> x, back |-> FALSE]
         /\ \A d \in Chains \ {c} : q[d] = rep[d] => TokenOf(GoOn(x), q, d) = TokenOf(cs, rep, d)
<1> DEFINE n == Len(cs)
           c == ChainOf(Top.b)
           s == GoOn(x)
<1>1. /\ cs \in Seq(Frames) /\ n \in Nat /\ n \in 1..n /\ Top = cs[n] /\ n - 1 \in Nat
      /\ \A k \in 1..n-1 : k \in 1..n /\ k < n /\ cs[k].pt = "sub"
      /\ \A k \in 1..n : k > n - 1 => k = n
  BY BelowTop
<1>2. s \in Seq(Frames) /\ Len(s) = n /\ s[n] = Frame(x, FALSE, Top.ws) /\ \A k \in 1..n-1 : s[k] = cs[k]
  BY <1>1, GoOnFacts
<1> HIDE DEF s
<1>3. TokenOf(s, q, c) = [b |-> x, back |-> FALSE]
  <2>1. s[n].b = x /\ s[n].fr = FALSE /\ s[n].pt = "exec"
    BY <1>2 DEF Frame
  <2>2. Held(s[n], q[c]) = [b |-> x, back |-> FALSE]
    BY <2>1 DEF Held
  <2>3. n \in 1..Len(s) /\ \A j \in 1..Len(s) : j <= n
    BY <1>1, <1>2
  <2> QED BY <1>2, <2>1, <2>2, <2>3, TokenAt
<1>4. ASSUME NEW d \in Chains \ {c}, q[d] = rep[d]
      PROVE  TokenOf(s, q, d) = TokenOf(cs, rep, d)
  <2>1. \A k \in 1..Len(cs) : k > n - 1 => ChainOf(cs[k].b) # d
    BY <1>1, <1>4
  <2>2. \A k \in 1..Len(s) : k > n - 1 => ChainOf(s[k].b) # d
    BY <1>1, <1>2, <1>4 DEF Frame
  <2>3. /\ n - 1 <= Len(cs) /\ n - 1 <= Len(s)
        /\ \A k \in 1..n-1 : cs[k].b = s[k].b /\ cs[k].pt # "exec" /\ s[k].pt # "exec"
    BY <1>1, <1>2
  <2>4. SameCalls(cs, s, n - 1, d)
    BY <1>1, <2>1, <2>2, <2>3 DEF SameCalls
  <2>5. cs \in Seq(Frames) /\ s \in Seq(Frames) /\ rep[d] = q[d]
    BY <1>1, <1>2, <1>4
  <2> QED BY <2>4, <2>5, TokenSame
<1> QED BY <1>3, <1>4 DEF s

LEMMA NestedTokens ==
  ASSUME IInv, Valid, cs # <<>>, NEW q, NEW f \in Frames, f.pt = "exec"
  PROVE  LET c == ChainOf(Top.b)  e == ChainOf(f.b) IN
         /\ TokenOf(Nested(f), q, e) = [b |-> f.b, back |-> f.fr]
         /\ Op(Top.b) = "call" /\ e # c => TokenOf(Nested(f), q, c) = [b |-> Top.b, back |-> TRUE]
         /\ \A d \in Chains \ {c, e} : q[d] = rep[d] => TokenOf(Nested(f), q, d) = TokenOf(cs, rep, d)
<1> DEFINE n == Len(cs)
           c == ChainOf(Top.b)
           e == ChainOf(f.b)
           s == Nested(f)
<1>1. /\ cs \in Seq(Frames) /\ n \in Nat /\ n \in 1..n /\ Top = cs[n] /\ n - 1 \in Nat
      /\ \A k \in 1..n-1 : k \in 1..n /\ k < n /\ cs[k].pt = "sub"
      /\ \A k \in 1..n : k > n - 1 => k = n
  BY BelowTop
<1>2. /\ s \in Seq(Frames) /\ Len(s) = n + 1 /\ s[n+1] = f
      /\ \A k \in 1..n : s[k].b = cs[k].b /\ s[k].pt = IF k < n THEN cs[k].pt ELSE "sub"
  BY <1>1, NestedFacts
<1> HIDE DEF s
<1>3. TokenOf(s, q, e) = [b |-> f.b, back |-> f.fr]
  <2>1. Held(s[n+1], q[e]) = [b |-> f.b, back |-> f.fr]
    BY <1>2 DEF Held
  <2>2. n + 1 \in 1..Len(s) /\ \A j \in 1..Len(s) : j <= n + 1
    BY <1>1, <1>2
  <2> QED BY <1>2, <2>1, <2>2, TokenAt
<1>4. ASSUME Op(Top.b) = "call", e # c PROVE TokenOf(s, q, c) = [b |-> Top.b, back |-> TRUE]
  <2>1. s[n].b = Top.b /\ s[n].pt = "sub"
    BY <1>1, <1>2
  <2>2. Held(s[n], q[c]) = [b |-> Top.b, back |-> TRUE]
    BY <1>4, <2>1 DEF Held
  <2>3. n \in 1..Len(s) /\ \A j \in 1..Len(s) : j <= n \/ j = n + 1
    BY <1>1, <1>2
  <2>4. \A j \in 1..Len(s) : ChainOf(s[j].b) = c => j <= n
    BY <1>2, <1>4, <2>3
  <2> QED BY <1>2, <2>1, <2>2, <2>3, <2>4, TokenAt
<1>5. ASSUME NEW d \in Chains \ {c, e}, q[d] = rep[d]
      PROVE  TokenOf(s, q, d) = TokenOf(cs, rep, d)
  <2>1. \A k \in 1..Len(cs) : k > n - 1 => ChainOf(cs[k].b) # d
    BY <1>1, <1>5
  <2>2. \A k \in 1..Len(s) : k > n - 1 => ChainOf(s[k].b) # d
    <3>1. \A k \in 1..Len(s) : k > n - 1 => k = n \/ k = n + 1
      BY <1>1, <1>2
    <3> QED BY <1>1, <1>2, <1>5, <3>1
  <2>3. /\ n - 1 <= Len(cs) /\ n - 1 <= Len(s)
        /\ \A k \in 1..n-1 : cs[k].b = s[k].b /\ cs[k].pt # "exec" /\ s[k].pt # "exec"
    BY <1>1, <1>2
  <2>4. SameCalls(cs, s, n - 1, d)
    BY <1>1, <2>1, <2>2, <2>3 DEF SameCalls
  <2>5. cs \in Seq(Frames) /\ s \in Seq(Frames) /\ rep[d] = q[d]
    BY <1>1, <1>2, <1>5
  <2> QED BY <2>4, <2>5, TokenSame
<1> QED BY <1>3, <1>4, <1>5 DEF s
-----------------------------------------------------------------------------
(* The queues are not only nested: they hold every block around the script *)
(* that is run or has to go on.                                            *)

Latest(q) == IF q = <<>> THEN None ELSE q[Len(q)]
QueueLinked ==
  \A c \in Chains : \A k \in 1..Len(rep[c]) :
    prog.parent[rep[c][k]] = IF k = 1 THEN None ELSE rep[c][k-1]
TopLinked ==
  cs # <<>> /\ Top.pt = "exec" /\ ~Top.fr => prog.parent[Top.b] = Latest(rep[ChainOf(Top.b)])
CallsLinked ==
  \A k \in 1..Len(cs) : cs[k].pt # "exec" /\ Op(cs[k].b) = "call" =>
    prog.parent[cs[k].b] = Latest(rep[ChainOf(cs[k].b)])
Linked == QueueLinked /\ TopLinked /\ CallsLinked
RInv == IInv /\ Linked

LEMMA ProgramJoined ==
  ASSUME prog \in Programs
  PROVE  /\ \A b \in Blocks :
              /\ prog.parent[b] \in Blocks \cup {None}
              /\ prog.next[b] # None => prog.parent[prog.next[b]] = prog.parent[b]
              /\ \A s \in {prog.sub[b], prog.sub2[b]} \ {None} : prog.parent[s] = b
         /\ \A c \in Chains : prog.head[c] # None => prog.parent[prog.head[c]] = None
<1>1. WellFormed(prog)
  BY ProgramsWellFormed
<1>2. prog.parent \in [Blocks -> Blocks \cup {None}]
  BY <1>1 DEF WellFormed
<1> QED BY <1>1, <1>2 DEF WellFormed

\* What happens to the queue of the chain of the block that is executed.
LinkChange ==
  LET b == Top.b  c == ChainOf(b)  q == rep[c] IN
  \/ rep'[c] = q
  \/ rep'[c] = Append(q, b) /\ prog.parent[b] = Latest(q)
  \/ Ends(q, b) /\ rep'[c] = SubSeq(q, 1, Len(q) - 1)
  \/ rep'[c] = <<>>
Alone == \A d \in Chains : d # ChainOf(Top.b) => rep'[d] = rep[d]

LEMMA QueueLinkKept ==
  ASSUME RInv, Valid, Handled, LinkChange
  PROVE  QueueLinked'
<1> DEFINE b == Top.b
           c == ChainOf(b)
           q == rep[c]
<1>1. /\ b \in Blocks /\ c \in Chains /\ q \in Seq(Blocks) /\ Len(q) \in Nat /\ cs # <<>> /\ prog' = prog
  BY TopTyped DEF RInv, IInv, Handled, RestChange
<1> SUFFICES ASSUME NEW d \in Chains, NEW k \in 1..Len(rep'[d])
             PROVE  prog.parent[rep'[d][k]] = IF k = 1 THEN None ELSE rep'[d][k-1]
  BY <1>1 DEF QueueLinked
<1>2. CASE rep'[d] = rep[d]
  BY <1>2 DEF RInv, Linked, QueueLinked
<1>3. CASE rep'[d] = <<>>
  <2>1. \A i \in 1..0 : FALSE
    OBVIOUS
  <2> QED BY <1>3, <2>1
<1>4. CASE d = c /\ rep'[c] = Append(q, b) /\ prog.parent[b] = Latest(q)
  <2>1. /\ Len(rep'[d]) = Len(q) + 1 /\ rep'[d][Len(q)+1] = b
        /\ \A i \in 1..Len(q) : rep'[d][i] = q[i]
    BY <1>1, <1>4
  <2>2. CASE k = Len(q) + 1
    <3>1. q = <<>> <=> Len(q) = 0
      BY <1>1
    <3>2. q # <<>> => Len(q) \in 1..Len(q)
      BY <1>1, <3>1
    <3> QED BY <1>1, <1>4, <2>1, <2>2, <3>1, <3>2 DEF Latest
  <2>3. CASE k \in 1..Len(q)
    <3>1. k # 1 => k - 1 \in 1..Len(q)
      BY <1>1, <2>3
    <3> QED BY <1>4, <2>1, <2>3, <3>1 DEF RInv, Linked, QueueLinked
  <2> QED BY <1>1, <2>1, <2>2, <2>3
<1>5. CASE d = c /\ Ends(q, b) /\ rep'[c] = SubSeq(q, 1, Len(q) - 1)
  <2>1. Len(q) # 0
    BY <1>1, <1>5 DEF Ends
  <2>2. Len(rep'[d]) = Len(q) - 1 /\ \A i \in 1..Len(q)-1 : rep'[d][i] = q[i]
    BY <1>1, <1>5, <2>1
  <2>3. k \in 1..Len(q) /\ k \in 1..Len(q)-1 /\ (k # 1 => k - 1 \in 1..Len(q)-1)
    BY <1>1, <2>1, <2>2
  <2>4. rep'[d][k] = q[k] /\ (k # 1 => rep'[d][k-1] = q[k-1])
    BY <2>2, <2>3
  <2>5. prog.parent[q[k]] = IF k = 1 THEN None ELSE q[k-1]
    BY <1>1, <2>3 DEF RInv, Linked, QueueLinked
  <2> QED BY <2>4, <2>5
<1> QED BY <1>1, <1>2, <1>3, <1>4, <1>5 DEF LinkChange, Handled, QueueChange

LEMMA CallsLinkKept ==
  ASSUME AllSequential, RInv, Valid, Handled, StackElements
  PROVE  CallsLinked'
<1> DEFINE b == Top.b
           c == ChainOf(b)
           n == Len(cs)
<1>1. n \in Nat /\ n \in 1..n /\ Top = cs[n] /\ b \in Blocks /\ c \in Chains /\ prog' = prog /\ cs # <<>>
  BY Typed, TopTyped DEF RInv, IInv, Handled, RestChange
<1> SUFFICES ASSUME NEW k \in 1..Len(cs'), cs'[k].pt # "exec", Op(cs'[k].b) = "call"
             PROVE  prog.parent[cs'[k].b] = Latest(rep'[ChainOf(cs'[k].b)])
  BY <1>1 DEF CallsLinked, Op, ChainOf
<1>2. CASE k \in 1..n /\ k < n /\ cs'[k].b = cs[k].b /\ cs[k].pt = "sub"
  <2> DEFINE d == cs[k].b
  <2>1. prog.parent[d] = Latest(rep[ChainOf(d)]) /\ Op(d) = "call"
    BY <1>2 DEF RInv, Linked, CallsLinked
  <2>2. d \in Blocks /\ ChainOf(d) # c
    BY <1>1, <1>2, <2>1, StackFacts DEF RInv, Holders
  <2>3. Op(b) \notin {"stopother", "stopall"}
    <3>1. Procedure(prog, c)
      BY <1>1, <1>2, <2>2 DEF RInv, IInv, StackNest
    <3> QED BY <1>1, <3>1 DEF AllSequential, Sequential, RInv, IInv, Op, ChainOf
  <2>4. rep'[ChainOf(d)] = rep[ChainOf(d)]
    BY <1>1, <2>2, <2>3 DEF Handled, QueueChange, Valid
  <2> QED BY <1>2, <2>1, <2>4
<1>3. CASE k = n /\ cs'[k].b = b /\ Below
  <2>1. Len(cs') # n /\ Len(cs') # n - 1 /\ Op(b) \notin Holders
    BY <1>1, <1>3 DEF Below, Holders
  <2>2. rep' = rep /\ Inside(rep[c], b)
    BY <2>1 DEF StackElements
  <2>3. ~Ends(rep[c], b)
    BY <1>1, <2>2, OwnQueue, OwnQueueChange DEF RInv
  <2>4. prog.parent[b] = Latest(rep[c])
    <3>1. CASE Top.pt = "exec"
      BY <1>1, <2>3, <3>1 DEF RInv, IInv, AtTop, Linked, TopLinked
    <3>2. CASE Top.pt # "exec"
      BY <1>1, <1>3, <3>2 DEF RInv, Linked, CallsLinked
    <3> QED BY <3>1, <3>2
  <2> QED BY <1>3, <2>2, <2>4
<1> QED BY <1>1, <1>2, <1>3, Lower DEF RInv

LEMMA LatestDropped ==
  ASSUME NEW q \in Seq(Blocks), q # <<>>
  PROVE  Latest(SubSeq(q, 1, Len(q) - 1)) = IF Len(q) = 1 THEN None ELSE q[Len(q)-1]
<1> DEFINE r == SubSeq(q, 1, Len(q) - 1)
<1>1. CASE Len(q) = 1
  <2>1. r = <<>>
    BY <1>1
  <2> QED BY <1>1, <2>1 DEF Latest
<1>2. CASE Len(q) # 1
  <2> DEFINE n == Len(q)
  <2>1. n \in Nat /\ n # 0 /\ n # 1
    BY <1>2
  <2>2. n - 1 \in 1..n-1
    <3> HIDE DEF n
    <3> QED BY <2>1
  <2>3. Len(r) = n - 1 /\ r[n-1] = q[n-1]
    BY <2>1, <2>2
  <2>4. r # <<>>
    <3> HIDE DEF r, n
    <3>1. Len(<<>>) = 0
      OBVIOUS
    <3>2. Len(r) # 0
      BY <2>1, <2>2, <2>3
    <3> QED BY <3>1, <3>2
  <2> QED BY <1>2, <2>3, <2>4 DEF Latest
<1> QED BY <1>1, <1>2

\* The queue after the block is queued or dropped.
LEMMA OwnLinks ==
  ASSUME RInv, Valid, cs # <<>>
  PROVE  LET b == Top.b  c == ChainOf(b)  q == rep[c] IN
         /\ rep' = rep => LinkChange /\ Alone
         /\ Inside(q, b) /\ prog.parent[b] = Latest(q) /\ rep' = Added(rep, b) =>
              LinkChange /\ Alone /\ Resting(rep'[c]) = SC!Back(b) /\ Latest(rep'[c]) = b
         /\ Ends(q, b) => Resting(q) = SC!Back(b) /\ Latest(q) = b
         /\ Ends(q, b) /\ rep' = Removed(rep, b) =>
              LinkChange /\ Alone /\ prog.parent[b] = Latest(rep'[c])
<1> DEFINE b == Top.b
           c == ChainOf(b)
           q == rep[c]
<1>1. /\ b \in Blocks /\ c \in Chains /\ q \in Seq(Blocks) /\ Len(q) \in Nat
      /\ rep \in [Chains -> Seq(Blocks)]
  BY Typed, TopTyped DEF RInv, IInv
<1>2. rep' = rep => LinkChange /\ Alone
  BY DEF LinkChange, Alone
<1>3. ASSUME Inside(q, b), prog.parent[b] = Latest(q), rep' = Added(rep, b)
      PROVE  LinkChange /\ Alone /\ Resting(rep'[c]) = SC!Back(b) /\ Latest(rep'[c]) = b
  <2> DEFINE r == Append(q, b)
  <2>1. r # <<>> /\ r[Len(r)] = b
    BY <1>1
  <2>2. rep' = [rep EXCEPT ![c] = r]
    BY <1>3, OwnQueue DEF RInv
  <2>3. rep'[c] = r /\ \A d \in Chains : d # c => rep'[d] = rep[d]
    <3> HIDE DEF r
    <3> QED BY <1>1, <2>2
  <2>4. LinkChange /\ Alone
    BY <1>3, <2>3 DEF LinkChange, Alone
  <2> HIDE DEF r
  <2> QED BY <2>1, <2>3, <2>4 DEF Resting, Latest, SC!Back
<1>4. ASSUME Ends(q, b) PROVE Resting(q) = SC!Back(b) /\ Latest(q) = b
  BY <1>4 DEF Ends, Resting, Latest, SC!Back
<1>5. ASSUME Ends(q, b), rep' = Removed(rep, b)
      PROVE  LinkChange /\ Alone /\ prog.parent[b] = Latest(rep'[c])
  <2> DEFINE r == SubSeq(q, 1, Len(q) - 1)
  <2>1. q # <<>> /\ q[Len(q)] = b /\ Len(q) \in 1..Len(q)
    BY <1>1, <1>5 DEF Ends
  <2>3. prog.parent[b] = IF Len(q) = 1 THEN None ELSE q[Len(q)-1]
    BY <1>1, <2>1 DEF RInv, Linked, QueueLinked
  <2>5. prog.parent[b] = Latest(r)
    BY <1>1, <2>1, <2>3, LatestDropped
  <2>6. rep' = [rep EXCEPT ![c] = r]
    BY <1>5, OwnQueue DEF RInv
  <2>7. rep'[c] = r /\ \A d \in Chains : d # c => rep'[d] = rep[d]
    <3> HIDE DEF r
    <3> QED BY <1>1, <2>6
  <2>8. LinkChange /\ Alone
    BY <1>5, <2>7 DEF LinkChange, Alone
  <2> QED BY <2>5, <2>7, <2>8
<1> QED BY <1>2, <1>3, <1>4, <1>5
-----------------------------------------------------------------------------
(* The three ways a handler goes on move its chain alone.                  *)

Moves(t) ==
  /\ TokenOf(cs', rep', ChainOf(Top.b)) = t
  /\ Alone => AllTokens(cs', rep') = [AllTokens(cs, rep) EXCEPT ![ChainOf(Top.b)] = t]

LEMMA LinkedKept ==
  ASSUME AllSequential, RInv, Handled, LinkChange, TopLinked'
  PROVE  Linked'
<1>1. Valid
  BY ProgramValid DEF RInv, IInv
<1>2. StackElements
  BY <1>1, StackElementwise DEF RInv, Handled
<1> QED BY <1>1, <1>2, QueueLinkKept, CallsLinkKept DEF Linked

LEMMA MovesOnly ==
  ASSUME NEW t, ChainOf(Top.b) \in Chains, TokenOf(cs', rep', ChainOf(Top.b)) = t,
         Alone => \A d \in Chains \ {ChainOf(Top.b)} : TokenOf(cs', rep', d) = TokenOf(cs, rep, d)
  PROVE  Moves(t)
BY DEF Moves, AllTokens

LEMMA LeaveWalk ==
  ASSUME AllSequential, RInv, Handled, cs' = Leave, LinkChange
  PROVE  Linked' /\ Moves(Resting(rep'[ChainOf(Top.b)]))
<1>1. Valid /\ cs # <<>> /\ ChainOf(Top.b) \in Chains /\ Len(cs) \in Nat /\ cs \in Seq(Frames) /\ IInv
  BY ProgramValid, TopTyped, Typed DEF RInv, IInv, Handled
<1>2. TopLinked'
  <2>1. Len(Leave) = Len(cs) - 1 /\ Leave \in Seq(Frames)
        /\ \A k \in 1..Len(cs)-1 : Leave[k].pt = IF k < Len(cs) - 1 THEN cs[k].pt ELSE "back"
    BY <1>1, LeaveFacts
  <2>2. cs' # <<>> => Top'.pt = "back"
    <3> HIDE DEF Leave
    <3> SUFFICES ASSUME cs' # <<>> PROVE cs'[Len(cs')].pt = "back"
      BY DEF Top
    <3>1. Len(cs') # 0 /\ Len(cs') \in Nat /\ Len(cs') = Len(cs) - 1
      BY <2>1
    <3>2. Len(cs') \in 1..Len(cs)-1 /\ ~(Len(cs') < Len(cs) - 1)
      BY <1>1, <3>1
    <3> QED BY <2>1, <3>2
  <2> QED BY <2>2 DEF TopLinked
<1>3. /\ TokenOf(cs', rep', ChainOf(Top.b)) = Resting(rep'[ChainOf(Top.b)])
      /\ Alone => \A d \in Chains \ {ChainOf(Top.b)} : TokenOf(cs', rep', d) = TokenOf(cs, rep, d)
  BY <1>1, LeaveTokens DEF Alone
<1> QED BY <1>1, <1>2, <1>3, LinkedKept, MovesOnly

LEMMA GoOnWalk ==
  ASSUME AllSequential, RInv, Handled, LinkChange,
         NEW x \in Blocks, cs' = GoOn(x), ChainOf(x) = ChainOf(Top.b),
         prog.parent[x] = Latest(rep'[ChainOf(Top.b)])
  PROVE  Linked' /\ Moves(SC!Fresh(x))
<1>1. Valid /\ cs # <<>> /\ ChainOf(Top.b) \in Chains /\ cs \in Seq(Frames) /\ IInv /\ prog' = prog
  BY ProgramValid, TopTyped, Typed DEF RInv, IInv, Handled, RestChange
<1>2. Top' = Frame(x, FALSE, Top.ws)
  BY <1>1, GoOnFacts DEF Top
<1>3. TopLinked'
  <2>1. Top'.b = x
    BY <1>2 DEF Frame
  <2>2. ChainOf(Top.b)' = ChainOf(Top.b)
    BY <1>1, <2>1 DEF ChainOf
  <2> QED BY <1>1, <2>1, <2>2 DEF TopLinked
<1>4. /\ TokenOf(cs', rep', ChainOf(Top.b)) = [b |-> x, back |-> FALSE]
      /\ Alone => \A d \in Chains \ {ChainOf(Top.b)} : TokenOf(cs', rep', d) = TokenOf(cs, rep, d)
  BY <1>1, GoOnTokens DEF Alone
<1> QED BY <1>1, <1>3, <1>4, LinkedKept, MovesOnly DEF SC!Fresh

LEMMA ContinueWalk ==
  ASSUME AllSequential, RInv, Handled, cs' = Continue, LinkChange,
         prog.parent[Top.b] = Latest(rep'[ChainOf(Top.b)])
  PROVE  Linked' /\ Moves(SC!After(Top.b))
<1> DEFINE b == Top.b
           c == ChainOf(b)
<1>1. /\ Valid /\ prog \in Programs /\ b \in Blocks /\ c \in Chains /\ rep' \in [Chains -> Seq(Blocks)]
  BY ProgramValid, TopTyped DEF RInv, IInv, Handled, QueueChange
<1>2. CASE prog.next[b] = None
  <2>1. cs' = Leave
    BY <1>2 DEF Continue
  <2>2. Resting(rep'[c]) = SC!After(b)
    <3>1. rep'[c] \in Seq(Blocks)
      BY <1>1
    <3>2. rep'[c] # <<>> => rep'[c][Len(rep'[c])] # None
      BY <3>1, NoneIsNoBlock
    <3> QED BY <1>2, <3>2 DEF Resting, Latest, SC!After, SC!Back, SC!Done
  <2> QED BY <2>1, <2>2, LeaveWalk
<1>3. CASE prog.next[b] # None
  <2>1. /\ cs' = GoOn(prog.next[b]) /\ prog.next[b] \in Blocks /\ ChainOf(prog.next[b]) = c
    BY <1>1, <1>3 DEF Continue, GoOn, Valid
  <2>2. prog.parent[prog.next[b]] = Latest(rep'[c])
    BY <1>1, <1>3, ProgramJoined
  <2>3. SC!After(b) = SC!Fresh(prog.next[b])
    BY <1>3 DEF SC!After
  <2> QED BY <2>1, <2>2, <2>3, GoOnWalk
<1> QED BY <1>2, <1>3

LEMMA EnterWalk ==
  ASSUME AllSequential, RInv, Handled, LinkChange,
         NEW x \in {prog.sub[Top.b], prog.sub2[Top.b]} \ {None}, cs' = Enter(x),
         Latest(rep'[ChainOf(Top.b)]) = Top.b
  PROVE  Linked' /\ Moves(SC!Fresh(x))
<1> DEFINE b == Top.b
           c == ChainOf(b)
           n == Len(cs)
           f == Frame(x, FALSE, Top.ws)
<1>1. /\ Valid /\ cs # <<>> /\ b \in Blocks /\ c \in Chains /\ cs \in Seq(Frames) /\ IInv /\ prog' = prog
      /\ prog \in Programs /\ Top \in Frames /\ n \in Nat
  BY ProgramValid, TopTyped, Typed DEF RInv, IInv, Handled, RestChange
<1>2. x \in Blocks /\ ChainOf(x) = c /\ prog.parent[x] = b
  BY <1>1, ProgramJoined DEF Valid
<1>3. f \in Frames /\ f.pt = "exec" /\ f.b = x /\ f.fr = FALSE /\ cs' = Nested(f)
  BY <1>1, <1>2 DEF Frame, Frames, Enter
<1> HIDE DEF f
<1>4. Top' = f
  BY <1>1, <1>3, NestedFacts DEF Top
<1>5. TopLinked'
  <2>1. ChainOf(Top.b)' = c
    BY <1>1, <1>2, <1>3, <1>4 DEF ChainOf
  <2> QED BY <1>1, <1>2, <1>3, <1>4, <2>1 DEF TopLinked
<1>6. /\ TokenOf(cs', rep', c) = SC!Fresh(x)
      /\ Alone => \A d \in Chains \ {c} : TokenOf(cs', rep', d) = TokenOf(cs, rep, d)
  <2>1. ChainOf(f.b) = c
    BY <1>2, <1>3
  <2>2. /\ TokenOf(Nested(f), rep', c) = [b |-> f.b, back |-> f.fr]
        /\ \A d \in Chains \ {c} : rep'[d] = rep[d] => TokenOf(Nested(f), rep', d) = TokenOf(cs, rep, d)
    BY <1>1, <1>3, <2>1, NestedTokens
  <2> QED BY <1>3, <2>2 DEF Alone, SC!Fresh
<1> QED BY <1>1, <1>5, <1>6, LinkedKept, MovesOnly

\* Where the block that is executed is, and what can be said of its queue.
LEMMA Here ==
  ASSUME RInv, Valid, cs # <<>>
  PROVE  LET b == Top.b  c == ChainOf(b)  t == AllTokens(cs, rep)[c] IN
         /\ b \in Blocks /\ c \in Chains /\ b # None
         /\ Top.pt = "exec" /\ Top.fr => t = SC!Back(b) /\ Ends(rep[c], b)
         /\ Top.pt = "exec" /\ ~Top.fr =>
              t = SC!Fresh(b) /\ Inside(rep[c], b) /\ prog.parent[b] = Latest(rep[c])
         /\ Top.pt = "back" /\ Op(b) = "call" =>
              t = SC!Back(b) /\ Inside(rep[c], b) /\ prog.parent[b] = Latest(rep[c])
         /\ Top.pt = "back" /\ Op(b) # "call" => t = Resting(rep[c])
<1>1. /\ Top.b \in Blocks /\ ChainOf(Top.b) \in Chains /\ Top.b # None
      /\ Len(cs) \in 1..Len(cs) /\ Top = cs[Len(cs)] /\ IInv /\ Top.fr \in BOOLEAN
  BY TopTyped, NoneIsNoBlock DEF RInv, IInv, Frames
<1>2. AllTokens(cs, rep)[ChainOf(Top.b)] = Held(Top, rep[ChainOf(Top.b)])
  BY <1>1, TopToken DEF AllTokens
<1>3. CASE Top.pt = "exec"
  <2>1. IF Top.fr THEN Ends(rep[ChainOf(Top.b)], Top.b) ELSE Inside(rep[ChainOf(Top.b)], Top.b)
    BY <1>1, <1>3 DEF IInv, AtTop
  <2>2. ~Top.fr => prog.parent[Top.b] = Latest(rep[ChainOf(Top.b)])
    BY <1>3 DEF RInv, Linked, TopLinked
  <2>3. Held(Top, rep[ChainOf(Top.b)]) = IF Top.fr THEN SC!Back(Top.b) ELSE SC!Fresh(Top.b)
    BY <1>1, <1>3 DEF Held, SC!Back, SC!Fresh
  <2> QED BY <1>1, <1>2, <1>3, <2>1, <2>2, <2>3
<1>4. CASE Top.pt = "back"
  <2>1. Op(Top.b) = "call" =>
          Inside(rep[ChainOf(Top.b)], Top.b) /\ prog.parent[Top.b] = Latest(rep[ChainOf(Top.b)])
    BY <1>1, <1>4 DEF RInv, Linked, CallsLinked, IInv, CallsInProgress
  <2> QED BY <1>1, <1>2, <1>4, <2>1 DEF Held, SC!Back
<1> QED BY <1>1, <1>3, <1>4
-----------------------------------------------------------------------------
(* The bodies still to start.                                              *)

LEMMA BegunFacts ==
  ASSUME AllSequential, IInv, Valid, Handled, StackElements
  PROVE  /\ \A d \in Blocks : d # Top.b => (BegunIn(cs', d) <=> BegunIn(cs, d))
         /\ BegunIn(cs', Top.b) <=> Below
         /\ BegunIn(cs, Top.b) <=> Top.pt # "exec"
<1> DEFINE n == Len(cs)
<1>1. n \in Nat /\ n \in 1..n /\ Top = cs[n] /\ cs # <<>> /\ Len(cs') \in Nat
      /\ \A k \in 1..n : k = n \/ (k \in 1..n-1 /\ k < n)
  <2>1. n \in Nat /\ n \in 1..n /\ Top = cs[n] /\ cs # <<>> /\ Len(cs') \in Nat
    BY Typed, TopTyped DEF IInv, Handled, StackElements
  <2> QED BY <2>1
<1>2. \A k \in 1..n-1 : k \in 1..Len(cs') /\ cs'[k].b = cs[k].b /\ cs'[k].pt # "exec"
  BY DEF StackElements
<1>3. ASSUME NEW d \in Blocks, d # Top.b, BegunIn(cs, d) PROVE BegunIn(cs', d)
  <2>1. PICK k \in 1..n : cs[k].b = d /\ cs[k].pt # "exec"
    BY <1>3 DEF BegunIn
  <2>2. k \in 1..n-1
    BY <1>1, <1>3, <2>1
  <2> QED BY <1>2, <2>1, <2>2 DEF BegunIn
<1>4. ASSUME NEW d \in Blocks, d # Top.b, BegunIn(cs', d) PROVE BegunIn(cs, d)
  <2>1. PICK k \in 1..Len(cs') : cs'[k].b = d /\ cs'[k].pt # "exec"
    BY <1>4 DEF BegunIn
  <2>2. \/ k \in 1..n /\ cs'[k].b = cs[k].b /\ cs[k].pt = "sub"
        \/ cs'[k].b = Top.b
    BY <1>1, <2>1, Lower
  <2>3. k \in 1..n /\ cs[k].b = d /\ cs[k].pt = "sub"
    BY <1>4, <2>1, <2>2
  <2> QED BY <2>3 DEF BegunIn
<1>5. ASSUME BegunIn(cs', Top.b) PROVE Below
  <2>1. PICK k \in 1..Len(cs') : cs'[k].b = Top.b /\ cs'[k].pt # "exec"
    BY <1>5 DEF BegunIn
  <2>2. Below \/ (k \in 1..n /\ k < n /\ cs[k].b = Top.b)
    BY <1>1, <2>1, Lower
  <2>3. ~(k \in 1..n /\ k < n /\ cs[k].b = Top.b)
    BY <1>1, StackFacts
  <2> QED BY <2>2, <2>3
<1>6. ASSUME Below PROVE BegunIn(cs', Top.b)
  BY <1>1, <1>6 DEF Below, BegunIn
<1>7. ASSUME BegunIn(cs, Top.b) PROVE Top.pt # "exec"
  <2>1. PICK k \in 1..n : cs[k].b = Top.b /\ cs[k].pt # "exec"
    BY <1>7 DEF BegunIn
  <2>2. k = n
    BY <1>1, <2>1, StackFacts
  <2> QED BY <1>1, <2>1, <2>2
<1>8. ASSUME Top.pt # "exec" PROVE BegunIn(cs, Top.b)
  BY <1>1, <1>8 DEF BegunIn
<1> QED BY <1>3, <1>4, <1>5, <1>6, <1>7, <1>8

LEMMA LeftMoves ==
  ASSUME AllSequential, RInv, Handled
  PROVE  LET b == Top.b IN
         /\ AllLeft(cs', times') = [AllLeft(cs, times) EXCEPT ![b] =
                                      IF Op(b) = "repeat" /\ Below THEN times'[b] - 1 ELSE times'[b]]
         /\ AllLeft(cs, times)[b] = IF Op(b) = "repeat" /\ Top.pt # "exec" THEN times[b] - 1 ELSE times[b]
<1>1. Valid /\ StackElements /\ IInv /\ Top.b \in Blocks
  BY ProgramValid, StackElementwise, TopTyped DEF RInv, IInv, Handled
<1>2. \A d \in Blocks \ {Top.b} : times'[d] = times[d]
  BY DEF Handled, RestChange
<1>3. /\ \A d \in Blocks : d # Top.b => (BegunIn(cs', d) <=> BegunIn(cs, d))
      /\ BegunIn(cs', Top.b) <=> Below
      /\ BegunIn(cs, Top.b) <=> Top.pt # "exec"
  BY <1>1, BegunFacts
<1> HIDE DEF BegunIn, Below
<1> QED BY <1>1, <1>2, <1>3 DEF AllLeft

\* A step that leaves the repeat blocks alone.
LEMMA LeftSame ==
  ASSUME AllSequential, RInv, Handled, Op(Top.b) # "repeat", times' = times
  PROVE  AllLeft(cs', times') = AllLeft(cs, times)
<1>1. Top.b \in Blocks
  BY ProgramValid, TopTyped DEF RInv, IInv, Handled
<1>2. AllLeft(cs', times') = [AllLeft(cs, times) EXCEPT ![Top.b] = times[Top.b]]
  BY LeftMoves
<1>3. AllLeft(cs, times)[Top.b] = times[Top.b]
  BY LeftMoves
<1> QED BY <1>1, <1>2, <1>3 DEF AllLeft
-----------------------------------------------------------------------------
(* Steps of Scripts, said with the stack and the queues.                   *)

\* Scripts does not notice the step, or takes one of its own.
Followed == Linked' /\ (SC!Next \/ UNCHANGED SC!vars)

\* What every handler starts from.
LEMMA Handling ==
  ASSUME AllSequential, RInv, Step
  PROVE  LET b == Top.b  c == ChainOf(b) IN
         /\ Handled /\ Valid /\ IInv /\ cs # <<>> /\ prog' = prog /\ Op(b) = prog.op[b]
         /\ b \in Blocks /\ c \in Chains /\ b # None /\ Where[c] = AllTokens(cs, rep)[c]
<1>1. Handled /\ Valid /\ IInv /\ cs # <<>> /\ prog' = prog
  BY StepHandled, ProgramValid DEF RInv, IInv, Handled, RestChange
<1> QED BY <1>1, Here, WhereNow DEF Op
\* Only the token of the chain moves.
LEMMA Moved ==
  ASSUME Handled, Alone, NEW t, Moves(t)
  PROVE  LET c == ChainOf(Top.b) IN
         /\ SC!Goto(c, t)
         /\ c \in Chains /\ t = AllTokens(cs, rep)[c] => Where' = Where
<1>1. prog' = prog
  BY DEF Handled, RestChange
<1>2. Where' = [Where EXCEPT ![ChainOf(Top.b)] = t]
  BY <1>1, WhereNow DEF Moves
<1>3. ChainOf(Top.b) \in Chains /\ t = AllTokens(cs, rep)[ChainOf(Top.b)] => Where' = Where
  BY <1>1, <1>2, WhereNow DEF AllTokens
<1> QED BY <1>1, <1>2, <1>3 DEF SC!Goto
\* The repeat blocks are left alone.
LEMMA PendingSame ==
  ASSUME AllSequential, RInv, Handled, Op(Top.b) # "repeat", times' = times
  PROVE  UNCHANGED Pending
BY LeftSame, WhereNow DEF Handled, RestChange

LEMMA RequeueLinks ==
  ASSUME RInv, Valid, cs # <<>>, Top.pt = "exec"
  PROVE  LET b == Top.b  c == ChainOf(b) IN
         /\ rep' = Requeued => LinkChange /\ Alone /\ Resting(rep'[c]) = SC!Back(b) /\ Latest(rep'[c]) = b
         /\ rep' = Removed(Requeued, b) => LinkChange /\ Alone /\ prog.parent[b] = Latest(rep'[c])
<1>1. CASE Top.fr
  BY <1>1, Here, OwnLinks DEF Requeued
<1>2. CASE ~Top.fr
  <2>1. /\ Inside(rep[ChainOf(Top.b)], Top.b) /\ prog.parent[Top.b] = Latest(rep[ChainOf(Top.b)])
        /\ Requeued = Added(rep, Top.b)
    BY <1>2, Here DEF Requeued
  <2>2. Removed(Added(rep, Top.b), Top.b) = rep
    BY <2>1, OwnQueue DEF RInv
  <2> QED BY <2>1, <2>2, OwnLinks
<1> QED BY <1>1, <1>2

LEMMA BodyWalk ==
  ASSUME AllSequential, RInv, Handled, Top.pt = "exec", rep' = Requeued, cs' = Body
  PROVE  Linked' /\ Moves(SC!Into(Top.b, prog.sub[Top.b]))
<1>1. Valid /\ cs # <<>>
  BY ProgramValid DEF RInv, IInv, Handled
<1>2. /\ LinkChange /\ Resting(rep'[ChainOf(Top.b)]) = SC!Back(Top.b)
      /\ Latest(rep'[ChainOf(Top.b)]) = Top.b
  BY <1>1, RequeueLinks
<1>3. CASE prog.sub[Top.b] = None
  BY <1>2, <1>3, LeaveWalk DEF Body, SC!Into
<1>4. CASE prog.sub[Top.b] # None
  BY <1>2, <1>4, EnterWalk DEF Body, SC!Into
<1> QED BY <1>3, <1>4

LEMMA DoStep ==
  ASSUME AllSequential, RInv, Do \/ Broadcast
  PROVE  Followed
<1> DEFINE b == Top.b
           c == ChainOf(b)
<1>1. /\ Handled /\ Valid /\ IInv /\ cs # <<>> /\ prog' = prog /\ Op(b) = prog.op[b]
      /\ b \in Blocks /\ c \in Chains /\ b # None /\ Where[c] = AllTokens(cs, rep)[c]
  BY Handling DEF Step
<1>2. /\ Top.pt = "exec" /\ Op(b) \in {"whenkey", "whenreceive", "definition", "do", "broadcast"}
      /\ rep' = rep /\ times' = times /\ cs' = Continue
  BY DEF Do, Broadcast, At, data
<1>3. ~Top.fr
  BY <1>1, <1>2, Requeue DEF Queueable, Holders
<1>4. Where[c] = SC!Fresh(b) /\ prog.parent[b] = Latest(rep'[c])
  BY <1>1, <1>2, <1>3, Here DEF RInv
<1>5. Linked' /\ SC!Goto(c, SC!After(b))
  BY <1>1, <1>2, <1>4, OwnLinks, ContinueWalk, Moved
<1>6. UNCHANGED Pending
  BY <1>1, <1>2, PendingSame
<1>7. SC!Do(c)
  BY <1>1, <1>2, <1>4, <1>5, <1>6 DEF SC!Do, SC!Plain, SC!On, SC!Goto, SC!Fresh
<1> QED BY <1>1, <1>5, <1>7 DEF Followed, SC!Next

LEMMA IfStep ==
  ASSUME AllSequential, RInv, If
  PROVE  Followed
<1> DEFINE b == Top.b
           c == ChainOf(b)
<1>1. /\ Handled /\ Valid /\ IInv /\ cs # <<>> /\ prog' = prog /\ Op(b) = prog.op[b]
      /\ b \in Blocks /\ c \in Chains /\ b # None /\ Where[c] = AllTokens(cs, rep)[c]
  BY Handling DEF Step
<1>2. Top.pt = "exec" /\ Op(b) = "if" /\ times' = times
  BY DEF If, At, data
<1>3. UNCHANGED Pending
  BY <1>1, <1>2, PendingSame
<1>4. CASE Top.fr /\ rep' = Removed(rep, b) /\ cs' = Continue
  <2>1. Linked' /\ SC!Goto(c, SC!After(b))
    BY <1>1, <1>2, <1>4, Here, OwnLinks, ContinueWalk, Moved
  <2>2. Where[c].b = b /\ Where[c].back
    BY <1>1, <1>2, <1>4, Here DEF SC!Back
  <2>3. SC!If(c)
    BY <1>1, <1>2, <1>3, <2>1, <2>2 DEF SC!If, SC!On, SC!Goto
  <2> QED BY <1>1, <2>1, <2>3 DEF Followed, SC!Next
<1>5. ASSUME ~Top.fr, NEW s \in {prog.sub[b], prog.sub2[b]},
             IF s = None THEN rep' = Removed(Added(rep, b), b) /\ cs' = Continue
             ELSE rep' = Added(rep, b) /\ cs' = Enter(s)
      PROVE  Followed
  <2>1. Where[c] = SC!Fresh(b) /\ Inside(rep[c], b) /\ prog.parent[b] = Latest(rep[c])
    BY <1>1, <1>2, <1>5, Here
  <2>2. Linked' /\ SC!Goto(c, SC!Branch(b, s))
    <3>1. CASE s = None
      <4>1. rep' = rep /\ cs' = Continue
        BY <1>1, <1>5, <2>1, <3>1, OwnQueue
      <4>2. LinkChange /\ Alone /\ prog.parent[b] = Latest(rep'[c])
        BY <1>1, <2>1, <4>1, OwnLinks
      <4> QED BY <1>1, <3>1, <4>1, <4>2, ContinueWalk, Moved DEF SC!Branch
    <3>2. CASE s # None
      <4>1. LinkChange /\ Alone /\ Latest(rep'[c]) = b
        BY <1>1, <1>5, <2>1, <3>2, OwnLinks
      <4> QED BY <1>1, <1>5, <3>2, <4>1, EnterWalk, Moved DEF SC!Branch
    <3> QED BY <3>1, <3>2
  <2>3. Where[c].b = b /\ ~Where[c].back
    BY <2>1 DEF SC!Fresh
  <2>4. SC!If(c)
    BY <1>1, <1>2, <1>3, <1>5, <2>2, <2>3 DEF SC!If, SC!On, SC!Goto
  <2> QED BY <1>1, <2>2, <2>4 DEF Followed, SC!Next
<1> QED BY <1>4, <1>5 DEF If

LEMMA IfBackStep ==
  ASSUME AllSequential, RInv, IfBack
  PROVE  Followed
<1> DEFINE b == Top.b
           c == ChainOf(b)
<1>1. /\ Handled /\ Valid /\ IInv /\ cs # <<>> /\ prog' = prog /\ Op(b) = prog.op[b]
      /\ b \in Blocks /\ c \in Chains /\ b # None /\ Where[c] = AllTokens(cs, rep)[c]
  BY Handling DEF Step
<1>2. Top.pt = "back" /\ Op(b) = "if" /\ times' = times
  BY DEF IfBack, At, data
<1>3. UNCHANGED Pending /\ Where[c] = Resting(rep[c])
  BY <1>1, <1>2, PendingSame, Here
<1>4. CASE rep' = rep /\ cs' = Leave
  <2>1. Linked' /\ UNCHANGED Where
    BY <1>1, <1>2, <1>3, <1>4, OwnLinks, LeaveWalk, Moved
  <2> QED BY <1>1, <1>3, <2>1 DEF Followed, SC!vars
<1>5. CASE Ends(rep[c], b) /\ rep' = Removed(rep, b) /\ cs' = Continue
  <2>1. Linked' /\ SC!Goto(c, SC!After(b)) /\ Where[c] = SC!Back(b)
    BY <1>1, <1>3, <1>5, OwnLinks, ContinueWalk, Moved
  <2>2. Where[c].b = b /\ Where[c].back
    BY <2>1 DEF SC!Back
  <2>3. SC!If(c)
    BY <1>1, <1>2, <1>3, <2>1, <2>2 DEF SC!If, SC!On, SC!Goto
  <2> QED BY <1>1, <2>1, <2>3 DEF Followed, SC!Next
<1> QED BY <1>4, <1>5 DEF IfBack, Ends

\* Whether a body has been begun.
LEMMA BelowOrNot ==
  ASSUME IInv, Valid, cs # <<>>
  PROVE  /\ cs' = Leave \/ cs' = Continue => ~Below
         /\ \A x \in Blocks : cs' = Enter(x) => Below
<1>1. cs \in Seq(Frames) /\ Len(cs) \in Nat /\ Top \in Frames
  BY Typed, TopTyped DEF IInv
<1>2. Len(Leave) = Len(cs) - 1
  BY <1>1, LeaveFacts
<1>3. cs' = Leave => ~Below
  BY <1>1, <1>2 DEF Below
<1>4. cs' = Continue => ~Below
  <2>1. CASE prog.next[Top.b] = None
    BY <1>3, <2>1 DEF Continue
  <2>2. CASE prog.next[Top.b] # None
    <3>1. prog.next[Top.b] \in Blocks /\ Continue = GoOn(prog.next[Top.b])
      BY <2>2, TopTyped DEF Valid, IInv, Continue, GoOn
    <3>2. Len(Continue) = Len(cs)
      BY <1>1, <3>1, GoOnFacts
    <3> QED BY <1>1, <3>2 DEF Below
  <2> QED BY <2>1, <2>2
<1>5. ASSUME NEW x \in Blocks, cs' = Enter(x) PROVE Below
  <2> DEFINE f == Frame(x, FALSE, Top.ws)
  <2>1. f \in Frames /\ cs' = Nested(f)
    BY <1>1, <1>5 DEF Frame, Frames, Enter
  <2> HIDE DEF f
  <2>2. Len(cs) \in 1..Len(cs) /\ Top = cs[Len(cs)]
    BY TopTyped DEF IInv
  <2>3. /\ Len(Nested(f)) = Len(cs) + 1
        /\ \A k \in 1..Len(cs) : Nested(f)[k].b = cs[k].b /\ (~(k < Len(cs)) => Nested(f)[k].pt = "sub")
    BY <1>1, <2>1, NestedFacts
  <2> QED BY <1>1, <2>1, <2>2, <2>3 DEF Below
<1> QED BY <1>3, <1>4, <1>5

LEMMA RepeatStep ==
  ASSUME AllSequential, RInv, Repeat
  PROVE  Followed
<1> DEFINE b == Top.b
           c == ChainOf(b)
<1>1. /\ Handled /\ Valid /\ IInv /\ cs # <<>> /\ prog' = prog /\ Op(b) = prog.op[b]
      /\ b \in Blocks /\ c \in Chains /\ b # None /\ Where[c] = AllTokens(cs, rep)[c]
  BY Handling DEF Step
<1>2. Top.pt = "exec" /\ Op(b) = "repeat"
  BY DEF Repeat, At
<1>3. times \in [Blocks -> 0..MaxTimes] /\ MaxTimes \in Nat
  BY <1>1, BoundsNat, Typed DEF IInv
<1>4. Pending[b] = times[b] /\ Pending' = [Pending EXCEPT ![b] = IF Below THEN times'[b] - 1 ELSE times'[b]]
  BY <1>1, <1>2, LeftMoves, WhereNow
<1>5. Where[c].b = b /\ (Where[c].back <=> Top.fr)
  BY <1>1, <1>2, Here DEF SC!Back, SC!Fresh
<1>6. PICK n \in IF Top.fr THEN {times[b]} ELSE 0..MaxTimes :
       IF n <= 0
       THEN rep' = Removed(Requeued, b) /\ cs' = Continue /\ times' = [times EXCEPT ![b] = n]
       ELSE /\ rep' = Requeued /\ cs' = Body
            /\ times' = [times EXCEPT ![b] = IF prog.sub[b] = None THEN n - 1 ELSE n]
  BY DEF Repeat
<1>7. n \in 0..MaxTimes /\ n \in Nat /\ n \in IF Where[c].back THEN {Pending[b]} ELSE 0..MaxTimes
  BY <1>1, <1>3, <1>4, <1>5, <1>6
<1>8. CASE n = 0
  <2>1. rep' = Removed(Requeued, b) /\ cs' = Continue /\ times'[b] = 0
    BY <1>1, <1>3, <1>6, <1>8
  <2>2. Linked' /\ SC!Goto(c, SC!After(b))
    BY <1>1, <1>2, <2>1, RequeueLinks, ContinueWalk, Moved
  <2>3. Pending' = [Pending EXCEPT ![b] = 0]
    BY <1>1, <1>4, <2>1, BelowOrNot
  <2>4. SC!Repeat(c)
    BY <1>1, <1>2, <1>5, <1>7, <1>8, <2>2, <2>3 DEF SC!Repeat, SC!On, SC!Goto
  <2> QED BY <1>1, <2>2, <2>4 DEF Followed, SC!Next
<1>9. CASE n # 0
  <2>1. /\ rep' = Requeued /\ cs' = Body
        /\ times'[b] = IF prog.sub[b] = None THEN n - 1 ELSE n
    <3>1. ~(n <= 0)
      BY <1>7, <1>9
    <3> QED BY <1>1, <1>3, <1>6, <3>1
  <2>2. Linked' /\ SC!Goto(c, SC!Into(b, prog.sub[b]))
    BY <1>1, <1>2, <2>1, RequeueLinks, BodyWalk, Moved
  <2>3. Pending' = [Pending EXCEPT ![b] = n - 1]
    <3>1. CASE prog.sub[b] = None
      <4>1. ~Below
        BY <1>1, <2>1, <3>1, BelowOrNot DEF Body
      <4> QED BY <1>4, <2>1, <3>1, <4>1
    <3>2. CASE prog.sub[b] # None
      <4>1. Below
        BY <1>1, <2>1, <3>2, BelowOrNot DEF Body, Valid
      <4> QED BY <1>4, <2>1, <3>2, <4>1
    <3> QED BY <3>1, <3>2
  <2>4. SC!Repeat(c)
    BY <1>1, <1>2, <1>5, <1>7, <1>9, <2>2, <2>3 DEF SC!Repeat, SC!On, SC!Goto
  <2> QED BY <1>1, <2>2, <2>4 DEF Followed, SC!Next
<1> QED BY <1>8, <1>9

LEMMA BackStep ==
  ASSUME AllSequential, RInv, RepeatBack \/ LoopBack
  PROVE  Followed
<1> DEFINE b == Top.b
           c == ChainOf(b)
<1>1. /\ Handled /\ Valid /\ IInv /\ cs # <<>> /\ prog' = prog /\ Op(b) = prog.op[b]
      /\ b \in Blocks /\ c \in Chains /\ b # None /\ Where[c] = AllTokens(cs, rep)[c]
  BY Handling DEF Step
<1>2. /\ Top.pt = "back" /\ Op(b) \in {"repeat", "until", "forever"} /\ rep' = rep /\ cs' = Leave
      /\ times' = IF Op(b) = "repeat" THEN [times EXCEPT ![b] = @ - 1] ELSE times
  BY DEF RepeatBack, LoopBack, At, data
<1>3. Linked' /\ UNCHANGED Where
  BY <1>1, <1>2, Here, OwnLinks, LeaveWalk, Moved
<1>4. CASE Op(b) = "repeat"
  <2>1. times'[b] = times[b] - 1
    BY <1>1, <1>2, <1>4, Typed DEF IInv
  <2>2. Pending[b] = times[b] - 1 /\ Pending' = [Pending EXCEPT ![b] = times'[b]]
    BY <1>1, <1>2, <1>4, LeftMoves, WhereNow, BelowOrNot
  <2>3. UNCHANGED Pending
    BY <1>1, <2>1, <2>2 DEF Pending
  <2> QED BY <1>1, <1>3, <2>3 DEF Followed, SC!vars
<1>5. CASE Op(b) # "repeat"
  <2>1. UNCHANGED Pending
    BY <1>1, <1>2, <1>5, PendingSame
  <2> QED BY <1>1, <1>3, <2>1 DEF Followed, SC!vars
<1> QED BY <1>4, <1>5

LEMMA LoopStep ==
  ASSUME AllSequential, RInv, Until \/ Forever
  PROVE  Followed
<1> DEFINE b == Top.b
           c == ChainOf(b)
<1>1. /\ Handled /\ Valid /\ IInv /\ cs # <<>> /\ prog' = prog /\ Op(b) = prog.op[b]
      /\ b \in Blocks /\ c \in Chains /\ b # None /\ Where[c] = AllTokens(cs, rep)[c]
  BY Handling DEF Step
<1>2. Top.pt = "exec" /\ Op(b) \in {"until", "forever"} /\ times' = times
  BY DEF Until, Forever, At, data
<1>3. UNCHANGED Pending /\ Where[c].b = b
  BY <1>1, <1>2, PendingSame, Here DEF SC!Back, SC!Fresh
<1>4. CASE Op(b) = "until" /\ rep' = Removed(Requeued, b) /\ cs' = Continue
  <2>1. Linked' /\ SC!Goto(c, SC!After(b))
    BY <1>1, <1>2, <1>4, RequeueLinks, ContinueWalk, Moved
  <2>2. SC!Until(c)
    BY <1>1, <1>3, <1>4, <2>1 DEF SC!Until, SC!On, SC!Goto
  <2> QED BY <1>1, <2>1, <2>2 DEF Followed, SC!Next
<1>5. CASE rep' = Requeued /\ cs' = Body
  <2>1. Linked' /\ SC!Goto(c, SC!Into(b, prog.sub[b]))
    BY <1>1, <1>2, <1>5, RequeueLinks, BodyWalk, Moved
  <2>2. SC!Until(c) \/ SC!Forever(c)
    BY <1>1, <1>2, <1>3, <2>1 DEF SC!Until, SC!Forever, SC!On, SC!Goto
  <2> QED BY <1>1, <2>1, <2>2 DEF Followed, SC!Next
<1> QED BY <1>4, <1>5 DEF Until, Forever, At

LEMMA WaitStep ==
  ASSUME AllSequential, RInv, Wait \/ Elapsed \/ WaitUntil \/ BroadcastAndWait \/ BroadcastWaiting
  PROVE  Followed
<1> DEFINE b == Top.b
           c == ChainOf(b)
<1>1. /\ Handled /\ Valid /\ IInv /\ cs # <<>> /\ prog' = prog /\ Op(b) = prog.op[b]
      /\ b \in Blocks /\ c \in Chains /\ b # None /\ Where[c] = AllTokens(cs, rep)[c]
  BY Handling DEF Step
<1>2. Top.pt = "exec" /\ Op(b) \in {"wait", "waituntil", "bwait"} /\ times' = times
  BY DEF Wait, Elapsed, WaitUntil, BroadcastAndWait, BroadcastWaiting, At, data
<1>3. UNCHANGED Pending /\ Where[c].b = b /\ (Where[c].back <=> Top.fr)
  BY <1>1, <1>2, PendingSame, Here DEF SC!Back, SC!Fresh
\* The block waits,
<1>4. ASSUME rep' = Requeued, cs' = Leave PROVE Followed
  <2>1. Linked' /\ SC!Goto(c, SC!Back(b))
    BY <1>1, <1>2, <1>4, RequeueLinks, LeaveWalk, Moved
  <2>2. SC!Wait(c)
    BY <1>1, <1>2, <1>3, <2>1 DEF SC!Wait, SC!On, SC!Goto
  <2> QED BY <1>1, <2>1, <2>2 DEF Followed, SC!Next
\* or its chain goes on.
<1>5. ASSUME rep' = Removed(Requeued, b), cs' = Continue, Top.fr \/ Op(b) # "wait" PROVE Followed
  <2>1. Linked' /\ SC!Goto(c, SC!After(b))
    BY <1>1, <1>2, <1>5, RequeueLinks, ContinueWalk, Moved
  <2>2. SC!Wait(c)
    BY <1>1, <1>2, <1>3, <1>5, <2>1 DEF SC!Wait, SC!On, SC!Goto
  <2> QED BY <1>1, <2>1, <2>2 DEF Followed, SC!Next
<1>6. CASE Wait \/ Elapsed \/ WaitUntil
  BY <1>4, <1>5, <1>6 DEF Wait, Elapsed, WaitUntil, Requeued, At
<1>7. CASE BroadcastAndWait
  <2>1. Op(b) # "wait" /\ ~Top.fr /\ Requeued = Added(rep, b)
    BY <1>7 DEF BroadcastAndWait, At, Requeued
  <2>2. Inside(rep[c], b)
    BY <1>1, <1>2, <2>1, Here
  <2>3. Removed(Requeued, b) = rep
    BY <1>1, <2>1, <2>2, OwnQueue
  <2> QED BY <1>4, <1>5, <1>7, <2>1, <2>3 DEF BroadcastAndWait
<1>8. CASE BroadcastWaiting
  BY <1>4, <1>5, <1>8 DEF BroadcastWaiting, Requeued
<1> QED BY <1>6, <1>7, <1>8

LEMMA StopThisStep ==
  ASSUME AllSequential, RInv, StopThis
  PROVE  Followed
<1> DEFINE b == Top.b
           c == ChainOf(b)
<1>1. /\ Handled /\ Valid /\ IInv /\ cs # <<>> /\ prog' = prog /\ Op(b) = prog.op[b]
      /\ b \in Blocks /\ c \in Chains /\ b # None /\ Where[c] = AllTokens(cs, rep)[c]
  BY Handling DEF Step
<1>2. /\ Top.pt = "exec" /\ Op(b) = "stopthis" /\ times' = times /\ cs' = Leave
      /\ rep' = [rep EXCEPT ![c] = <<>>]
  BY DEF StopThis, At, data
<1>3. rep'[c] = <<>> /\ LinkChange /\ Alone /\ Resting(rep'[c]) = SC!Done
  BY <1>1, <1>2, Typed DEF IInv, LinkChange, Alone, Resting, SC!Done
<1>4. Linked' /\ SC!Goto(c, SC!Done)
  BY <1>1, <1>2, <1>3, LeaveWalk, Moved
<1>5. UNCHANGED Pending /\ Where[c].b = b
  BY <1>1, <1>2, PendingSame, Here DEF SC!Back, SC!Fresh
<1>6. SC!StopThis(c)
  BY <1>1, <1>2, <1>4, <1>5 DEF SC!StopThis, SC!On, SC!Goto
<1> QED BY <1>1, <1>4, <1>6 DEF Followed, SC!Next

LEMMA TokenTyped ==
  ASSUME IInv, Valid, NEW c \in Chains
  PROVE  TokenOf(cs, rep, c).b \in Blocks \cup {None}
<1>1. /\ rep[c] \in Seq(Blocks) /\ cs \in Seq(Frames) /\ Len(cs) \in Nat
      /\ \A k \in 1..Len(cs) : cs[k].b \in Blocks
  BY Typed DEF IInv
<1>2. Resting(rep[c]).b \in Blocks \cup {None}
  <2>1. rep[c] # <<>> => Len(rep[c]) \in 1..Len(rep[c])
    BY <1>1
  <2> QED BY <1>1, <2>1 DEF Resting
<1>3. \A k \in 1..Len(cs) : Held(cs[k], rep[c]).b \in Blocks \cup {None}
  BY <1>1, <1>2 DEF Held
<1> DEFINE K == CallsOf(cs, c)
           g == CHOOSE k \in K : \A j \in K : j <= k
<1>4. CASE K = {}
  BY <1>2, <1>4 DEF TokenOf
<1>5. CASE K # {}
  <2>1. K \in SUBSET (1..Len(cs))
    BY DEF CallsOf
  <2>2. \E k \in K : \A j \in K : j <= k
    <3> HIDE DEF K
    <3> QED BY <1>1, <1>5, <2>1, GreatestExists
  <2>3. g \in 1..Len(cs)
    <3>1. g \in K
      BY <2>2
    <3> QED BY <2>1, <3>1
  <2> QED BY <1>3, <1>5, <2>3 DEF TokenOf
<1> QED BY <1>4, <1>5
\* A chain that no block calls runs on behalf of no other chain.
LEMMA NotOnBehalf ==
  ASSUME IInv, Valid, NEW c \in Chains, ~Procedure(prog, c), NEW d \in Chains, d # c
  PROVE  c \notin SC!Thread(d)
<1> DEFINE S == Chains \ {c}
<1>1. ASSUME NEW e \in S PROVE SC!Calling(e) \subseteq S
  <2>1. Where[e].b \in Blocks \cup {None}
    <3>1. Where[e] = TokenOf(cs, rep, e)
      BY DEF Where, Token, TokenOf, CallsOf, Held, Resting
    <3> QED BY <3>1, TokenTyped
  <2>2. SC!Calling(e) # {} => Where[e].b \in CallBlocks(prog) /\ SC!Calling(e) = {prog.calls[Where[e].b]}
    BY <2>1 DEF SC!Calling, CallBlocks
  <2>3. \A b \in CallBlocks(prog) : prog.calls[b] \in Chains /\ Procedure(prog, prog.calls[b])
    BY DEF Valid, CallBlocks, Op
  <2> QED BY <2>2, <2>3
<1>2. S \in SUBSET Chains /\ d \in S /\ c \notin S
  OBVIOUS
<1> QED BY <1>1, <1>2 DEF SC!Thread

LEMMA StopOtherStep ==
  ASSUME AllSequential, RInv, StopOther
  PROVE  Followed
<1> DEFINE b == Top.b
           c == ChainOf(b)
<1>1. /\ Handled /\ Valid /\ IInv /\ cs # <<>> /\ prog' = prog /\ Op(b) = prog.op[b]
      /\ b \in Blocks /\ c \in Chains /\ b # None /\ Where[c] = AllTokens(cs, rep)[c]
  BY Handling DEF Step
<1>2. /\ Top.pt = "exec" /\ Op(b) = "stopother" /\ times' = times /\ cs' = Continue
      /\ rep' = [d \in Chains |-> IF d = c THEN rep[d] ELSE <<>>]
  BY DEF StopOther, At, data
<1>3. ~Procedure(prog, c)
  BY <1>1, <1>2 DEF AllSequential, Sequential, IInv, ChainOf
<1>4. ~Top.fr
  BY <1>1, <1>2, Requeue DEF Queueable, Holders
<1>5. rep'[c] = rep[c] /\ (\A d \in Chains \ {c} : rep'[d] = <<>>) /\ LinkChange
  BY <1>1, <1>2 DEF LinkChange
<1>6. Where[c] = SC!Fresh(b) /\ prog.parent[b] = Latest(rep'[c])
  BY <1>1, <1>2, <1>4, <1>5, Here
<1>7. Linked' /\ TokenOf(cs', rep', c) = SC!After(b)
  BY <1>1, <1>2, <1>5, <1>6, ContinueWalk DEF Moves
<1>8. ASSUME NEW d \in Chains \ {c} PROVE TokenOf(cs', rep', d) = SC!Done
  <2>1. \A k \in 1..Len(cs') : ChainOf(cs'[k].b) # d
    BY <1>1, <1>2, <1>3, OneChainNext
  <2>2. cs' \in Seq(Frames)
    BY <1>1, StackElementwise DEF Handled, StackElements
  <2>3. TokenOf(cs', rep', d) = Resting(rep'[d])
    BY <2>1, <2>2, TokenRests
  <2> QED BY <1>5, <2>3 DEF Resting, SC!Done
<1>9. Where' = [d \in Chains |-> IF d = c THEN SC!After(b) ELSE SC!Done]
  BY <1>1, <1>7, <1>8, WhereNow DEF AllTokens
<1>10. \A d \in Chains : d # c => c \notin SC!Thread(d)
  BY <1>1, <1>3, NotOnBehalf
<1>11. Where[c].b = b
  BY <1>6 DEF SC!Fresh
<1>12. UNCHANGED Pending
  BY <1>1, <1>2, PendingSame
<1>13. Where' = [d \in Chains |-> IF d = c THEN SC!After(b)
                                  ELSE IF c \in SC!Thread(d) THEN Where[d] ELSE SC!Done]
  BY <1>9, <1>10
<1>14. SC!StopOther(c)
  BY <1>1, <1>2, <1>11, <1>12, <1>13 DEF SC!StopOther, SC!On
<1> QED BY <1>1, <1>7, <1>14 DEF Followed, SC!Next

LEMMA StopAllStep ==
  ASSUME AllSequential, RInv, StopAll
  PROVE  Followed
<1> DEFINE b == Top.b
           c == ChainOf(b)
<1>1. /\ Handled /\ Valid /\ IInv /\ cs # <<>> /\ prog' = prog /\ Op(b) = prog.op[b]
      /\ b \in Blocks /\ c \in Chains /\ b # None /\ Where[c] = AllTokens(cs, rep)[c]
  BY Handling DEF Step
<1>2. /\ Top.pt = "exec" /\ Op(b) = "stopall" /\ times' = times /\ cs' = Leave
      /\ rep' = [d \in Chains |-> <<>>]
  BY DEF StopAll, At
<1>3. ~Procedure(prog, c)
  BY <1>1, <1>2 DEF AllSequential, Sequential, IInv, ChainOf
<1>4. (\A d \in Chains : rep'[d] = <<>>) /\ LinkChange
  BY <1>1, <1>2 DEF LinkChange
<1>5. Linked' /\ TokenOf(cs', rep', c) = SC!Done
  BY <1>1, <1>2, <1>4, LeaveWalk DEF Moves, Resting, SC!Done
<1>6. ASSUME NEW d \in Chains \ {c} PROVE TokenOf(cs', rep', d) = SC!Done
  <2>1. \A k \in 1..Len(cs') : ChainOf(cs'[k].b) # d
    BY <1>1, <1>2, <1>3, OneChainNext
  <2>2. cs' \in Seq(Frames)
    BY <1>1, StackElementwise DEF Handled, StackElements
  <2>3. TokenOf(cs', rep', d) = Resting(rep'[d])
    BY <2>1, <2>2, TokenRests
  <2> QED BY <1>4, <2>3 DEF Resting, SC!Done
<1>7. Where' = [d \in Chains |-> SC!Done]
  BY <1>1, <1>5, <1>6, WhereNow DEF AllTokens
<1>8. UNCHANGED Pending /\ Where[c].b = b
  BY <1>1, <1>2, PendingSame, Here DEF SC!Back, SC!Fresh
<1>9. SC!StopAll(c)
  BY <1>1, <1>2, <1>7, <1>8 DEF SC!StopAll, SC!On
<1> QED BY <1>1, <1>5, <1>9 DEF Followed, SC!Next

\* The called procedure is another chain, and none of the calls in progress is of it.
LEMMA CalleeFacts ==
  ASSUME AllSequential, IInv, Valid, cs # <<>>, Op(Top.b) = "call"
  PROVE  LET c == ChainOf(Top.b)  e == Callee IN
         /\ e \in Chains /\ e # c /\ Procedure(prog, e) /\ NoRefresh \in BOOLEAN
         /\ prog.head[e] \in Blocks /\ ChainOf(prog.head[e]) = e
         /\ prog.parent[prog.head[e]] = None /\ Around(prog, prog.head[e]) = {}
         /\ TokenOf(cs, rep, e) = Resting(rep[e])
<1> DEFINE b == Top.b
           c == ChainOf(b)
           e == Callee
           n == Len(cs)
<1>1. /\ b \in Blocks /\ c \in Chains /\ e \in Chains /\ Procedure(prog, e) /\ b \in CallBlocks(prog)
      /\ cs \in Seq(Frames) /\ n \in 1..n /\ n \in Nat /\ Top = cs[n]
      /\ \A k \in 1..n : cs[k].b \in Blocks
  BY Typed, TopTyped DEF IInv, Valid, Callee, CallBlocks, Op
<1>2. Rank \in [Chains -> Nat] /\ Rank[e] < Rank[c]
  BY <1>1, RankFacts DEF IInv, Callee
<1>3. e # c
  BY <1>1, <1>2
<1>4. ASSUME NEW k \in 1..n PROVE ChainOf(cs[k].b) # e
  <2>1. ChainOf(cs[k].b) \in Chains
    BY <1>1 DEF Valid
  <2>2. k = n \/ k < n
    BY <1>1
  <2>3. ChainOf(cs[k].b) = c \/ Rank[ChainOf(cs[k].b)] > Rank[c]
    BY <1>1, <2>2 DEF IInv, StackNest
  <2> QED BY <1>1, <1>2, <1>3, <2>1, <2>3
<1>5. TokenOf(cs, rep, e) = Resting(rep[e])
  BY <1>1, <1>4, TokenRests
<1>6. /\ prog.head[e] \in Blocks /\ ChainOf(prog.head[e]) = e
      /\ prog.parent[prog.head[e]] = None /\ Around(prog, prog.head[e]) = {}
  BY <1>1, ProgramJoined DEF IInv, Valid, Procedure
<1> QED BY <1>1, <1>3, <1>5, <1>6 DEF NoRefresh

LEMMA CallStep ==
  ASSUME AllSequential, RInv, Call
  PROVE  Followed
<1> DEFINE b == Top.b
           c == ChainOf(b)
           e == Callee
           x == prog.head[e]
           f == Frame(x, FALSE, NoRefresh)
<1>1. /\ Handled /\ Valid /\ IInv /\ cs # <<>> /\ prog' = prog /\ Op(b) = prog.op[b]
      /\ b \in Blocks /\ c \in Chains /\ b # None /\ Where[c] = AllTokens(cs, rep)[c]
  BY Handling DEF Step
<1>2. /\ Top.pt = "exec" /\ Op(b) = "call" /\ ~Top.fr /\ times' = times /\ rep' = rep
      /\ cs' = Nested(f)
  BY DEF Call, At
<1>3. /\ e \in Chains /\ e # c /\ NoRefresh \in BOOLEAN /\ x \in Blocks /\ ChainOf(x) = e
      /\ prog.parent[x] = None /\ Around(prog, x) = {}
  BY <1>1, <1>2, CalleeFacts
<1>4. f \in Frames /\ f.pt = "exec" /\ f.b = x /\ f.fr = FALSE
  BY <1>3 DEF Frame, Frames
<1> HIDE DEF f
<1>5. Top' = f
  <2>1. Len(cs') = Len(cs) + 1 /\ cs'[Len(cs)+1] = f
    BY <1>1, <1>2, <1>4, NestedFacts, Typed DEF IInv
  <2> QED BY <2>1 DEF Top
<1>6. cs' # <<>>
  <2>1. Len(cs') = Len(cs) + 1 /\ Len(cs) \in Nat
    BY <1>1, <1>2, <1>4, NestedFacts, Typed DEF IInv
  <2> QED BY <2>1
<1>7. rep[e] = <<>>
  <2>1. IInv'
    BY <1>1, HandledKeeps
  <2>2. Inside(rep[e], x)
    <3>1. ChainOf(Top.b)' = e /\ Top'.b = x /\ Top'.pt = "exec" /\ Top'.fr = FALSE
      BY <1>1, <1>3, <1>4, <1>5 DEF ChainOf
    <3>2. \A k \in 1..Len(rep'[e]) : rep'[e][k] \in Around(prog', x)
      BY <1>6, <2>1, <3>1 DEF IInv, AtTop, Inside
    <3> QED BY <1>1, <1>2, <3>2 DEF Inside
  <2>3. \A k \in 1..Len(rep[e]) : FALSE
    BY <1>3, <2>2 DEF Inside
  <2>4. rep[e] \in Seq(Blocks) /\ Len(rep[e]) \in Nat
    BY <1>1, <1>3, Typed DEF IInv
  <2>5. rep[e] # <<>> => Len(rep[e]) \in 1..Len(rep[e])
    BY <2>4
  <2> QED BY <2>3, <2>5
<1>8. TopLinked'
  <2>1. ChainOf(Top.b)' = e
    BY <1>1, <1>3, <1>4, <1>5 DEF ChainOf
  <2>2. Latest(rep'[ChainOf(Top.b)'])  = None
    BY <1>2, <1>7, <2>1 DEF Latest
  <2> QED BY <1>1, <1>3, <1>4, <1>5, <2>2 DEF TopLinked
<1>9. Linked'
  <2>1. LinkChange
    BY <1>2 DEF LinkChange
  <2> QED BY <1>1, <1>8, <2>1, LinkedKept
<1>10. /\ TokenOf(cs', rep', e) = SC!Fresh(x) /\ TokenOf(cs', rep', c) = SC!Back(b)
       /\ \A d \in Chains \ {c, e} : TokenOf(cs', rep', d) = TokenOf(cs, rep, d)
  <2>1. /\ TokenOf(Nested(f), rep', ChainOf(f.b)) = [b |-> f.b, back |-> f.fr]
        /\ ChainOf(f.b) # c => TokenOf(Nested(f), rep', c) = [b |-> b, back |-> TRUE]
        /\ \A d \in Chains \ {c, ChainOf(f.b)} :
             rep'[d] = rep[d] => TokenOf(Nested(f), rep', d) = TokenOf(cs, rep, d)
    BY <1>1, <1>2, <1>4, NestedTokens
  <2>2. ChainOf(f.b) = e
    BY <1>3, <1>4, <1>4
  <2> QED BY <2>2, <1>2, <1>3, <1>4, <2>1 DEF SC!Fresh, SC!Back
<1>11. Where' = [Where EXCEPT ![c] = SC!Back(b), ![e] = SC!Fresh(x)]
  BY <1>1, <1>3, <1>10, WhereNow DEF AllTokens
<1>12. UNCHANGED Pending /\ Where[c].b = b /\ ~Where[c].back
  BY <1>1, <1>2, PendingSame, Here DEF SC!Fresh
<1>13. SC!Call(c)
  BY <1>1, <1>2, <1>11, <1>12 DEF SC!Call, SC!On, Callee
<1> QED BY <1>1, <1>9, <1>13 DEF Followed, SC!Next

LEMMA DrainStep ==
  ASSUME AllSequential, RInv, Drain
  PROVE  Followed
<1> DEFINE b == Top.b
           c == ChainOf(b)
           e == Callee
           x == rep[e][Len(rep[e])]
           f == Frame(x, TRUE, TRUE)
<1>1. /\ Handled /\ Valid /\ IInv /\ cs # <<>> /\ prog' = prog /\ Op(b) = prog.op[b]
      /\ b \in Blocks /\ c \in Chains /\ b # None /\ Where[c] = AllTokens(cs, rep)[c]
  BY Handling DEF Step
<1>2. /\ Top.pt = "back" /\ Op(b) = "call" /\ times' = times /\ rep' = rep /\ rep[e] # <<>>
      /\ cs' = Nested(f)
  BY DEF Drain, At, data, Active
<1>3. e \in Chains /\ e # c /\ TokenOf(cs, rep, e) = Resting(rep[e])
  BY <1>1, <1>2, CalleeFacts
<1>4. x \in Blocks /\ ChainOf(x) = e
  <2>1. rep[e] \in Seq(Blocks) /\ Len(rep[e]) \in 1..Len(rep[e])
    BY <1>1, <1>2, <1>3, Typed DEF IInv
  <2> QED BY <1>1, <1>3, <2>1 DEF IInv, QueueNest
<1>5. Resting(rep[e]) = [b |-> x, back |-> TRUE]
  BY <1>2 DEF Resting
<1> HIDE DEF x
<1>6. f \in Frames /\ f.pt = "exec" /\ f.b = x /\ f.fr = TRUE
  BY <1>4 DEF Frame, Frames
<1> HIDE DEF f
<1>7. Top' = f
  <2>1. Len(cs') = Len(cs) + 1 /\ cs'[Len(cs)+1] = f
    BY <1>1, <1>2, <1>6, NestedFacts, Typed DEF IInv
  <2> QED BY <2>1 DEF Top
<1>8. Linked'
  <2>1. LinkChange
    BY <1>2 DEF LinkChange
  <2>2. TopLinked'
    BY <1>6, <1>7 DEF TopLinked
  <2> QED BY <1>1, <2>1, <2>2, LinkedKept
<1>9. Where[c] = SC!Back(b)
  BY <1>1, <1>2, Here
<1>10. /\ TokenOf(cs', rep', e) = TokenOf(cs, rep, e) /\ TokenOf(cs', rep', c) = SC!Back(b)
       /\ \A d \in Chains \ {c, e} : TokenOf(cs', rep', d) = TokenOf(cs, rep, d)
  <2>1. /\ TokenOf(Nested(f), rep', ChainOf(f.b)) = [b |-> f.b, back |-> f.fr]
        /\ ChainOf(f.b) # c => TokenOf(Nested(f), rep', c) = [b |-> b, back |-> TRUE]
        /\ \A d \in Chains \ {c, ChainOf(f.b)} :
             rep'[d] = rep[d] => TokenOf(Nested(f), rep', d) = TokenOf(cs, rep, d)
    BY <1>1, <1>2, <1>6, NestedTokens
  <2>2. ChainOf(f.b) = e
    BY <1>3, <1>4, <1>6
  <2> QED BY <2>2, <1>2, <1>3, <1>4, <1>5, <1>6, <2>1 DEF SC!Back
<1>11. UNCHANGED Where
  BY <1>1, <1>3, <1>9, <1>10, WhereNow DEF AllTokens
<1>12. UNCHANGED Pending
  BY <1>1, <1>2, PendingSame
<1> QED BY <1>1, <1>8, <1>11, <1>12 DEF Followed, SC!vars

LEMMA ReturnStep ==
  ASSUME AllSequential, RInv, CallBack \/ CallAgain
  PROVE  Followed
<1> DEFINE b == Top.b
           c == ChainOf(b)
           e == Callee
<1>1. /\ Handled /\ Valid /\ IInv /\ cs # <<>> /\ prog' = prog /\ Op(b) = prog.op[b]
      /\ b \in Blocks /\ c \in Chains /\ b # None /\ Where[c] = AllTokens(cs, rep)[c]
  BY Handling DEF Step
<1>2. /\ Op(b) = "call" /\ times' = times
      /\ IF Top.pt = "back" THEN CallBack ELSE CallAgain
  BY DEF CallBack, CallAgain, At
<1>3. e \in Chains /\ e # c /\ TokenOf(cs, rep, e) = Resting(rep[e])
  BY <1>1, <1>2, CalleeFacts
<1>4. UNCHANGED Pending /\ Where[e] = Resting(rep[e])
  BY <1>1, <1>2, <1>3, PendingSame, WhereNow DEF AllTokens
<1> DEFINE q == IF Top.pt = "back" THEN Added(rep, b) ELSE rep
<1>5. /\ Where[c] = SC!Back(b) /\ Returned(q) /\ b \in ptr
      /\ rep' = q => LinkChange /\ Alone /\ Resting(rep'[c]) = SC!Back(b)
      /\ rep' = Removed(q, b) => LinkChange /\ Alone /\ prog.parent[b] = Latest(rep'[c])
  <2>1. CASE Top.pt = "back"
    <3>1. /\ Where[c] = SC!Back(b) /\ Inside(rep[c], b) /\ prog.parent[b] = Latest(rep[c])
          /\ Removed(Added(rep, b), b) = rep
      BY <1>1, <1>2, <2>1, Here, OwnQueue
    <3>2. Returned(q)
      BY <1>2, <2>1 DEF CallBack
    <3>3. b \in ptr
      <4>1. Len(cs) \in 1..Len(cs) /\ Top = cs[Len(cs)]
        BY <1>1, TopTyped DEF IInv
      <4> QED BY <1>1, <1>2, <2>1, <4>1 DEF IInv, CallsInProgress
    <3> QED BY <1>1, <2>1, <3>1, <3>2, <3>3, OwnLinks
  <2>2. CASE Top.pt # "back"
    <3>1. Returned(rep) /\ Top.pt = "exec" /\ Top.fr
      BY <1>2, <2>2 DEF CallAgain, At
    <3>2. Where[c] = SC!Back(b) /\ Ends(rep[c], b)
      BY <1>1, <3>1, Here
    <3>3. b \in ptr
      BY <1>1, <1>2, <3>2, OwnQueue DEF IInv, Pointers, CallBlocks, Op
    <3> QED BY <1>1, <2>2, <3>1, <3>2, <3>3, OwnLinks
  <2> QED BY <2>1, <2>2
<1>6. q[e] = rep[e]
  BY <1>1, <1>3, Typed DEF Added, IInv
<1> HIDE DEF q
<1>7. CASE ~Active(q, e)
  <2>1. rep' = Removed(q, b) /\ cs' = Continue
    BY <1>5, <1>7 DEF Returned
  <2>2. Linked' /\ SC!Goto(c, SC!After(b))
    BY <1>1, <1>5, <2>1, ContinueWalk, Moved
  <2>3. Where[e] = SC!Done
    BY <1>4, <1>6, <1>7 DEF Active, Resting, SC!Done
  <2>4. Where[c].b = b /\ Where[c].back
    BY <1>5 DEF SC!Back
  <2>5. SC!Return(c)
    BY <1>1, <1>2, <1>4, <2>2, <2>3, <2>4 DEF SC!Return, SC!On, SC!Goto, Callee
  <2> QED BY <1>1, <2>2, <2>5 DEF Followed, SC!Next
<1>8. CASE Active(q, e)
  <2>1. rep' = q /\ cs' = Leave
    BY <1>5, <1>8 DEF Returned
  <2>2. Linked' /\ UNCHANGED Where
    BY <1>1, <1>5, <2>1, LeaveWalk, Moved
  <2> QED BY <1>1, <1>4, <2>2 DEF Followed, SC!vars
<1> QED BY <1>7, <1>8

LEMMA StepFollowed ==
  ASSUME AllSequential, RInv, Step
  PROVE  Followed
BY DoStep, IfStep, IfBackStep, RepeatStep, BackStep, LoopStep, WaitStep, StopThisStep, StopOtherStep,
   StopAllStep, CallStep, DrainStep, ReturnStep DEF Step
-----------------------------------------------------------------------------
(* The loops of the frame start scripts and wake queues.                   *)

\* Between two runs a chain is where its queue says.
LEMMA CalmTokens ==
  ASSUME cs = <<>>
  PROVE  \A q : \A d \in Chains : TokenOf(cs, q, d) = Resting(q[d])
BY Calm DEF TokenOf, CallsOf
LEMMA FirstCall ==
  ASSUME NEW f \in Frames, f.pt = "exec", NEW q
  PROVE  /\ TokenOf(<<f>>, q, ChainOf(f.b)) = [b |-> f.b, back |-> f.fr]
         /\ \A d \in Chains \ {ChainOf(f.b)} : TokenOf(<<f>>, q, d) = Resting(q[d])
<1> DEFINE s == <<f>>
<1>1. s \in Seq(Frames) /\ Len(s) = 1 /\ s[1] = f
  OBVIOUS
<1>2. 1 \in 1..Len(s) /\ \A j \in 1..Len(s) : j = 1 /\ j <= 1
  BY <1>1
<1> HIDE DEF s
<1>3. TokenOf(s, q, ChainOf(f.b)) = Held(s[1], q[ChainOf(f.b)])
  BY <1>1, <1>2, TokenAt
<1>4. \A d \in Chains \ {ChainOf(f.b)} : TokenOf(s, q, d) = Resting(q[d])
  BY <1>1, <1>2, TokenRests
<1> QED BY <1>1, <1>3, <1>4 DEF Held, s

LEMMA FirstTop ==
  ASSUME NEW f, cs' = <<f>>
  PROVE  Top' = f
BY DEF Top

LEMMA ScheduledLinks ==
  ASSUME RInv, Scheduled, cs' # <<>> /\ ~Top'.fr => prog.parent[Top'.b] = None
  PROVE  Linked' /\ UNCHANGED Pending
<1>1. /\ cs = <<>> /\ prog' = prog /\ times' = times
      /\ \A d \in Chains : rep'[d] = rep[d] \/ rep'[d] = <<>>
  BY DEF Scheduled
<1>2. QueueLinked'
  <2> SUFFICES ASSUME NEW d \in Chains, NEW k \in 1..Len(rep'[d])
               PROVE  prog.parent[rep'[d][k]] = IF k = 1 THEN None ELSE rep'[d][k-1]
    BY <1>1 DEF QueueLinked
  <2>1. CASE rep'[d] = rep[d]
    BY <2>1 DEF RInv, Linked, QueueLinked
  <2>2. CASE rep'[d] = <<>>
    <3>1. \A i \in 1..0 : FALSE
      OBVIOUS
    <3> QED BY <2>2, <3>1
  <2> QED BY <1>1, <2>1, <2>2
<1>3. \A k \in 1..Len(cs) : FALSE
  BY <1>1, Calm
<1>4. CASE cs' = <<>>
  <2>1. \A k \in 1..0 : FALSE
    OBVIOUS
  <2>2. \A k \in 1..Len(cs') : FALSE
    BY <1>4, <2>1
  <2>3. CallsLinked' /\ TopLinked'
    BY <1>4, <2>2 DEF CallsLinked, TopLinked
  <2>4. Pending' = Pending
    BY <1>1, <1>3, <2>2 DEF Pending, Begun, Op
  <2> QED BY <1>2, <2>3, <2>4 DEF Linked
<1>5. ASSUME NEW x \in Blocks, NEW f \in BOOLEAN, cs' = <<Frame(x, f, FALSE)>>,
             f \/ rep'[ChainOf(x)] = <<>>
      PROVE  Linked' /\ UNCHANGED Pending
  <2>1. Len(cs') = 1 /\ cs' # <<>> /\ cs'[1] = Frame(x, f, FALSE)
    BY <1>5
  <2>2. Top' = Frame(x, f, FALSE)
    BY <2>1 DEF Top
  <2>3. \A k \in 1..Len(cs') : cs'[k].pt = "exec"
    BY <2>1 DEF Frame
  <2>4. CallsLinked'
    BY <2>3 DEF CallsLinked
  <2>5. TopLinked'
    <3>1. Top'.b = x /\ Top'.fr = f /\ ChainOf(Top.b)' = ChainOf(x)
      BY <1>1, <2>2 DEF Frame, ChainOf
    <3>2. ~f => prog.parent[x] = None /\ rep'[ChainOf(x)] = <<>>
      BY <1>5, <2>1, <3>1
    <3> QED BY <1>1, <3>1, <3>2 DEF TopLinked, Latest
  <2>6. Pending' = Pending
    BY <1>1, <1>3, <2>3 DEF Pending, Begun, Op
  <2> QED BY <1>2, <2>4, <2>5, <2>6 DEF Linked
<1>6. \/ cs' = <<>>
      \/ \E x \in Blocks, f \in BOOLEAN : cs' = <<Frame(x, f, FALSE)>> /\ (f \/ rep'[ChainOf(x)] = <<>>)
  BY DEF Scheduled
<1> QED BY <1>4, <1>5, <1>6

\* The event starts the script of c; the chains in T stop.
LEMMA StartsScript ==
  ASSUME RInv, Scheduled, NEW c \in Chains, prog.head[c] # None,
         Op(prog.head[c]) \in {"whenkey", "whenreceive"},
         cs' = <<Frame(prog.head[c], FALSE, FALSE)>>,
         \A d \in Chains : rep'[d] = IF d \in SC!Thread(c) THEN <<>> ELSE rep[d]
  PROVE  Followed
<1> DEFINE x == prog.head[c]
           f == Frame(x, FALSE, FALSE)
<1>1. /\ Valid /\ cs = <<>> /\ prog' = prog /\ x \in Blocks /\ ChainOf(x) = c /\ prog.parent[x] = None
  BY ProgramValid, ProgramJoined DEF RInv, IInv, Scheduled, Valid
<1>2. f \in Frames /\ f.pt = "exec" /\ f.b = x /\ f.fr = FALSE
  BY <1>1 DEF Frame, Frames
<1>3. Linked' /\ UNCHANGED Pending
  <2>1. Top' = f
    <3> HIDE DEF f
    <3>1. cs' = <<f>>
      BY DEF f
    <3> QED BY <3>1, FirstTop
  <2>2. Top'.b = x
    BY <1>2, <2>1
  <2> QED BY <1>1, <2>2, ScheduledLinks
<1>4. /\ TokenOf(cs', rep', c) = SC!Fresh(x)
      /\ \A d \in Chains \ {c} : TokenOf(cs', rep', d) = Resting(rep'[d])
  <2> HIDE DEF f
  <2>1. /\ TokenOf(<<f>>, rep', c) = [b |-> f.b, back |-> f.fr]
        /\ \A d \in Chains \ {c} : TokenOf(<<f>>, rep', d) = Resting(rep'[d])
    BY <1>1, <1>2, FirstCall
  <2> QED BY <1>2, <2>1 DEF SC!Fresh, f
<1>5. \A d \in Chains : Where[d] = Resting(rep[d])
  BY <1>1, CalmTokens, WhereNow DEF AllTokens
<1>6. Resting(<<>>) = SC!Done
  BY DEF Resting, SC!Done
<1>7. \A d \in Chains \ {c} : TokenOf(cs', rep', d) = IF d \in SC!Thread(c) THEN SC!Done ELSE Where[d]
  BY <1>4, <1>5, <1>6
<1>8. Where' = [d \in Chains |-> IF d = c THEN SC!Fresh(x)
                                 ELSE IF d \in SC!Thread(c) THEN SC!Done ELSE Where[d]]
  BY <1>1, <1>4, <1>7, WhereNow DEF AllTokens
<1>9. SC!Start(c)
  BY <1>1, <1>3, <1>8 DEF SC!Start, Op
<1> QED BY <1>3, <1>9 DEF Followed, SC!Next

LEMMA HatStep ==
  ASSUME RInv, RunHat
  PROVE  Followed
<1>1. /\ Scheduled /\ Valid /\ cs = <<>> /\ prog' = prog /\ rep' = rep /\ todo \subseteq Triggered
  BY FrameScheduled, ProgramValid DEF RInv, IInv, RunHat, Idle, ToStart
<1>2. PICK c \in todo : IF Active(rep, c) THEN UNCHANGED cs
                       ELSE cs' = <<Frame(prog.head[c], FALSE, FALSE)>>
  BY DEF RunHat, Run
<1>3. c \in Chains /\ prog.head[c] # None /\ Op(prog.head[c]) = "whenkey"
  BY <1>1 DEF Triggered
<1>4. \A d \in Chains : Where[d] = Resting(rep[d])
  BY <1>1, CalmTokens, WhereNow DEF AllTokens
<1>5. CASE Active(rep, c)
  <2>1. cs' = <<>>
    BY <1>1, <1>2, <1>5
  <2>2. Linked' /\ UNCHANGED Pending
    BY <1>1, <2>1, ScheduledLinks
  <2>3. UNCHANGED Where
    BY <1>1, <2>1, WhereNow
  <2> QED BY <1>1, <2>2, <2>3 DEF Followed, SC!vars
<1>6. CASE ~Active(rep, c)
  <2>1. rep[c] = <<>> /\ Where[c].b = None
    <3>1. rep[c] = <<>> /\ Where[c] = Resting(rep[c])
      BY <1>3, <1>4, <1>6 DEF Active
    <3> QED BY <3>1 DEF Resting
  <2>2. SC!Calling(c) = {}
    BY <2>1 DEF SC!Calling
  <2>3. SC!Thread(c) = {c}
    <3>1. {c} \in SUBSET Chains /\ c \in {c} /\ \A e \in {c} : SC!Calling(e) \subseteq {c}
      BY <1>3, <2>2
    <3> QED BY <1>3, <3>1 DEF SC!Thread
  <2>4. \A d \in Chains : rep'[d] = IF d \in SC!Thread(c) THEN <<>> ELSE rep[d]
    BY <1>1, <2>1, <2>3
  <2> QED BY <1>1, <1>2, <1>3, <1>6, <2>4, StartsScript
<1> QED BY <1>5, <1>6

\* A call that waits is the last block of its queue.
LEMMA CallsWaiting ==
  ASSUME IInv, Valid, cs = <<>>, NEW e \in Chains
  PROVE  Calls(e) = SC!Calling(e)
<1>1. rep[e] \in Seq(Blocks) /\ Len(rep[e]) \in Nat /\ Where[e] = Resting(rep[e])
  <2>1. Where[e] = TokenOf(cs, rep, e)
    BY DEF Where, Token, TokenOf, CallsOf, Held, Resting
  <2> QED BY <2>1, CalmTokens, Typed DEF IInv
<1>2. ASSUME NEW b \in ptr, Op(b) = "call", ChainOf(b) = e, Queued(rep, b)
      PROVE  prog.calls[b] \in SC!Calling(e)
  <2>1. PICK k \in 1..Len(rep[e]) : rep[e][k] = b
    BY <1>2 DEF Queued
  <2>2. b \in Blocks
    BY <1>2, Typed DEF IInv
  <2>3. k = Len(rep[e])
    <3> SUFFICES ASSUME k < Len(rep[e]) PROVE FALSE
      BY <1>1
    <3> DEFINE y == rep[e][Len(rep[e])]
    <3>1. Len(rep[e]) \in 1..Len(rep[e])
      BY <1>1, <2>1
    <3>2. y \in Blocks
      BY <1>1, <3>1
    <3>3. b \in Around(prog, y)
      BY <2>1, <3>1 DEF IInv, QueueNest
    <3>4. Op(b) \in Holders
      BY <3>2, <3>3 DEF Valid
    <3> QED BY <1>2, <3>4 DEF Holders
  <2>4. rep[e] # <<>> /\ rep[e][Len(rep[e])] = b
    BY <1>1, <2>1, <2>3
  <2>5. Resting(rep[e]).b = b /\ Resting(rep[e]).back
    BY <2>4 DEF Resting
  <2> QED BY <1>1, <1>2, <2>2, <2>5, NoneIsNoBlock DEF SC!Calling, Op
<1>3. ASSUME NEW d \in SC!Calling(e) PROVE d \in Calls(e)
  <2> DEFINE b == Where[e].b
  <2>1. b # None /\ prog.op[b] = "call" /\ d = prog.calls[b]
    BY <1>3 DEF SC!Calling
  <2>2. rep[e] # <<>> /\ b = rep[e][Len(rep[e])]
    BY <1>1, <2>1 DEF Resting
  <2>3. Len(rep[e]) \in 1..Len(rep[e])
    BY <1>1, <2>2
  <2>4. b \in Blocks /\ ChainOf(b) = e
    BY <1>1, <2>2, <2>3 DEF IInv, QueueNest
  <2>5. Queued(rep, b)
    BY <2>2, <2>3, <2>4 DEF Queued
  <2>6. b \in ptr
    BY <2>1, <2>4, <2>5 DEF IInv, Pointers, CallBlocks
  <2> HIDE DEF b
  <2> QED BY <2>1, <2>4, <2>5, <2>6 DEF Calls, Op
<1> QED BY <1>2, <1>3 DEF Calls

LEMMA ReceiveStep ==
  ASSUME RInv, Receive
  PROVE  Followed
<1>1. /\ Scheduled /\ Valid /\ IInv /\ cs = <<>> /\ prog' = prog /\ todo \subseteq Chains
      /\ rep \in [Chains -> Seq(Blocks)]
  BY ReceiveScheduled, ProgramValid, Typed DEF RInv, IInv, Receive, Idle
<1>2. PICK c \in todo : /\ rep' = [d \in Chains |-> IF d \in CallGraph(c) THEN <<>> ELSE rep[d]]
                        /\ cs' = <<Frame(prog.head[c], FALSE, FALSE)>>
  BY DEF Receive, Run
<1>3. c \in Chains /\ prog.head[c] # None /\ Op(prog.head[c]) = "whenreceive"
  BY <1>1, <1>2 DEF IInv, ToStart, Receive, Idle
<1>4. CallGraph(c) = SC!Thread(c)
  <2>1. \A e \in Chains : Calls(e) = SC!Calling(e)
    BY <1>1, CallsWaiting
  <2>2. \A S \in SUBSET Chains :
          (\A e \in S : Calls(e) \subseteq S) <=> (\A e \in S : SC!Calling(e) \subseteq S)
    BY <2>1
  <2> QED BY <2>2 DEF CallGraph, SC!Thread
<1>5. \A d \in Chains : rep'[d] = IF d \in SC!Thread(c) THEN <<>> ELSE rep[d]
  BY <1>2, <1>4
<1> QED BY <1>1, <1>2, <1>3, <1>5, StartsScript

LEMMA VisitStep ==
  ASSUME RInv, Visit
  PROVE  Followed
<1>1. /\ Scheduled /\ Valid /\ IInv /\ cs = <<>> /\ prog' = prog /\ rep' = rep /\ todo \subseteq Chains
      /\ rep \in [Chains -> Seq(Blocks)]
  BY FrameScheduled, ProgramValid, Typed DEF RInv, IInv, Visit, Idle
<1>2. PICK c \in todo : IF Active(rep, c) THEN cs' = <<Frame(rep[c][Len(rep[c])], TRUE, FALSE)>>
                       ELSE UNCHANGED cs
  BY DEF Visit, Run
<1>3. \A d \in Chains : Where[d] = Resting(rep[d])
  BY <1>1, CalmTokens, WhereNow DEF AllTokens
<1>4. CASE ~Active(rep, c)
  <2>1. cs' = <<>>
    BY <1>1, <1>2, <1>4
  <2>2. Linked' /\ UNCHANGED Pending
    BY <1>1, <2>1, ScheduledLinks
  <2>3. UNCHANGED Where
    BY <1>1, <2>1, WhereNow
  <2> QED BY <1>1, <2>2, <2>3 DEF Followed, SC!vars
<1>5. CASE Active(rep, c)
  <2> DEFINE x == rep[c][Len(rep[c])]
             f == Frame(x, TRUE, FALSE)
  <2>1. rep[c] # <<>> /\ Len(rep[c]) \in 1..Len(rep[c]) /\ cs' = <<f>>
    <3>1. rep[c] # <<>> /\ cs' = <<f>>
      BY <1>2, <1>5 DEF Active
    <3>2. rep[c] \in Seq(Blocks)
      BY <1>1
    <3> QED BY <3>1, <3>2
  <2>2. x \in Blocks /\ ChainOf(x) = c
    BY <1>1, <2>1 DEF IInv, QueueNest
  <2>3. Resting(rep[c]) = [b |-> x, back |-> TRUE]
    BY <2>1 DEF Resting
  <2> HIDE DEF x
  <2>4. f \in Frames /\ f.pt = "exec" /\ f.b = x /\ f.fr = TRUE
    BY <2>2 DEF Frame, Frames
  <2> HIDE DEF f
  <2>5. Top' = f
    BY <2>1 DEF Top
  <2>6. Linked' /\ UNCHANGED Pending
    BY <1>1, <2>4, <2>5, ScheduledLinks
  <2>7. \A d \in Chains : TokenOf(cs', rep', d) = Resting(rep[d])
    BY <1>1, <2>1, <2>2, <2>3, <2>4, FirstCall
  <2>8. UNCHANGED Where
    BY <1>1, <2>7, WhereNow, CalmTokens DEF AllTokens
  <2> QED BY <1>1, <2>6, <2>8 DEF Followed, SC!vars
<1> QED BY <1>4, <1>5

LEMMA QuietStep ==
  ASSUME RInv, Input \/ HatsDone \/ NextBroadcast \/ StartRepeats \/ FrameDone
  PROVE  Followed
<1>1. Scheduled /\ cs = <<>> /\ cs' = <<>> /\ prog' = prog /\ rep' = rep
  BY FrameScheduled DEF RInv, Input, HatsDone, NextBroadcast, StartRepeats, FrameDone, Idle
<1>2. Linked' /\ UNCHANGED Pending
  BY <1>1, ScheduledLinks
<1>3. UNCHANGED Where
  BY <1>1, WhereNow
<1> QED BY <1>1, <1>2, <1>3 DEF Followed, SC!vars
-----------------------------------------------------------------------------
(* The theorem.                                                            *)

LEMMA NextFollowed ==
  ASSUME AllSequential, RInv, [Next]_vars
  PROVE  RInv' /\ [SC!Next]_(SC!vars)
<1>1. IInv'
  BY NextInv DEF RInv
<1>2. CASE Next
  <2>1. Followed
    BY <1>2, StepFollowed, HatStep, ReceiveStep, VisitStep, QuietStep DEF Next, Scheduler
  <2> QED BY <1>1, <2>1 DEF Followed, RInv
<1>3. CASE UNCHANGED vars
  <2>1. prog' = prog /\ rep' = rep /\ cs' = cs /\ times' = times
    BY <1>3 DEF vars, data
  <2>2. UNCHANGED SC!vars
    BY <2>1, WhereNow DEF SC!vars
  <2>3. Linked'
    BY <2>1 DEF RInv, Linked, QueueLinked, TopLinked, CallsLinked, Top, Latest, ChainOf, Op
  <2> QED BY <1>1, <2>2, <2>3 DEF RInv
<1> QED BY <1>2, <1>3

LEMMA InitFollowed ==
  ASSUME Init
  PROVE  RInv /\ SC!Init
<1>1. cs = <<>> /\ rep = [c \in Chains |-> <<>>] /\ times = [b \in Blocks |-> 0]
  BY DEF Init
<1>2. \A k \in 1..Len(cs) : FALSE
  BY <1>1, Calm
<1>3. Linked
  <2>1. \A c \in Chains : \A k \in 1..Len(rep[c]) : FALSE
    <3>1. \A k \in 1..0 : FALSE
      OBVIOUS
    <3> QED BY <1>1, <3>1
  <2> QED BY <1>1, <1>2, <2>1 DEF Linked, QueueLinked, TopLinked, CallsLinked
<1>4. Where = [c \in Chains |-> SC!Done]
  <2>1. Where = [c \in Chains |-> TokenOf(cs, rep, c)]
    BY DEF Where, Token, TokenOf, CallsOf, Held, Resting
  <2>2. \A c \in Chains : TokenOf(cs, rep, c) = Resting(rep[c])
    BY <1>1, CalmTokens
  <2>3. \A c \in Chains : TokenOf(cs, rep, c) = SC!Done
    BY <1>1, <2>2 DEF Resting, SC!Done
  <2> QED BY <2>1, <2>3
<1>5. Pending = [b \in Blocks |-> 0]
  BY <1>1, <1>2 DEF Pending, Begun
<1> QED BY <1>3, <1>4, <1>5, InitInv DEF RInv, SC!Init

\* The call stack of runBlock and the repeat queues, abandoned at the end of every
\* frame and taken up again in the next one, run each script of a sequential program
\* block by block in the order of its nesting, loops as often as they say and calls
\* to their end: the block executor implements the walk of Scripts.
THEOREM ScriptsImplemented == AllSequential => (Spec => ScriptsFollowed)
<1>1. SUFFICES ASSUME AllSequential PROVE Spec => ScriptsFollowed
  OBVIOUS
<1>2. Init => RInv /\ SC!Init
  BY InitFollowed
<1>3. RInv /\ [Next]_vars => RInv' /\ [SC!Next]_(SC!vars)
  BY <1>1, NextFollowed
<1> QED BY <1>2, <1>3, PTL DEF Spec, ScriptsFollowed, SC!Spec
=============================================================================
