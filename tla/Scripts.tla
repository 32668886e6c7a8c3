------------------------------- MODULE Scripts -------------------------------
(***************************************************************************)
(* What it means to run the scripts of a Scratch project: every chain of   *)
(* blocks is a token that walks the blocks in the order their nesting      *)
(* prescribes. A loop or a branch is met again when its body has ended, a  *)
(* call is left when the called procedure has ended. BlockExecutor         *)
(* implements this with the C++ call stack and a queue of blocks.          *)
(***************************************************************************)
EXTENDS Integers, FiniteSets

CONSTANTS
  Blocks, Chains, None,
  MaxTimes   \* the largest number of repetitions

VARIABLES
  prog,  \* the program, whatever it is; it does not change
  tok,   \* where each chain is
  left   \* the bodies a repeat block has still to start
vars == <<prog, tok, left>>

Done == [b |-> None, back |-> FALSE]
Fresh(b) == [b |-> b, back |-> FALSE]
Back(b) == [b |-> b, back |-> TRUE]  \* b is waiting, or its body has ended
Tokens == [b : Blocks \cup {None}, back : BOOLEAN]

\* The block behind b, or the block around it when b is the last of a body.
After(b) == IF prog.next[b] # None THEN Fresh(prog.next[b])
            ELSE IF prog.parent[b] # None THEN Back(prog.parent[b]) ELSE Done
\* The beginning of a body of b; an empty body ends at once.
Into(b, sub) == IF sub # None THEN Fresh(sub) ELSE Back(b)
Branch(b, sub) == IF sub # None THEN Fresh(sub) ELSE After(b)

\* The chains that run on behalf of c: itself and the procedures being called.
Calling(c) == IF tok[c].b # None /\ tok[c].back /\ prog.op[tok[c].b] = "call"
              THEN {prog.calls[tok[c].b]} ELSE {}
Thread(c) ==
  {d \in Chains : \A S \in SUBSET Chains : c \in S /\ (\A e \in S : Calling(e) \subseteq S) => d \in S}

Init ==
  /\ tok = [c \in Chains |-> Done] /\ left = [b \in Blocks |-> 0]

\* An event starts a script, from the top if it was running.
Start(c) ==
  /\ prog.op[prog.head[c]] \in {"whenkey", "whenreceive"}
  /\ tok' = [d \in Chains |-> IF d = c THEN Fresh(prog.head[c])
                              ELSE IF d \in Thread(c) THEN Done ELSE tok[d]]
  /\ UNCHANGED <<prog, left>>

On(c, op) == tok[c].b # None /\ prog.op[tok[c].b] = op
Goto(c, t) == tok' = [tok EXCEPT ![c] = t] /\ UNCHANGED prog
Plain == {"whenkey", "whenreceive", "definition", "do", "broadcast"}

Do(c) == \E op \in Plain : On(c, op) /\ Goto(c, After(tok[c].b)) /\ UNCHANGED left
If(c) ==
  /\ On(c, "if")
  /\ LET b == tok[c].b IN
     \/ tok[c].back /\ Goto(c, After(b))
     \/ ~tok[c].back /\ \E s \in {prog.sub[b], prog.sub2[b]} : Goto(c, Branch(b, s))
  /\ UNCHANGED left
Repeat(c) ==
  /\ On(c, "repeat")
  /\ LET b == tok[c].b IN
     \E n \in IF tok[c].back THEN {left[b]} ELSE 0..MaxTimes :
       IF n = 0 THEN Goto(c, After(b)) /\ left' = [left EXCEPT ![b] = 0]
       ELSE Goto(c, Into(b, prog.sub[b])) /\ left' = [left EXCEPT ![b] = n - 1]
Until(c) ==
  /\ On(c, "until")
  /\ LET b == tok[c].b IN Goto(c, After(b)) \/ Goto(c, Into(b, prog.sub[b]))
  /\ UNCHANGED left
Forever(c) ==
  /\ On(c, "forever")
  /\ LET b == tok[c].b IN Goto(c, Into(b, prog.sub[b]))
  /\ UNCHANGED left
Wait(c) ==
  /\ \E op \in {"wait", "waituntil", "bwait"} : On(c, op)
  /\ LET b == tok[c].b IN
     \/ Goto(c, Back(b))
     \/ (tok[c].back \/ prog.op[b] # "wait") /\ Goto(c, After(b))
  /\ UNCHANGED left
Call(c) ==
  /\ On(c, "call") /\ ~tok[c].back
  /\ LET p == prog.calls[tok[c].b] IN
     tok' = [tok EXCEPT ![c] = Back(tok[c].b), ![p] = Fresh(prog.head[p])]
  /\ UNCHANGED <<prog, left>>
Return(c) ==
  /\ On(c, "call") /\ tok[c].back /\ tok[prog.calls[tok[c].b]] = Done
  /\ Goto(c, After(tok[c].b)) /\ UNCHANGED left
StopThis(c) == On(c, "stopthis") /\ Goto(c, Done) /\ UNCHANGED left
StopOther(c) ==
  /\ On(c, "stopother")
  /\ tok' = [d \in Chains |-> IF d = c THEN After(tok[c].b)
                              ELSE IF c \in Thread(d) THEN tok[d] ELSE Done]
  /\ UNCHANGED <<prog, left>>
StopAll(c) ==
  /\ On(c, "stopall") /\ tok' = [d \in Chains |-> Done] /\ UNCHANGED <<prog, left>>

Next ==
  \E c \in Chains :
    \/ Start(c) \/ Do(c) \/ If(c) \/ Repeat(c) \/ Until(c) \/ Forever(c) \/ Wait(c)
    \/ Call(c) \/ Return(c) \/ StopThis(c) \/ StopOther(c) \/ StopAll(c)
Spec == Init /\ [][Next]_vars
==============================================================================
