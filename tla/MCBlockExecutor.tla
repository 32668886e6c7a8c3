--------------------------- MODULE MCBlockExecutor ---------------------------
(***************************************************************************)
(* All small programs for BlockExecutor: a script of at most MainSize      *)
(* control blocks, or of at most CallSize blocks with calls and messages,  *)
(* a procedure and a receiver of at most SubSize blocks.                   *)
(***************************************************************************)
EXTENDS BlockExecutor

CONSTANTS MainSize, CallSize, SubSize, ControlOps, MainOps, ProcOps, RecvOps,
          Recursive,  \* TRUE: the procedure calls itself
          Mixed       \* TRUE: a script may both call the procedure and send the message

NoBlock == 0
AllChains == {"main", "proc", "recv"}
Base == [main |-> 1, proc |-> MainSize + 2, recv |-> MainSize + SubSize + 3]
AllBlocks == 1..MainSize + 2*SubSize + 3
Final == {"forever", "stopthis", "stopall"}

\* A body: its blocks in preorder with their kinds, each block's parent
\* (0: the chain itself), and whether the last of several blocks in an if is
\* its second branch. A block holds others exactly if it can.
Path(par, i) == LET f[k \in Nat] == IF k = 0 THEN {0} ELSE {k} \cup f[par[k]] IN f[i]
Shapes(m) == {p \in [1..m -> 0..m-1] : \A i \in 1..m : p[i] < i /\ p[i] \in Path(p, i-1)}
Parents(par) == {par[i] : i \in DOMAIN par} \ {0}
Kinds(par, ops) ==
  {k \in [DOMAIN par -> ops] : \A i \in DOMAIN par : k[i] \in Holders <=> i \in Parents(par)}
Siblings(body, i) == {j \in DOMAIN body.par : body.par[j] = body.par[i]}
Children(body, p) == {j \in DOMAIN body.par : body.par[j] = p}
Least(S) == CHOOSE x \in S : \A y \in S : x <= y
Greatest(S) == CHOOSE x \in S : \A y \in S : y <= x
Split(body, p) == p # 0 /\ body.alt /\ body.op[p] = "if" /\ Cardinality(Children(body, p)) > 1
\* No block stands behind one that never goes on.
Sensible(body) ==
  /\ \A i \in DOMAIN body.par :
       body.op[i] \in Final => \A j \in Siblings(body, i) : j <= i \/ Split(body, body.par[i])
  /\ body.alt => \E p \in DOMAIN body.par : Split(body, p)
  /\ Cardinality({i \in DOMAIN body.op : body.op[i] = "call"}) <= 1
Bodies(n, ops) ==
  UNION {UNION {{body \in {[op |-> kinds, par |-> par, alt |-> alt] :
                           kinds \in Kinds(par, ops), alt \in BOOLEAN} : Sensible(body)}
                : par \in Shapes(m)} : m \in 1..n}

\* The record of a program from the bodies of its chains.
Build(bodies, norefresh) ==
  LET Owner(b) == CHOOSE c \in Chains : b >= Base[c] /\ \A d \in Chains : b >= Base[d] => Base[d] <= Base[c]
      Index(b) == b - Base[Owner(b)]
      Used(b) == Index(b) \in DOMAIN bodies[Owner(b)].par
      Id(b, i) == Base[Owner(b)] + i
      First(b, S) == IF S = {} THEN None ELSE Id(b, Least(S))
      Kids(b) == Children(bodies[Owner(b)], Index(b))
  IN [op |-> [b \in Blocks |-> IF Used(b) THEN bodies[Owner(b)].op[Index(b)]
                               ELSE IF Index(b) # 0 THEN "do"
                               ELSE CASE Owner(b) = "main" -> "whenkey"
                                      [] Owner(b) = "proc" -> "definition"
                                      [] OTHER -> "whenreceive"],
      next |-> [b \in Blocks |->
                 IF Index(b) = 0 THEN First(b, Kids(b))
                 ELSE IF ~Used(b) THEN None
                 ELSE LET body == bodies[Owner(b)]
                          later == {j \in Siblings(body, Index(b)) : j > Index(b)}
                      IN IF Split(body, body.par[Index(b)]) /\ Cardinality(later) = 1 THEN None
                         ELSE First(b, later)],
      sub |-> [b \in Blocks |-> IF Used(b) THEN First(b, Kids(b)) ELSE None],
      sub2 |-> [b \in Blocks |-> IF Used(b) /\ Split(bodies[Owner(b)], Index(b))
                                 THEN Id(b, Greatest(Kids(b))) ELSE None],
      parent |-> [b \in Blocks |-> IF Used(b) /\ bodies[Owner(b)].par[Index(b)] # 0
                                   THEN Id(b, bodies[Owner(b)].par[Index(b)]) ELSE None],
      chain |-> [b \in Blocks |-> Owner(b)],
      calls |-> [b \in Blocks |-> "proc"],
      msg |-> [b \in Blocks |-> "m"],
      head |-> Base,
      norefresh |-> norefresh]

Uses(body, op) == \E i \in DOMAIN body.op : body.op[i] = op
Sends(body) == Uses(body, "broadcast") \/ Uses(body, "bwait")
Empty == [op |-> <<>>, par |-> <<>>, alt |-> FALSE]
MainBodies == Bodies(MainSize, ControlOps)
              \cup {b \in Bodies(CallSize, MainOps) : Mixed \/ ~(Uses(b, "call") /\ Sends(b))}
ProcBodies == {b \in Bodies(SubSize, ProcOps) : Recursive <=> Uses(b, "call")}
RecvBodies == Bodies(SubSize, RecvOps)
\* Chains a program does not use are empty.
With(S, used) == IF used THEN S ELSE {Empty}
SmallPrograms ==
  UNION {UNION {{Build([main |-> m, proc |-> p, recv |-> r], n) :
                   r \in With(RecvBodies, Sends(m) \/ Sends(p)),
                   n \in IF p = Empty THEN {{}} ELSE {{}, {"proc"}}}
                : p \in With(ProcBodies, Uses(m, "call"))} : m \in MainBodies}

ASSUME Recursive \/ \A p \in Programs : Sequential(p) /\ OneSender(p)

\* Keeps TLC from following a recursion without end.
Shallow == Len(cs) <= 10
==============================================================================
