-------------------------- MODULE SpriteListProofs --------------------------
(***************************************************************************)
(* Proofs about SpriteList, for any number of sprites and clones: the list *)
(* stays well formed and the layer cached in every sprite gives its        *)
(* position back whenever a block computes a position from it.             *)
(***************************************************************************)
EXTENDS SpriteList, SequenceTheorems, FiniteSetTheorems, TLAPS

Distinct(s) == \A j, k \in 1..Len(s) : s[j] = s[k] => j = k
Elements(s) == {s[k] : k \in 1..Len(s)}

\* A list without repetition has one position for each element.
LEMMA AtUnique ==
  ASSUME NEW S, NEW s \in Seq(S), Distinct(s), NEW k \in 1..Len(s)
  PROVE  At(s, s[k]) = k
BY DEF At, Distinct

\* What std::vector::insert does to a list without repetition.
LEMMA InsertBehindFacts ==
  ASSUME NEW s \in Seq(Sprites), Distinct(s), NEW i \in 1..Len(s)-1,
         NEW c \in Sprites, c \notin Elements(s)
  PROVE  LET t == InsertBehind(s, i, c)
         IN  /\ t \in Seq(Sprites) /\ Len(t) = Len(s) + 1 /\ Distinct(t)
             /\ \A k \in 1..i : t[k] = s[k]
             /\ t[i+1] = c
             /\ \A k \in i+2..Len(s)+1 : t[k] = s[k-1]
             /\ Elements(t) = Elements(s) \cup {c}
<1> DEFINE t == InsertBehind(s, i, c)
<1>1. /\ t \in Seq(Sprites) /\ Len(t) = Len(s) + 1
      /\ \A k \in 1..i : t[k] = s[k]
      /\ t[i+1] = c
      /\ \A k \in i+2..Len(s)+1 : t[k] = s[k-1]
  BY DEF InsertBehind
<1> HIDE DEF t
<1>2. Distinct(t)
  <2>1. SUFFICES ASSUME NEW a \in 1..Len(t), NEW b \in 1..Len(t), t[a] = t[b], a < b
                 PROVE  FALSE
    BY <1>1 DEF Distinct
  <2>2. \A k \in 1..Len(s) : s[k] # c
    BY DEF Elements
  <2>3. CASE b <= i
    BY <1>1, <2>1, <2>3 DEF Distinct
  <2>4. CASE b = i + 1
    BY <1>1, <2>1, <2>2, <2>4
  <2>5. CASE b > i + 1
    <3>1. b - 1 \in 1..Len(s) /\ t[b] = s[b-1]
      BY <1>1, <2>1, <2>5
    <3>2. CASE a <= i
      BY <1>1, <2>1, <3>1, <3>2, <2>5 DEF Distinct
    <3>3. CASE a = i + 1
      BY <1>1, <2>1, <2>2, <3>1, <3>3
    <3>4. CASE a > i + 1
      <4>1. a - 1 \in 1..Len(s) /\ t[a] = s[a-1]
        BY <1>1, <2>1, <3>4
      <4> QED BY <2>1, <3>1, <4>1 DEF Distinct
    <3> QED BY <3>2, <3>3, <3>4
  <2> QED BY <2>3, <2>4, <2>5
<1>3. Elements(t) = Elements(s) \cup {c}
  <2>1. ASSUME NEW x \in Elements(s) PROVE x \in Elements(t)
    <3>1. PICK k \in 1..Len(s) : x = s[k]
      BY <2>1 DEF Elements
    <3>2. CASE k <= i
      <4>1. k \in 1..Len(t) /\ t[k] = s[k]
        BY <3>2, <1>1
      <4> QED BY <3>1, <4>1 DEF Elements
    <3>3. CASE k > i
      <4>1. k + 1 \in 1..Len(t) /\ t[k+1] = s[k]
        BY <3>3, <1>1
      <4> QED BY <3>1, <4>1 DEF Elements
    <3> QED BY <3>2, <3>3
  <2>2. ASSUME NEW x \in Elements(t) PROVE x \in Elements(s) \cup {c}
    <3>1. PICK k \in 1..Len(t) : x = t[k]
      BY <2>2 DEF Elements
    <3>2. CASE k <= i
      BY <3>1, <3>2, <1>1 DEF Elements
    <3>3. CASE k = i + 1
      BY <3>1, <3>3, <1>1
    <3>4. CASE k > i + 1
      <4>1. k - 1 \in 1..Len(s) /\ t[k] = s[k-1]
        BY <3>4, <1>1
      <4> QED BY <3>1, <4>1 DEF Elements
    <3> QED BY <3>2, <3>3, <3>4
  <2>3. c \in Elements(t)
    BY <1>1 DEF Elements
  <2> QED BY <2>1, <2>2, <2>3
<1> QED BY <1>1, <1>2, <1>3 DEF t

\* What removing the element at a position does.
LEMMA WithoutFacts ==
  ASSUME NEW S, NEW s \in Seq(S), Distinct(s), NEW i \in 1..Len(s)
  PROVE  LET t == Without(s, i)
         IN  /\ t \in Seq(S) /\ Len(t) = Len(s) - 1 /\ Distinct(t)
             /\ \A k \in 1..Len(t) : t[k] = IF k < i THEN s[k] ELSE s[k+1]
             /\ Elements(t) = Elements(s) \ {s[i]}
<1> DEFINE t == Without(s, i)
<1>1. /\ t \in Seq(S) /\ Len(t) = Len(s) - 1
      /\ \A k \in 1..Len(t) : t[k] = IF k < i THEN s[k] ELSE s[k+1]
  BY DEF Without
<1>2. Distinct(t)
  BY <1>1 DEF Distinct
<1>3. ASSUME NEW x \in Elements(s), x # s[i] PROVE x \in Elements(t)
  <2>1. PICK k \in 1..Len(s) : x = s[k]
    BY <1>3 DEF Elements
  <2>2. CASE k < i
    BY <2>1, <2>2, <1>1 DEF Elements
  <2>3. CASE k > i
    <3>1. k - 1 \in 1..Len(t) /\ t[k-1] = s[k]
      BY <2>3, <1>1
    <3> QED BY <2>1, <3>1 DEF Elements
  <2> QED BY <2>1, <2>2, <2>3, <1>3
<1>4. ASSUME NEW x \in Elements(t) PROVE x \in Elements(s) /\ x # s[i]
  BY <1>4, <1>1 DEF Elements, Distinct
<1> QED BY <1>1, <1>2, <1>3, <1>4

\* What std::rotate over the positions between i and j does.
LEMMA MovedFacts ==
  ASSUME NEW s \in Seq(Sprites), Distinct(s), NEW i \in 1..Len(s), NEW j \in 1..Len(s), i # j
  PROVE  LET t == Moved(s, i, j)
         IN  /\ t \in Seq(Sprites) /\ Len(t) = Len(s) /\ Distinct(t)
             /\ \A k \in 1..Len(s) : (k < i /\ k < j) \/ (k > i /\ k > j) => t[k] = s[k]
             /\ Elements(t) = Elements(s)
<1> DEFINE t == Moved(s, i, j)
<1>1. /\ t \in Seq(Sprites) /\ Len(t) = Len(s)
      /\ t[j] = s[i]
      /\ \A k \in 1..Len(s) : i <= k /\ k < j => t[k] = s[k+1]
      /\ \A k \in 1..Len(s) : j < k /\ k <= i => t[k] = s[k-1]
      /\ \A k \in 1..Len(s) : (k < i /\ k < j) \/ (k > i /\ k > j) => t[k] = s[k]
  BY DEF Moved
<1>2. Distinct(t)
  <2>1. SUFFICES ASSUME NEW a \in 1..Len(s), NEW b \in 1..Len(s), t[a] = t[b], a < b
                 PROVE  FALSE
    BY <1>1 DEF Distinct
  <2> DEFINE from(k) == IF k = j THEN i ELSE IF i <= k /\ k < j THEN k + 1
                        ELSE IF j < k /\ k <= i THEN k - 1 ELSE k
  <2>2. ASSUME NEW k \in 1..Len(s) PROVE from(k) \in 1..Len(s) /\ t[k] = s[from(k)]
    <3>1. CASE k = j
      BY <1>1, <3>1
    <3>2. CASE k # j /\ i <= k /\ k < j
      BY <1>1, <3>2
    <3>3. CASE k # j /\ j < k /\ k <= i
      BY <1>1, <3>3
    <3>4. CASE (k < i /\ k < j) \/ (k > i /\ k > j)
      BY <1>1, <3>4
    <3> QED BY <3>1, <3>2, <3>3, <3>4
  <2>3. from(a) # from(b)
    BY <2>1
  <2>4. s[from(a)] = s[from(b)]
    BY <2>1, <2>2
  <2>5. from(a) \in 1..Len(s) /\ from(b) \in 1..Len(s)
    BY <2>2
  <2> HIDE DEF from
  <2> QED BY <2>3, <2>4, <2>5 DEF Distinct
<1>3. ASSUME NEW x \in Elements(s) PROVE x \in Elements(t)
  <2>1. PICK k \in 1..Len(s) : x = s[k]
    BY <1>3 DEF Elements
  <2>2. \E m \in 1..Len(s) : t[m] = s[k]
    <3>1. CASE k = i
      BY <3>1, <1>1
    <3>2. CASE i < k /\ k <= j
      <4>1. k - 1 \in 1..Len(s) /\ t[k-1] = s[k]
        BY <3>2, <1>1
      <4> QED BY <4>1
    <3>3. CASE j <= k /\ k < i
      <4>1. k + 1 \in 1..Len(s) /\ t[k+1] = s[k]
        BY <3>3, <1>1
      <4> QED BY <4>1
    <3>4. CASE (k < i /\ k < j) \/ (k > i /\ k > j)
      BY <3>4, <1>1
    <3> QED BY <3>1, <3>2, <3>3, <3>4
  <2> QED BY <2>1, <2>2, <1>1 DEF Elements
<1>4. ASSUME NEW x \in Elements(t) PROVE x \in Elements(s)
  <2>1. PICK k \in 1..Len(s) : x = t[k]
    BY <1>4, <1>1 DEF Elements
  <2>2. \E m \in 1..Len(s) : t[k] = s[m]
    BY <1>1
  <2> QED BY <2>1, <2>2 DEF Elements
<1> QED BY <1>1, <1>2, <1>3, <1>4

\* Recomputing the layers of the positions first..last leaves every listed
\* sprite with its distance from the back, if the others had it already.
LEMMA RelayeredFacts ==
  ASSUME NEW s \in Seq(Sprites), Distinct(s), NEW ly \in [Sprites -> Int],
         NEW first \in 1..Len(s), NEW last \in 1..Len(s),
         \A k \in 1..Len(s) : k \notin first..last => ly[s[k]] = Len(s) - k
  PROVE  LET l == Relayered(s, ly, first, last)
         IN  l \in [Sprites -> Int] /\ \A k \in 1..Len(s) : l[s[k]] = Len(s) - k
<1> DEFINE l == Relayered(s, ly, first, last)
<1>1. \A k \in 1..Len(s) : s[k] \in Sprites /\ At(s, s[k]) = k
  BY AtUnique
<1>2. l \in [Sprites -> Int]
  <2>1. ASSUME NEW x \in Sprites, NEW k \in first..last, s[k] = x
        PROVE  Len(s) - At(s, x) \in Int
    <3>1. k \in 1..Len(s) /\ k \in Int /\ Len(s) \in Int
      OBVIOUS
    <3>2. At(s, x) = k
      BY <2>1, <3>1, <1>1
    <3> QED BY <3>1, <3>2
  <2> QED BY <2>1 DEF Relayered
<1>3. ASSUME NEW k \in 1..Len(s) PROVE l[s[k]] = Len(s) - k
  <2>1. CASE k \in first..last
    BY <2>1, <1>1 DEF Relayered
  <2>2. CASE k \notin first..last
    <3>1. ~ \E m \in first..last : s[m] = s[k]
      BY <2>2 DEF Distinct
    <3> QED BY <2>2, <3>1, <1>1 DEF Relayered
  <2> QED BY <2>1, <2>2
<1> QED BY <1>2, <1>3

\* Taking an element out of a sequence that has it at most once.
LEMMA ErasedFacts ==
  ASSUME NEW S, NEW s \in Seq(S), Distinct(s), NEW x
  PROVE  LET t == Erased(s, x)
         IN  t \in Seq(S) /\ Distinct(t) /\ Elements(t) = Elements(s) \ {x}
<1>1. CASE \E k \in 1..Len(s) : s[k] = x
  <2>1. PICK k \in 1..Len(s) : s[k] = x
    BY <1>1
  <2>2. At(s, x) = k
    BY <2>1, AtUnique
  <2>3. Erased(s, x) = Without(s, k)
    BY <1>1, <2>2 DEF Erased
  <2> QED BY <2>1, <2>3, WithoutFacts
<1>2. CASE ~ \E k \in 1..Len(s) : s[k] = x
  BY <1>2 DEF Erased, Elements
<1> QED BY <1>1, <1>2

LEMMA LoopAfterType ==
  ASSUME NEW s \in Seq(Sprites), loop \in [over : {"copy", "live", "freed"}, seq : Seq(Sprites), i : Nat \ {0}]
  PROVE  /\ LoopAfter(s) \in [over : {"copy", "live", "freed"}, seq : Seq(Sprites), i : Nat \ {0}]
         /\ LoopFreed \in [over : {"copy", "live", "freed"}, seq : Seq(Sprites), i : Nat \ {0}]
<1>1. Reread(s) \in Seq(Sprites)
  BY DEF Reread
<1> QED BY <1>1 DEF LoopAfter, LoopFreed
\* The next round of a loop.
LEMMA AdvanceType ==
  ASSUME loop \in [over : {"copy", "live", "freed"}, seq : Seq(Sprites), i : Nat \ {0}]
  PROVE  [loop EXCEPT !.i = @ + 1] \in [over : {"copy", "live", "freed"}, seq : Seq(Sprites), i : Nat \ {0}]
<1>1. loop.i + 1 \in Nat \ {0}
  OBVIOUS
<1> QED BY <1>1
-----------------------------------------------------------------------------
(* The inductive invariant.                                                *)

\* While runCloneStarts looks for a clone that has not been started, no
\* script is running and the clone is still ahead in the loop.
Sought ==
  /\ phase = "clones" /\ ~purging /\ starting \in Listed \ toDelete /\ started[starting] = 0
  => /\ self = None
     /\ \E k \in loop.i..Len(loop.seq) : loop.seq[k] = starting
Tracking ==
  /\ self # None /\ ~purging => self \in Listed
  /\ purging => cloneCount = 0 /\ cloneQueue = <<>>
  /\ phase # "clones" => starting = None
  /\ phase = "clones" /\ self # None => self = starting
  /\ Sought
IInv == TypeOK /\ ListWellFormed /\ LayerIsPosition /\ QueueAlive /\ NoCloneForgotten /\ Tracking

LEMMA WellFormedFacts ==
  ASSUME TypeOK, ListWellFormed
  PROVE  /\ Distinct(sprites) /\ Elements(sprites) = Listed
         /\ \A k \in 1..Len(sprites) : sprites[k] # Stage => k \in 1..Len(sprites)-1
BY DEF TypeOK, ListWellFormed, Distinct, Elements, Listed

\* A block finds the position of its sprite from the layer.
LEMMA PositionFacts ==
  ASSUME TypeOK, ListWellFormed, LayerIsPosition, ~Renumbering, NEW x \in Listed
  PROVE  Position(x) \in 1..Len(sprites) /\ sprites[Position(x)] = x
<1>1. PICK k \in 1..Len(sprites) : sprites[k] = x
  BY DEF Listed
<1> QED BY <1>1 DEF TypeOK, LayerIsPosition, Position
-----------------------------------------------------------------------------
(* The steps that change the list.                                         *)

LEMMA CreateStep ==
  ASSUME IInv, NEW c \in Clones, NEW t \in Originals \cup Clones, CreateClone(c, t)
  PROVE  IInv'
<1> DEFINE i == Position(t)
<1>1. /\ Distinct(sprites) /\ Elements(sprites) = Listed /\ ~Renumbering
      /\ c \in Sprites /\ c \notin Listed /\ self \in Listed /\ ~purging
  BY WellFormedFacts, SpritesDisjoint DEF IInv, CreateClone, Running, Tracking, Renumbering, Finished, Idle, Sprites
<1>2. t \in Listed /\ t # Stage
  BY <1>1, SpritesDisjoint DEF IInv, CreateClone, ListWellFormed
<1>3. i \in 1..Len(sprites)-1 /\ sprites[i] = t
  <2>1. i \in 1..Len(sprites) /\ sprites[i] = t
    BY <1>1, <1>2, PositionFacts DEF IInv
  <2> QED BY <2>1, <1>2, WellFormedFacts DEF IInv
<1>4. sprites \in Seq(Sprites) /\ layer \in [Sprites -> Int] /\ sprites' = InsertBehind(sprites, i, c)
  BY DEF IInv, TypeOK, CreateClone
<1> HIDE DEF i
<1>5. /\ sprites' \in Seq(Sprites) /\ Len(sprites') = Len(sprites) + 1 /\ Distinct(sprites')
      /\ \A k \in 1..i : sprites'[k] = sprites[k]
      /\ sprites'[i+1] = c
      /\ \A k \in i+2..Len(sprites)+1 : sprites'[k] = sprites[k-1]
      /\ Elements(sprites') = Elements(sprites) \cup {c}
  <2>1. c \notin Elements(sprites)
    BY <1>1
  <2>2. LET u == InsertBehind(sprites, i, c)
        IN  /\ u \in Seq(Sprites) /\ Len(u) = Len(sprites) + 1 /\ Distinct(u)
            /\ \A k \in 1..i : u[k] = sprites[k]
            /\ u[i+1] = c
            /\ \A k \in i+2..Len(sprites)+1 : u[k] = sprites[k-1]
            /\ Elements(u) = Elements(sprites) \cup {c}
    <3>1. sprites \in Seq(Sprites) /\ Distinct(sprites) /\ i \in 1..Len(sprites)-1 /\ c \in Sprites
      BY <1>1, <1>3, <1>4
    <3> QED BY <2>1, <3>1, InsertBehindFacts
  <2> QED BY <2>2, <1>4
<1>6. Listed' = Listed \cup {c}
  BY <1>1, <1>5 DEF Listed, Elements
<1>7. /\ layer' \in [Sprites -> Int]
      /\ \A k \in 1..Len(sprites') : layer'[sprites'[k]] = Len(sprites') - k
  <2> DEFINE ly == [layer EXCEPT ![c] = layer[t]]
  <2>1. \A k \in 1..Len(sprites) : layer[sprites[k]] = Len(sprites) - k
    BY <1>1 DEF IInv, LayerIsPosition
  <2>2. ly \in [Sprites -> Int] /\ ly[c] = layer[t] /\ \A x \in Sprites : x # c => ly[x] = layer[x]
    BY <1>1, <1>4, <1>2 DEF Sprites
  <2>3. layer' = Relayered(sprites', ly, 1, i)
    BY DEF CreateClone, i
  <2> HIDE DEF ly
  <2>4. ASSUME NEW k \in 1..Len(sprites'), k \notin 1..i PROVE ly[sprites'[k]] = Len(sprites') - k
    <3>1. CASE k = i + 1
      <4>1. layer[t] = Len(sprites) - i
        BY <2>1, <1>3
      <4>2. sprites'[k] = c /\ Len(sprites') = Len(sprites) + 1 /\ Len(sprites) \in Nat
        BY <3>1, <1>5, <1>4
      <4> QED BY <3>1, <4>1, <4>2, <2>2, <1>3
    <3>2. CASE k > i + 1
      <4> DEFINE n == Len(sprites)
      <4>0. n \in Nat /\ i \in 1..n /\ k \in 1..n+1
        BY <1>5, <1>3, <1>4
      <4>1a. k \in i+2..n+1 /\ k - 1 \in 1..n
        BY <4>0, <3>2
      <4>1. k - 1 \in 1..Len(sprites) /\ sprites'[k] = sprites[k-1]
        BY <4>1a, <1>5
      <4>2. sprites[k-1] \in Sprites /\ sprites[k-1] # c
        BY <4>1, <1>1, <1>4 DEF Listed
      <4>3. ly[sprites'[k]] = Len(sprites) - (k - 1)
        BY <4>1, <4>2, <2>1, <2>2
      <4> QED BY <4>3, <1>5, <1>4
    <3> QED BY <3>1, <3>2, <2>4, <1>3
  <2>5. i \in 1..Len(sprites') /\ 1 \in 1..Len(sprites')
    BY <1>3, <1>5, <1>4
  <2> QED BY <1>5, <2>2, <2>3, <2>4, <2>5, RelayeredFacts
<1>8. TypeOK'
  <2>1. loop' \in [over : {"copy", "live", "freed"}, seq : Seq(Sprites), i : Nat \ {0}]
    BY <1>5, LoopAfterType DEF IInv, TypeOK, CreateClone
  <2>2. cloneQueue' \in Seq(Clones) /\ cloneCount' \in -MaxClones..MaxClones
    BY MaxClonesNat DEF IInv, TypeOK, CreateClone
  <2>3. started' \in [Clones -> StartRuns]
    BY DEF IInv, TypeOK, CreateClone, StartRuns
  <2> QED BY <1>5, <1>7, <2>1, <2>2, <2>3 DEF IInv, TypeOK, CreateClone, script
<1>9. ListWellFormed'
  <2>1. sprites'[Len(sprites')] = Stage
    <3>1. Len(sprites) + 1 \in i+2..Len(sprites)+1 /\ Len(sprites) + 1 - 1 = Len(sprites)
      BY <1>3, <1>4
    <3>2. sprites'[Len(sprites) + 1] = sprites[Len(sprites)]
      BY <3>1, <1>5
    <3> QED BY <3>2, <1>5 DEF IInv, ListWellFormed
  <2> QED BY <1>5, <1>6, <1>4, <2>1 DEF IInv, ListWellFormed, Distinct
<1>10. LayerIsPosition'
  BY <1>7 DEF LayerIsPosition
<1>11. QueueAlive'
  <2>1. cloneQueue \in Seq(Clones) /\ cloneQueue' = Append(cloneQueue, c)
    BY DEF IInv, TypeOK, CreateClone
  <2>2. \A k \in 1..Len(cloneQueue) : cloneQueue[k] \in Listed /\ cloneQueue[k] # c
    BY <1>1 DEF IInv, QueueAlive
  <2>3. \A k \in 1..Len(cloneQueue') : cloneQueue'[k] \in Listed'
    BY <2>1, <2>2, <1>6
  <2>4. \A j, k \in 1..Len(cloneQueue') : cloneQueue'[j] = cloneQueue'[k] => j = k
    BY <2>1, <2>2, <1>1 DEF IInv, QueueAlive
  <2> QED BY <2>3, <2>4 DEF QueueAlive
<1>12. NoCloneForgotten'
  <2>1. cloneQueue \in Seq(Clones) /\ cloneQueue' = Append(cloneQueue, c)
    BY DEF IInv, TypeOK, CreateClone
  <2>2. /\ \E k \in 1..Len(cloneQueue') : cloneQueue'[k] = c
        /\ \A x : (\E k \in 1..Len(cloneQueue) : cloneQueue[k] = x)
                  => \E k \in 1..Len(cloneQueue') : cloneQueue'[k] = x
    <3>1. Len(cloneQueue') = Len(cloneQueue) + 1 /\ cloneQueue'[Len(cloneQueue) + 1] = c
          /\ \A k \in 1..Len(cloneQueue) : cloneQueue'[k] = cloneQueue[k]
      BY <2>1
    <3> QED BY <3>1, <2>1
  <2>3. \A x \in Clones : x # c => started'[x] = started[x] /\ (x \in toDelete' <=> x \in toDelete)
    BY DEF IInv, TypeOK, CreateClone
  <2>4. starting' = starting
    BY DEF CreateClone
  <2> QED BY <2>2, <2>3, <2>4, <1>1, <1>6 DEF IInv, NoCloneForgotten
<1>13. Tracking'
  <2>1. self' = self /\ purging' = purging /\ phase' = phase /\ starting' = starting /\ self # None
    BY DEF CreateClone, script, Running
  <2>2. Sought'
    <3>1. CASE phase = "clones"
      <4>1. starting = self /\ starting # c
        BY <3>1, <2>1, <1>1 DEF IInv, Tracking
      <4>2. self \in toDelete' => self \in toDelete
        BY DEF CreateClone
      <4>3. self \in toDelete <=> self \in toDelete'
        BY <4>1 DEF CreateClone
      <4>4. self \in Clones => started'[self] = started[self]
        BY <4>1 DEF IInv, TypeOK, CreateClone
      <4>5. self \in Clones
        BY <4>1, <2>1 DEF IInv, TypeOK
      <4> QED BY <4>1, <4>3, <4>4, <4>5, <3>1, <2>1, <1>1 DEF IInv, Tracking, Sought
    <3>2. CASE phase # "clones"
      BY <3>2, <2>1 DEF Sought
    <3> QED BY <3>1, <3>2
  <2> QED BY <2>1, <2>2, <1>1, <1>6 DEF IInv, Tracking
<1> QED BY <1>8, <1>9, <1>10, <1>11, <1>12, <1>13 DEF IInv

LEMMA MoveStep ==
  ASSUME IInv, NEW j \in 1..Len(sprites), GoToPosition(j)
  PROVE  IInv'
<1> DEFINE i == Position(self)
<1>1. /\ Distinct(sprites) /\ Elements(sprites) = Listed /\ ~Renumbering
      /\ self \in Listed /\ ~purging
  BY WellFormedFacts DEF IInv, GoToPosition, Running, Tracking, Renumbering, Finished, Idle
<1>2. i \in 1..Len(sprites) /\ sprites[i] = self
  BY <1>1, PositionFacts DEF IInv
<1>3. sprites \in Seq(Sprites) /\ layer \in [Sprites -> Int] /\ sprites' = Moved(sprites, i, j)
  BY DEF IInv, TypeOK, GoToPosition
<1>4. i \in 1..Len(sprites)-1 /\ j \in 1..Len(sprites)-1 /\ i # j
  BY <1>2, WellFormedFacts DEF IInv, GoToPosition
<1>5. layer' = IF j < i THEN Relayered(sprites', layer, j, i) ELSE Relayered(sprites', layer, i, j)
  BY DEF GoToPosition
<1> HIDE DEF i
<1>6. /\ sprites' \in Seq(Sprites) /\ Len(sprites') = Len(sprites) /\ Distinct(sprites')
      /\ \A k \in 1..Len(sprites) : (k < i /\ k < j) \/ (k > i /\ k > j) => sprites'[k] = sprites[k]
      /\ Elements(sprites') = Elements(sprites)
  <2>1. LET u == Moved(sprites, i, j)
        IN  /\ u \in Seq(Sprites) /\ Len(u) = Len(sprites) /\ Distinct(u)
            /\ \A k \in 1..Len(sprites) : (k < i /\ k < j) \/ (k > i /\ k > j) => u[k] = sprites[k]
            /\ Elements(u) = Elements(sprites)
    BY <1>1, <1>2, <1>3, <1>4, MovedFacts
  <2> QED BY <2>1, <1>3
<1>7. Listed' = Listed
  BY <1>1, <1>6 DEF Listed, Elements
<1>8. /\ layer' \in [Sprites -> Int]
      /\ \A k \in 1..Len(sprites') : layer'[sprites'[k]] = Len(sprites') - k
  <2>1. \A k \in 1..Len(sprites) : layer[sprites[k]] = Len(sprites) - k
    BY <1>1 DEF IInv, LayerIsPosition
  <2>2. i \in 1..Len(sprites') /\ j \in 1..Len(sprites')
    BY <1>2, <1>6
  <2>3. \A k \in 1..Len(sprites') : (k < i /\ k < j) \/ (k > i /\ k > j)
                                     => layer[sprites'[k]] = Len(sprites') - k
    BY <2>1, <1>6
  <2>4. CASE j < i
    <3>1. layer' = Relayered(sprites', layer, j, i)
      BY <2>4, <1>5
    <3>2. ASSUME NEW k \in 1..Len(sprites'), k \notin j..i
          PROVE  layer[sprites'[k]] = Len(sprites') - k
      <4>1. (k < i /\ k < j) \/ (k > i /\ k > j)
        BY <2>2, <2>4, <3>2
      <4> QED BY <4>1, <2>3
    <3>3. \A k \in 1..Len(sprites') : k \notin j..i => layer[sprites'[k]] = Len(sprites') - k
      BY <3>2
    <3>4. sprites' \in Seq(Sprites) /\ Distinct(sprites') /\ layer \in [Sprites -> Int]
      BY <1>3, <1>6
    <3> QED BY <3>1, <3>3, <3>4, <2>2, RelayeredFacts
  <2>5. CASE i < j
    <3>1. layer' = Relayered(sprites', layer, i, j)
      BY <2>5, <1>4, <1>5
    <3>2. ASSUME NEW k \in 1..Len(sprites'), k \notin i..j
          PROVE  layer[sprites'[k]] = Len(sprites') - k
      <4>1. (k < i /\ k < j) \/ (k > i /\ k > j)
        BY <2>2, <2>5, <3>2
      <4> QED BY <4>1, <2>3
    <3>3. \A k \in 1..Len(sprites') : k \notin i..j => layer[sprites'[k]] = Len(sprites') - k
      BY <3>2
    <3>4. sprites' \in Seq(Sprites) /\ Distinct(sprites') /\ layer \in [Sprites -> Int]
      BY <1>3, <1>6
    <3> QED BY <3>1, <3>3, <3>4, <2>2, RelayeredFacts
  <2> QED BY <2>4, <2>5, <1>4
<1>9. TypeOK'
  <2>1. loop' \in [over : {"copy", "live", "freed"}, seq : Seq(Sprites), i : Nat \ {0}]
    BY <1>6, LoopAfterType DEF IInv, TypeOK, GoToPosition
  <2> QED BY <1>6, <1>8, <2>1 DEF IInv, TypeOK, GoToPosition, script, marks, clones
<1>10. ListWellFormed'
  <2>1. sprites'[Len(sprites')] = Stage
    BY <1>3, <1>4, <1>6 DEF IInv, ListWellFormed
  <2> QED BY <1>6, <1>7, <2>1 DEF IInv, ListWellFormed, Distinct
<1>11. LayerIsPosition'
  BY <1>8 DEF LayerIsPosition
<1>12. QueueAlive' /\ NoCloneForgotten'
  BY <1>1, <1>7 DEF IInv, QueueAlive, NoCloneForgotten, GoToPosition, marks, clones, script
<1>13. Tracking'
  <2>1. self' = self /\ purging' = purging /\ phase' = phase /\ starting' = starting /\ self # None
        /\ toDelete' = toDelete /\ started' = started
    BY DEF GoToPosition, script, Running, marks
  <2>2. Sought'
    BY <2>1, <1>1, <1>7 DEF IInv, Tracking, Sought
  <2> QED BY <2>1, <2>2, <1>1, <1>7 DEF IInv, Tracking
<1> QED BY <1>9, <1>10, <1>11, <1>12, <1>13 DEF IInv

\* Taking a clone out of the list.
LEMMA RemoveFacts ==
  ASSUME TypeOK, ListWellFormed, NEW k \in 1..Len(sprites), sprites[k] \in Clones,
         sprites' = Without(sprites, k)
  PROVE  /\ sprites' \in Seq(Sprites) /\ ListWellFormed'
         /\ Listed' = Listed \ {sprites[k]}
<1>1. Distinct(sprites) /\ Elements(sprites) = Listed /\ k \in 1..Len(sprites)-1
  BY WellFormedFacts, SpritesDisjoint
<1>2. sprites \in Seq(Sprites)
  BY DEF TypeOK
<1>3. LET t == Without(sprites, k)
      IN  /\ t \in Seq(Sprites) /\ Len(t) = Len(sprites) - 1 /\ Distinct(t)
          /\ \A m \in 1..Len(t) : t[m] = IF m < k THEN sprites[m] ELSE sprites[m+1]
          /\ Elements(t) = Elements(sprites) \ {sprites[k]}
  BY <1>1, <1>2, WithoutFacts
<1>4. Listed' = Listed \ {sprites[k]}
  BY <1>1, <1>3 DEF Listed, Elements
<1>5. Len(sprites') >= 1 /\ sprites'[Len(sprites')] = Stage
  BY <1>1, <1>2, <1>3 DEF ListWellFormed
<1>6. Originals \subseteq Listed'
  BY <1>4, SpritesDisjoint DEF ListWellFormed
<1> QED BY <1>3, <1>4, <1>5, <1>6 DEF ListWellFormed, Distinct

LEMMA PurgeStep ==
  ASSUME IInv, PurgeClone PROVE IInv'
<1>1. PICK k \in 1..Len(sprites) :
        /\ sprites[k] \in Clones
        /\ sprites' = Without(sprites, k)
        /\ toDelete' = toDelete \ {sprites[k]}
        /\ loop' = LoopAfter(sprites')
  BY DEF PurgeClone
<1>2. purging /\ purging'
  BY DEF PurgeClone
<1>3. /\ sprites' \in Seq(Sprites) /\ ListWellFormed'
      /\ Listed' = Listed \ {sprites[k]}
  BY <1>1, RemoveFacts DEF IInv
<1>4. TypeOK'
  <2>1. loop' \in [over : {"copy", "live", "freed"}, seq : Seq(Sprites), i : Nat \ {0}]
    BY <1>1, <1>3, LoopAfterType DEF IInv, TypeOK
  <2> QED BY <1>1, <1>3, <2>1 DEF IInv, TypeOK, PurgeClone, clones, script
<1>5. Renumbering'
  BY <1>2 DEF Renumbering
<1>6. Tracking'
  BY <1>2 DEF IInv, Tracking, PurgeClone, clones, script, Sought
<1> QED BY <1>2, <1>3, <1>4, <1>5, <1>6 DEF IInv, LayerIsPosition, QueueAlive, NoCloneForgotten

LEMMA SweepStep ==
  ASSUME IInv, SweepClone PROVE IInv'
<1>1. PICK k \in 1..Len(sprites) :
        /\ sprites[k] \in toDelete
        /\ sprites' = Without(sprites, k)
        /\ toDelete' = toDelete \ {sprites[k]} /\ active' = active \ {sprites[k]}
        /\ cloneQueue' = Erased(cloneQueue, sprites[k])
  BY DEF SweepClone
<1>2. /\ Finished("repeats") /\ Finished("repeats")' /\ ~purging /\ ~purging'
      /\ phase = "repeats" /\ phase' = "repeats" /\ self = None /\ self' = None
      /\ starting' = starting /\ started' = started
  BY DEF SweepClone, Finished, Idle, script
<1>3. /\ sprites' \in Seq(Sprites) /\ ListWellFormed'
      /\ Listed' = Listed \ {sprites[k]}
  BY <1>1, RemoveFacts DEF IInv, TypeOK
<1>4. /\ cloneQueue' \in Seq(Clones) /\ Distinct(cloneQueue')
      /\ Elements(cloneQueue') = Elements(cloneQueue) \ {sprites[k]}
  <2>1. cloneQueue \in Seq(Clones) /\ Distinct(cloneQueue)
    BY <1>2 DEF IInv, TypeOK, QueueAlive, Distinct
  <2> QED BY <2>1, <1>1, ErasedFacts
<1>5. TypeOK'
  BY <1>1, <1>2, <1>3, <1>4 DEF IInv, TypeOK, SweepClone, script
<1>6. LayerIsPosition'
  BY <1>2 DEF LayerIsPosition, Renumbering
<1>7. QueueAlive'
  <2>1. ASSUME NEW m \in 1..Len(cloneQueue') PROVE cloneQueue'[m] \in Listed'
    <3>1. cloneQueue'[m] \in Elements(cloneQueue) /\ cloneQueue'[m] # sprites[k]
      BY <1>4 DEF Elements
    <3>2. Elements(cloneQueue) \subseteq Listed
      BY <1>2 DEF IInv, QueueAlive, Elements
    <3> QED BY <3>1, <3>2, <1>3
  <2> QED BY <2>1, <1>4 DEF QueueAlive, Distinct
<1>8. NoCloneForgotten'
  <2>1. ASSUME NEW c \in (Listed' \cap Clones) \ toDelete', started'[c] = 0
        PROVE  \E m \in 1..Len(cloneQueue') : cloneQueue'[m] = c
    <3>1. c # sprites[k] /\ c \in (Listed \cap Clones) \ toDelete /\ c # starting
      BY <2>1, <1>1, <1>2, <1>3, SpritesDisjoint DEF IInv, Tracking
    <3>2. c \in Elements(cloneQueue)
      BY <3>1, <2>1, <1>2 DEF IInv, NoCloneForgotten, Elements
    <3> QED BY <3>1, <3>2, <1>4 DEF Elements
  <2> QED BY <2>1 DEF NoCloneForgotten
<1>9. Tracking'
  BY <1>2 DEF IInv, Tracking, Sought
<1> QED BY <1>3, <1>5, <1>6, <1>7, <1>8, <1>9 DEF IInv
-----------------------------------------------------------------------------
(* The steps that leave the list alone.                                    *)

\* The part of the invariant that only speaks of the list survives them.
LEMMA ListKept ==
  ASSUME IInv, UNCHANGED list, ~Renumbering
  PROVE  ListWellFormed' /\ LayerIsPosition' /\ Listed' = Listed
BY DEF IInv, ListWellFormed, LayerIsPosition, Listed, list

\* The loops that renumber everything.
LEMMA RenumberedAll ==
  ASSUME TypeOK, ListWellFormed, sprites' = sprites,
         layer' = Relayered(sprites, layer, 1, Len(sprites))
  PROVE  layer' \in [Sprites -> Int] /\ ListWellFormed' /\ LayerIsPosition' /\ Listed' = Listed
<1>1. sprites \in Seq(Sprites) /\ layer \in [Sprites -> Int] /\ Distinct(sprites)
  BY WellFormedFacts DEF TypeOK
<1>2. 1 \in 1..Len(sprites) /\ Len(sprites) \in 1..Len(sprites)
  BY <1>1 DEF ListWellFormed
<1>3. \A k \in 1..Len(sprites) : k \notin 1..Len(sprites) => layer[sprites[k]] = Len(sprites) - k
  OBVIOUS
<1>4. layer' \in [Sprites -> Int] /\ \A k \in 1..Len(sprites) : layer'[sprites[k]] = Len(sprites) - k
  BY <1>1, <1>2, <1>3, RelayeredFacts
<1> QED BY <1>4 DEF ListWellFormed, LayerIsPosition, Listed

LEMMA PurgeDoneStep ==
  ASSUME IInv, PurgeDone PROVE IInv'
<1>1. layer' \in [Sprites -> Int] /\ ListWellFormed' /\ LayerIsPosition' /\ Listed' = Listed
  BY RenumberedAll DEF IInv, PurgeDone
<1>2. TypeOK'
  <2>1. loop' \in [over : {"copy", "live", "freed"}, seq : Seq(Sprites), i : Nat \ {0}]
    BY AdvanceType DEF IInv, TypeOK, PurgeDone
  <2>2. self' \in Sprites \cup {None} /\ purging' \in BOOLEAN
    BY DEF IInv, TypeOK, PurgeDone
  <2> QED BY <1>1, <2>1, <2>2 DEF IInv, TypeOK, PurgeDone, marks, clones
<1>3. QueueAlive' /\ NoCloneForgotten'
  <2>1. cloneQueue' = <<>> /\ Listed' \cap Clones = {}
    BY <1>1 DEF IInv, Tracking, PurgeDone, clones
  <2> QED BY <2>1 DEF QueueAlive, NoCloneForgotten
<1>4. Tracking'
  <2>1. self' # None => self' \in Originals \cup {Stage}
    BY DEF IInv, TypeOK, PurgeDone, Sprites
  <2>2. starting' = starting /\ phase' = phase /\ ~purging' /\ Listed' \cap Clones = {}
    BY <1>1 DEF PurgeDone
  <2>3. starting' \notin Listed' \ toDelete'
    <3>1. starting' \in Clones \cup {None} /\ Listed' \subseteq Sprites
      <4>1. Listed \subseteq Sprites /\ starting \in Clones \cup {None}
        BY DEF IInv, TypeOK, Listed
      <4> QED BY <4>1, <1>1, <2>2
    <3> QED BY <2>2, <3>1, SpritesDisjoint DEF Sprites
  <2>4. phase' = "clones" => self' = None
    BY <2>1, <2>2, SpritesDisjoint DEF IInv, TypeOK, Tracking, PurgeDone
  <2>5. self' # None => self' \in Listed'
    BY <2>1, <1>1 DEF ListWellFormed, Listed
  <2> QED BY <2>2, <2>3, <2>4, <2>5 DEF IInv, Tracking, Sought
<1> QED BY <1>1, <1>2, <1>3, <1>4 DEF IInv

LEMMA SweepDoneStep ==
  ASSUME IInv, SweepDone PROVE IInv'
<1>1. layer' \in [Sprites -> Int] /\ ListWellFormed' /\ LayerIsPosition' /\ Listed' = Listed
  BY RenumberedAll DEF IInv, SweepDone
<1>2. ~purging /\ ~purging' /\ self = None /\ self' = None /\ phase = "repeats" /\ phase' = "idle"
  BY DEF SweepDone, Finished, Idle, script
<1>3. TypeOK'
  BY <1>1, <1>2 DEF IInv, TypeOK, SweepDone, marks, clones, NoLoop, script
<1>4. QueueAlive' /\ NoCloneForgotten' /\ Tracking'
  BY <1>1, <1>2 DEF IInv, QueueAlive, NoCloneForgotten, Tracking, Sought, SweepDone, marks, clones
<1> QED BY <1>1, <1>3, <1>4 DEF IInv

\* What a running script does to the marks and the queue.
LEMMA ScriptStepsKeep ==
  ASSUME IInv, DeleteThisClone \/ StopAll \/ EndScript PROVE IInv'
<1>1. ListWellFormed' /\ LayerIsPosition' /\ Listed' = Listed /\ ~purging /\ self # None /\ self \in Listed
  <2>1. ~Renumbering /\ UNCHANGED list /\ ~purging /\ self # None
    BY DEF DeleteThisClone, StopAll, EndScript, Running, Renumbering, Finished, Idle
  <2> QED BY <2>1, ListKept DEF IInv, Tracking
<1>2. CASE DeleteThisClone
  <2>1. TypeOK'
    <3>1. cloneCount' \in -MaxClones..MaxClones
      BY <1>2, MaxClonesNat DEF IInv, TypeOK, DeleteThisClone
    <3> QED BY <1>2, <3>1 DEF IInv, TypeOK, DeleteThisClone, list, script
  <2>2. QueueAlive' /\ NoCloneForgotten'
    BY <1>1, <1>2 DEF IInv, QueueAlive, NoCloneForgotten, DeleteThisClone
  <2>3. Tracking'
    BY <1>1, <1>2 DEF IInv, Tracking, Sought, DeleteThisClone, script
  <2> QED BY <1>1, <2>1, <2>2, <2>3 DEF IInv
<1>3. CASE StopAll
  <2>1. TypeOK'
    BY <1>3, MaxClonesNat DEF IInv, TypeOK, StopAll, list, script
  <2>2. purging' /\ cloneCount' = 0 /\ cloneQueue' = <<>>
    BY <1>3 DEF StopAll
  <2>3. Tracking'
    BY <2>2, <1>3 DEF IInv, Tracking, Sought, StopAll, script
  <2> QED BY <1>1, <2>1, <2>2, <2>3 DEF IInv, QueueAlive, NoCloneForgotten
<1>4. CASE EndScript
  <2>1. TypeOK'
    <3>1. loop' \in [over : {"copy", "live", "freed"}, seq : Seq(Sprites), i : Nat \ {0}]
      BY <1>4, AdvanceType DEF IInv, TypeOK, EndScript
    <3>2. active' \subseteq Sprites
      BY <1>4 DEF IInv, TypeOK, EndScript, Running
    <3> QED BY <1>4, <3>1, <3>2 DEF IInv, TypeOK, EndScript, list, clones
  <2>2. QueueAlive' /\ NoCloneForgotten'
    BY <1>1, <1>4 DEF IInv, QueueAlive, NoCloneForgotten, EndScript, clones
  <2>3. Tracking'
    <3>1. CASE phase = "clones"
      <4>1. ~(starting \in Listed \ toDelete /\ started[starting] = 0)
        BY <3>1, <1>1 DEF IInv, Tracking, Sought
      <4> QED BY <4>1, <3>1, <1>1, <1>4 DEF IInv, Tracking, Sought, EndScript
    <3>2. CASE phase # "clones"
      BY <3>2, <1>1, <1>4 DEF IInv, Tracking, Sought, EndScript
    <3> QED BY <3>1, <3>2
  <2> QED BY <1>1, <2>1, <2>2, <2>3 DEF IInv
<1> QED BY <1>2, <1>3, <1>4

\* The loops of a frame: what changes is which sprite is looked at, which one
\* runs a script and which clone is being started.
LEMMA LoopStepsKeep ==
  ASSUME IInv,
         \/ StartKeyHats \/ RunHat \/ NextSprite
         \/ StartClick \/ ClickSprite \/ ClickNextHat \/ NotClicked
         \/ BeginCloneStarts \/ StartDispatch \/ StartRepeats \/ RunRepeat
  PROVE  IInv'
<1>1. ~Renumbering /\ UNCHANGED list /\ ~purging /\ self = None
  BY DEF StartKeyHats, RunHat, NextSprite, StartClick, ClickSprite, ClickNextHat, NotClicked,
         BeginCloneStarts, StartDispatch, StartRepeats, RunRepeat, RunOn, Advance, ClonesStarted,
         Renumbering, Visiting, Finished, Idle, IInv, TypeOK
<1>2. ListWellFormed' /\ LayerIsPosition' /\ Listed' = Listed
  BY <1>1, ListKept
<1>3. /\ UNCHANGED <<marks, clones, purging>>
      /\ self' \in (Listed \ toDelete) \cup {None} /\ owner' \in Sprites \cup {None}
  <2>1. \A x \in Listed : x \in Sprites
    BY DEF IInv, TypeOK, Listed
  <2> QED BY <1>1, <2>1
      DEF StartKeyHats, RunHat, NextSprite, StartClick, ClickSprite, ClickNextHat, NotClicked,
          BeginCloneStarts, StartDispatch, StartRepeats, RunRepeat, RunOn, Advance, script, IInv, TypeOK
<1>4. /\ phase' \in {"idle", "keys", "click", "clones", "dispatch", "repeats"}
      /\ loop' \in [over : {"copy", "live", "freed"}, seq : Seq(Sprites), i : Nat \ {0}]
  <2>1. [over |-> "copy", seq |-> sprites, i |-> 1] \in [over : {"copy", "live", "freed"}, seq : Seq(Sprites), i : Nat \ {0}]
        /\ [over |-> "live", seq |-> sprites, i |-> 1] \in [over : {"copy", "live", "freed"}, seq : Seq(Sprites), i : Nat \ {0}]
        /\ NoLoop \in [over : {"copy", "live", "freed"}, seq : Seq(Sprites), i : Nat \ {0}]
    BY DEF IInv, TypeOK, NoLoop
  <2> QED BY <2>1, AdvanceType
      DEF StartKeyHats, RunHat, NextSprite, StartClick, ClickSprite, ClickNextHat, NotClicked,
          BeginCloneStarts, StartDispatch, StartRepeats, RunRepeat, RunOn, Advance, Iterate, IInv, TypeOK
<1>5. starting' \in {starting, None} /\ (phase' # "clones" => starting' = None)
      /\ (phase' = "clones" => phase # "clones" /\ starting' = None /\ self' = None)
  BY <1>1 DEF StartKeyHats, RunHat, NextSprite, StartClick, ClickSprite, ClickNextHat, NotClicked,
              BeginCloneStarts, StartDispatch, StartRepeats, RunRepeat, RunOn, Advance, Iterate,
              Visiting, Finished, Idle, IInv, Tracking
<1>6. TypeOK'
  <2>1. self' \in Sprites \cup {None}
    BY <1>3 DEF IInv, TypeOK, Listed
  <2> QED BY <1>1, <1>3, <1>4, <1>5, <2>1 DEF IInv, TypeOK, list, marks, clones
\* A clone that is dropped from starting has been started.
<1>7. \A c \in (Listed \cap Clones) \ toDelete : c = starting /\ starting' # starting => started[c] # 0
  <2>1. CASE phase = "clones" /\ starting' # starting
    <3>1. loop.i > Len(loop.seq) /\ loop.i \in Nat /\ Len(loop.seq) \in Nat
      BY <1>1, <2>1 DEF StartKeyHats, RunHat, NextSprite, StartClick, ClickSprite, ClickNextHat,
         NotClicked, BeginCloneStarts, StartDispatch, StartRepeats, RunRepeat, RunOn, Advance,
         ClonesStarted, Visiting, Finished, Idle, IInv, TypeOK
    <3> QED BY <2>1, <3>1, <1>1 DEF IInv, Tracking, Sought
  <2>2. CASE phase # "clones"
    BY <2>2, SpritesDisjoint DEF IInv, Tracking
  <2> QED BY <2>1, <2>2
<1>8. QueueAlive' /\ NoCloneForgotten'
  BY <1>1, <1>2, <1>3, <1>7 DEF IInv, QueueAlive, NoCloneForgotten, marks, clones
<1>9. Tracking'
  <2>1. starting' \notin Listed' \ toDelete' \/ phase' # "clones"
    <3>1. Listed \subseteq Sprites /\ None \notin Sprites
      BY SpritesDisjoint DEF IInv, TypeOK, Listed, Sprites
    <3> QED BY <3>1, <1>5, <1>2
  <2> QED BY <2>1, <1>1, <1>2, <1>3, <1>5 DEF IInv, Tracking, Sought
<1> QED BY <1>2, <1>6, <1>8, <1>9 DEF IInv

LEMMA NextCloneStep ==
  ASSUME IInv, NextClone PROVE IInv'
<1>1. ~Renumbering /\ UNCHANGED list /\ ~purging /\ ~purging' /\ self = None /\ self' = None
      /\ phase = "clones" /\ phase' = "clones" /\ loop.i > Len(loop.seq)
      /\ loop' = [over |-> "live", seq |-> sprites, i |-> 1]
      /\ starting' = Head(cloneQueue) /\ cloneQueue' = Tail(cloneQueue) /\ UNCHANGED marks
      /\ cloneQueue # <<>>
  BY DEF NextClone, Iterate, Renumbering, Finished, Idle, script
<1>2. ListWellFormed' /\ LayerIsPosition' /\ Listed' = Listed
  BY <1>1, ListKept
<1>3. /\ cloneQueue \in Seq(Clones) /\ Len(cloneQueue) \in Nat \ {0}
      /\ cloneQueue' \in Seq(Clones) /\ Len(cloneQueue') = Len(cloneQueue) - 1
      /\ starting' = cloneQueue[1] /\ starting' \in Clones
      /\ \A k \in 1..Len(cloneQueue') : cloneQueue'[k] = cloneQueue[k+1]
  BY <1>1 DEF IInv, TypeOK
<1>4. TypeOK'
  BY <1>1, <1>3 DEF IInv, TypeOK, NextClone, list, marks, script
<1>5. QueueAlive'
  BY <1>1, <1>2, <1>3 DEF IInv, QueueAlive
<1>6. NoCloneForgotten'
  <2>1. ASSUME NEW c \in (Listed \cap Clones) \ toDelete, started[c] = 0, c # starting'
        PROVE  \E k \in 1..Len(cloneQueue') : cloneQueue'[k] = c
    <3>1. c # starting
      <4>1. loop.i \in Nat /\ Len(loop.seq) \in Nat
        BY DEF IInv, TypeOK
      <4> QED BY <4>1, <2>1, <1>1 DEF IInv, Tracking, Sought
    <3>2. PICK k \in 1..Len(cloneQueue) : cloneQueue[k] = c
      BY <2>1, <3>1, <1>1 DEF IInv, NoCloneForgotten
    <3>3. k # 1
      BY <3>2, <2>1, <1>3
    <3>4. k - 1 \in 1..Len(cloneQueue') /\ cloneQueue'[k-1] = cloneQueue[k]
      BY <3>2, <3>3, <1>3
    <3> QED BY <3>2, <3>4
  <2> QED BY <2>1, <1>1, <1>2 DEF NoCloneForgotten, marks
<1>7. Tracking'
  <2>1. starting' \in Listed
    BY <1>1, <1>3 DEF IInv, QueueAlive
  <2>2. PICK k \in 1..Len(sprites) : sprites[k] = starting'
    BY <2>1 DEF Listed
  <2>3. \E m \in loop'.i..Len(loop'.seq) : loop'.seq[m] = starting'
    BY <2>2, <1>1
  <2> QED BY <2>3, <1>1 DEF Tracking, Sought
<1> QED BY <1>2, <1>4, <1>5, <1>6, <1>7 DEF IInv

LEMMA StartCloneStep ==
  ASSUME IInv, OtherSprite \/ StartClone PROVE IInv'
<1>1. ~Renumbering /\ UNCHANGED list /\ ~purging /\ ~purging' /\ self = None
      /\ phase = "clones" /\ phase' = "clones" /\ loop.i <= Len(loop.seq)
      /\ starting' = starting /\ UNCHANGED clones /\ toDelete' = toDelete
  BY DEF OtherSprite, StartClone, Advance, Renumbering, Finished, Visiting, Idle, script, marks
<1>2. ListWellFormed' /\ LayerIsPosition' /\ Listed' = Listed
  BY <1>1, ListKept
<1>3. CASE OtherSprite
  <2>1. TypeOK'
    BY <1>1, <1>3, AdvanceType DEF IInv, TypeOK, OtherSprite, Advance, list, marks, clones, script
  <2>2. QueueAlive' /\ NoCloneForgotten'
    BY <1>1, <1>2, <1>3 DEF IInv, QueueAlive, NoCloneForgotten, OtherSprite, Advance, clones, marks
  <2>3. Tracking'
    <3>1. loop' = [loop EXCEPT !.i = @ + 1] /\ self' = None /\ started' = started
          /\ loop.i \in Nat /\ Len(loop.seq) \in Nat
      BY <1>1, <1>3 DEF OtherSprite, Advance, script, marks, IInv, TypeOK
    <3>2. loop'.i = loop.i + 1 /\ loop'.seq = loop.seq
      BY <3>1 DEF IInv, TypeOK
    <3>3. starting \in Listed \ toDelete => loop.seq[loop.i] # starting
      BY <1>3 DEF OtherSprite, Visited
    <3>4. Sought'
      BY <1>1, <1>2, <3>1, <3>2, <3>3 DEF IInv, Tracking, Sought
    <3> QED BY <1>1, <1>2, <3>1, <3>4 DEF IInv, Tracking
  <2> QED BY <1>2, <2>1, <2>2, <2>3 DEF IInv
<1>4. CASE StartClone
  <2>1. self' = starting /\ starting \in Listed \ toDelete /\ starting \in Clones
        /\ started' = [started EXCEPT ![starting] = IF @ = 2 THEN 2 ELSE @ + 1]
        /\ active' = active /\ owner' = owner /\ loop' = loop
    <3>1. Listed \subseteq Sprites /\ None \notin Sprites
      BY SpritesDisjoint DEF IInv, TypeOK, Listed, Sprites
    <3> QED BY <3>1, <1>4 DEF StartClone, IInv, TypeOK
  <2>2. /\ started' \in [Clones -> StartRuns] /\ started'[starting] # 0
        /\ \A c \in Clones : c # starting => started'[c] = started[c]
    <3>1. started \in [Clones -> 0..2] /\ started[starting] \in 0..2
      BY <2>1 DEF IInv, TypeOK, StartRuns
    <3>2. (IF started[starting] = 2 THEN 2 ELSE started[starting] + 1) \in 1..2
      BY <3>1
    <3> QED BY <2>1, <3>1, <3>2 DEF StartRuns
  <2>3. TypeOK'
    <3>1. self' \in Sprites /\ owner' \in Sprites \cup {None} /\ active' \subseteq Sprites
      BY <2>1 DEF IInv, TypeOK, Sprites
    <3>2. starting' \in Clones \cup {None} /\ loop' \in [over : {"copy", "live", "freed"}, seq : Seq(Sprites), i : Nat \ {0}]
      BY <1>1, <2>1 DEF IInv, TypeOK
    <3>3. sprites' = sprites /\ layer' = layer /\ cloneQueue' = cloneQueue /\ cloneCount' = cloneCount
      BY <1>1 DEF list, clones
    <3>4. toDelete' \subseteq Clones /\ self' \in Sprites \cup {None} /\ phase' = "clones"
      BY <1>1, <3>1 DEF IInv, TypeOK
    <3>6. purging' \in BOOLEAN
      BY <1>4 DEF StartClone, IInv, TypeOK
    <3>5. sprites \in Seq(Sprites) /\ layer \in [Sprites -> Int]
          /\ cloneQueue \in Seq(Clones) /\ cloneCount \in -MaxClones..MaxClones
      BY DEF IInv, TypeOK
    <3> QED BY <2>2, <3>1, <3>2, <3>3, <3>4, <3>5, <3>6 DEF TypeOK
  <2>4. QueueAlive' /\ NoCloneForgotten'
    BY <1>1, <1>2, <2>1, <2>2 DEF IInv, QueueAlive, NoCloneForgotten, clones
  <2>5. Tracking'
    BY <1>1, <1>2, <2>1, <2>2 DEF IInv, Tracking, Sought
  <2> QED BY <1>2, <2>3, <2>4, <2>5 DEF IInv
<1> QED BY <1>3, <1>4
-----------------------------------------------------------------------------
(* The theorems.                                                           *)

LEMMA InitIInv == Init => IInv
<1> SUFFICES ASSUME Init PROVE IInv
  OBVIOUS
<1> DEFINE n == Cardinality(Originals) + 1
<1>1. n \in Nat \ {0}
  BY OriginalsFinite, FS_CardinalityType
<1>2. /\ sprites \in [1..n -> Originals \cup {Stage}] /\ sprites[n] = Stage
      /\ \A j, k \in 1..n : sprites[j] = sprites[k] => j = k
  BY DEF Init
<1> HIDE DEF n
<1>3. sprites \in Seq(Sprites) /\ Len(sprites) = n /\ Distinct(sprites)
  BY <1>1, <1>2 DEF Sprites, Distinct
<1>4. /\ toDelete = {} /\ active = {} /\ started = [c \in Clones |-> 0]
      /\ cloneQueue = <<>> /\ cloneCount = 0 /\ phase = "idle"
      /\ loop = [over |-> "copy", seq |-> <<>>, i |-> 1]
      /\ starting = None /\ self = None /\ owner = None /\ purging = FALSE
      /\ layer = Relayered(sprites, [x \in Sprites |-> 0], 1, Len(sprites))
  BY DEF Init
<1>5. layer \in [Sprites -> Int] /\ \A k \in 1..Len(sprites) : layer[sprites[k]] = Len(sprites) - k
  <2>1. 1 \in 1..Len(sprites) /\ Len(sprites) \in 1..Len(sprites)
    BY <1>1, <1>3
  <2>2. [x \in Sprites |-> 0] \in [Sprites -> Int]
    OBVIOUS
  <2> DEFINE zero == [x \in Sprites |-> 0]
  <2>3. \A k \in 1..Len(sprites) : k \notin 1..Len(sprites) => zero[sprites[k]] = Len(sprites) - k
    OBVIOUS
  <2>4. zero \in [Sprites -> Int] /\ layer = Relayered(sprites, zero, 1, Len(sprites))
    BY <2>2, <1>4
  <2> HIDE DEF zero
  <2> QED BY <1>3, <2>1, <2>3, <2>4, RelayeredFacts
<1>6. TypeOK
  <2>1. started \in [Clones -> StartRuns]
    BY <1>4 DEF StartRuns
  <2>2. loop \in [over : {"copy", "live", "freed"}, seq : Seq(Sprites), i : Nat \ {0}]
    BY <1>4
  <2>3. cloneCount \in -MaxClones..MaxClones /\ cloneQueue \in Seq(Clones)
    BY <1>4, MaxClonesNat
  <2> QED BY <1>3, <1>4, <1>5, <2>1, <2>2, <2>3 DEF TypeOK
<1>7. Listed \subseteq Originals \cup {Stage}
  BY <1>1, <1>2, <1>3 DEF Listed
<1>8. Originals \subseteq Listed
  <2> DEFINE T == Originals \cup {Stage}
  <2>1. IsFiniteSet(T) /\ Cardinality(T) = n
    BY OriginalsFinite, SpritesDisjoint, FS_AddElement DEF n
  <2>2. IsFiniteSet(1..n) /\ Cardinality(1..n) = n
    BY <1>1, FS_Interval
  <2>3. sprites \in Injection(1..n, T)
    <3>1. IsInjective(sprites)
      BY <1>2 DEF IsInjective
    <3> QED BY <1>2, <3>1 DEF Injection
  <2>4. sprites \in Surjection(1..n, T)
    BY <2>1, <2>2, <2>3, FS_Injection
  <2> QED BY <2>4, <1>3 DEF Surjection, Listed
<1>9. ListWellFormed
  BY <1>1, <1>2, <1>3, <1>8 DEF ListWellFormed, Distinct
<1>10. LayerIsPosition /\ QueueAlive /\ NoCloneForgotten /\ Tracking
  BY <1>4, <1>5, <1>7, SpritesDisjoint DEF LayerIsPosition, QueueAlive, NoCloneForgotten, Tracking, Sought
<1> QED BY <1>6, <1>9, <1>10 DEF IInv

LEMMA NextIInv == IInv /\ [Next]_vars => IInv'
<1> SUFFICES ASSUME IInv, [Next]_vars PROVE IInv'
  OBVIOUS
<1>1. CASE ScriptStep
  BY <1>1, CreateStep, MoveStep, PurgeStep, PurgeDoneStep, ScriptStepsKeep DEF ScriptStep
<1>2. CASE LoopStep
  BY <1>2, LoopStepsKeep, NextCloneStep, StartCloneStep, SweepStep, SweepDoneStep DEF LoopStep
<1>3. CASE UNCHANGED vars
  BY <1>3 DEF IInv, TypeOK, ListWellFormed, LayerIsPosition, QueueAlive, NoCloneForgotten, Tracking,
     Sought, Listed, Renumbering, Finished, Idle, vars, list, marks, clones, script
<1> QED BY <1>1, <1>2, <1>3 DEF Next

THEOREM Invariance == Spec => []IInv
<1> QED BY InitIInv, NextIInv, PTL DEF Spec

\* The state stays in range: no more than MaxClones clones are counted.
THEOREM TypeCorrect == Spec => []TypeOK
<1>1. IInv => TypeOK
  BY DEF IInv
<1> QED BY <1>1, Invariance, PTL

\* However clones and layer blocks interleave with the loops over the list,
\* no sprite is lost or listed twice and the stage stays at the back.
THEOREM ListStaysWellFormed == Spec => []ListWellFormed
<1>1. IInv => ListWellFormed
  BY DEF IInv
<1> QED BY <1>1, Invariance, PTL

\* The layer cached in a sprite is right whenever a block uses it.
THEOREM LayersStayRight == Spec => []LayerIsPosition
<1>1. IInv => LayerIsPosition
  BY DEF IInv
<1> QED BY <1>1, Invariance, PTL

\* runCloneStarts never pops a clone that has been deleted.
THEOREM QueueStaysAlive == Spec => []QueueAlive
<1>1. IInv => QueueAlive
  BY DEF IInv
<1> QED BY <1>1, Invariance, PTL

\* Every clone that was not deleted first gets its start scripts run.
THEOREM ClonesAreStarted == Spec => []NoCloneForgotten
<1>1. IInv => NoCloneForgotten
  BY DEF IInv
<1> QED BY <1>1, Invariance, PTL
-----------------------------------------------------------------------------
(* The number of clones and the order of the sprites.                      *)

\* A clone enters the list behind a position of it.
LEMMA CreateListed ==
  ASSUME IInv, NEW c \in Clones, NEW t \in Originals \cup Clones, CreateClone(c, t)
  PROVE  /\ Position(t) \in 1..Len(sprites)-1 /\ sprites' = InsertBehind(sprites, Position(t), c)
         /\ Listed' = Listed \cup {c} /\ c \notin Listed
<1> DEFINE i == Position(t)
<1>1. /\ Distinct(sprites) /\ Elements(sprites) = Listed /\ ~Renumbering
      /\ c \in Sprites /\ c \notin Listed /\ self \in Listed /\ ~purging
  BY WellFormedFacts, SpritesDisjoint DEF IInv, CreateClone, Running, Tracking, Renumbering, Finished, Idle, Sprites
<1>2. t \in Listed /\ t # Stage
  BY <1>1, SpritesDisjoint DEF IInv, CreateClone, ListWellFormed
<1>3. i \in 1..Len(sprites)-1
  <2>1. i \in 1..Len(sprites) /\ sprites[i] = t
    BY <1>1, <1>2, PositionFacts DEF IInv
  <2> QED BY <2>1, <1>2, WellFormedFacts DEF IInv
<1>4. sprites \in Seq(Sprites) /\ sprites' = InsertBehind(sprites, i, c)
  BY DEF IInv, TypeOK, CreateClone
<1> HIDE DEF i
<1>5. Elements(InsertBehind(sprites, i, c)) = Elements(sprites) \cup {c}
  <2>1. c \notin Elements(sprites)
    BY <1>1
  <2> QED BY <1>1, <1>3, <1>4, <2>1, InsertBehindFacts
<1>6. Listed' = Listed \cup {c}
  BY <1>1, <1>4, <1>5 DEF Listed, Elements
<1> QED BY <1>1, <1>3, <1>4, <1>6 DEF i

\* A sprite is moved from its position.
LEMMA MoveListed ==
  ASSUME IInv, NEW j \in 1..Len(sprites), GoToPosition(j)
  PROVE  /\ Position(self) \in 1..Len(sprites) /\ sprites[Position(self)] = self
         /\ Position(self) # j /\ sprites' = Moved(sprites, Position(self), j)
         /\ Listed' = Listed
<1> DEFINE i == Position(self)
<1>1. /\ Distinct(sprites) /\ Elements(sprites) = Listed /\ ~Renumbering
      /\ self \in Listed /\ ~purging
  BY WellFormedFacts DEF IInv, GoToPosition, Running, Tracking, Renumbering, Finished, Idle
<1>2. i \in 1..Len(sprites) /\ sprites[i] = self
  BY <1>1, PositionFacts DEF IInv
<1>3. sprites \in Seq(Sprites) /\ sprites' = Moved(sprites, i, j) /\ i # j
  BY DEF IInv, TypeOK, GoToPosition
<1> HIDE DEF i
<1>4. Elements(Moved(sprites, i, j)) = Elements(sprites)
  BY <1>1, <1>2, <1>3, MovedFacts
<1>5. Listed' = Listed
  BY <1>1, <1>3, <1>4 DEF Listed, Elements
<1> QED BY <1>2, <1>3, <1>5 DEF i

Remaining == (Listed \cap Clones) \ toDelete
CountInv == ~purging => IsFiniteSet(Remaining) /\ cloneCount = Cardinality(Remaining)

\* The count follows creations and deletions if no clone is deleted twice.
LEMMA CountStep ==
  ASSUME DeleteOnce, IInv, CountInv, [Next]_vars PROVE CountInv'
<1> USE DEF CountInv
<1>1. ASSUME NEW c \in Clones, NEW t \in Originals \cup Clones, CreateClone(c, t)
      PROVE  CountInv'
  <2>1. ~purging /\ cloneCount' = cloneCount + 1 /\ toDelete' = toDelete \ {c}
    BY <1>1 DEF CreateClone, Running
  <2>2. Remaining' = Remaining \cup {c} /\ c \notin Remaining
    BY <1>1, <2>1, CreateListed DEF Remaining
  <2> QED BY <2>1, <2>2, FS_AddElement
<1>2. CASE DeleteThisClone
  <2>1. /\ ~purging /\ cloneCount' = cloneCount - 1 /\ toDelete' = toDelete \cup {self}
        /\ sprites' = sprites /\ self \in Clones /\ self \notin toDelete /\ self \in Listed
    BY <1>2 DEF DeleteThisClone, Running, list, IInv, Tracking
  <2>2. Remaining' = Remaining \ {self} /\ self \in Remaining
    BY <2>1 DEF Remaining, Listed
  <2> QED BY <2>1, <2>2, FS_RemoveElement
<1>3. ASSUME NEW j \in 1..Len(sprites), GoToPosition(j) PROVE CountInv'
  <2>1. Remaining' = Remaining /\ cloneCount' = cloneCount /\ purging' = purging
    BY <1>3, MoveListed DEF GoToPosition, marks, clones, Remaining
  <2> QED BY <2>1
<1>4. CASE StopAll \/ PurgeClone
  BY <1>4 DEF StopAll, PurgeClone
<1>5. CASE PurgeDone
  <2>1. Remaining' = {} /\ cloneCount' = 0
    BY <1>5 DEF PurgeDone, marks, clones, Remaining, Listed, IInv, Tracking
  <2> QED BY <2>1, FS_EmptySet
<1>6. CASE SweepClone
  <2>1. PICK k \in 1..Len(sprites) : /\ sprites[k] \in toDelete /\ sprites' = Without(sprites, k)
                                     /\ toDelete' = toDelete \ {sprites[k]}
    BY <1>6 DEF SweepClone
  <2>2. Listed' = Listed \ {sprites[k]}
    BY <2>1, RemoveFacts DEF IInv, TypeOK
  <2>3. Remaining' = Remaining /\ cloneCount' = cloneCount /\ ~purging
    BY <1>6, <2>1, <2>2 DEF SweepClone, Remaining, Finished, Idle
  <2> QED BY <2>3
<1>7. CASE EndScript \/ LoopStep \/ UNCHANGED vars
  <2>1. CASE SweepClone
    BY <1>6, <2>1
  <2>2. CASE ~SweepClone
    <3>1. UNCHANGED <<sprites, toDelete, cloneCount, purging>>
      BY <1>7, <2>2 DEF EndScript, LoopStep, StartKeyHats, RunHat, NextSprite, StartClick, ClickSprite,
         ClickNextHat, NotClicked, BeginCloneStarts, NextClone, OtherSprite, StartClone, StartDispatch,
         StartRepeats, RunRepeat, SweepDone, RunOn, Advance, vars, list, marks, clones
    <3> QED BY <3>1 DEF Remaining, Listed
  <2> QED BY <2>1, <2>2
<1> QED BY <1>1, <1>2, <1>3, <1>4, <1>5, <1>7 DEF Next, ScriptStep

\* The limit on clones is as good as its count: cloneCount is the number of clones
\* that are not going away, if no script deletes its clone twice.
THEOREM CountIsRight ==
  ASSUME DeleteOnce PROVE Spec => []CountIsClones
<1>1. Init => CountInv
  <2> SUFFICES ASSUME Init PROVE CountInv
    OBVIOUS
  <2>1. Remaining = {}
    <3> SUFFICES ASSUME NEW k \in 1..Len(sprites) PROVE sprites[k] \notin Clones
      BY DEF Remaining, Listed
    <3>1. Cardinality(Originals) + 1 \in Nat
      BY OriginalsFinite, FS_CardinalityType
    <3> QED BY <3>1, SpritesDisjoint DEF Init
  <2> QED BY <2>1, FS_EmptySet DEF Init, CountInv
<1>2. IInv /\ CountInv /\ [Next]_vars => CountInv'
  BY CountStep
<1>3. CountInv => CountIsClones
  BY DEF CountInv, CountIsClones, Remaining
<1> QED BY <1>1, <1>2, <1>3, Invariance, PTL DEF Spec

\* Two lists in which f, which keeps the order, leads from the places of x and y
\* in one to their places in the other list them in the same order.
LEMMA SameOrder ==
  ASSUME NEW S, NEW s \in Seq(S), NEW t \in Seq(S), NEW D \in SUBSET (1..Len(t)),
         NEW f \in [D -> 1..Len(s)], NEW x, NEW y,
         \A k \in D : t[k] = s[f[k]],
         \A j, k \in D : j < k => f[j] < f[k],
         \A k \in 1..Len(t) : t[k] = x \/ t[k] = y => k \in D,
         \A k \in 1..Len(s) : s[k] = x \/ s[k] = y => \E d \in D : f[d] = k
  PROVE  Before(s, x, y) <=> Before(t, x, y)
<1>1. ASSUME NEW j \in 1..Len(t), NEW k \in 1..Len(t), j < k, t[j] = x, t[k] = y
      PROVE  Before(s, x, y)
  <2>1. j \in D /\ k \in D
    BY <1>1
  <2>2. f[j] \in 1..Len(s) /\ f[k] \in 1..Len(s) /\ f[j] < f[k] /\ s[f[j]] = x /\ s[f[k]] = y
    BY <1>1, <2>1
  <2> QED BY <2>2 DEF Before
<1>2. ASSUME NEW j \in 1..Len(s), NEW k \in 1..Len(s), j < k, s[j] = x, s[k] = y
      PROVE  Before(t, x, y)
  <2>1. PICK d \in D : f[d] = j
    BY <1>2
  <2>2. PICK e \in D : f[e] = k
    BY <1>2
  <2>3. d < e
    BY <1>2, <2>1, <2>2
  <2>4. d \in 1..Len(t) /\ e \in 1..Len(t) /\ t[d] = x /\ t[e] = y
    BY <1>2, <2>1, <2>2
  <2> QED BY <2>3, <2>4 DEF Before
<1> QED BY <1>1, <1>2 DEF Before

\* A sprite that is put into the list does not change the order of the others,
LEMMA InsertOrder ==
  ASSUME NEW s \in Seq(Sprites), NEW i \in 1..Len(s)-1, NEW c \in Sprites,
         NEW x, NEW y, x # c, y # c
  PROVE  Before(s, x, y) <=> Before(InsertBehind(s, i, c), x, y)
<1> DEFINE t == InsertBehind(s, i, c)
           f == [k \in 1..Len(s) |-> IF k <= i THEN k ELSE k + 1]
<1>1. /\ t \in Seq(Sprites) /\ Len(t) = Len(s) + 1
      /\ \A k \in 1..i : t[k] = s[k]
      /\ t[i+1] = c
      /\ \A k \in i+2..Len(s)+1 : t[k] = s[k-1]
  BY DEF InsertBehind
<1>2. f \in [1..Len(s) -> 1..Len(t)] /\ \A j, k \in 1..Len(s) : j < k => f[j] < f[k]
  BY <1>1
<1>3. \A k \in 1..Len(s) : s[k] = t[f[k]]
  BY <1>1
<1>4. ASSUME NEW k \in 1..Len(t), t[k] # c PROVE \E d \in 1..Len(s) : f[d] = k
  <2>1. CASE k <= i
    <3>1. k \in 1..Len(s) /\ f[k] = k
      BY <2>1, <1>1
    <3> QED BY <3>1
  <2>2. CASE k > i + 1
    <3>1. k - 1 \in 1..Len(s) /\ f[k-1] = k
      BY <2>2, <1>1
    <3> QED BY <3>1
  <2> QED BY <2>1, <2>2, <1>1, <1>4
<1> DEFINE D == 1..Len(s)
<1>5. D \in SUBSET (1..Len(s)) /\ f \in [D -> 1..Len(t)]
  BY <1>2
<1>6. /\ \A k \in D : s[k] = t[f[k]]
      /\ \A j, k \in D : j < k => f[j] < f[k]
      /\ \A k \in 1..Len(s) : s[k] = x \/ s[k] = y => k \in D
      /\ \A k \in 1..Len(t) : t[k] = x \/ t[k] = y => \E d \in D : f[d] = k
  BY <1>2, <1>3, <1>4
<1> HIDE DEF t, f, D
<1>7. Before(t, x, y) <=> Before(s, x, y)
  BY <1>1, <1>5, <1>6, SameOrder
<1> QED BY <1>7 DEF t

\* nor does one that is taken out of it,
LEMMA WithoutOrder ==
  ASSUME NEW s \in Seq(Sprites), NEW i \in 1..Len(s), NEW x, NEW y, x # s[i], y # s[i]
  PROVE  Before(s, x, y) <=> Before(Without(s, i), x, y)
<1> DEFINE t == Without(s, i)
           f == [k \in 1..Len(t) |-> IF k < i THEN k ELSE k + 1]
<1>1. /\ t \in Seq(Sprites) /\ Len(t) = Len(s) - 1
      /\ \A k \in 1..Len(t) : t[k] = IF k < i THEN s[k] ELSE s[k+1]
  BY DEF Without
<1> HIDE DEF t
<1>2. f \in [1..Len(t) -> 1..Len(s)] /\ \A j, k \in 1..Len(t) : j < k => f[j] < f[k]
  BY <1>1
<1>3. \A k \in 1..Len(t) : t[k] = s[f[k]]
  BY <1>1
<1>4. ASSUME NEW k \in 1..Len(s), k # i PROVE \E d \in 1..Len(t) : f[d] = k
  <2>1. CASE k < i
    <3>1. k \in 1..Len(t) /\ f[k] = k
      BY <2>1, <1>1
    <3> QED BY <3>1
  <2>2. CASE k > i
    <3>1. k - 1 \in 1..Len(t) /\ f[k-1] = k
      BY <2>2, <1>1
    <3> QED BY <3>1
  <2> QED BY <2>1, <2>2, <1>4
<1> DEFINE D == 1..Len(t)
<1>5. D \in SUBSET (1..Len(t)) /\ f \in [D -> 1..Len(s)]
  BY <1>2
<1>6. /\ \A k \in D : t[k] = s[f[k]]
      /\ \A j, k \in D : j < k => f[j] < f[k]
      /\ \A k \in 1..Len(t) : t[k] = x \/ t[k] = y => k \in D
      /\ \A k \in 1..Len(s) : s[k] = x \/ s[k] = y => \E d \in D : f[d] = k
  BY <1>2, <1>3, <1>4
<1> HIDE DEF f, D
<1>7. Before(s, x, y) <=> Before(t, x, y)
  BY <1>1, <1>5, <1>6, SameOrder
<1> QED BY <1>7 DEF t

\* nor does one that is moved.
LEMMA MovedOrder ==
  ASSUME NEW s \in Seq(Sprites), NEW i \in 1..Len(s), NEW j \in 1..Len(s), i # j,
         NEW x, NEW y, x # s[i], y # s[i]
  PROVE  Before(s, x, y) <=> Before(Moved(s, i, j), x, y)
<1> DEFINE t == Moved(s, i, j)
           D == (1..Len(s)) \ {j}
           f == [k \in D |-> IF i <= k /\ k < j THEN k + 1
                             ELSE IF j < k /\ k <= i THEN k - 1 ELSE k]
<1>1. /\ t \in Seq(Sprites) /\ Len(t) = Len(s) /\ t[j] = s[i]
      /\ \A k \in 1..Len(s) : i <= k /\ k < j => t[k] = s[k+1]
      /\ \A k \in 1..Len(s) : j < k /\ k <= i => t[k] = s[k-1]
      /\ \A k \in 1..Len(s) : (k < i /\ k < j) \/ (k > i /\ k > j) => t[k] = s[k]
  BY DEF Moved
<1> HIDE DEF t
<1>2. f \in [D -> 1..Len(s)] /\ \A a, b \in D : a < b => f[a] < f[b]
  OBVIOUS
<1>3. \A k \in D : t[k] = s[f[k]]
  BY <1>1
<1>4. ASSUME NEW k \in 1..Len(s), k # i PROVE \E d \in D : f[d] = k
  <2>1. CASE i < k /\ k <= j
    <3>1. k - 1 \in D /\ f[k-1] = k
      BY <2>1
    <3> QED BY <3>1
  <2>2. CASE j <= k /\ k < i
    <3>1. k + 1 \in D /\ f[k+1] = k
      BY <2>2
    <3> QED BY <3>1
  <2>3. CASE (k < i /\ k < j) \/ (k > i /\ k > j)
    <3>1. k \in D /\ f[k] = k
      BY <2>3
    <3> QED BY <3>1
  <2> QED BY <2>1, <2>2, <2>3, <1>4
<1>5. D \in SUBSET (1..Len(t))
  BY <1>1
<1>6. /\ \A k \in D : t[k] = s[f[k]]
      /\ \A a, k \in D : a < k => f[a] < f[k]
      /\ \A k \in 1..Len(t) : t[k] = x \/ t[k] = y => k \in D
      /\ \A k \in 1..Len(s) : s[k] = x \/ s[k] = y => \E d \in D : f[d] = k
  BY <1>1, <1>2, <1>3, <1>4
<1> HIDE DEF f, D
<1>7. Before(s, x, y) <=> Before(t, x, y)
  BY <1>1, <1>2, <1>5, <1>6, SameOrder
<1> QED BY <1>7 DEF t

\* Whatever a step does to the list, the sprites it does not move keep their order.
LEMMA OrderStep ==
  ASSUME IInv, [Next]_vars, NEW x \in Listed \cap Listed', NEW y \in Listed \cap Listed',
         x # self, y # self
  PROVE  Before(sprites, x, y) <=> Before(sprites', x, y)
<1>0. sprites \in Seq(Sprites) /\ Distinct(sprites)
  BY WellFormedFacts DEF IInv, TypeOK
<1>1. ASSUME NEW c \in Clones, NEW t \in Originals \cup Clones, CreateClone(c, t)
      PROVE  Before(sprites, x, y) <=> Before(sprites', x, y)
  <2>1. c \in Sprites /\ x # c /\ y # c
    BY <1>1, CreateListed DEF Sprites
  <2> QED BY <1>0, <1>1, <2>1, CreateListed, InsertOrder
<1>2. ASSUME NEW j \in 1..Len(sprites), GoToPosition(j)
      PROVE  Before(sprites, x, y) <=> Before(sprites', x, y)
  BY <1>0, <1>2, MoveListed, MovedOrder
<1>3. CASE PurgeClone \/ SweepClone
  <2>1. PICK k \in 1..Len(sprites) : sprites' = Without(sprites, k)
    BY <1>3 DEF PurgeClone, SweepClone
  <2>2. Elements(Without(sprites, k)) = Elements(sprites) \ {sprites[k]}
    BY <1>0, WithoutFacts
  <2>3. Listed' = Elements(sprites') /\ x \in Listed' /\ y \in Listed'
    BY DEF Listed, Elements
  <2>4. x # sprites[k] /\ y # sprites[k]
    BY <2>1, <2>2, <2>3
  <2> QED BY <1>0, <2>1, <2>4, WithoutOrder
<1>4. CASE /\ DeleteThisClone \/ StopAll \/ PurgeDone \/ EndScript \/ LoopStep \/ UNCHANGED vars
           /\ ~SweepClone
  <2>1. sprites' = sprites
    BY <1>4 DEF DeleteThisClone, StopAll, PurgeDone, EndScript, LoopStep, StartKeyHats, RunHat,
       NextSprite, StartClick, ClickSprite, ClickNextHat, NotClicked, BeginCloneStarts, NextClone,
       OtherSprite, StartClone, StartDispatch, StartRepeats, RunRepeat, SweepDone, RunOn, Advance,
       vars, list
  <2> QED BY <2>1
<1> QED BY <1>1, <1>2, <1>3, <1>4 DEF Next, ScriptStep

\* What a script does to its own place in the list, to its clones or to those of
\* others never exchanges two other sprites.
THEOREM OrderIsKept == Spec => OrderKept
<1>1. IInv /\ [Next]_vars =>
        [\A x, y \in Listed \cap Listed' : x # self /\ y # self =>
           (Before(sprites, x, y) <=> Before(sprites', x, y))]_vars
  BY OrderStep
<1> QED BY <1>1, Invariance, PTL DEF Spec, OrderKept
==============================================================================
