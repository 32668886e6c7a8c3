-------------------------- MODULE CostumeCacheProofs --------------------------
(***************************************************************************)
(* Proofs about CostumeCache, for any costumes, sizes, budget and number   *)
(* of cores: the list of the cache names what is decoded, the bytes are    *)
(* accounted and kept within the budget, a core leaves the cache with the  *)
(* costume it came for and loses it only to more recent ones.              *)
(***************************************************************************)
EXTENDS CostumeCache, FiniteSetTheorems, TLAPS

Elements(s) == {s[k] : k \in 1..Len(s)}
Distinct(s) == \A j, k \in 1..Len(s) : s[j] = s[k] => j = k

Copies == [Cores -> [at : Addrs \cup {Null}, of : Costumes \cup {Null}, stale : BOOLEAN]]

\* The core inside the cache has its costume at the front.
Front ==
  /\ \A k \in Cores : st[k] = "held" <=> lock = k
  /\ \A k \in Cores : lock = k => lruList # <<>> /\ lruList[1] = drawn[k]
Busy == \A k \in Cores : st[k] # "idle" => drawn[k] \in Costumes
\* No two costumes are at one place, and a copy that is not stale was made of the
\* costume that is still at its place.
CopyInv ==
  /\ \A c, e \in Resident : rgba[c] = rgba[e] => c = e
  /\ \A k \in Cores : ~copied[k].stale /\ copied[k].at # Null
                       => copied[k].of \in Costumes /\ rgba[copied[k].of] = copied[k].at
  /\ CopyIsOfDrawn
\* What is nearer to the front than a core's costume was used since.
Ordered ==
  \A k \in Cores : st[k] # "idle" =>
    \A i, j \in 1..Len(lruList) : i < j /\ lruList[j] = drawn[k] => lruList[i] \in since[k]
Reading == \A k \in Cores : st[k] = "blit" => src[k] # Null
IInv == /\ TypeOK /\ ListIsResident /\ Front /\ Busy /\ CopyInv
        /\ WithinBudget /\ Ordered /\ Reading /\ LeastRecentGoesFirst

\* The bytes of a set of costumes: those of one more are added, those of a part
\* are not more.
LEMMA PixelsFinite ==
  ASSUME NEW S \in SUBSET Costumes
  PROVE  IsFiniteSet(UNION {Pixels(c) : c \in S})
<1> DEFINE f == [c \in S |-> Pixels(c)]
<1>1. IsFiniteSet(S)
  BY CostumesFinite, FS_Subset
<1>2. IsFiniteSet({Pixels(c) : c \in S})
  <2>1. f \in Surjection(S, {Pixels(c) : c \in S})
    BY DEF Surjection
  <2> QED BY <1>1, <2>1, FS_Surjection
<1>3. ASSUME NEW c \in S PROVE IsFiniteSet(Pixels(c))
  <2>1. Size[c] \in Int /\ IsFiniteSet({c})
    BY SizeIsPositive, FS_Singleton
  <2>2. IsFiniteSet(1..Size[c])
    BY <2>1, FS_Interval
  <2> QED BY <2>1, <2>2, FS_Product DEF Pixels
<1>4. \A T \in {Pixels(c) : c \in S} : IsFiniteSet(T)
  BY <1>3
<1> QED BY <1>2, <1>4, FS_UNION

LEMMA BytesNat ==
  ASSUME NEW S \in SUBSET Costumes
  PROVE  Bytes(S) \in Nat
BY PixelsFinite, FS_CardinalityType DEF Bytes

LEMMA BytesEmpty == Bytes({}) = 0
<1>1. UNION {Pixels(c) : c \in {}} = {}
  OBVIOUS
<1> QED BY <1>1, FS_EmptySet DEF Bytes

LEMMA BytesAdd ==
  ASSUME NEW S \in SUBSET Costumes, NEW c \in Costumes \ S
  PROVE  Bytes(S \cup {c}) = Bytes(S) + Size[c]
<1> DEFINE P == UNION {Pixels(e) : e \in S}
<1>1. UNION {Pixels(e) : e \in S \cup {c}} = P \cup Pixels(c)
  OBVIOUS
<1>2. P \cap Pixels(c) = {}
  <2> SUFFICES ASSUME NEW x \in P, x \in Pixels(c) PROVE FALSE
    OBVIOUS
  <2>1. PICK e \in S : x \in Pixels(e)
    OBVIOUS
  <2> QED BY <2>1 DEF Pixels
<1>3. IsFiniteSet(Pixels(c)) /\ Cardinality(Pixels(c)) = Size[c]
  <2>1. Size[c] \in Nat /\ Size[c] \in Int /\ Size[c] # 0
    BY SizeIsPositive
  <2>2. IsFiniteSet({c}) /\ Cardinality({c}) = 1
    BY FS_Singleton
  <2>3. IsFiniteSet(1..Size[c]) /\ Cardinality(1..Size[c]) = Size[c]
    BY <2>1, FS_Interval
  <2>4. /\ IsFiniteSet({c} \X (1..Size[c]))
        /\ Cardinality({c} \X (1..Size[c])) = Cardinality({c}) * Cardinality(1..Size[c])
    BY <2>2, <2>3, FS_Product
  <2>5. Cardinality({c}) * Cardinality(1..Size[c]) = Size[c]
    BY <2>1, <2>2, <2>3
  <2> QED BY <2>4, <2>5, Zenon DEF Pixels
<1>4. IsFiniteSet(P) /\ Cardinality(P) \in Nat
  BY PixelsFinite, FS_CardinalityType
<1>5. Cardinality(P \cup Pixels(c)) = Cardinality(P) + Size[c]
  <2>1. Cardinality(P \cup Pixels(c)) = Cardinality(P) + Cardinality(Pixels(c)) - Cardinality(P \cap Pixels(c))
    BY <1>3, <1>4, FS_Union
  <2>2. Cardinality(P \cap Pixels(c)) = 0
    BY <1>2, FS_EmptySet
  <2>3. Size[c] \in Nat
    BY SizeIsPositive
  <2> QED BY <1>3, <1>4, <2>1, <2>2, <2>3
<1> QED BY <1>1, <1>5 DEF Bytes

LEMMA BytesRemove ==
  ASSUME NEW S \in SUBSET Costumes, NEW c \in S
  PROVE  Bytes(S \ {c}) = Bytes(S) - Size[c]
<1> DEFINE T == S \ {c}
<1>1. T \in SUBSET Costumes /\ c \in Costumes \ T /\ T \cup {c} = S
  OBVIOUS
<1>2. Bytes(T) \in Nat /\ Size[c] \in Nat
  BY <1>1, BytesNat, SizeIsPositive
<1> HIDE DEF T
<1>3. Bytes(T \cup {c}) = Bytes(T) + Size[c]
  BY <1>1, BytesAdd
<1>4. Bytes(S) = Bytes(T) + Size[c]
  BY <1>1, <1>3, Zenon
<1>5. Bytes(T) = Bytes(S) - Size[c]
  BY <1>2, <1>4
<1> QED BY <1>5 DEF T

LEMMA BytesMonotone ==
  ASSUME NEW T \in SUBSET Costumes, NEW S \in SUBSET T
  PROVE  Bytes(S) <= Bytes(T)
<1> DEFINE P == UNION {Pixels(c) : c \in S}
           Q == UNION {Pixels(c) : c \in T}
<1>1. IsFiniteSet(Q) /\ P \in SUBSET Q
  BY PixelsFinite
<1>2. Cardinality(P) <= Cardinality(Q)
  BY <1>1, FS_Subset
<1> QED BY <1>2 DEF Bytes

\* touchLru on a list without repetition: c is its front, nothing is lost.
LEMMA TouchedFacts ==
  ASSUME NEW s \in Seq(Costumes), NEW c \in Costumes, Distinct(s)
  PROVE  LET t == Touched(s, c)
         IN  /\ t \in Seq(Costumes) /\ t # <<>> /\ t[1] = c
             /\ Distinct(t) /\ Elements(t) = Elements(s) \cup {c}
<1> DEFINE t == Touched(s, c)
<1>1. CASE \E k \in 1..Len(s) : s[k] = c
  <2>1. PICK p \in 1..Len(s) : s[p] = c
    BY <1>1
  <2>2. Place(s, c) = p
    BY <2>1 DEF Place, Distinct
  <2>3. t = [k \in 1..Len(s) |-> IF k = 1 THEN c ELSE IF k <= p THEN s[k-1] ELSE s[k]]
    BY <1>1, <2>2 DEF Touched
  \* Position k of t has what was at from[k], and back[i] is where s[i] went.
  <2> DEFINE from == [k \in 1..Len(s) |-> IF k = 1 THEN p ELSE IF k <= p THEN k-1 ELSE k]
             back == [i \in 1..Len(s) |-> IF i = p THEN 1 ELSE IF i < p THEN i+1 ELSE i]
  <2>4. /\ Len(s) \in Nat /\ t \in Seq(Costumes) /\ Len(t) = Len(s) /\ t[1] = c
        /\ \A k \in 1..Len(s) : from[k] \in 1..Len(s) /\ t[k] = s[from[k]]
    BY <2>1, <2>3
  <2>5. \A i \in 1..Len(s) : back[i] \in 1..Len(s) /\ from[back[i]] = i
    BY <2>1
  <2>6. \A j, k \in 1..Len(s) : from[j] = from[k] => j = k
    BY <2>1
  <2> HIDE DEF t, from, back
  <2>7. Distinct(t)
    BY <2>4, <2>6 DEF Distinct
  <2>8. Elements(t) = Elements(s) \cup {c}
    <3>1. \A k \in 1..Len(s) : t[k] \in Elements(s)
      BY <2>4 DEF Elements
    <3>2. \A i \in 1..Len(s) : s[i] = t[back[i]]
      BY <2>4, <2>5
    <3>3. \A i \in 1..Len(s) : s[i] \in Elements(t)
      BY <2>4, <2>5, <3>2 DEF Elements
    <3>4. c \in Elements(s)
      BY <2>1 DEF Elements
    <3>5. Elements(t) \subseteq Elements(s)
      BY <2>4, <3>1 DEF Elements
    <3>6. Elements(s) \subseteq Elements(t)
      BY <3>3 DEF Elements
    <3> QED BY <3>4, <3>5, <3>6
  <2>9. t # <<>>
    BY <2>1, <2>4
  <2> QED BY <2>4, <2>7, <2>8, <2>9 DEF t
<1>2. CASE ~\E k \in 1..Len(s) : s[k] = c
  <2>1. t = <<c>> \o s
    BY <1>2 DEF Touched
  <2>2. /\ t \in Seq(Costumes) /\ Len(t) = Len(s) + 1 /\ Len(s) \in Nat /\ t[1] = c
        /\ \A k \in 2..Len(t) : k-1 \in 1..Len(s) /\ t[k] = s[k-1]
    BY <2>1
  <2> HIDE DEF t
  <2>3. Distinct(t)
    <3> SUFFICES ASSUME NEW j \in 1..Len(t), NEW k \in 1..Len(t), t[j] = t[k], j < k
                 PROVE  FALSE
      BY <2>2 DEF Distinct
    <3>1. k \in 2..Len(t) /\ k-1 \in 1..Len(s) /\ t[k] = s[k-1]
      BY <2>2
    <3>2. CASE j = 1
      BY <1>2, <2>2, <3>1, <3>2
    <3>3. CASE j # 1
      <4>1. j-1 \in 1..Len(s) /\ t[j] = s[j-1] /\ j-1 # k-1
        BY <2>2, <3>3
      <4> QED BY <3>1, <4>1 DEF Distinct
    <3> QED BY <3>2, <3>3
  <2>4. Elements(t) = Elements(s) \cup {c}
    <3>1. \A i \in 1..Len(s) : i+1 \in 2..Len(t) /\ i+1 \in 1..Len(t) /\ t[i+1] = s[i]
      BY <2>2
    <3>2. Elements(s) \subseteq Elements(t)
      <4> SUFFICES ASSUME NEW i \in 1..Len(s) PROVE s[i] \in Elements(t)
        BY DEF Elements
      <4>1. i+1 \in 1..Len(t) /\ t[i+1] = s[i]
        BY <3>1
      <4> QED BY <4>1 DEF Elements
    <3>3. c \in Elements(t)
      <4>1. 1 \in 1..Len(t)
        BY <2>2
      <4> QED BY <2>2, <4>1 DEF Elements
    <3>4. Elements(t) \subseteq Elements(s) \cup {c}
      <4> SUFFICES ASSUME NEW k \in 1..Len(t), t[k] # c PROVE t[k] \in Elements(s)
        BY DEF Elements
      <4>1. k \in 2..Len(t)
        BY <2>2
      <4>2. k-1 \in 1..Len(s) /\ t[k] = s[k-1]
        BY <2>2, <4>1
      <4> QED BY <4>2 DEF Elements
    <3> QED BY <3>2, <3>3, <3>4
  <2>5. t # <<>>
    BY <2>2
  <2> QED BY <2>2, <2>3, <2>4, <2>5 DEF t
<1> QED BY <1>1, <1>2

\* Dropping the last of a list without repetition drops nothing else.
LEMMA DropLastFacts ==
  ASSUME NEW s \in Seq(Costumes), Len(s) > 1, Distinct(s)
  PROVE  LET t == SubSeq(s, 1, Len(s) - 1)
         IN  /\ t \in Seq(Costumes) /\ t # <<>> /\ t[1] = s[1]
             /\ s[Len(s)] \in Costumes
             /\ Distinct(t) /\ Elements(t) = Elements(s) \ {s[Len(s)]}
<1> DEFINE t == SubSeq(s, 1, Len(s) - 1)
<1>1. /\ t \in Seq(Costumes) /\ Len(t) = Len(s) - 1 /\ Len(s) \in Nat
      /\ \A k \in 1..Len(t) : t[k] = s[k]
  OBVIOUS
<1> HIDE DEF t
<1>2. Distinct(t)
  BY <1>1 DEF Distinct
<1>3. Elements(t) = Elements(s) \ {s[Len(s)]}
  <2>1. \A k \in 1..Len(s) : s[k] # s[Len(s)] => k \in 1..Len(t)
    BY <1>1
  <2>2. \A k \in 1..Len(t) : k \in 1..Len(s) /\ s[k] # s[Len(s)]
    BY <1>1 DEF Distinct
  <2> QED BY <1>1, <2>1, <2>2 DEF Elements
<1>4. t # <<>> /\ t[1] = s[1] /\ s[Len(s)] \in Costumes
  BY <1>1
<1> QED BY <1>1, <1>2, <1>3, <1>4 DEF t

\* The costume of a core in the cache, which its evictions and touches keep.
LEMMA Initially == Init => IInv
<1> SUFFICES ASSUME Init PROVE IInv
  OBVIOUS
<1> USE NullIsNone DEF Init
<1>1. lruList \in Seq(Costumes) /\ Len(lruList) = 0
  OBVIOUS
<1>2. TypeOK
  <2>1. /\ rgba \in [Costumes -> Addrs \cup {Null}]
        /\ st \in [Cores -> {"idle", "held", "ready", "blit", "cached"}]
        /\ drawn \in [Cores -> Costumes \cup {Null}] /\ src \in [Cores -> Addrs \cup {Null}]
        /\ since \in [Cores -> SUBSET Costumes] /\ copied \in Copies
    BY DEF NoCopy, Copies
  <2>2. total \in Int
    OBVIOUS
  <2>3. playing \in BOOLEAN
    OBVIOUS
  <2>4. loaded \subseteq Costumes /\ decodeFailed \subseteq loaded /\ lock \in Cores \cup {Null}
    OBVIOUS
  <2> QED BY <1>1, <2>1, <2>2, <2>3, <2>4, Zenon DEF TypeOK, Copies
<1>3. ListIsResident
  BY <1>1 DEF ListIsResident, Resident
<1>4. Front /\ Busy
  BY DEF Front, Busy
<1>5. CopyInv
  BY DEF CopyInv, CopyIsOfDrawn, Resident, NoCopy
<1>6. Ordered /\ Reading /\ LeastRecentGoesFirst
  BY DEF Ordered, Reading, LeastRecentGoesFirst, Gone
<1>7. Resident = {} /\ total = 0 /\ total <= Budget
  BY BudgetNat DEF Resident
<1>8. WithinBudget
  BY <1>7, BytesEmpty DEF WithinBudget, Accounted
<1> QED BY <1>2, <1>3, <1>4, <1>5, <1>6, <1>8 DEF IInv

\* Freeing the pixels of the costumes in S only marks the copies made of them.
Marked(S) ==
  \A k \in Cores :
    /\ copied'[k].at = copied[k].at /\ copied'[k].of = copied[k].of
    /\ ~copied'[k].stale => copied'[k] = copied[k]
    /\ copied[k].stale => copied'[k].stale
    /\ \A c \in S : rgba[c] # Null /\ rgba[c] = copied[k].at => copied'[k].stale
LEMMA FreedType ==
  ASSUME copied \in Copies, NEW STATE S, Freed(S)
  PROVE  copied' \in Copies /\ Marked(S)
<1> SUFFICES ASSUME NEW k \in Cores
    PROVE  /\ copied'[k] \in [at : Addrs \cup {Null}, of : Costumes \cup {Null}, stale : BOOLEAN]
           /\ copied'[k].at = copied[k].at /\ copied'[k].of = copied[k].of
           /\ ~copied'[k].stale => copied'[k] = copied[k]
           /\ copied[k].stale => copied'[k].stale
           /\ \A c \in S : rgba[c] # Null /\ rgba[c] = copied[k].at => copied'[k].stale
  BY DEF Freed, Copies, Marked
<1>1. copied[k] \in [at : Addrs \cup {Null}, of : Costumes \cup {Null}, stale : BOOLEAN]
  BY DEF Copies
<1>2. CASE \E c \in S : rgba[c] # Null /\ rgba[c] = copied[k].at
  <2>1. copied'[k] = [copied[k] EXCEPT !.stale = TRUE]
    BY <1>2 DEF Freed
  <2> QED BY <1>1, <2>1
<1>3. CASE ~\E c \in S : rgba[c] # Null /\ rgba[c] = copied[k].at
  BY <1>1, <1>3 DEF Freed
<1> QED BY <1>2, <1>3

LEMMA TypeStep == IInv /\ [Next]_vars => TypeOK'
<1> SUFFICES ASSUME IInv, [Next]_vars PROVE TypeOK'
  OBVIOUS
<1> USE SizeIsPositive DEF IInv, TypeOK, GoTo, Used, core, cache
<1>1. Distinct(lruList)
  BY DEF ListIsResident, Distinct
<1>12. ASSUME NEW STATE S, Freed(S) PROVE copied' \in Copies
  BY <1>12, FreedType DEF Copies
<1>2. ASSUME NEW k \in Cores, NEW c \in Costumes, Hit(k, c) PROVE TypeOK'
  BY <1>1, <1>2, TouchedFacts DEF Hit
<1>3. ASSUME NEW k \in Cores, NEW c \in Costumes, Fail(k, c) PROVE TypeOK'
  BY <1>3 DEF Fail
<1>4. ASSUME NEW k \in Cores, NEW c \in Costumes, Decode(k, c) PROVE TypeOK'
  <2>1. lruList' \in Seq(Costumes)
    BY <1>1, <1>4, TouchedFacts DEF Decode
  <2>2. rgba' \in [Costumes -> Addrs \cup {Null}]
    BY <1>4 DEF Decode, Free
  <2>3. total' \in Int
    BY <1>4 DEF Decode
  <2> QED BY <1>4, <2>1, <2>2, <2>3 DEF Decode
<1>5. ASSUME NEW k \in Cores, EvictOne(k) PROVE TypeOK'
  <2>1. copied' \in Copies
    BY <1>5, <1>12 DEF EvictOne
  <2> QED BY <1>1, <1>5, <2>1, DropLastFacts DEF EvictOne, OverBudget, Copies
<1>6. ASSUME NEW k \in Cores, Unlock(k) PROVE TypeOK'
  BY <1>6 DEF Unlock
<1>7. ASSUME NEW k \in Cores, BlitBegin(k) PROVE TypeOK'
  <2>1. rgba[drawn[k]] \in Addrs \cup {Null}
    BY <1>7 DEF BlitBegin, Busy
  <2>2. copied' \in Copies
    <3>1. drawn[k] \in Costumes
      BY <1>7 DEF BlitBegin, Busy
    <3>2. NoCopy \in [at : Addrs \cup {Null}, of : Costumes \cup {Null}, stale : BOOLEAN]
      BY DEF NoCopy
    <3>3. [at |-> rgba[drawn[k]], of |-> drawn[k], stale |-> FALSE]
          \in [at : Addrs \cup {Null}, of : Costumes \cup {Null}, stale : BOOLEAN]
      BY <2>1, <3>1
    <3>4. \/ UNCHANGED copied
          \/ copied' = [copied EXCEPT ![k] = NoCopy]
          \/ copied' = [copied EXCEPT
                         ![k] = [at |-> rgba[drawn[k]], of |-> drawn[k], stale |-> FALSE]]
      BY <1>7 DEF BlitBegin
    <3> QED BY <3>2, <3>3, <3>4 DEF Copies
  <2> QED BY <1>7, <2>1, <2>2 DEF BlitBegin, Copies
<1>13. ASSUME NEW k \in Cores, BlitCopy(k) PROVE TypeOK'
  BY <1>13 DEF BlitCopy
<1>8. ASSUME NEW k \in Cores, BlitDone(k) PROVE TypeOK'
  BY <1>8 DEF BlitDone
<1>9. CASE StartGame
  BY <1>9 DEF StartGame
<1>10. CASE EndGame
  <2>1. lruList' \in Seq(Costumes) /\ total' \in Int
    BY <1>10 DEF EndGame
  <2>2. playing' \in BOOLEAN
    BY <1>10 DEF EndGame
  <2>3. rgba' \in [Costumes -> Addrs \cup {Null}]
    BY <1>10 DEF EndGame
  <2>4. copied' \in Copies
    BY <1>10, <1>12 DEF EndGame
  <2> QED BY <1>10, <2>1, <2>2, <2>3, <2>4 DEF EndGame, Copies
<1>11. CASE UNCHANGED vars
  BY <1>11 DEF vars
<1> QED BY <1>2, <1>3, <1>4, <1>5, <1>6, <1>7, <1>8, <1>9, <1>10, <1>11, <1>13 DEF Next

LEMMA ListStep == IInv /\ [Next]_vars => ListIsResident'
<1> SUFFICES ASSUME IInv, [Next]_vars PROVE ListIsResident'
  OBVIOUS
<1> USE DEF IInv, TypeOK, core, cache
<1>1. Distinct(lruList) /\ Elements(lruList) = Resident
  BY DEF ListIsResident, Distinct, Elements
<1> SUFFICES Distinct(lruList)' /\ Elements(lruList') = Resident'
  BY DEF ListIsResident, Distinct, Elements
<1>2. ASSUME NEW k \in Cores, NEW c \in Costumes, Hit(k, c)
      PROVE  Distinct(lruList') /\ Elements(lruList') = Resident'
  <2>1. Resident' = Resident /\ c \in Resident
    BY <1>2 DEF Hit, Resident
  <2>2. Distinct(lruList') /\ Elements(lruList') = Elements(lruList) \cup {c}
    BY <1>1, <1>2, TouchedFacts DEF Hit
  <2> QED BY <1>1, <2>1, <2>2
<1>3. ASSUME NEW k \in Cores, NEW c \in Costumes, Decode(k, c)
      PROVE  Distinct(lruList') /\ Elements(lruList') = Resident'
  <2>1. Resident' = Resident \cup {c}
    BY <1>3, NullIsNone DEF Decode, Resident, Free
  <2> QED BY <1>1, <1>3, <2>1, TouchedFacts DEF Decode
<1>4. ASSUME NEW k \in Cores, EvictOne(k)
      PROVE  Distinct(lruList') /\ Elements(lruList') = Resident'
  <2>1. Resident' = Resident \ {lruList[Len(lruList)]}
    BY <1>1, <1>4, DropLastFacts DEF EvictOne, OverBudget, Resident
  <2> QED BY <1>1, <1>4, <2>1, DropLastFacts DEF EvictOne, OverBudget
<1>5. CASE EndGame
  <2>1. lruList' = <<>> /\ Resident' = {}
    BY <1>5 DEF EndGame, Resident
  <2>2. Len(lruList') = 0
    BY <2>1
  <2> QED BY <2>1, <2>2 DEF Distinct, Elements
<1>6. CASE UNCHANGED <<rgba, lruList>>
  BY <1>1, <1>6 DEF Resident
<1>7. ASSUME NEW k \in Cores,
             \/ \E c \in Costumes : Fail(k, c)
             \/ Unlock(k) \/ BlitBegin(k) \/ BlitCopy(k) \/ BlitDone(k)
      PROVE  UNCHANGED <<rgba, lruList>>
  BY <1>7 DEF Fail, Unlock, BlitBegin, BlitCopy, BlitDone
<1>8. CASE StartGame \/ UNCHANGED vars
  BY <1>6, <1>8 DEF StartGame, vars
<1> QED BY <1>2, <1>3, <1>4, <1>5, <1>6, <1>7, <1>8 DEF Next

LEMMA BusyStep == IInv /\ [Next]_vars => Busy'
<1> SUFFICES ASSUME IInv, [Next]_vars PROVE Busy'
  OBVIOUS
<1> USE DEF IInv, TypeOK, Busy, GoTo, core
<1>1. ASSUME NEW k \in Cores, NEW c \in Costumes, Hit(k, c) \/ Fail(k, c) \/ Decode(k, c)
      PROVE  Busy'
  BY <1>1 DEF Hit, Fail, Decode
<1>2. ASSUME NEW k \in Cores, EvictOne(k) \/ Unlock(k) \/ BlitBegin(k) \/ BlitCopy(k) \/ BlitDone(k)
      PROVE  Busy'
  BY <1>2 DEF EvictOne, Unlock, Front, BlitBegin, BlitCopy, BlitDone
<1>3. CASE StartGame \/ EndGame \/ UNCHANGED vars
  BY <1>3 DEF StartGame, EndGame, vars
<1> QED BY <1>1, <1>2, <1>3 DEF Next

LEMMA FrontStep == IInv /\ [Next]_vars => Front'
<1> SUFFICES ASSUME IInv, [Next]_vars PROVE Front'
  OBVIOUS
<1> USE NullIsNone DEF IInv, TypeOK, Front, GoTo, core, cache
<1>1. Distinct(lruList)
  BY DEF ListIsResident, Distinct
<1>2. ASSUME NEW k \in Cores, NEW c \in Costumes, Hit(k, c) \/ Fail(k, c) PROVE Front'
  BY <1>2 DEF Hit, Fail, Enters
<1>3. ASSUME NEW k \in Cores, NEW c \in Costumes, Decode(k, c) PROVE Front'
  <2>1. lruList' # <<>> /\ lruList'[1] = c
    BY <1>1, <1>3, TouchedFacts DEF Decode
  <2>2. lock = Null /\ lock' = k /\ drawn' = [drawn EXCEPT ![k] = c] /\ st' = [st EXCEPT ![k] = "held"]
    BY <1>3 DEF Decode, Enters
  <2> QED BY <2>1, <2>2
<1>4. ASSUME NEW k \in Cores, EvictOne(k) PROVE Front'
  BY <1>1, <1>4, DropLastFacts DEF EvictOne, OverBudget
<1>5. ASSUME NEW k \in Cores, Unlock(k) PROVE Front'
  BY <1>5 DEF Unlock
<1>6. ASSUME NEW k \in Cores, BlitBegin(k) \/ BlitCopy(k) \/ BlitDone(k) PROVE Front'
  BY <1>6 DEF BlitBegin, BlitCopy, BlitDone
<1>7. CASE StartGame \/ EndGame
  BY <1>7 DEF StartGame, EndGame, AllIdle
<1>8. CASE UNCHANGED vars
  BY <1>8 DEF vars
<1> QED BY <1>2, <1>3, <1>4, <1>5, <1>6, <1>7, <1>8 DEF Next

LEMMA CopyStep == IInv /\ [Next]_vars => CopyInv'
<1> SUFFICES ASSUME IInv, [Next]_vars PROVE CopyInv'
  OBVIOUS
<1> USE NullIsNone DEF IInv, TypeOK, GoTo, core, cache
<1>1. copied \in Copies
  BY DEF Copies
<1>2. ASSUME NEW k \in Cores, NEW c \in Costumes, Hit(k, c) \/ Fail(k, c) PROVE CopyInv'
  BY <1>2 DEF Hit, Fail, Enters, CopyInv, CopyIsOfDrawn, Resident
<1>3. ASSUME NEW k \in Cores, NEW c \in Costumes, Decode(k, c) PROVE CopyInv'
  <2>1. PICK a \in Free : rgba' = [rgba EXCEPT ![c] = a]
    BY <1>3 DEF Decode
  <2>2. a # Null /\ (\A e \in Resident : rgba[e] # a) /\ rgba[c] = Null
    BY <1>3 DEF Decode, Free
  <2>3. (\A e, f \in Resident : rgba[e] = rgba[f] => e = f)'
    BY <2>1, <2>2 DEF CopyInv, Resident
  <2>4. (\A j \in Cores : ~copied[j].stale /\ copied[j].at # Null
                       => copied[j].of \in Costumes /\ rgba[copied[j].of] = copied[j].at)'
    BY <1>3, <2>1, <2>2 DEF Decode, CopyInv
  <2>5. CopyIsOfDrawn'
    BY <1>3 DEF Decode, Enters, CopyInv, CopyIsOfDrawn
  <2> QED BY <2>3, <2>4, <2>5 DEF CopyInv
<1>4. ASSUME NEW k \in Cores, EvictOne(k) PROVE CopyInv'
  <2> DEFINE victim == lruList[Len(lruList)]
  <2>1. victim \in Resident
    BY <1>4 DEF EvictOne, OverBudget, ListIsResident
  <2>2. Freed({victim}) /\ rgba' = [rgba EXCEPT ![victim] = Null] /\ UNCHANGED <<st, drawn>>
    BY <1>4 DEF EvictOne
  <2> HIDE DEF victim
  <2>3. victim \in Costumes /\ rgba[victim] # Null
    BY <2>1 DEF Resident
  <2>4. (\A e, f \in Resident : rgba[e] = rgba[f] => e = f)'
    BY <2>2, <2>3 DEF CopyInv, Resident
  <2>5. Marked({victim})
    BY <1>1, <2>2, FreedType
  <2>6. ASSUME NEW j \in Cores, ~copied'[j].stale, copied'[j].at # Null
        PROVE  copied'[j].of \in Costumes /\ rgba'[copied'[j].of] = copied'[j].at
    <3>1. copied'[j] = copied[j] /\ copied[j].at # rgba[victim]
      BY <2>3, <2>5, <2>6 DEF Marked
    <3>2. copied[j].of \in Costumes /\ rgba[copied[j].of] = copied[j].at
      BY <2>6, <3>1 DEF CopyInv
    <3> QED BY <2>2, <2>3, <3>1, <3>2
  <2>7. CopyIsOfDrawn'
    BY <2>2, <2>5 DEF CopyInv, CopyIsOfDrawn, Marked
  <2> QED BY <2>4, <2>6, <2>7 DEF CopyInv
<1>5. ASSUME NEW k \in Cores, BlitBegin(k) PROVE CopyInv'
  <2>1. UNCHANGED rgba /\ UNCHANGED drawn /\ st' = [st EXCEPT ![k] = "blit"]
    BY <1>5 DEF BlitBegin
  <2>2. \/ UNCHANGED copied
        \/ copied' = [copied EXCEPT ![k] = NoCopy]
        \/ copied' = [copied EXCEPT
                       ![k] = [at |-> rgba[drawn[k]], of |-> drawn[k], stale |-> FALSE]]
    BY <1>5 DEF BlitBegin
  <2>3. drawn[k] \in Costumes
    BY <1>5 DEF BlitBegin, Busy
  <2> QED BY <2>1, <2>2, <2>3 DEF CopyInv, CopyIsOfDrawn, NoCopy, Resident
<1>6. ASSUME NEW k \in Cores, BlitCopy(k) PROVE CopyInv'
  <2>1. /\ UNCHANGED <<rgba, drawn, copied>> /\ st' = [st EXCEPT ![k] = "cached"]
        /\ rgba[drawn[k]] # Null /\ rgba[drawn[k]] = copied[k].at /\ drawn[k] \in Costumes
    BY <1>6 DEF BlitCopy, Busy
  <2>2. copied[k].of = drawn[k] \/ copied[k].stale
    BY <2>1 DEF CopyInv, Resident
  <2> QED BY <2>1, <2>2 DEF CopyInv, CopyIsOfDrawn, Resident
<1>7. ASSUME NEW k \in Cores, Unlock(k) \/ BlitDone(k) PROVE CopyInv'
  BY <1>7 DEF Unlock, BlitDone, CopyInv, CopyIsOfDrawn, Resident
<1>8. CASE EndGame
  <2>1. Freed(Costumes) /\ (\A c \in Costumes : rgba'[c] = Null) /\ UNCHANGED <<st, drawn>>
    BY <1>8 DEF EndGame
  <2>2. Marked(Costumes)
    BY <1>1, <2>1, FreedType
  <2>3. ASSUME NEW j \in Cores, copied'[j].at # Null PROVE copied'[j].stale
    BY <2>2, <2>3 DEF CopyInv, Marked
  <2>4. CopyIsOfDrawn'
    BY <2>1, <2>2 DEF CopyInv, CopyIsOfDrawn, Marked
  <2> QED BY <2>1, <2>3, <2>4 DEF CopyInv, Resident
<1>9. CASE StartGame \/ UNCHANGED vars
  BY <1>9 DEF StartGame, vars, CopyInv, CopyIsOfDrawn, Resident
<1> QED BY <1>2, <1>3, <1>4, <1>5, <1>6, <1>7, <1>8, <1>9 DEF Next

\* What changes the list and the bytes with it.
LEMMA Evicted ==
  ASSUME IInv, NEW k \in Cores, EvictOne(k)
  PROVE  LET v == lruList[Len(lruList)]
         IN  /\ v \in Resident /\ Resident' = Resident \ {v} /\ rgba' = [rgba EXCEPT ![v] = Null]
             /\ Len(lruList) > 1 /\ lruList' = SubSeq(lruList, 1, Len(lruList) - 1)
             /\ total > Budget /\ total' = total - Size[v]
<1> USE DEF IInv, TypeOK, ListIsResident
<1>1. /\ Len(lruList) > 1 /\ total > Budget
      /\ rgba' = [rgba EXCEPT ![lruList[Len(lruList)]] = Null]
      /\ total' = total - Size[lruList[Len(lruList)]]
      /\ lruList' = SubSeq(lruList, 1, Len(lruList) - 1)
  BY DEF EvictOne, OverBudget
<1>2. Len(lruList) \in 1..Len(lruList)
  BY <1>1
<1>3. lruList[Len(lruList)] \in Resident
  BY <1>2
<1>4. Resident' = Resident \ {lruList[Len(lruList)]}
  BY <1>1, <1>3 DEF Resident
<1> QED BY <1>1, <1>3, <1>4

LEMMA BudgetStep == IInv /\ [Next]_vars => WithinBudget'
<1> SUFFICES ASSUME IInv, [Next]_vars PROVE WithinBudget'
  OBVIOUS
<1> USE BudgetNat, NullIsNone DEF IInv, TypeOK, WithinBudget, Accounted, core, cache
<1>1. Resident \in SUBSET Costumes /\ IsFiniteSet(Resident)
  <2>1. Resident \subseteq Costumes
    BY DEF Resident
  <2> QED BY <2>1, CostumesFinite, FS_Subset
<1>2. ASSUME NEW k \in Cores, NEW c \in Costumes, Decode(k, c) PROVE WithinBudget'
  <2>1. /\ Resident' = Resident \cup {c} /\ c \notin Resident
        /\ total' = total + Size[c] /\ lock' = k /\ k # Null
    BY <1>2 DEF Decode, Resident, Free
  <2>2. Bytes(Resident \cup {c}) = Bytes(Resident) + Size[c]
    BY <1>1, <2>1, BytesAdd
  <2>3. total' = Bytes(Resident')
    BY <2>1, <2>2
  <2> QED BY <2>1, <2>3
<1>3. ASSUME NEW k \in Cores, EvictOne(k) PROVE WithinBudget'
  <2> DEFINE v == lruList[Len(lruList)]
  <2>1. v \in Resident /\ Resident' = Resident \ {v} /\ total' = total - Size[v]
    BY <1>3, Evicted
  <2>2. lock' = k /\ k # Null
    BY <1>3 DEF EvictOne
  <2> HIDE DEF v
  <2>3. Bytes(Resident \ {v}) = Bytes(Resident) - Size[v]
    BY <1>1, <2>1, BytesRemove
  <2>4. total' = Bytes(Resident')
    BY <2>1, <2>3
  <2> QED BY <2>2, <2>4
<1>4. ASSUME NEW k \in Cores, Unlock(k) PROVE WithinBudget'
  <2>1. Resident' = Resident /\ total' = total /\ (total <= Budget \/ Len(lruList) <= 1)
    BY <1>4 DEF Unlock, OverBudget, Resident
  <2>2. CASE Len(lruList) = 0
    <3>1. Resident = {}
      BY <2>2 DEF ListIsResident
    <3>2. total = 0
      BY <3>1, BytesEmpty
    <3> QED BY <2>1, <3>2
  <2>3. CASE Len(lruList) = 1
    <3>1. Resident = {lruList[1]}
      BY <2>3 DEF ListIsResident
    <3>2. Cardinality(Resident) = 1
      BY <3>1, FS_Singleton
    <3> QED BY <2>1, <3>2
  <2>4. CASE total <= Budget
    BY <2>1, <2>4
  <2>5. total <= Budget \/ Len(lruList) = 0 \/ Len(lruList) = 1
    <3>1. \A n \in Nat : n <= 1 => n = 0 \/ n = 1
      OBVIOUS
    <3>2. Len(lruList) \in Nat
      OBVIOUS
    <3> QED BY <2>1, <3>1, <3>2, Zenon
  <2> QED BY <2>2, <2>3, <2>4, <2>5
<1>5. CASE EndGame
  <2>1. Resident' = {} /\ total' = 0
    BY <1>5 DEF EndGame, Resident
  <2> QED BY <2>1, BytesEmpty
<1>6. ASSUME UNCHANGED <<rgba, total>>, lock' = lock \/ lock = Null PROVE WithinBudget'
  <2>1. Resident' = Resident /\ total' = total
    BY <1>6 DEF Resident
  <2> QED BY <1>6, <2>1
<1>7. ASSUME NEW k \in Cores, NEW c \in Costumes, Hit(k, c) \/ Fail(k, c) PROVE WithinBudget'
  BY <1>6, <1>7 DEF Hit, Fail
<1>8. ASSUME NEW k \in Cores, BlitBegin(k) \/ BlitCopy(k) \/ BlitDone(k) PROVE WithinBudget'
  BY <1>6, <1>8 DEF BlitBegin, BlitCopy, BlitDone
<1>9. CASE StartGame \/ UNCHANGED vars
  BY <1>6, <1>9 DEF StartGame, vars
<1> QED BY <1>2, <1>3, <1>4, <1>5, <1>7, <1>8, <1>9 DEF Next

\* touchLru moves one costume and keeps the order of the others: what is nearer to
\* the front than e afterwards is c or was nearer before.
LEMMA TouchedOrder ==
  ASSUME NEW s \in Seq(Costumes), NEW c \in Costumes, Distinct(s),
         NEW i \in 1..Len(Touched(s, c)), NEW j \in 1..Len(Touched(s, c)), i < j,
         Touched(s, c)[i] # c
  PROVE  /\ Touched(s, c)[j] # c
         /\ \E m, n \in 1..Len(s) :
              m < n /\ s[m] = Touched(s, c)[i] /\ s[n] = Touched(s, c)[j]
<1> DEFINE t == Touched(s, c)
<1>0. t[1] = c /\ Distinct(t) /\ t \in Seq(Costumes)
  BY TouchedFacts
<1>1. i \in Nat /\ j \in Nat /\ i # 1 /\ j # 1 /\ t[j] # c
  <2>1. i # 1 /\ j # 1 /\ 1 \in 1..Len(t)
    BY <1>0
  <2> QED BY <1>0, <2>1 DEF Distinct
<1>2. CASE \E k \in 1..Len(s) : s[k] = c
  <2>1. PICK p \in 1..Len(s) : s[p] = c
    BY <1>2
  <2>2. Place(s, c) = p
    BY <2>1 DEF Place, Distinct
  <2>3. t = [k \in 1..Len(s) |-> IF k = 1 THEN c ELSE IF k <= p THEN s[k-1] ELSE s[k]]
    BY <1>2, <2>2 DEF Touched
  <2>4. Len(t) = Len(s) /\ Len(s) \in Nat
    BY <2>3
  <2> DEFINE m == IF i <= p THEN i-1 ELSE i
             n == IF j <= p THEN j-1 ELSE j
  <2>5. m \in 1..Len(s) /\ n \in 1..Len(s) /\ m < n
    BY <1>1, <2>1, <2>4
  <2>6. s[m] = t[i] /\ s[n] = t[j]
    BY <1>1, <2>3, <2>4
  <2> QED BY <1>1, <2>5, <2>6
<1>3. CASE ~\E k \in 1..Len(s) : s[k] = c
  <2>1. t = <<c>> \o s
    BY <1>3 DEF Touched
  <2>2. i-1 \in 1..Len(s) /\ j-1 \in 1..Len(s) /\ s[i-1] = t[i] /\ s[j-1] = t[j] /\ i-1 < j-1
    BY <1>1, <2>1
  <2> QED BY <1>1, <2>2
<1> QED BY <1>2, <1>3

LEMMA OrderStep == IInv /\ [Next]_vars => Ordered'
<1> SUFFICES ASSUME IInv, [Next]_vars PROVE Ordered'
  OBVIOUS
<1> USE DEF IInv, TypeOK, GoTo, core, cache
<1>1. Distinct(lruList) /\ lruList \in Seq(Costumes)
  BY DEF ListIsResident, Distinct
<1>2. ASSUME NEW k \in Cores, NEW c \in Costumes, Hit(k, c) \/ Decode(k, c) PROVE Ordered'
  <2>1. /\ lruList' = Touched(lruList, c) /\ drawn' = [drawn EXCEPT ![k] = c]
        /\ \A j \in Cores : j # k => st'[j] = st[j] /\ since'[j] = since[j] \cup {c}
    BY <1>2 DEF Hit, Decode, Used
  <2> SUFFICES ASSUME NEW h \in Cores, st'[h] # "idle",
                      NEW i \in 1..Len(lruList'), NEW j \in 1..Len(lruList'), i < j,
                      lruList'[j] = drawn'[h]
               PROVE  lruList'[i] \in since'[h]
    BY DEF Ordered
  <2>2. lruList'[1] = c /\ Distinct(lruList') /\ lruList' \in Seq(Costumes)
    BY <1>1, <2>1, TouchedFacts
  <2>3. lruList'[j] # c
    <3>1. j # 1 /\ 1 \in 1..Len(lruList')
      BY <2>2
    <3> QED BY <2>2, <3>1 DEF Distinct
  <2>4. h # k
    BY <2>1, <2>3
  <2>5. CASE lruList'[i] = c
    BY <2>1, <2>4, <2>5
  <2>6. CASE lruList'[i] # c
    <3>1. PICK m, n \in 1..Len(lruList) :
            m < n /\ lruList[m] = lruList'[i] /\ lruList[n] = lruList'[j]
      BY <1>1, <2>1, <2>6, TouchedOrder
    <3>2. lruList[n] = drawn[h] /\ st[h] # "idle"
      BY <2>1, <2>4, <3>1
    <3>3. lruList[m] \in since[h]
      BY <3>1, <3>2 DEF Ordered
    <3> QED BY <2>1, <2>4, <3>1, <3>3
  <2> QED BY <2>5, <2>6
<1>3. ASSUME NEW k \in Cores, EvictOne(k) PROVE Ordered'
  <2>1. Len(lruList) > 1 /\ lruList' = SubSeq(lruList, 1, Len(lruList) - 1)
    BY <1>3, Evicted
  <2>2. Len(lruList') < Len(lruList) /\ \A i \in 1..Len(lruList') : lruList'[i] = lruList[i]
    BY <2>1
  <2>3. UNCHANGED <<st, drawn, since>>
    BY <1>3 DEF EvictOne
  <2> QED BY <1>1, <2>2, <2>3 DEF Ordered
<1>4. CASE EndGame
  BY <1>4 DEF EndGame, AllIdle, Ordered
<1>5. ASSUME UNCHANGED <<lruList, drawn>>,
             \A k \in Cores : st'[k] # "idle" => st[k] # "idle" /\ since'[k] = since[k]
      PROVE  Ordered'
  BY <1>5 DEF Ordered
<1>6. ASSUME NEW k \in Cores, \/ \E c \in Costumes : Fail(k, c)
                              \/ Unlock(k) \/ BlitBegin(k) \/ BlitCopy(k) \/ BlitDone(k)
      PROVE  Ordered'
  <2>1. ASSUME \E c \in Costumes : Fail(k, c) PROVE Ordered'
    BY <1>5, <2>1 DEF Fail
  <2>2. ASSUME Unlock(k) PROVE Ordered'
    BY <1>5, <2>2 DEF Unlock, Front
  <2>3. ASSUME BlitBegin(k) \/ BlitCopy(k) PROVE Ordered'
    BY <1>5, <2>3 DEF BlitBegin, BlitCopy
  <2>4. ASSUME BlitDone(k) PROVE Ordered'
    BY <1>5, <2>4 DEF BlitDone
  <2> QED BY <1>6, <2>1, <2>2, <2>3, <2>4
<1>7. CASE StartGame \/ UNCHANGED vars
  BY <1>5, <1>7 DEF StartGame, vars
<1> QED BY <1>2, <1>3, <1>4, <1>6, <1>7 DEF Next

LEMMA ReadingStep == IInv /\ [Next]_vars => Reading'
<1> SUFFICES ASSUME IInv, [Next]_vars PROVE Reading'
  OBVIOUS
<1> USE DEF IInv, TypeOK, GoTo, core, cache, Reading
<1>1. ASSUME NEW k \in Cores, NEW c \in Costumes, Hit(k, c) \/ Fail(k, c) \/ Decode(k, c)
      PROVE  Reading'
  BY <1>1 DEF Hit, Fail, Decode
<1>2. ASSUME NEW k \in Cores, EvictOne(k) \/ Unlock(k) PROVE Reading'
  BY <1>2 DEF EvictOne, Unlock
<1>3. ASSUME NEW k \in Cores, BlitBegin(k) \/ BlitCopy(k) \/ BlitDone(k) PROVE Reading'
  BY <1>3 DEF BlitBegin, BlitCopy, BlitDone
<1>4. CASE StartGame \/ EndGame \/ UNCHANGED vars
  BY <1>4 DEF StartGame, EndGame, vars
<1> QED BY <1>1, <1>2, <1>3, <1>4 DEF Next

LEMMA RecentStep == IInv /\ [Next]_vars => LeastRecentGoesFirst'
<1> SUFFICES ASSUME IInv, [Next]_vars, NEW k \in Cores, Gone(k)'
             PROVE  (Bytes(since[k] \cup {drawn[k]}) > Budget)'
  BY DEF LeastRecentGoesFirst
<1> USE BudgetNat, NullIsNone DEF IInv, TypeOK, GoTo, core, cache
<1>1. drawn'[k] \in Costumes /\ since'[k] \in SUBSET Costumes
  BY TypeStep, BusyStep DEF Gone, Busy
\* What was taken before is still accounted for.
<1>2. ASSUME Gone(k), drawn'[k] = drawn[k], since[k] \subseteq since'[k]
      PROVE  (Bytes(since[k] \cup {drawn[k]}) > Budget)'
  <2> DEFINE S == since[k] \cup {drawn[k]}
             T == since'[k] \cup {drawn'[k]}
  <2>1. T \in SUBSET Costumes /\ S \in SUBSET T
    BY <1>1, <1>2
  <2>2. Bytes(S) > Budget
    BY <1>2 DEF LeastRecentGoesFirst
  <2> HIDE DEF S, T
  <2>3. Bytes(S) <= Bytes(T) /\ Bytes(S) \in Nat /\ Bytes(T) \in Nat
    BY <2>1, BytesMonotone, BytesNat
  <2>4. Bytes(T) > Budget
    BY <2>2, <2>3
  <2> QED BY <2>4 DEF T
<1>3. ASSUME NEW h \in Cores, NEW c \in Costumes, Hit(h, c) \/ Fail(h, c) \/ Decode(h, c)
      PROVE  (Bytes(since[k] \cup {drawn[k]}) > Budget)'
  <2>1. CASE Fail(h, c)
    BY <1>2, <2>1 DEF Fail, Gone
  <2>2. CASE Hit(h, c)
    <3>1. k # h
      BY <2>2 DEF Hit, Gone
    <3>2. Gone(k) /\ drawn'[k] = drawn[k] /\ since[k] \subseteq since'[k]
      BY <2>2, <3>1 DEF Hit, Gone, Used
    <3> QED BY <1>2, <3>2
  <2>3. CASE Decode(h, c)
    <3>1. k # h
      BY <2>3 DEF Decode, Gone
    <3>2. /\ st'[k] = st[k] /\ drawn'[k] = drawn[k] /\ src' = src /\ since[k] \subseteq since'[k]
          /\ rgba[c] = Null /\ \E a \in Free : rgba' = [rgba EXCEPT ![c] = a]
      BY <2>3, <3>1 DEF Decode, Used
    <3>3. Gone(k)
      BY <3>2 DEF Gone, Reading, Free
    <3> QED BY <1>2, <3>2, <3>3
  <2> QED BY <1>3, <2>1, <2>2, <2>3
<1>4. ASSUME NEW h \in Cores, EvictOne(h)
      PROVE  (Bytes(since[k] \cup {drawn[k]}) > Budget)'
  <2> DEFINE v == lruList[Len(lruList)]
  <2>1. /\ v \in Resident /\ rgba' = [rgba EXCEPT ![v] = Null] /\ Len(lruList) > 1 /\ total > Budget
    BY <1>4, Evicted
  <2>2. UNCHANGED <<st, drawn, src, since>>
    BY <1>4 DEF EvictOne
  <2>3. CASE drawn[k] = v
    <3>1. \A i \in 1..Len(lruList) : lruList[i] \in since[k] \cup {drawn[k]}
      <4> SUFFICES ASSUME NEW i \in 1..Len(lruList), i # Len(lruList)
                   PROVE  lruList[i] \in since[k]
        BY <2>3
      <4>1. Len(lruList) \in 1..Len(lruList) /\ i < Len(lruList)
        BY <2>1
      <4>2. st[k] # "idle"
        BY <2>2 DEF Gone
      <4> QED BY <2>3, <4>1, <4>2 DEF Ordered
    <3>2. Resident \in SUBSET (since[k] \cup {drawn[k]})
      BY <3>1 DEF ListIsResident
    <3>3. since[k] \cup {drawn[k]} \in SUBSET Costumes
      BY <1>1, <2>2
    <3>4. Bytes(Resident) <= Bytes(since[k] \cup {drawn[k]}) /\ Bytes(since[k] \cup {drawn[k]}) \in Nat
      BY <3>2, <3>3, BytesMonotone, BytesNat
    <3>5. Bytes(since[k] \cup {drawn[k]}) > Budget
      BY <2>1, <3>4 DEF WithinBudget, Accounted
    <3> QED BY <2>2, <3>5
  <2>4. CASE drawn[k] # v
    <3>1. Gone(k)
      BY <1>1, <2>1, <2>2, <2>4 DEF Gone
    <3> QED BY <1>2, <2>2, <3>1
  <2> QED BY <2>3, <2>4
<1>5. ASSUME NEW h \in Cores, Unlock(h)
      PROVE  (Bytes(since[k] \cup {drawn[k]}) > Budget)'
  <2>1. k # h
    <3>1. ASSUME k = h PROVE FALSE
      <4>1. lruList # <<>> /\ lruList[1] = drawn[k] /\ 1 \in 1..Len(lruList)
        BY <1>5, <3>1 DEF Unlock, Front
      <4>2. rgba[drawn[k]] # Null
        BY <4>1 DEF ListIsResident, Resident
      <4> QED BY <1>5, <3>1, <4>2 DEF Unlock, Gone
    <3> QED BY <3>1
  <2>2. Gone(k)
    BY <1>5, <2>1 DEF Unlock, Gone
  <2> QED BY <1>2, <1>5, <2>2 DEF Unlock
<1>6. ASSUME NEW h \in Cores, BlitBegin(h) \/ BlitCopy(h) \/ BlitDone(h)
      PROVE  (Bytes(since[k] \cup {drawn[k]}) > Budget)'
  <2>1. k # h
    BY <1>6 DEF BlitBegin, BlitCopy, BlitDone, Gone
  <2>2. Gone(k) /\ drawn'[k] = drawn[k] /\ since'[k] = since[k]
    BY <1>6, <2>1 DEF BlitBegin, BlitCopy, BlitDone, Gone
  <2> QED BY <1>2, <2>2
<1>7. CASE EndGame
  BY <1>7 DEF EndGame, AllIdle, Gone
<1>8. CASE StartGame \/ UNCHANGED vars
  BY <1>2, <1>8 DEF StartGame, vars, Gone
<1> QED BY <1>3, <1>4, <1>5, <1>6, <1>7, <1>8 DEF Next

LEMMA Invariance == Spec => []IInv
<1>1. IInv /\ [Next]_vars => IInv'
  BY TypeStep, ListStep, FrontStep, BusyStep, CopyStep, BudgetStep, OrderStep, ReadingStep, RecentStep
  DEF IInv
<1> QED BY <1>1, Initially, PTL DEF Spec

\* The variables stay in range.
THEOREM TypeCorrect == Spec => []TypeOK
<1>1. IInv => TypeOK
  BY DEF IInv
<1> QED BY <1>1, Invariance, PTL

\* The list of the cache names what is decoded, each once.
THEOREM ListNamesResident == Spec => []ListIsResident
<1>1. IInv => ListIsResident
  BY DEF IInv
<1> QED BY <1>1, Invariance, PTL

\* The bytes counted are the bytes allocated, and whenever the mutex is free they
\* fit the budget or belong to one costume.
THEOREM BudgetKept == Spec => []WithinBudget
<1>1. IInv => WithinBudget
  BY DEF IInv
<1> QED BY <1>1, Invariance, PTL

\* A core loses the pixels it found only when what was used since does not fit
\* the budget with them.
THEOREM LeastRecentFirst == Spec => []LeastRecentGoesFirst
<1>1. IInv => LeastRecentGoesFirst
  BY DEF IInv
<1> QED BY <1>1, Invariance, PTL

\* However many costumes must go, a core finds the one it came for.
THEOREM OwnCostumeSurvives == Spec => []OwnSurvives
<1>1. IInv => OwnSurvives
  <2> SUFFICES ASSUME IInv, NEW k \in Cores, st[k] = "held" PROVE rgba[drawn[k]] # Null
    BY DEF OwnSurvives
  <2>1. lruList # <<>> /\ lruList[1] = drawn[k] /\ 1 \in 1..Len(lruList)
    BY DEF IInv, Front, TypeOK
  <2> QED BY <2>1 DEF IInv, ListIsResident, Resident
<1> QED BY <1>1, Invariance, PTL

\* A core that draws from its copy draws the right costume, unless the pixels the
\* copy was made of were freed.
THEOREM CopyOfDrawn == Spec => []CopyIsOfDrawn
<1>1. IInv => CopyIsOfDrawn
  BY DEF IInv, CopyInv
<1> QED BY <1>1, Invariance, PTL
================================================================================
