----------------------------- MODULE CostumeCache -----------------------------
(***************************************************************************)
(* The cache of decoded costumes of SWRenderer (main/sw_renderer.cpp): the *)
(* pixels of a costume are decoded on demand, kept within a budget and     *)
(* evicted least recently used first. Both cores draw at once; the cache   *)
(* is under a mutex, the pixels are read outside of it.                    *)
(***************************************************************************)
EXTENDS Integers, Sequences, FiniteSets

CONSTANTS
  Costumes, Cores,
  Addrs,   \* where the heap can put the pixels of a costume
  Null,
  Size,    \* the bytes of a decoded costume
  Small,   \* the costumes of at most 64 KB
  Budget   \* costumeBudgetBytes

ASSUME CostumesFinite == IsFiniteSet(Costumes)
ASSUME SizeIsPositive == Size \in [Costumes -> Nat \ {0}]
ASSUME BudgetNat == Budget \in Nat
ASSUME SmallAreCostumes == Small \subseteq Costumes
ASSUME NullIsNone == Null \notin Addrs \cup Cores

VARIABLES
  loaded,      \* the keys of the map costumes
  rgba,        \* where the pixels of a costume are, Null: not decoded
  decodeFailed,
  lruList,     \* most recently used first
  total,       \* totalRgbaBytes
  lock,        \* the owner of costumeLock
  st,          \* idle, held: inside the cache, ready: back from it, blit: reading
               \* pixels, cached: reading the copy of them in internal SRAM
  drawn,       \* the costume a core draws
  src,         \* the pixels a core reads
  since,       \* the costumes used by others since a core's was found
  copied,      \* the copy of a core: at, its s_iram_cached_src; of, the costume it
               \* was made of; stale, a ghost: the pixels at at were freed since
  playing      \* a game runs; else its costumes are being loaded

cache == <<loaded, rgba, decodeFailed, lruList, total>>
core == <<st, drawn, src, since, copied>>
vars == <<cache, lock, core, playing>>

Resident == {c \in Costumes : rgba[c] # Null}
Free == Addrs \ {rgba[c] : c \in Resident}
Place(s, c) == CHOOSE k \in 1..Len(s) : s[k] = c
\* touchLru: c to the front, the order of the others kept.
Touched(s, c) ==
  IF \E k \in 1..Len(s) : s[k] = c
  THEN [k \in 1..Len(s) |-> IF k = 1 THEN c ELSE IF k <= Place(s, c) THEN s[k-1] ELSE s[k]]
  ELSE <<c>> \o s
Pixels(c) == {c} \X (1..Size[c])
Bytes(S) == Cardinality(UNION {Pixels(c) : c \in S})
NoCopy == [at |-> Null, of |-> Null, stale |-> FALSE]
\* The ghost stale: the pixels of the costumes in S are freed.
Freed(S) == copied' = [k \in Cores |->
  IF \E c \in S : rgba[c] # Null /\ rgba[c] = copied[k].at
  THEN [copied[k] EXCEPT !.stale = TRUE] ELSE copied[k]]
OverBudget == total > Budget /\ Len(lruList) > 1

Init ==
  /\ loaded = {} /\ rgba = [c \in Costumes |-> Null] /\ decodeFailed = {}
  /\ lruList = <<>> /\ total = 0 /\ lock = Null
  /\ st = [k \in Cores |-> "idle"] /\ drawn = [k \in Cores |-> Null]
  /\ src = [k \in Cores |-> Null] /\ since = [k \in Cores |-> {}]
  /\ copied = [k \in Cores |-> NoCopy]
  /\ playing = FALSE

\* The ghost since[k]: c is used by another core.
Used(k, c) == since' = [j \in Cores |-> IF j = k THEN {} ELSE since[j] \cup {c}]
GoTo(k, s) == st' = [st EXCEPT ![k] = s]
AllIdle == \A k \in Cores : st[k] = "idle"
\* A core about to take the mutex and to look for costume c.
Enters(k, c) ==
  /\ st[k] = "idle" /\ lock = Null
  /\ IF playing THEN c \in loaded ELSE AllIdle
-----------------------------------------------------------------------------
(* Faulty variants of actions below.                                       *)

Hit_NoTouch(k, c) ==
  /\ Enters(k, c) /\ rgba[c] # Null
  /\ Used(k, c) /\ drawn' = [drawn EXCEPT ![k] = c]
  /\ GoTo(k, IF playing THEN "ready" ELSE "idle")
  /\ loaded' = loaded \cup {c}
  /\ UNCHANGED <<rgba, decodeFailed, lruList, total, lock, src, copied, playing>>
Decode_Again(k, c) ==
  /\ Enters(k, c)
  /\ playing => c \notin decodeFailed
  /\ \E a \in Free : rgba' = [rgba EXCEPT ![c] = a]
  /\ total' = total + Size[c] /\ lruList' = Touched(lruList, c)
  /\ loaded' = loaded \cup {c}
  /\ lock' = k /\ GoTo(k, "held") /\ drawn' = [drawn EXCEPT ![k] = c] /\ Used(k, c)
  /\ UNCHANGED <<decodeFailed, src, copied, playing>>
EvictOne_Last(k) ==
  /\ lock = k /\ total > Budget /\ lruList # <<>>
  /\ LET victim == lruList[Len(lruList)] IN
       /\ rgba' = [rgba EXCEPT ![victim] = Null] /\ total' = total - Size[victim]
       /\ lruList' = SubSeq(lruList, 1, Len(lruList) - 1)
       /\ Freed({victim})
  /\ UNCHANGED <<loaded, decodeFailed, lock, st, drawn, src, since, playing>>
EndGame_KeepFailed ==
  /\ playing /\ AllIdle /\ playing' = FALSE
  /\ loaded' = {} /\ rgba' = [c \in Costumes |-> Null] /\ lruList' = <<>> /\ total' = 0
  /\ Freed(Costumes) /\ UNCHANGED <<decodeFailed, lock, st, drawn, src, since>>
EndGame_KeepList ==
  /\ playing /\ AllIdle /\ playing' = FALSE
  /\ loaded' = {} /\ rgba' = [c \in Costumes |-> Null] /\ decodeFailed' = {} /\ total' = 0
  /\ Freed(Costumes) /\ UNCHANGED <<lruList, lock, st, drawn, src, since>>
BlitBegin_OldKey(k) ==
  /\ st[k] = "ready" /\ rgba[drawn[k]] # Null
  /\ drawn[k] \in Small => rgba[drawn[k]] # copied[k].at
  /\ src' = [src EXCEPT ![k] = rgba[drawn[k]]] /\ GoTo(k, "blit")
  /\ copied' = IF copied[k] = NoCopy
               THEN [copied EXCEPT ![k] = [at |-> src'[k], of |-> drawn[k], stale |-> FALSE]]
               ELSE [copied EXCEPT ![k].of = drawn[k]]
  /\ UNCHANGED <<cache, lock, drawn, since, playing>>
-----------------------------------------------------------------------------
(* ensureDecoded, called to draw, to stamp and to test for a collision     *)
(* while a game is played, and loadCostumeFromMemory before.               *)

\* The pixels are there.
Hit(k, c) ==
  /\ Enters(k, c) /\ rgba[c] # Null
  /\ lruList' = Touched(lruList, c)
  /\ Used(k, c) /\ drawn' = [drawn EXCEPT ![k] = c]
  /\ GoTo(k, IF playing THEN "ready" ELSE "idle")
  /\ loaded' = loaded \cup {c}
  /\ UNCHANGED <<rgba, decodeFailed, total, lock, src, copied, playing>>

\* The asset cannot be read or decoded: while a game is played it is not tried
\* again, loading a costume anew does try.
Fail(k, c) ==
  /\ Enters(k, c) /\ rgba[c] = Null
  /\ decodeFailed' = decodeFailed \cup {c} /\ loaded' = loaded \cup {c}
  /\ UNCHANGED <<rgba, lruList, total, lock, core, playing>>

\* decodeInto and touchLru.
Decode(k, c) ==
  /\ Enters(k, c) /\ rgba[c] = Null
  /\ playing => c \notin decodeFailed
  /\ \E a \in Free : rgba' = [rgba EXCEPT ![c] = a]
  /\ total' = total + Size[c] /\ lruList' = Touched(lruList, c)
  /\ loaded' = loaded \cup {c}
  /\ lock' = k /\ GoTo(k, "held") /\ drawn' = [drawn EXCEPT ![k] = c] /\ Used(k, c)
  /\ UNCHANGED <<decodeFailed, src, copied, playing>>

\* evictUntilUnderBudget: the least recently used goes, but never the last one.
EvictOne(k) ==
  /\ lock = k /\ OverBudget
  /\ LET victim == lruList[Len(lruList)] IN
       /\ rgba' = [rgba EXCEPT ![victim] = Null] /\ total' = total - Size[victim]
       /\ lruList' = SubSeq(lruList, 1, Len(lruList) - 1)
       /\ Freed({victim})
  /\ UNCHANGED <<loaded, decodeFailed, lock, st, drawn, src, since, playing>>
Unlock(k) ==
  /\ lock = k /\ ~OverBudget /\ lock' = Null
  /\ GoTo(k, IF playing THEN "ready" ELSE "idle")
  /\ UNCHANGED <<cache, drawn, src, since, copied, playing>>
-----------------------------------------------------------------------------
(* The readers of the pixels, without the mutex.                           *)

\* The pixels are copied or, of a large costume or when there is no memory for
\* the copy, drawn as they are.
BlitBegin(k) ==
  /\ st[k] = "ready" /\ rgba[drawn[k]] # Null
  /\ drawn[k] \in Small => rgba[drawn[k]] # copied[k].at
  /\ src' = [src EXCEPT ![k] = rgba[drawn[k]]] /\ GoTo(k, "blit")
  /\ \/ drawn[k] \notin Small /\ UNCHANGED copied
     \/ /\ drawn[k] \in Small
        /\ \E copy \in {NoCopy, [at |-> rgba[drawn[k]], of |-> drawn[k], stale |-> FALSE]} :
             copied' = [copied EXCEPT ![k] = copy]
  /\ UNCHANGED <<cache, lock, drawn, since, playing>>
\* They were the last this core has copied.
BlitCopy(k) ==
  /\ st[k] = "ready" /\ drawn[k] \in Small
  /\ rgba[drawn[k]] # Null /\ rgba[drawn[k]] = copied[k].at
  /\ GoTo(k, "cached")
  /\ UNCHANGED <<cache, lock, drawn, src, since, copied, playing>>
\* Drawn; or nothing to draw: the pixels are gone, invisible or off the stage.
BlitDone(k) ==
  /\ st[k] \in {"ready", "blit", "cached"} /\ GoTo(k, "idle")
  /\ src' = [src EXCEPT ![k] = Null] /\ since' = [since EXCEPT ![k] = {}]
  /\ UNCHANGED <<cache, lock, drawn, copied, playing>>

\* The runtime task starts after the costumes are loaded; clearCostumes runs
\* after it has ended.
StartGame ==
  /\ ~playing /\ AllIdle /\ playing' = TRUE
  /\ UNCHANGED <<cache, lock, core>>
EndGame ==
  /\ playing /\ AllIdle /\ playing' = FALSE
  /\ loaded' = {} /\ rgba' = [c \in Costumes |-> Null] /\ decodeFailed' = {}
  /\ lruList' = <<>> /\ total' = 0 /\ Freed(Costumes)
  /\ UNCHANGED <<lock, st, drawn, src, since>>

Next ==
  \/ \E k \in Cores :
       \/ \E c \in Costumes : Hit(k, c) \/ Fail(k, c) \/ Decode(k, c)
       \/ EvictOne(k) \/ Unlock(k) \/ BlitBegin(k) \/ BlitCopy(k) \/ BlitDone(k)
  \/ StartGame \/ EndGame
Spec == Init /\ [][Next]_vars
-----------------------------------------------------------------------------
(* Properties.                                                             *)

\* The variables stay in range.
TypeOK ==
  /\ loaded \subseteq Costumes /\ decodeFailed \subseteq loaded
  /\ rgba \in [Costumes -> Addrs \cup {Null}] /\ lruList \in Seq(Costumes)
  /\ total \in Int /\ lock \in Cores \cup {Null}
  /\ st \in [Cores -> {"idle", "held", "ready", "blit", "cached"}]
  /\ drawn \in [Cores -> Costumes \cup {Null}] /\ src \in [Cores -> Addrs \cup {Null}]
  /\ since \in [Cores -> SUBSET Costumes] /\ playing \in BOOLEAN
  /\ copied \in [Cores -> [at : Addrs \cup {Null}, of : Costumes \cup {Null}, stale : BOOLEAN]]

\* The LRU list names the decoded costumes, each once: none is kept for ever
\* because the list lost it, and no eviction is spent on one already gone.
ListIsResident ==
  /\ {lruList[k] : k \in 1..Len(lruList)} = Resident
  /\ \A j, k \in 1..Len(lruList) : lruList[j] = lruList[k] => j = k

\* The bytes counted are the bytes allocated, through games, reloads and
\* evictions, so the subtraction of evictRgba never has to saturate. Whenever the
\* mutex is free they fit the budget, except that one costume may be larger than
\* all of it.
Accounted == total = Bytes(Resident)
WithinBudget ==
  /\ Accounted
  /\ lock = Null => total <= Budget \/ Cardinality(Resident) = 1

\* A core leaves the cache with the costume it came for, however small the
\* budget: its own evictions never take it (sw_renderer.cpp:209-210).
OwnSurvives == \A k \in Cores : st[k] = "held" => rgba[drawn[k]] # Null

\* The pixels a core found are taken from it only when they and the costumes
\* other cores have used since do not fit the budget together: what was not
\* used since goes first.
Gone(k) == \/ st[k] = "ready" /\ rgba[drawn[k]] = Null
           \/ st[k] = "blit" /\ rgba[drawn[k]] # src[k]
LeastRecentGoesFirst ==
  \A k \in Cores : Gone(k) => Bytes(since[k] \cup {drawn[k]}) > Budget

\* A core that draws from its copy draws the costume it was told to ("clones share
\* same rgba pointer", sw_renderer.cpp:918), unless the pixels the copy was made of
\* have been freed: the next costume at their place is taken for the old one, also
\* in a later game.
CopyIsOfDrawn ==
  \A k \in Cores : st[k] = "cached" => copied[k].of = drawn[k] \/ copied[k].stale

\* The pixels a core reads stay: "safe because touchLru pins the just-touched
\* costume at the front of the LRU" (sw_renderer.h:171-173).
PinnedWhileRead == \A k \in Cores : st[k] = "blit" => rgba[drawn[k]] = src[k]
===============================================================================
