--------------------------- MODULE MCCostumeCache ---------------------------
(* CostumeCache for TLC: four costumes of two sizes, two cores. *)
EXTENDS CostumeCache, TLC

CONSTANTS a, b, c, d, core0, core1, p, q, r

Four == {a, b, c, d}
SizeOf == (a :> 1) @@ (b :> 1) @@ (c :> 2) @@ (d :> 4)
Few == {a, b}
Symmetry == Permutations({a, b}) \cup Permutations({core0, core1}) \cup Permutations({p, q, r})
=============================================================================
