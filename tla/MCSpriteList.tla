---------------------------- MODULE MCSpriteList ----------------------------
(* SpriteList for TLC: clones are interchangeable. *)
EXTENDS SpriteList, TLC

CloneSymmetry == Permutations(Clones)
==============================================================================
