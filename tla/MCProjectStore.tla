---------------------------- MODULE MCProjectStore ----------------------------
(* ProjectStore for TLC: two versions of a project share one of two assets. *)
EXTENDS ProjectStore, TLC

CONSTANTS first, second, old, new

TwoVersions == {old, new}
NeedsOf == (old :> {first}) @@ (new :> {first, second})
===============================================================================
