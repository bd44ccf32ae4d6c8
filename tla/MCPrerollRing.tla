--------------------------- MODULE MCPrerollRing ----------------------------
(* PrerollRing for TLC: the constants come from the cfg file; callers are   *)
(* only compared for equality.                                             *)
EXTENDS PrerollRing, TLC

Symmetry == Permutations(Caller)
=============================================================================
