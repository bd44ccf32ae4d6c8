----------------------------- MODULE MCPreWarm -----------------------------
(* PreWarm for TLC: the constants come from the cfg files. *)
EXTENDS PreWarm, TLC

Symmetry == Permutations(Caller) \cup Permutations(Conn)
=============================================================================
