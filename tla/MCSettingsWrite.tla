-------------------------- MODULE MCSettingsWrite ---------------------------
(* Changes of either key and, as set_audio_settings allows, of none. *)
EXTENDS SettingsWrite, TLC
CONSTANTS k1, k2, v1, v2
MCChange == {k1 :> v2, k2 :> v2, <<>>}
MCBody == {[k \in Key |-> v1]}
Symmetry == Permutations(Writer) \cup Permutations(Slot)
=============================================================================
