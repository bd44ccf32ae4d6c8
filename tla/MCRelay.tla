------------------------------ MODULE MCRelay ------------------------------
(* Relay for TLC: the constants come from the cfg files. *)
EXTENDS Relay
=============================================================================
