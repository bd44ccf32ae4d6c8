---------------------------- MODULE MCRcpSession ----------------------------
(* RcpSession for TLC: the constants come from the cfg files.  The liveness *)
(* property rules symmetry out.                                            *)
EXTENDS RcpSession
=============================================================================
