----------------------------- MODULE MCRcpFetch -----------------------------
(* Two polls over a command of each kind that the camera does not support, *)
(* and one that it does.                                                  *)
EXTENDS RcpFetch
MCRanged == {1}
MCSized == {2, 5}
MCText == {3}
MCLoose == {4}
MCSupported == {5}
=============================================================================
