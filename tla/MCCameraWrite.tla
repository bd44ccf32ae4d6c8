--------------------------- MODULE MCCameraWrite ---------------------------
(* CameraWrite for TLC: the constants come from the cfg files. *)
EXTENDS CameraWrite
=============================================================================
