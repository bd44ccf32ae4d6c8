----------------------------- MODULE MCTlsProxy -----------------------------
(* Instances of TlsProxy for TLC.  Cameras, servers, tasks and connections *)
(* are only compared for equality, so each set is symmetric; the symmetry  *)
(* is used by the runs without liveness properties.                        *)
EXTENDS TlsProxy, TLC

Symmetry == Permutations(Cam) \cup Permutations(Gen)
            \cup Permutations(Task) \cup Permutations(Client)
=============================================================================
