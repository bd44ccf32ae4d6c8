----------------------------- MODULE ProxyLease -----------------------------
(***************************************************************************)
(* What a coordinator may rely on about its TLS proxies, without the calls *)
(* and connections that bring it about.  A camera has a lease on at most   *)
(* one server.  A lease ends when the coordinator ends it, or because that *)
(* very server lost its camera; then, and only then, the coordinator is    *)
(* told, once.                                                             *)
(***************************************************************************)

CONSTANTS
    Cam,
    Gen,        \* servers
    None

VARIABLES
    lease,      \* the server each camera's player is sent to
    listening,  \* servers that accept connections
    report      \* whether the loss of a server is due to be told, or was told

leases == <<lease, listening, report>>

NoLease == [c \in Cam |-> None]

Init ==
    /\ lease = NoLease
    /\ listening = {}
    /\ report = [g \in Gen |-> "none"]

(* A new server listens; nobody knows it yet. *)
Open(g) ==
    /\ g \notin listening
    /\ report[g] # "due"
    /\ listening' = listening \cup {g}
    /\ report' = [report EXCEPT ![g] = "none"]
    /\ UNCHANGED lease

(* The camera's player is sent to g from now on. *)
Grant(c, g) ==
    /\ g \in listening
    /\ \A d \in Cam : lease[d] # g
    /\ lease' = [lease EXCEPT ![c] = g]
    /\ UNCHANGED <<listening, report>>

(* The coordinator ends the leases of C. *)
End(C) ==
    /\ lease' = [c \in Cam |-> IF c \in C THEN None ELSE lease[c]]
    /\ listening' = listening \ {lease[c] : c \in C}
    /\ UNCHANGED report

(* The coordinator ends the leases of C and forgets the others, if another  *)
(* of its tasks was granted some meanwhile.                                *)
EndAll(C) ==
    /\ lease' = NoLease
    /\ listening' = listening \ {lease[c] : c \in C}
    /\ UNCHANGED report

(* The server of c's lease lost its camera. *)
Lose(c) ==
    /\ lease[c] # None
    /\ report[lease[c]] = "none"
    /\ lease' = [lease EXCEPT ![c] = None]
    /\ listening' = listening \ {lease[c]}
    /\ \E r \in {"due", "told"} : report' = [report EXCEPT ![lease[c]] = r]

(* A server without a lease lost its camera, which concerns nobody. *)
Lapse(g) ==
    /\ \A c \in Cam : lease[c] # g
    /\ listening' = listening \ {g}
    /\ UNCHANGED <<lease, report>>

Tell(g) ==
    /\ report[g] = "due"
    /\ report' = [report EXCEPT ![g] = "told"]
    /\ UNCHANGED <<lease, listening>>

Next ==
    \/ \E g \in Gen : Open(g) \/ Lapse(g) \/ Tell(g)
    \/ \E c \in Cam, g \in Gen : Grant(c, g)
    \/ \E C \in SUBSET Cam : End(C) \/ EndAll(C)
    \/ \E c \in Cam : Lose(c)

Spec == Init /\ [][Next]_leases

(* The loss of a leased server is told. *)
FairSpec == Spec /\ \A g \in Gen : WF_leases(Tell(g))
=============================================================================
