------------------------------ MODULE TlsProxy ------------------------------
(***************************************************************************)
(* The TLS proxy of tls_proxy.py: start_tls_proxy, stop_tls_proxy and      *)
(* stop_all_proxies, run by the coordinator's tasks on one asyncio event   *)
(* loop, and the connection handlers the listening servers spawn, with the *)
(* circuit breaker that closes a server whose camera stopped answering.    *)
(*                                                                         *)
(* Control changes hands only where the code awaits, so an action is the   *)
(* code between two awaits.  A port is identified with the server that     *)
(* listens on it: port_cache holds the server whose port the code stores.  *)
(* A server object nobody refers to any more may stand for a new one, so   *)
(* a finite Gen bounds the servers alive at once and not those ever made.  *)
(***************************************************************************)
EXTENDS Naturals

CONSTANTS
    Cam,        \* cameras (cam_id)
    Gen,        \* server objects; each has the closure of one start_tls_proxy
    Task,       \* coordinator tasks that call into the module
    Client,     \* connection slots: accepted connections alive at once
    None,       \* "no entry" of a dict, "no object" of a local
    MaxBurst    \* _MAX_BURST

ASSUME NoneAssumption == None \notin Gen /\ None \notin Cam
ASSUME BurstAssumption == MaxBurst \in Nat \ {0}

VARIABLES
    port_cache,     \* caller-owned dict: cam_id -> port (as its server)
    server_cache,   \* caller-owned dict: cam_id -> server
    owner,          \* closure: the cam_id a server was started for
    srv,            \* listening state of a server object
    fail_count,     \* closure: connect failures since the last success
    window_over,    \* closure: more than _BURST_WINDOW since first_fail_at
    died_fired,     \* closure: the breaker of this server has tripped
    rebuilds,       \* history: calls of this server's on_proxy_died
    pc,             \* await at which a task is suspended
    arg,            \* local cam_id of a task
    held,           \* local server of a task: waited for, or just created
    todo,           \* rest of stop_all_proxies' list of keys
    conn,           \* server that accepted a connection
    phase,          \* await at which its _handle_client is suspended
    transport       \* the accepted connection's transport

caches  == <<port_cache, server_cache>>
breaker == <<fail_count, window_over>>
closure == <<owner, fail_count, window_over, died_fired, rebuilds>>
tasks   == <<pc, arg, held, todo>>
clients == <<conn, phase, transport>>
vars    == <<caches, closure, srv, tasks, clients>>

(* "none": no such object; "bound": listening, its port not yet returned;  *)
(* "open": listening on a published port; "closed": close() was called.    *)
ServerState == {"none", "bound", "open", "closed"}

(* "start_wait", "stop_wait", "all_wait": in wait_closed() of the stop     *)
(* that start, stop or stop_all performs; "start_bind": in start_server    *)
(* before the socket is bound; "start_bound": in its last sleep(0).        *)
TaskState == {"idle", "start_wait", "start_bind", "start_bound",
              "stop_wait", "all_wait"}

(* "fire_current", "fire_stale": in _fire_on_proxy_died's wait_closed()    *)
(* with the local is_current it computed before that wait.                 *)
HandlerState == {"connect", "relay", "fire_current", "fire_stale", "done"}

(* "stalled": the peer stopped reading and the write buffer is not empty;  *)
(* "wedged": closed in that state, so connection_lost is put off;          *)
(* "lost": connection_lost ran and the server no longer counts it.         *)
TransportState == {"up", "stalled", "closing", "wedged", "lost"}

Init ==
    /\ port_cache = [c \in Cam |-> None]
    /\ server_cache = [c \in Cam |-> None]
    /\ owner = [g \in Gen |-> None]
    /\ srv = [g \in Gen |-> "none"]
    /\ fail_count = [g \in Gen |-> 0]
    /\ window_over = [g \in Gen |-> FALSE]
    /\ died_fired = [g \in Gen |-> FALSE]
    /\ rebuilds = [g \in Gen |-> 0]
    /\ pc = [t \in Task |-> "idle"]
    /\ arg = [t \in Task |-> None]
    /\ held = [t \in Task |-> None]
    /\ todo = [t \in Task |-> {}]
    /\ conn = [k \in Client |-> None]
    /\ phase = [k \in Client |-> "done"]
    /\ transport = [k \in Client |-> "lost"]

-----------------------------------------------------------------------------
(* Servers and transports, as far as the module uses asyncio.              *)

(* transport.close(): a full write buffer defers connection_lost. *)
Closed(tr) == IF tr = "up" THEN "closing" ELSE IF tr = "stalled" THEN "wedged" ELSE tr

(* Connections a server still counts: wait_closed() returns when none is left. *)
Active(g) == \E k \in Client : conn[k] = g /\ transport[k] # "lost"

(* Mutated form of CloseServers: a bare close(), without close_clients(). *)
CloseListenersOnly(S) ==
    /\ srv' = [g \in Gen |-> IF g \in S THEN "closed" ELSE srv[g]]
    /\ UNCHANGED transport

(* server.close() and server.close_clients() for the servers in S. *)
CloseServers(S) ==
    /\ srv' = [g \in Gen |-> IF g \in S THEN "closed" ELSE srv[g]]
    /\ transport' = [k \in Client |-> IF conn[k] \in S THEN Closed(transport[k])
                                                       ELSE transport[k]]

(* A server object without references, for start_server to return. *)
Free(g) ==
    /\ srv[g] \in {"none", "closed"}
    /\ \A k \in Client : conn[k] # g
    /\ \A t \in Task : held[t] # g

Suspend(t, where, c, g, rest) ==
    /\ pc' = [pc EXCEPT ![t] = where]
    /\ arg' = [arg EXCEPT ![t] = c]
    /\ held' = [held EXCEPT ![t] = g]
    /\ todo' = [todo EXCEPT ![t] = rest]

Return(t) == Suspend(t, "idle", None, None, {})

-----------------------------------------------------------------------------
(* stop_tls_proxy up to its wait_closed(), for the cameras in C.           *)
StopCameras(C) ==
    /\ port_cache' = [c \in Cam |-> IF c \in C THEN None ELSE port_cache[c]]
    /\ server_cache' = [c \in Cam |-> IF c \in C THEN None ELSE server_cache[c]]
    /\ CloseServers({server_cache[c] : c \in C} \ {None})

(* wait_closed() suspends only if a connection is left; otherwise the stop  *)
(* runs to its end without giving up control.                              *)
MustWait(c) == server_cache[c] # None /\ Active(server_cache[c])

CallStop(t, c) ==
    /\ pc[t] = "idle"
    /\ StopCameras({c})
    /\ IF MustWait(c) THEN Suspend(t, "stop_wait", c, server_cache[c], {})
                      ELSE UNCHANGED tasks
    /\ UNCHANGED <<closure, conn, phase>>

CallStart(t, c) ==
    /\ pc[t] = "idle"
    /\ StopCameras({c})
    /\ IF MustWait(c) THEN Suspend(t, "start_wait", c, server_cache[c], {})
                      ELSE Suspend(t, "start_bind", c, None, {})
    /\ UNCHANGED <<closure, conn, phase>>

(* The loop of stop_all_proxies over the keys left in rest, up to the next  *)
(* stop that has to wait, or to the final clear() of both dicts.  The loop  *)
(* follows the insertion order of the dict; any order is allowed here.     *)
StopRest(t, rest) ==
    \E D \in SUBSET rest :
        /\ \A c \in D : ~MustWait(c)
        /\ \/ /\ D = rest
              /\ CloseServers({server_cache[c] : c \in D} \ {None})
              /\ port_cache' = [c \in Cam |-> None]
              /\ server_cache' = [c \in Cam |-> None]
              /\ Return(t)
           \/ \E c \in rest \ D :
                 /\ MustWait(c)
                 /\ StopCameras(D \cup {c})
                 /\ Suspend(t, "all_wait", c, server_cache[c], rest \ (D \cup {c}))
        /\ UNCHANGED <<closure, conn, phase>>

CallStopAll(t) ==
    /\ pc[t] = "idle"
    /\ StopRest(t, {c \in Cam : server_cache[c] # None})

(* What follows wait_closed(), whether it returned or was timed out. *)
AfterWait(t) ==
    \/ /\ pc[t] = "stop_wait"
       /\ Return(t)
       /\ UNCHANGED <<caches, closure, srv, clients>>
    \/ /\ pc[t] = "start_wait"
       /\ Suspend(t, "start_bind", arg[t], None, {})
       /\ UNCHANGED <<caches, closure, srv, clients>>
    \/ /\ pc[t] = "all_wait"
       /\ StopRest(t, todo[t])

WaitClosedReturns(t) == ~Active(held[t]) /\ AfterWait(t)

(* Mutated form of both timeouts: wait_closed() is not bounded. *)
NeverTimesOut(x) == FALSE

(* asyncio.timeout(5) around wait_closed(). *)
WaitTimesOut(t) == Active(held[t]) /\ AfterWait(t)

(* start_server binds the socket: a new server with a fresh closure. *)
StartListens(t, g) ==
    /\ pc[t] = "start_bind"
    /\ Free(g)
    /\ srv' = [srv EXCEPT ![g] = "bound"]
    /\ owner' = [owner EXCEPT ![g] = arg[t]]
    /\ fail_count' = [fail_count EXCEPT ![g] = 0]
    /\ window_over' = [window_over EXCEPT ![g] = FALSE]
    /\ died_fired' = [died_fired EXCEPT ![g] = FALSE]
    /\ rebuilds' = [rebuilds EXCEPT ![g] = 0]
    /\ Suspend(t, "start_bound", arg[t], g, {})
    /\ UNCHANGED <<caches, clients>>

(* start_server raises OSError: the caller gets the error, nothing is kept. *)
StartFails(t) ==
    /\ pc[t] = "start_bind"
    /\ Return(t)
    /\ UNCHANGED <<caches, closure, srv, clients>>

(* Mutated form of Register: the key is stored where the server belongs. *)
RegisterKey(c, g) ==
    /\ port_cache' = [port_cache EXCEPT ![c] = g]
    /\ server_cache' = [server_cache EXCEPT ![c] = c]

Register(c, g) ==
    /\ port_cache' = [port_cache EXCEPT ![c] = g]
    /\ server_cache' = [server_cache EXCEPT ![c] = g]

(* start_tls_proxy fills both dicts and returns the port. *)
StartReturns(t) ==
    /\ pc[t] = "start_bound"
    /\ Register(arg[t], held[t])
    /\ srv' = [srv EXCEPT ![held[t]] = "open"]
    /\ Return(t)
    /\ UNCHANGED <<closure, clients>>

-----------------------------------------------------------------------------
(* Connections: the player, its transport, and _handle_client.             *)

(* A slot whose handler returned and whose transport is lost is free again. *)
SetClient(k, ph, tr) ==
    /\ phase' = [phase EXCEPT ![k] = ph]
    /\ transport' = [transport EXCEPT ![k] = tr]
    /\ conn' = [conn EXCEPT ![k] = IF ph = "done" /\ tr = "lost" THEN None ELSE @]

(* The player connects to a published port; _handle_client starts. *)
ClientConnects(k, g) ==
    /\ conn[k] = None
    /\ srv[g] = "open"
    /\ conn' = [conn EXCEPT ![k] = g]
    /\ phase' = [phase EXCEPT ![k] = "connect"]
    /\ transport' = [transport EXCEPT ![k] = "up"]
    /\ UNCHANGED <<caches, closure, srv, tasks>>

(* The TLS connection to the camera is up: the failure burst is over. *)
ConnectSucceeds(k) ==
    /\ phase[k] = "connect"
    /\ fail_count' = [fail_count EXCEPT ![conn[k]] = 0]
    /\ window_over' = [window_over EXCEPT ![conn[k]] = FALSE]
    /\ SetClient(k, "relay", transport[k])
    /\ UNCHANGED <<caches, owner, died_fired, rebuilds, srv, tasks>>

(* fail_count is only ever compared with MaxBurst, so it stops there. *)
RecordFailure(g) ==
    /\ fail_count' = [fail_count EXCEPT ![g] = IF @ < MaxBurst THEN @ + 1 ELSE @]
    /\ window_over' = [window_over EXCEPT ![g] = IF fail_count[g] = 0 THEN FALSE ELSE @]

(* The test after a failure: it is the MaxBurst-th one or a later one, and  *)
(* first_fail_at (set by the first of them) is within _BURST_WINDOW.       *)
Bursts(g) ==
    /\ fail_count[g] + 1 >= MaxBurst
    /\ fail_count[g] = 0 \/ ~window_over[g]

(* Mutated form of Trips: the died_fired test at the top is missing. *)
TripsAgain(g) == Bursts(g)

(* The breaker trips, once per server (died_fired). *)
Trips(g) == Bursts(g) /\ ~died_fired[g]

(* Mutated form of IsCurrent: any server registered for the camera will do. *)
IsRegistered(g) == server_cache[owner[g]] # None

(* "server_cache.get(cam_id) is server": not superseded by a newer server. *)
IsCurrent(g) == server_cache[owner[g]] = g

(* Mutated form of EvictCurrent: the port stays behind. *)
EvictServerOnly(g) ==
    /\ server_cache' = IF IsCurrent(g) THEN [server_cache EXCEPT ![owner[g]] = None]
                                       ELSE server_cache
    /\ UNCHANGED port_cache

(* Mutated form of EvictCurrent: the closed server stays registered. *)
EvictNothing(g) == UNCHANGED caches

EvictCurrent(g) ==
    /\ server_cache' = IF IsCurrent(g) THEN [server_cache EXCEPT ![owner[g]] = None]
                                       ELSE server_cache
    /\ port_cache' = IF IsCurrent(g) THEN [port_cache EXCEPT ![owner[g]] = None]
                                     ELSE port_cache

(* _fire_on_proxy_died up to its wait_closed(), and on to its end if no     *)
(* connection is left to wait for.                                         *)
FireOnProxyDied(k, g) ==
    /\ died_fired' = [died_fired EXCEPT ![g] = TRUE]
    /\ EvictCurrent(g)
    /\ CloseServers({g})
    /\ IF Active(g)
       THEN /\ phase' = [phase EXCEPT ![k] = IF IsCurrent(g) THEN "fire_current"
                                                             ELSE "fire_stale"]
            /\ UNCHANGED <<conn, rebuilds>>
       ELSE /\ phase' = [phase EXCEPT ![k] = "done"]
            /\ conn' = [conn EXCEPT ![k] = None]
            /\ rebuilds' = [rebuilds EXCEPT ![g] = IF IsCurrent(g) THEN @ + 1 ELSE @]

(* open_connection raised or timed out: count it, close the client, and     *)
(* trip the breaker once.                                                  *)
ConnectFails(k) ==
    /\ phase[k] = "connect"
    /\ RecordFailure(conn[k])
    /\ \/ /\ Trips(conn[k])
          /\ FireOnProxyDied(k, conn[k])
       \/ /\ ~Trips(conn[k])
          /\ SetClient(k, "done", Closed(transport[k]))
          /\ UNCHANGED <<caches, srv, died_fired, rebuilds>>
    /\ UNCHANGED <<owner, tasks>>

(* What follows the breaker's wait_closed(): on_proxy_died, unless stale. *)
AfterFire(k) ==
    /\ phase[k] \in {"fire_current", "fire_stale"}
    /\ rebuilds' = [rebuilds EXCEPT ![conn[k]] =
                       IF phase[k] = "fire_current" THEN @ + 1 ELSE @]
    /\ SetClient(k, "done", transport[k])
    /\ UNCHANGED <<caches, owner, fail_count, window_over, died_fired, srv, tasks>>

FireWaitReturns(k) == ~Active(conn[k]) /\ AfterFire(k)

(* asyncio.timeout(5) around the breaker's wait_closed(). *)
FireTimesOut(k) == Active(conn[k]) /\ AfterFire(k)

(* Both pipes ended; the finally clause closes the client. *)
RelayEnds(k) ==
    /\ phase[k] = "relay"
    /\ SetClient(k, "done", Closed(transport[k]))
    /\ UNCHANGED <<caches, closure, srv, tasks>>

(* Only a relayed stream fills the write buffer of a client's transport. *)
PeerStalls(k) ==
    /\ phase[k] = "relay" /\ transport[k] = "up"
    /\ transport' = [transport EXCEPT ![k] = "stalled"]
    /\ UNCHANGED <<caches, closure, srv, tasks, conn, phase>>

PeerResumes(k) ==
    /\ transport[k] \in {"stalled", "wedged"}
    /\ transport' = [transport EXCEPT ![k] = IF @ = "stalled" THEN "up" ELSE "closing"]
    /\ UNCHANGED <<caches, closure, srv, tasks, conn, phase>>

(* connection_lost of a closed transport whose buffer is empty. *)
TransportLost(k) ==
    /\ transport[k] = "closing"
    /\ SetClient(k, phase[k], "lost")
    /\ UNCHANGED <<caches, closure, srv, tasks>>

(* The peer resets the connection. *)
PeerResets(k) ==
    /\ transport[k] # "lost"
    /\ SetClient(k, phase[k], "lost")
    /\ UNCHANGED <<caches, closure, srv, tasks>>

(* The clock passes first_fail_at + _BURST_WINDOW. *)
WindowElapses(g) ==
    /\ fail_count[g] > 0 /\ ~window_over[g]
    /\ window_over' = [window_over EXCEPT ![g] = TRUE]
    /\ UNCHANGED <<caches, owner, fail_count, died_fired, rebuilds, srv, tasks, clients>>

-----------------------------------------------------------------------------
(* A suspended call goes on: the loop runs ready tasks and expired timers.  *)
TaskResumes(t) ==
    \/ WaitClosedReturns(t)
    \/ WaitTimesOut(t)
    \/ \E g \in Gen : StartListens(t, g)
    \/ StartFails(t)
    \/ StartReturns(t)

TaskStep(t) ==
    \/ \E c \in Cam : CallStop(t, c) \/ CallStart(t, c)
    \/ CallStopAll(t)
    \/ TaskResumes(t)

(* A handler suspended on a timed wait goes on. *)
HandlerResumes(k) ==
    \/ ConnectSucceeds(k)
    \/ ConnectFails(k)
    \/ FireWaitReturns(k)
    \/ FireTimesOut(k)

ClientStep(k) ==
    \/ \E g \in Gen : ClientConnects(k, g)
    \/ HandlerResumes(k)
    \/ RelayEnds(k)
    \/ PeerStalls(k)
    \/ PeerResumes(k)
    \/ TransportLost(k)
    \/ PeerResets(k)

Next ==
    \/ \E t \in Task : TaskStep(t)
    \/ \E k \in Client : ClientStep(k)
    \/ \E g \in Gen : WindowElapses(g)

Spec == Init /\ [][Next]_vars

(* The event loop does not starve a ready task, and every timed wait ends. *)
(* Nothing is assumed of the players, of the camera, or of the relay.      *)
Fairness ==
    /\ \A t \in Task : WF_vars(TaskResumes(t))
    /\ \A k \in Client : WF_vars(HandlerResumes(k)) /\ WF_vars(TransportLost(k))

FairSpec == Spec /\ Fairness

-----------------------------------------------------------------------------
(* Every variable keeps the kind of value the code stores in it. *)
TypeOK ==
    /\ port_cache \in [Cam -> Gen \cup {None}]
    /\ server_cache \in [Cam -> Gen \cup {None}]
    /\ owner \in [Gen -> Cam \cup {None}]
    /\ srv \in [Gen -> ServerState]
    /\ fail_count \in [Gen -> 0 .. MaxBurst]
    /\ window_over \in [Gen -> BOOLEAN]
    /\ died_fired \in [Gen -> BOOLEAN]
    /\ rebuilds \in [Gen -> Nat]
    /\ pc \in [Task -> TaskState]
    /\ arg \in [Task -> Cam \cup {None}]
    /\ held \in [Task -> Gen \cup {None}]
    /\ todo \in [Task -> SUBSET Cam]
    /\ conn \in [Client -> Gen \cup {None}]
    /\ phase \in [Client -> HandlerState]
    /\ transport \in [Client -> TransportState]

(* The two dicts agree whenever control can change hands: the port handed   *)
(* to the player is the port of the server a later stop will close.        *)
PortsMatchServers == port_cache = server_cache

(* A registered server is one the coordinator can rely on: it listens, it   *)
(* was started for that camera, and its breaker has not tripped.  This is  *)
(* what the pops of stop_tls_proxy and _fire_on_proxy_died are for.        *)
CachedIsListening ==
    \A c \in Cam : server_cache[c] # None =>
        /\ srv[server_cache[c]] = "open"
        /\ owner[server_cache[c]] = c
        /\ ~died_fired[server_cache[c]]

(* "All server/state ownership lives on the caller-supplied dicts": a       *)
(* server that listens on a published port can be found through them, so   *)
(* that stop_tls_proxy or stop_all_proxies will close it.                  *)
NoOrphanListener ==
    \A g \in Gen : srv[g] = "open" => server_cache[owner[g]] = g

(* Closing a server, by a stop or by the breaker, leaves none of the        *)
(* connections it accepted open: close_clients() reached all of them, and  *)
(* none was accepted later.                                                *)
NoClientOutlivesServer ==
    \A k \in Client :
        /\ conn[k] # None
        /\ srv[conn[k]] = "closed"
        => transport[k] \in {"closing", "wedged", "lost"}

(* on_proxy_died is called at most once for a server, however many of its   *)
(* handlers fail while the breaker is closing it, and only after the       *)
(* breaker tripped.                                                        *)
ReportedOnce ==
    \A g \in Gen :
        /\ rebuilds[g] <= 1
        /\ rebuilds[g] = 1 => died_fired[g] /\ srv[g] = "closed"
        /\ \A j, k \in Client :
              /\ conn[j] = g /\ phase[j] \in {"fire_current", "fire_stale"}
              /\ conn[k] = g /\ phase[k] \in {"fire_current", "fire_stale"}
              => j = k /\ rebuilds[g] = 0

(* A connection handler of an old generation never evicts the server of a   *)
(* newer one: what a handler's step takes out of the dicts is a server     *)
(* whose own breaker trips in that step.                                   *)
NewerGenerationSurvives ==
    [][phase' # phase =>
         \A c \in Cam :
            \/ server_cache'[c] = server_cache[c]
            \/ /\ server_cache'[c] = None
               /\ ~died_fired[server_cache[c]] /\ died_fired'[server_cache[c]]]_vars

(* _fire_on_proxy_died must not "trigger a spurious rebuild of an           *)
(* already-fine session": when on_proxy_died is called, no server is       *)
(* registered for the camera.                                              *)
NoSpuriousRebuild ==
    [][\A g \in Gen : rebuilds'[g] > rebuilds[g] =>
                          server_cache'[owner[g]] = None]_vars

(* What became of a server's loss: "due" while the breaker that tripped as  *)
(* the current one waits, "told" after on_proxy_died.                      *)
ReportOf(g) ==
    IF rebuilds[g] > 0 THEN "told"
    ELSE IF \E k \in Client : conn[k] = g /\ phase[k] = "fire_current" THEN "due"
    ELSE "none"

Lease == INSTANCE ProxyLease WITH
    lease <- server_cache,
    listening <- {g \in Gen : srv[g] \in {"bound", "open"}},
    report <- [g \in Gen |-> ReportOf(g)]

(* The dicts and the breaker together implement the leases of ProxyLease:   *)
(* whatever tasks and handlers do between their awaits, a lease is only    *)
(* granted on a listening server, ends with its server, and is ended by a  *)
(* breaker only if it is the breaker's own.                                *)
ImplementsLease == Lease!Spec

(* And the loss of a leased server is told, although its clients stall. *)
ImplementsFairLease == Lease!FairSpec

(* No client, not even one that stopped reading, keeps a stop or a start    *)
(* from returning: wait_closed() is bounded.                               *)
CallsReturn == \A t \in Task : pc[t] # "idle" ~> pc[t] = "idle"
=============================================================================
