--------------------------- MODULE TlsProxyProofs ---------------------------
(***************************************************************************)
(* Proofs about TlsProxy, for any number of cameras, server objects, tasks *)
(* and connections and any _MAX_BURST.                                     *)
(***************************************************************************)
EXTENDS TlsProxy, TLAPS

(* Between bind and return a task owns a server nobody else can see: it is  *)
(* not open yet, and it is of the camera the task will register it under.  *)
TaskInv ==
    /\ \A t \in Task : pc[t] \in {"start_wait", "start_bind", "start_bound"} =>
                          arg[t] \in Cam
    /\ \A t \in Task : pc[t] = "start_bound" =>
          /\ held[t] \in Gen
          /\ srv[held[t]] = "bound"
          /\ owner[held[t]] = arg[t]
    /\ \A s, t \in Task :
          pc[s] = "start_bound" /\ pc[t] = "start_bound" /\ held[s] = held[t] => s = t

(* A running handler belongs to a server, and connections only to servers   *)
(* that are or were open.                                                  *)
ConnInv ==
    \A k \in Client :
        /\ phase[k] # "done" => conn[k] # None
        /\ conn[k] # None => srv[conn[k]] \in {"open", "closed"}

Firing(k) == phase[k] \in {"fire_current", "fire_stale"}

(* The breaker of a server trips once; until its handler has called         *)
(* on_proxy_died, nobody has.                                              *)
BreakerInv ==
    /\ \A g \in Gen : died_fired[g] => srv[g] = "closed"
    /\ \A g \in Gen : rebuilds[g] # 0 => rebuilds[g] = 1 /\ died_fired[g]
    /\ \A k \in Client : Firing(k) => died_fired[conn[k]] /\ rebuilds[conn[k]] = 0
    /\ \A j, k \in Client : Firing(j) /\ Firing(k) /\ conn[j] = conn[k] => j = k

(* What holds of servers and connections, whatever the tasks do. *)
ServerInv ==
    /\ PortsMatchServers
    /\ CachedIsListening
    /\ ConnInv
    /\ NoClientOutlivesServer
    /\ BreakerInv

IInv == TypeOK /\ TaskInv /\ ServerInv

(* Init establishes the inductive invariant. *)
LEMMA InitIInv == Init => IInv
  BY NoneAssumption, BurstAssumption
  DEF Init, IInv, TypeOK, TaskInv, ServerInv, PortsMatchServers, CachedIsListening, ConnInv,
      NoClientOutlivesServer, BreakerInv, Firing, ServerState, TaskState, HandlerState,
      TransportState

(* transport.close() yields a transport state, and never an open one. *)
LEMMA ClosedTransport ==
    ASSUME NEW tr \in TransportState
    PROVE  Closed(tr) \in {"closing", "wedged", "lost"}
  BY DEF Closed, TransportState

(* The stop of any set of cameras keeps the server invariant, and does not  *)
(* touch a server that is not registered.                                  *)
LEMMA StopKeeps ==
    ASSUME TypeOK, ServerInv, NEW C \in SUBSET Cam, StopCameras(C),
           UNCHANGED <<closure, conn, phase>>
    PROVE  /\ port_cache' \in [Cam -> Gen \cup {None}]
           /\ server_cache' \in [Cam -> Gen \cup {None}]
           /\ srv' \in [Gen -> ServerState]
           /\ transport' \in [Client -> TransportState]
           /\ ServerInv'
           /\ \A g \in Gen : srv[g] = "bound" => srv'[g] = "bound"
  <1>1. /\ port_cache' \in [Cam -> Gen \cup {None}]
        /\ server_cache' \in [Cam -> Gen \cup {None}]
        /\ srv' \in [Gen -> ServerState]
    BY DEF StopCameras, CloseServers, TypeOK, ServerState
  <1>2. transport' \in [Client -> TransportState]
    BY ClosedTransport DEF StopCameras, CloseServers, TypeOK, TransportState
  <1>3. PortsMatchServers'
    BY DEF StopCameras, ServerInv, PortsMatchServers
  <1>4. CachedIsListening'
    BY NoneAssumption DEF StopCameras, CloseServers, ServerInv, CachedIsListening, TypeOK, closure
  <1>5. ConnInv'
    BY DEF StopCameras, CloseServers, ServerInv, ConnInv, TypeOK
  <1>6. NoClientOutlivesServer'
    BY NoneAssumption, ClosedTransport
    DEF StopCameras, CloseServers, ServerInv, NoClientOutlivesServer, TypeOK
  <1>7. BreakerInv'
    BY DEF StopCameras, CloseServers, ServerInv, BreakerInv, Firing, TypeOK, closure
  <1>8. \A g \in Gen : srv[g] = "bound" => srv'[g] = "bound"
    BY NoneAssumption DEF StopCameras, CloseServers, ServerInv, CachedIsListening, TypeOK
  <1>9. QED
    BY <1>1, <1>2, <1>3, <1>4, <1>5, <1>6, <1>7, <1>8 DEF ServerInv

(* The clear() at the end of stop_all_proxies: the dicts end up empty. *)
LEMMA ClearKeeps ==
    ASSUME TypeOK, ServerInv, NEW D \in SUBSET Cam,
           CloseServers({server_cache[c] : c \in D} \ {None}),
           port_cache' = [c \in Cam |-> None], server_cache' = [c \in Cam |-> None],
           UNCHANGED <<closure, conn, phase>>
    PROVE  /\ port_cache' \in [Cam -> Gen \cup {None}]
           /\ server_cache' \in [Cam -> Gen \cup {None}]
           /\ srv' \in [Gen -> ServerState]
           /\ transport' \in [Client -> TransportState]
           /\ ServerInv'
           /\ \A g \in Gen : srv[g] = "bound" => srv'[g] = "bound"
  <1>1. /\ port_cache' \in [Cam -> Gen \cup {None}]
        /\ server_cache' \in [Cam -> Gen \cup {None}]
        /\ srv' \in [Gen -> ServerState]
    BY DEF CloseServers, TypeOK, ServerState
  <1>2. transport' \in [Client -> TransportState]
    BY ClosedTransport DEF CloseServers, TypeOK, TransportState
  <1>3. PortsMatchServers' /\ CachedIsListening'
    BY DEF PortsMatchServers, CachedIsListening
  <1>4. ConnInv'
    BY DEF CloseServers, ServerInv, ConnInv, TypeOK
  <1>5. NoClientOutlivesServer'
    BY NoneAssumption, ClosedTransport DEF CloseServers, ServerInv, NoClientOutlivesServer, TypeOK
  <1>6. BreakerInv'
    BY DEF CloseServers, ServerInv, BreakerInv, Firing, TypeOK, closure
  <1>7. \A g \in Gen : srv[g] = "bound" => srv'[g] = "bound"
    BY NoneAssumption DEF CloseServers, ServerInv, CachedIsListening, TypeOK
  <1>8. QED
    BY <1>1, <1>2, <1>3, <1>4, <1>5, <1>6, <1>7 DEF ServerInv

(* A task that suspends anywhere but between bind and return keeps its      *)
(* invariant if bound servers stay bound.                                  *)
LEMMA SuspendKeeps ==
    ASSUME TypeOK, TaskInv,
           NEW t \in Task, NEW where \in TaskState \ {"start_bound"},
           NEW c \in Cam \cup {None}, NEW h \in Gen \cup {None}, NEW rest \in SUBSET Cam,
           Suspend(t, where, c, h, rest),
           where \in {"start_wait", "start_bind"} => c \in Cam,
           owner' = owner,
           \A g \in Gen : srv[g] = "bound" => srv'[g] = "bound"
    PROVE  /\ pc' \in [Task -> TaskState]
           /\ arg' \in [Task -> Cam \cup {None}]
           /\ held' \in [Task -> Gen \cup {None}]
           /\ todo' \in [Task -> SUBSET Cam]
           /\ TaskInv'
  <1>1. /\ pc' \in [Task -> TaskState]
        /\ arg' \in [Task -> Cam \cup {None}]
        /\ held' \in [Task -> Gen \cup {None}]
        /\ todo' \in [Task -> SUBSET Cam]
    BY DEF Suspend, TypeOK
  <1>2. TaskInv'
    BY DEF Suspend, TypeOK, TaskInv
  <1>3. QED
    BY <1>1, <1>2

LEMMA CallStopKeeps ==
    ASSUME IInv, NEW t \in Task, NEW c \in Cam, CallStop(t, c)
    PROVE  IInv'
  <1>1. TypeOK /\ TaskInv /\ ServerInv /\ StopCameras({c}) /\ UNCHANGED <<closure, conn, phase>>
    BY DEF IInv, CallStop
  <1>2. /\ port_cache' \in [Cam -> Gen \cup {None}]
        /\ server_cache' \in [Cam -> Gen \cup {None}]
        /\ srv' \in [Gen -> ServerState]
        /\ transport' \in [Client -> TransportState]
        /\ ServerInv'
        /\ \A g \in Gen : srv[g] = "bound" => srv'[g] = "bound"
    BY <1>1, StopKeeps
  <1>3. /\ pc' \in [Task -> TaskState]
        /\ arg' \in [Task -> Cam \cup {None}]
        /\ held' \in [Task -> Gen \cup {None}]
        /\ todo' \in [Task -> SUBSET Cam]
        /\ TaskInv'
    <2>1. CASE MustWait(c)
      <3>1. PICK h \in Gen \cup {None} : Suspend(t, "stop_wait", c, h, {})
        BY <1>1, <2>1 DEF CallStop, TypeOK
      <3>2. owner' = owner
        BY <1>1 DEF closure
      <3>3. "stop_wait" \in TaskState \ {"start_bound"} /\ {} \in SUBSET Cam
        BY DEF TaskState
      <3>4. QED
        BY <1>1, <1>2, <3>1, <3>2, <3>3, SuspendKeeps
    <2>2. CASE ~MustWait(c)
      BY <1>1, <1>2, <2>2 DEF CallStop, tasks, TypeOK, TaskInv, closure
    <2>3. QED
      BY <2>1, <2>2
  <1>4. TypeOK'
    BY <1>1, <1>2, <1>3 DEF TypeOK, closure
  <1>5. QED
    BY <1>2, <1>3, <1>4 DEF IInv

LEMMA CallStartKeeps ==
    ASSUME IInv, NEW t \in Task, NEW c \in Cam, CallStart(t, c)
    PROVE  IInv'
  <1>1. TypeOK /\ TaskInv /\ ServerInv /\ StopCameras({c}) /\ UNCHANGED <<closure, conn, phase>>
    BY DEF IInv, CallStart
  <1>2. /\ port_cache' \in [Cam -> Gen \cup {None}]
        /\ server_cache' \in [Cam -> Gen \cup {None}]
        /\ srv' \in [Gen -> ServerState]
        /\ transport' \in [Client -> TransportState]
        /\ ServerInv'
        /\ \A g \in Gen : srv[g] = "bound" => srv'[g] = "bound"
    BY <1>1, StopKeeps
  <1>3. PICK where \in {"start_wait", "start_bind"}, h \in Gen \cup {None} :
            Suspend(t, where, c, h, {})
    BY <1>1 DEF CallStart, TypeOK
  <1>4. owner' = owner
    BY <1>1 DEF closure
  <1>5. /\ pc' \in [Task -> TaskState]
        /\ arg' \in [Task -> Cam \cup {None}]
        /\ held' \in [Task -> Gen \cup {None}]
        /\ todo' \in [Task -> SUBSET Cam]
        /\ TaskInv'
    BY <1>1, <1>2, <1>3, <1>4, SuspendKeeps DEF TaskState
  <1>6. TypeOK'
    BY <1>1, <1>2, <1>5 DEF TypeOK, closure
  <1>7. QED
    BY <1>2, <1>5, <1>6 DEF IInv

(* Both ways a run of stop_all_proxies' loop can end. *)
LEMMA StopRestKeeps ==
    ASSUME IInv, NEW t \in Task, NEW rest \in SUBSET Cam, StopRest(t, rest)
    PROVE  IInv'
  <1>1. TypeOK /\ TaskInv /\ ServerInv /\ UNCHANGED <<closure, conn, phase>> /\ owner' = owner
    BY DEF IInv, StopRest, closure
  <1>2. PICK D \in SUBSET rest :
          \/ /\ CloseServers({server_cache[c] : c \in D} \ {None})
             /\ port_cache' = [c \in Cam |-> None]
             /\ server_cache' = [c \in Cam |-> None]
             /\ Return(t)
          \/ \E c \in rest \ D :
                /\ StopCameras(D \cup {c})
                /\ Suspend(t, "all_wait", c, server_cache[c], rest \ (D \cup {c}))
    BY DEF StopRest
  <1>3. PICK where \in {"idle", "all_wait"}, c \in Cam \cup {None}, h \in Gen \cup {None},
             r \in SUBSET Cam : Suspend(t, where, c, h, r)
    BY <1>1, <1>2 DEF Return, TypeOK
  <1>4. /\ port_cache' \in [Cam -> Gen \cup {None}]
        /\ server_cache' \in [Cam -> Gen \cup {None}]
        /\ srv' \in [Gen -> ServerState]
        /\ transport' \in [Client -> TransportState]
        /\ ServerInv'
        /\ \A g \in Gen : srv[g] = "bound" => srv'[g] = "bound"
    <2>1. CASE /\ CloseServers({server_cache[c1] : c1 \in D} \ {None})
               /\ port_cache' = [c1 \in Cam |-> None]
               /\ server_cache' = [c1 \in Cam |-> None]
      <3>1. D \in SUBSET Cam
        OBVIOUS
      <3>2. QED
        BY <1>1, <2>1, <3>1, ClearKeeps
    <2>2. CASE \E c1 \in rest \ D : StopCameras(D \cup {c1})
      <3>1. PICK c1 \in rest \ D : StopCameras(D \cup {c1})
        BY <2>2
      <3>2. D \cup {c1} \in SUBSET Cam
        OBVIOUS
      <3>3. QED
        BY <1>1, <3>1, <3>2, StopKeeps
    <2>3. QED
      BY <1>2, <2>1, <2>2
  <1>5. /\ pc' \in [Task -> TaskState]
        /\ arg' \in [Task -> Cam \cup {None}]
        /\ held' \in [Task -> Gen \cup {None}]
        /\ todo' \in [Task -> SUBSET Cam]
        /\ TaskInv'
    BY <1>1, <1>3, <1>4, SuspendKeeps DEF TaskState
  <1>6. TypeOK'
    BY <1>1, <1>4, <1>5 DEF TypeOK, closure
  <1>7. QED
    BY <1>4, <1>5, <1>6 DEF IInv

LEMMA CallStopAllKeeps ==
    ASSUME IInv, NEW t \in Task, CallStopAll(t)
    PROVE  IInv'
  <1>1. {c \in Cam : server_cache[c] # None} \in SUBSET Cam
    OBVIOUS
  <1>2. QED
    BY <1>1, StopRestKeeps DEF CallStopAll

LEMMA AfterWaitKeeps ==
    ASSUME IInv, NEW t \in Task, AfterWait(t)
    PROVE  IInv'
  <1>1. TypeOK /\ TaskInv /\ ServerInv
    BY DEF IInv
  <1>2. ASSUME NEW where \in {"idle", "start_bind"}, NEW c \in Cam \cup {None},
               Suspend(t, where, c, None, {}), where = "start_bind" => c \in Cam,
               UNCHANGED <<caches, closure, srv, clients>>
        PROVE  IInv'
    <2>1. owner' = owner /\ srv' = srv
      BY <1>2 DEF closure
    <2>2. /\ pc' \in [Task -> TaskState]
          /\ arg' \in [Task -> Cam \cup {None}]
          /\ held' \in [Task -> Gen \cup {None}]
          /\ todo' \in [Task -> SUBSET Cam]
          /\ TaskInv'
      BY <1>1, <1>2, <2>1, SuspendKeeps DEF TaskState
    <2>3. ServerInv'
      BY <1>1, <1>2 DEF ServerInv, PortsMatchServers, CachedIsListening, ConnInv,
         NoClientOutlivesServer, BreakerInv, Firing, caches, closure, clients
    <2>4. TypeOK'
      BY <1>1, <1>2, <2>2 DEF TypeOK, caches, closure, clients
    <2>5. QED
      BY <2>2, <2>3, <2>4 DEF IInv
  <1>3. CASE pc[t] = "stop_wait"
    BY <1>2, <1>3 DEF AfterWait, Return
  <1>4. CASE pc[t] = "start_wait"
    <2>1. arg[t] \in Cam
      BY <1>1, <1>4 DEF TaskInv
    <2>2. QED
      BY <1>2, <1>4, <2>1 DEF AfterWait
  <1>5. CASE pc[t] = "all_wait"
    <2>1. todo[t] \in SUBSET Cam
      BY <1>1 DEF TypeOK
    <2>2. QED
      BY <1>5, <2>1, StopRestKeeps DEF AfterWait
  <1>6. QED
    BY <1>3, <1>4, <1>5 DEF AfterWait

LEMMA StartListensKeeps ==
    ASSUME IInv, NEW t \in Task, NEW g \in Gen, StartListens(t, g)
    PROVE  IInv'
  <1>1. TypeOK /\ TaskInv /\ ServerInv /\ arg[t] \in Cam
    BY DEF IInv, StartListens, TaskInv
  <1>2. TypeOK'
    BY <1>1, BurstAssumption
    DEF TypeOK, StartListens, Suspend, ServerState, TaskState, caches, clients
  <1>3. TaskInv'
    <2>1. \A s \in Task : held[s] # g
      BY DEF StartListens, Free
    <2>2. QED
      BY <1>1, <2>1 DEF TypeOK, TaskInv, StartListens, Suspend
  <1>4. PortsMatchServers' /\ CachedIsListening'
    BY <1>1 DEF TypeOK, ServerInv, PortsMatchServers, CachedIsListening, StartListens, Free, caches
  <1>5. \A k \in Client : conn'[k] # g
    BY DEF StartListens, Free, clients
  <1>6. ConnInv' /\ NoClientOutlivesServer'
    BY <1>1, <1>5 DEF TypeOK, ServerInv, ConnInv, NoClientOutlivesServer, StartListens, clients
  <1>7. BreakerInv'
    BY <1>1, <1>5
    DEF TypeOK, ServerInv, BreakerInv, ConnInv, Firing, StartListens, clients
  <1>8. QED
    BY <1>2, <1>3, <1>4, <1>6, <1>7 DEF IInv, ServerInv

LEMMA StartFailsKeeps ==
    ASSUME IInv, NEW t \in Task, StartFails(t)
    PROVE  IInv'
  <1>1. TypeOK /\ TaskInv /\ ServerInv /\ owner' = owner /\ srv' = srv
    BY DEF IInv, StartFails, closure
  <1>2. /\ pc' \in [Task -> TaskState]
        /\ arg' \in [Task -> Cam \cup {None}]
        /\ held' \in [Task -> Gen \cup {None}]
        /\ todo' \in [Task -> SUBSET Cam]
        /\ TaskInv'
    BY <1>1, SuspendKeeps DEF StartFails, Return, TaskState
  <1>3. ServerInv'
    BY <1>1 DEF StartFails, ServerInv, PortsMatchServers, CachedIsListening, ConnInv,
       NoClientOutlivesServer, BreakerInv, Firing, caches, closure, clients
  <1>4. TypeOK'
    BY <1>1, <1>2 DEF StartFails, TypeOK, caches, closure, clients
  <1>5. QED
    BY <1>2, <1>3, <1>4 DEF IInv

LEMMA StartReturnsKeeps ==
    ASSUME IInv, NEW t \in Task, StartReturns(t)
    PROVE  IInv'
  <1>1. /\ TypeOK /\ TaskInv /\ ServerInv
        /\ arg[t] \in Cam /\ held[t] \in Gen
        /\ srv[held[t]] = "bound" /\ owner[held[t]] = arg[t]
    BY DEF IInv, StartReturns, TaskInv
  <1>2. TypeOK'
    BY <1>1 DEF TypeOK, StartReturns, Register, Return, Suspend, ServerState, TaskState,
       closure, clients
  <1>3. TaskInv'
    BY <1>1 DEF TypeOK, TaskInv, StartReturns, Register, Return, Suspend, closure
  <1>4. PortsMatchServers'
    BY <1>1 DEF ServerInv, PortsMatchServers, StartReturns, Register
  <1>5. CachedIsListening'
    BY <1>1 DEF TypeOK, ServerInv, CachedIsListening, BreakerInv, StartReturns, Register, closure
  <1>6. ConnInv' /\ NoClientOutlivesServer'
    BY <1>1 DEF TypeOK, ServerInv, ConnInv, NoClientOutlivesServer, StartReturns, clients
  <1>7. BreakerInv'
    BY <1>1 DEF TypeOK, ServerInv, BreakerInv, Firing, StartReturns, closure, clients
  <1>8. QED
    BY <1>2, <1>3, <1>4, <1>5, <1>6, <1>7 DEF IInv, ServerInv

-----------------------------------------------------------------------------
(* The steps of connections and handlers leave the tasks alone. *)
LEMMA TasksUntouched ==
    ASSUME TypeOK, TaskInv, UNCHANGED tasks, owner' = owner,
           \A g \in Gen : srv[g] = "bound" => srv'[g] = "bound"
    PROVE  TaskInv'
  BY DEF TypeOK, TaskInv, tasks

LEMMA ClientConnectsKeeps ==
    ASSUME IInv, NEW k \in Client, NEW g \in Gen, ClientConnects(k, g)
    PROVE  IInv'
  <1>1. TypeOK /\ TaskInv /\ ServerInv
    BY DEF IInv
  <1>2. TypeOK'
    BY <1>1 DEF TypeOK, ClientConnects, HandlerState, TransportState, caches, closure, tasks
  <1>3. TaskInv'
    BY <1>1, TasksUntouched DEF ClientConnects, closure
  <1>4. PortsMatchServers' /\ CachedIsListening'
    BY <1>1 DEF ServerInv, PortsMatchServers, CachedIsListening, ClientConnects, caches, closure
  <1>5. ConnInv' /\ NoClientOutlivesServer'
    <2>1. ConnInv'
      BY <1>1, NoneAssumption DEF TypeOK, ServerInv, ConnInv, ClientConnects
    <2>2. NoClientOutlivesServer'
      BY <1>1 DEF TypeOK, ServerInv, NoClientOutlivesServer, ClientConnects
    <2>3. QED
      BY <2>1, <2>2
  <1>6. BreakerInv'
    BY <1>1 DEF TypeOK, ServerInv, BreakerInv, Firing, ClientConnects, closure
  <1>7. QED
    BY <1>2, <1>3, <1>4, <1>5, <1>6 DEF IInv, ServerInv

(* A handler or its transport moves on, without opening the transport of a  *)
(* closed server, starting a trip or reviving a handler.                   *)
LEMMA SetClientKeeps ==
    ASSUME TypeOK, ServerInv, NEW k \in Client,
           NEW ph \in HandlerState, NEW tr \in TransportState, SetClient(k, ph, tr),
           tr \in {"up", "stalled"} => tr = transport[k],
           ph # "done" => conn[k] # None,
           ph \in {"fire_current", "fire_stale"} => ph = phase[k],
           UNCHANGED <<caches, owner, died_fired, rebuilds, srv>>
    PROVE  /\ conn' \in [Client -> Gen \cup {None}]
           /\ phase' \in [Client -> HandlerState]
           /\ transport' \in [Client -> TransportState]
           /\ ServerInv'
  <1>1. /\ conn' \in [Client -> Gen \cup {None}]
        /\ phase' \in [Client -> HandlerState]
        /\ transport' \in [Client -> TransportState]
    BY DEF SetClient, TypeOK
  <1>2. PortsMatchServers' /\ CachedIsListening'
    BY DEF ServerInv, PortsMatchServers, CachedIsListening, caches
  <1>3. ConnInv'
    BY DEF SetClient, TypeOK, ServerInv, ConnInv
  <1>4. NoClientOutlivesServer'
    BY DEF SetClient, TypeOK, ServerInv, NoClientOutlivesServer, TransportState
  <1>5. BreakerInv'
    BY DEF SetClient, TypeOK, ServerInv, BreakerInv, Firing
  <1>6. QED
    BY <1>1, <1>2, <1>3, <1>4, <1>5 DEF ServerInv

LEMMA ConnectSucceedsKeeps ==
    ASSUME IInv, NEW k \in Client, ConnectSucceeds(k)
    PROVE  IInv'
  <1>1. TypeOK /\ TaskInv /\ ServerInv /\ conn[k] # None
    BY DEF IInv, ConnectSucceeds, ServerInv, ConnInv
  <1>2. transport[k] \in TransportState /\ "relay" \in HandlerState
    BY <1>1 DEF TypeOK, HandlerState
  <1>3. /\ conn' \in [Client -> Gen \cup {None}]
        /\ phase' \in [Client -> HandlerState]
        /\ transport' \in [Client -> TransportState]
        /\ ServerInv'
    BY <1>1, <1>2, SetClientKeeps DEF ConnectSucceeds
  <1>4. TaskInv'
    BY <1>1, TasksUntouched DEF ConnectSucceeds
  <1>5. TypeOK'
    <2>1. fail_count' \in [Gen -> 0 .. MaxBurst] /\ window_over' \in [Gen -> BOOLEAN]
      BY <1>1, BurstAssumption DEF TypeOK, ConnectSucceeds
    <2>2. QED
      BY <1>1, <1>3, <2>1 DEF TypeOK, ConnectSucceeds, caches, tasks
  <1>6. QED
    BY <1>3, <1>4, <1>5 DEF IInv

LEMMA RecordFailureTypes ==
    ASSUME TypeOK, NEW g \in Gen, RecordFailure(g)
    PROVE  /\ fail_count' \in [Gen -> 0 .. MaxBurst]
           /\ window_over' \in [Gen -> BOOLEAN]
  <1>1. fail_count' \in [Gen -> 0 .. MaxBurst]
    BY BurstAssumption DEF TypeOK, RecordFailure
  <1>2. window_over' \in [Gen -> BOOLEAN]
    <2>1. CASE fail_count[g] = 0
      BY <2>1 DEF TypeOK, RecordFailure
    <2>2. CASE fail_count[g] # 0
      BY <2>2 DEF TypeOK, RecordFailure
    <2>3. QED
      BY <2>1, <2>2
  <1>3. QED
    BY <1>1, <1>2

(* The trip of the breaker: it evicts its own server or nothing. *)
LEMMA FireKeeps ==
    ASSUME TypeOK, ServerInv, NEW k \in Client, NEW g \in Gen, phase[k] = "connect",
           conn[k] = g, ~died_fired[g], FireOnProxyDied(k, g), owner' = owner
    PROVE  /\ port_cache' \in [Cam -> Gen \cup {None}]
           /\ server_cache' \in [Cam -> Gen \cup {None}]
           /\ srv' \in [Gen -> ServerState]
           /\ died_fired' \in [Gen -> BOOLEAN]
           /\ rebuilds' \in [Gen -> Nat]
           /\ conn' \in [Client -> Gen \cup {None}]
           /\ phase' \in [Client -> HandlerState]
           /\ transport' \in [Client -> TransportState]
           /\ ServerInv'
           /\ \A h \in Gen : srv[h] = "bound" => srv'[h] = "bound"
  <1>1. /\ port_cache' \in [Cam -> Gen \cup {None}]
        /\ server_cache' \in [Cam -> Gen \cup {None}]
        /\ srv' \in [Gen -> ServerState]
        /\ died_fired' \in [Gen -> BOOLEAN]
    BY DEF FireOnProxyDied, EvictCurrent, CloseServers, TypeOK, ServerState
  <1>2. rebuilds' \in [Gen -> Nat] /\ conn' \in [Client -> Gen \cup {None}]
    BY DEF FireOnProxyDied, TypeOK
  <1>3. phase' \in [Client -> HandlerState]
    BY DEF FireOnProxyDied, TypeOK, HandlerState
  <1>4. transport' \in [Client -> TransportState]
    BY ClosedTransport DEF FireOnProxyDied, CloseServers, TypeOK, TransportState
  <1>5. PortsMatchServers'
    BY DEF FireOnProxyDied, EvictCurrent, ServerInv, PortsMatchServers
  <1>6. CachedIsListening'
    BY DEF FireOnProxyDied, EvictCurrent, IsCurrent, CloseServers, TypeOK, ServerInv,
       CachedIsListening
  <1>7. ConnInv'
    BY DEF FireOnProxyDied, CloseServers, TypeOK, ServerInv, ConnInv
  <1>8. NoClientOutlivesServer'
    BY ClosedTransport DEF FireOnProxyDied, CloseServers, TypeOK, ServerInv,
       NoClientOutlivesServer
  <1>9. BreakerInv'
    <2>1. rebuilds[g] = 0 /\ \A j \in Client : Firing(j) => conn[j] # g
      BY DEF TypeOK, ServerInv, BreakerInv
    <2>2. \A h \in Gen : died_fired'[h] => srv'[h] = "closed"
      BY DEF FireOnProxyDied, CloseServers, TypeOK, ServerInv, BreakerInv
    <2>3. \A h \in Gen : rebuilds'[h] # 0 => rebuilds'[h] = 1 /\ died_fired'[h]
      BY <2>1 DEF FireOnProxyDied, TypeOK, ServerInv, BreakerInv
    <2>4. /\ \A j \in Client : Firing(j)' => Firing(j) \/ j = k
          /\ Firing(k)' => conn' = conn /\ rebuilds' = rebuilds
      <3>1. \A j \in Client \ {k} : phase'[j] = phase[j] /\ conn'[j] = conn[j]
        BY DEF FireOnProxyDied, TypeOK
      <3>2. CASE Active(g)
        BY <3>1, <3>2 DEF FireOnProxyDied, Firing, TypeOK
      <3>3. CASE ~Active(g)
        <4>1. ~Firing(k)'
          BY <3>3 DEF FireOnProxyDied, Firing, TypeOK
        <4>2. QED
          BY <2>1, <3>1, <4>1 DEF Firing
      <3>4. QED
        BY <3>2, <3>3
    <2>5. \A j \in Client : Firing(j)' => died_fired'[conn'[j]] /\ rebuilds'[conn'[j]] = 0
      <3>1. died_fired' = [died_fired EXCEPT ![g] = TRUE]
        BY DEF FireOnProxyDied
      <3>2. ASSUME NEW j \in Client, Firing(j)'
            PROVE  died_fired'[conn'[j]] /\ rebuilds'[conn'[j]] = 0
        <4>1. CASE j = k
          BY <2>1, <2>4, <3>1, <3>2, <4>1 DEF TypeOK
        <4>2. CASE j # k
          <5>1. Firing(j) /\ died_fired[conn[j]] /\ rebuilds[conn[j]] = 0
            BY <2>4, <3>2, <4>2 DEF ServerInv, BreakerInv
          <5>2. conn[j] \in Gen \cup {None} /\ conn[j] # None /\ conn[j] # g
            BY <2>1, <5>1 DEF TypeOK, ServerInv, ConnInv, Firing
          <5>3. conn'[j] = conn[j] /\ rebuilds'[conn[j]] = rebuilds[conn[j]]
            BY <4>2, <5>2 DEF FireOnProxyDied, TypeOK
          <5>4. QED
            BY <3>1, <5>1, <5>2, <5>3 DEF TypeOK
        <4>3. QED
          BY <4>1, <4>2
      <3>3. QED
        BY <3>2
    <2>6. ASSUME NEW i \in Client, NEW j \in Client, Firing(i)', Firing(j)', conn'[i] = conn'[j]
          PROVE  i = j
      <3>1. \A h \in Client \ {k} : conn'[h] = conn[h]
        BY DEF FireOnProxyDied, TypeOK
      <3>2. Firing(k)' => conn'[k] = g
        BY <2>1, <2>4
      <3>3. QED
        BY <2>1, <2>4, <2>6, <3>1, <3>2 DEF ServerInv, BreakerInv
    <2>7. QED
      BY <2>2, <2>3, <2>5, <2>6 DEF BreakerInv
  <1>10. \A h \in Gen : srv[h] = "bound" => srv'[h] = "bound"
    BY DEF FireOnProxyDied, CloseServers, TypeOK, ServerInv, ConnInv
  <1>11. QED
    BY <1>1, <1>2, <1>3, <1>4, <1>5, <1>6, <1>7, <1>8, <1>9, <1>10 DEF ServerInv

LEMMA ConnectFailsKeeps ==
    ASSUME IInv, NEW k \in Client, ConnectFails(k)
    PROVE  IInv'
  <1>1. /\ TypeOK /\ TaskInv /\ ServerInv
        /\ phase[k] = "connect" /\ conn[k] \in Gen
        /\ UNCHANGED <<owner, tasks>>
    BY DEF IInv, ConnectFails, ServerInv, ConnInv, TypeOK
  <1>2. /\ fail_count' \in [Gen -> 0 .. MaxBurst]
        /\ window_over' \in [Gen -> BOOLEAN]
    BY <1>1, RecordFailureTypes DEF ConnectFails
  <1>3. CASE Trips(conn[k]) /\ FireOnProxyDied(k, conn[k])
    <2>1. ~died_fired[conn[k]]
      BY <1>3 DEF Trips
    <2>2. /\ port_cache' \in [Cam -> Gen \cup {None}]
          /\ server_cache' \in [Cam -> Gen \cup {None}]
          /\ srv' \in [Gen -> ServerState]
          /\ died_fired' \in [Gen -> BOOLEAN]
          /\ rebuilds' \in [Gen -> Nat]
          /\ conn' \in [Client -> Gen \cup {None}]
          /\ phase' \in [Client -> HandlerState]
          /\ transport' \in [Client -> TransportState]
          /\ ServerInv'
          /\ \A h \in Gen : srv[h] = "bound" => srv'[h] = "bound"
      BY <1>1, <1>3, <2>1, FireKeeps
    <2>3. TaskInv'
      BY <1>1, <2>2, TasksUntouched
    <2>4. TypeOK'
      BY <1>1, <1>2, <2>2 DEF TypeOK, tasks
    <2>5. QED
      BY <2>2, <2>3, <2>4 DEF IInv
  <1>4. CASE /\ SetClient(k, "done", Closed(transport[k]))
             /\ UNCHANGED <<caches, srv, died_fired, rebuilds>>
    <2>1. Closed(transport[k]) \in {"closing", "wedged", "lost"}
      BY <1>1, ClosedTransport DEF TypeOK
    <2>2. /\ conn' \in [Client -> Gen \cup {None}]
          /\ phase' \in [Client -> HandlerState]
          /\ transport' \in [Client -> TransportState]
          /\ ServerInv'
      BY <1>1, <1>4, <2>1, SetClientKeeps DEF HandlerState, TransportState
    <2>3. TaskInv'
      BY <1>1, <1>4, TasksUntouched
    <2>4. TypeOK'
      BY <1>1, <1>2, <1>4, <2>2 DEF TypeOK, caches, tasks
    <2>5. QED
      BY <2>2, <2>3, <2>4 DEF IInv
  <1>5. QED
    BY <1>3, <1>4 DEF ConnectFails

(* The remaining steps of a connection: a handler that finishes, a peer     *)
(* that resets or whose connection is lost.                                *)
LEMMA QuietStepKeeps ==
    ASSUME IInv, NEW k \in Client, NEW ph \in HandlerState, NEW tr \in TransportState,
           SetClient(k, ph, tr),
           tr \in {"up", "stalled"} => tr = transport[k],
           ph \in {"done", phase[k]},
           UNCHANGED <<caches, closure, srv, tasks>>
    PROVE  IInv'
  <1>1. TypeOK /\ TaskInv /\ ServerInv /\ ph # "done" => conn[k] # None
    BY DEF IInv, ServerInv, ConnInv
  <1>2. /\ conn' \in [Client -> Gen \cup {None}]
        /\ phase' \in [Client -> HandlerState]
        /\ transport' \in [Client -> TransportState]
        /\ ServerInv'
    BY <1>1, SetClientKeeps DEF IInv, ServerInv, ConnInv, closure
  <1>3. TaskInv'
    BY <1>1, TasksUntouched DEF IInv, closure
  <1>4. TypeOK'
    BY <1>2 DEF IInv, TypeOK, caches, closure, tasks
  <1>5. QED
    BY <1>2, <1>3, <1>4 DEF IInv

LEMMA RelayEndsKeeps ==
    ASSUME IInv, NEW k \in Client, RelayEnds(k)
    PROVE  IInv'
  <1>1. Closed(transport[k]) \in {"closing", "wedged", "lost"}
    BY ClosedTransport DEF IInv, TypeOK
  <1>2. QED
    BY <1>1, QuietStepKeeps DEF RelayEnds, HandlerState, TransportState

LEMMA TransportLostKeeps ==
    ASSUME IInv, NEW k \in Client, TransportLost(k) \/ PeerResets(k)
    PROVE  IInv'
  <1>1. phase[k] \in HandlerState /\ "lost" \in TransportState
    BY DEF IInv, TypeOK, TransportState
  <1>2. QED
    BY <1>1, QuietStepKeeps DEF TransportLost, PeerResets

(* The end of a trip: on_proxy_died is called if the server was current. *)
LEMMA AfterFireKeeps ==
    ASSUME IInv, NEW k \in Client, AfterFire(k)
    PROVE  IInv'
  <1>1. /\ TypeOK /\ TaskInv /\ ServerInv
        /\ Firing(k) /\ conn[k] \in Gen
        /\ died_fired[conn[k]] /\ rebuilds[conn[k]] = 0
    BY DEF IInv, AfterFire, TypeOK, ServerInv, ConnInv, BreakerInv, Firing
  <1>2. /\ rebuilds' \in [Gen -> Nat]
        /\ \A g \in Gen : rebuilds'[g] # rebuilds[g] => g = conn[k] /\ rebuilds'[g] = 1
    BY <1>1 DEF AfterFire, TypeOK
  <1>3. /\ conn' \in [Client -> Gen \cup {None}]
        /\ phase' \in [Client -> HandlerState]
        /\ transport' = transport
    BY <1>1 DEF AfterFire, SetClient, TypeOK, HandlerState
  <1>4. TypeOK'
    BY <1>1, <1>2, <1>3 DEF AfterFire, TypeOK, caches, tasks
  <1>5. TaskInv'
    BY <1>1, TasksUntouched DEF AfterFire
  <1>6. PortsMatchServers' /\ CachedIsListening'
    BY <1>1 DEF AfterFire, ServerInv, PortsMatchServers, CachedIsListening, caches
  <1>7. \A j \in Client : /\ j # k => phase'[j] = phase[j] /\ conn'[j] = conn[j]
                          /\ conn'[j] \in {conn[j], None}
    BY <1>1 DEF AfterFire, SetClient, TypeOK
  <1>8. phase'[k] = "done"
    BY <1>1 DEF AfterFire, SetClient, TypeOK
  <1>9. ConnInv' /\ NoClientOutlivesServer'
    BY <1>1, <1>3, <1>7, <1>8 DEF AfterFire, ServerInv, ConnInv, NoClientOutlivesServer
  <1>10. BreakerInv'
    <2>1. \A j \in Client : Firing(j)' => j # k /\ Firing(j) /\ conn'[j] = conn[j]
                                          /\ conn[j] \in Gen /\ conn[j] # conn[k]
      BY <1>1, <1>7, <1>8 DEF Firing, ServerInv, BreakerInv, ConnInv, TypeOK
    <2>2. QED
      BY <1>1, <1>2, <2>1 DEF AfterFire, ServerInv, BreakerInv
  <1>11. QED
    BY <1>4, <1>5, <1>6, <1>9, <1>10 DEF IInv, ServerInv

(* A peer stops reading, or reads again. *)
LEMMA PeerReadsKeeps ==
    ASSUME IInv, NEW k \in Client, PeerStalls(k) \/ PeerResumes(k)
    PROVE  IInv'
  <1>1. /\ TypeOK /\ TaskInv /\ ServerInv
        /\ UNCHANGED <<caches, closure, srv, tasks, conn, phase>>
    BY DEF IInv, PeerStalls, PeerResumes
  <1>2. /\ transport' \in [Client -> TransportState]
        /\ \A j \in Client : transport'[j] \in {"up", "stalled"} =>
                                transport[j] \in {"up", "stalled"}
        /\ \A j \in Client : transport'[j] = "lost" => transport[j] = "lost"
    BY <1>1 DEF PeerStalls, PeerResumes, TypeOK, TransportState
  <1>3. TaskInv'
    BY <1>1, TasksUntouched DEF closure
  <1>4. ServerInv'
    <2>1. NoClientOutlivesServer'
      BY <1>1, <1>2 DEF ServerInv, NoClientOutlivesServer, TypeOK, TransportState
    <2>2. QED
      BY <1>1, <2>1 DEF ServerInv, PortsMatchServers, CachedIsListening, ConnInv,
         BreakerInv, Firing, caches, closure
  <1>5. TypeOK'
    BY <1>1, <1>2 DEF TypeOK, caches, closure, tasks
  <1>6. QED
    BY <1>3, <1>4, <1>5 DEF IInv

LEMMA WindowElapsesKeeps ==
    ASSUME IInv, NEW g \in Gen, WindowElapses(g)
    PROVE  IInv'
  <1>1. TypeOK /\ TaskInv /\ ServerInv
    BY DEF IInv
  <1>2. TypeOK'
    BY <1>1 DEF TypeOK, WindowElapses, caches, tasks, clients
  <1>3. TaskInv'
    BY <1>1, TasksUntouched DEF WindowElapses
  <1>4. ServerInv'
    BY <1>1 DEF WindowElapses, ServerInv, PortsMatchServers, CachedIsListening, ConnInv,
       NoClientOutlivesServer, BreakerInv, Firing, caches, clients
  <1>5. QED
    BY <1>2, <1>3, <1>4 DEF IInv

LEMMA StutterKeeps ==
    ASSUME IInv, UNCHANGED vars
    PROVE  IInv'
  BY DEF IInv, TypeOK, TaskInv, ServerInv, PortsMatchServers, CachedIsListening, ConnInv,
     NoClientOutlivesServer, BreakerInv, Firing, vars, caches, closure, tasks, clients

(* Every step keeps the inductive invariant. *)
LEMMA NextKeeps ==
    ASSUME IInv, [Next]_vars
    PROVE  IInv'
  <1>1. CASE \E t \in Task : TaskStep(t)
    <2>1. PICK t \in Task : TaskStep(t)
      BY <1>1
    <2>2. QED
      BY <2>1, CallStopKeeps, CallStartKeeps, CallStopAllKeeps, AfterWaitKeeps,
         StartListensKeeps, StartFailsKeeps, StartReturnsKeeps
      DEF TaskStep, TaskResumes, WaitClosedReturns, WaitTimesOut
  <1>2. CASE \E k \in Client : ClientStep(k)
    <2>1. PICK k \in Client : ClientStep(k)
      BY <1>2
    <2>2. QED
      BY <2>1, ClientConnectsKeeps, ConnectSucceedsKeeps, ConnectFailsKeeps, AfterFireKeeps,
         RelayEndsKeeps, PeerReadsKeeps, TransportLostKeeps
      DEF ClientStep, HandlerResumes, FireWaitReturns, FireTimesOut
  <1>3. CASE \E g \in Gen : WindowElapses(g)
    BY <1>3, WindowElapsesKeeps
  <1>4. CASE UNCHANGED vars
    BY <1>4, StutterKeeps
  <1>5. QED
    BY <1>1, <1>2, <1>3, <1>4 DEF Next

(* The inductive invariant holds in every reachable state of the proxy. *)
THEOREM Invariance == Spec => []IInv
  BY InitIInv, NextKeeps, PTL DEF Spec

-----------------------------------------------------------------------------
(* Every variable of the proxy keeps its type: no dict, closure or local    *)
(* ever holds a value of another kind.                                     *)
THEOREM TypeCorrect == Spec => []TypeOK
  BY Invariance, PTL DEF IInv

(* port_cache and server_cache agree whenever control changes hands: every  *)
(* path through start, stop, stop_all and the breaker updates both.        *)
THEOREM DictsAgree == Spec => []PortsMatchServers
  <1>1. IInv => PortsMatchServers
    BY DEF IInv, ServerInv
  <1>2. QED
    BY <1>1, Invariance, PTL

(* A registered server listens, belongs to its camera and has not tripped,  *)
(* even when starts, stops, renewals and trips of old servers overlap.     *)
THEOREM RegisteredServersListen == Spec => []CachedIsListening
  <1>1. IInv => CachedIsListening
    BY DEF IInv, ServerInv
  <1>2. QED
    BY <1>1, Invariance, PTL

(* No connection stays open past the server that accepted it. *)
THEOREM ClientsEndWithServer == Spec => []NoClientOutlivesServer
  <1>1. IInv => NoClientOutlivesServer
    BY DEF IInv, ServerInv
  <1>2. QED
    BY <1>1, Invariance, PTL

(* on_proxy_died is called at most once for each server, and only after     *)
(* its breaker tripped.                                                    *)
THEOREM OneReportPerServer == Spec => []ReportedOnce
  <1>1. ASSUME IInv, NEW g \in Gen
        PROVE  /\ rebuilds[g] <= 1
               /\ rebuilds[g] = 1 => died_fired[g] /\ srv[g] = "closed"
    BY <1>1 DEF IInv, TypeOK, ServerInv, BreakerInv
  <1>2. ASSUME IInv, NEW j \in Client, NEW k \in Client,
               Firing(j), Firing(k), conn[j] = conn[k]
        PROVE  j = k /\ rebuilds[conn[j]] = 0
    BY <1>2 DEF IInv, ServerInv, BreakerInv
  <1>3. IInv => ReportedOnce
    BY <1>1, <1>2 DEF ReportedOnce, Firing
  <1>4. QED
    BY <1>3, Invariance, PTL

(* A handler's step takes nothing out of the dicts but a server whose own   *)
(* breaker trips in it: a stale trip leaves a newer server registered.     *)
THEOREM StaleTripEvictsNothing == Spec => NewerGenerationSurvives
  <1> DEFINE Evicts == phase' # phase =>
                         \A c \in Cam :
                            \/ server_cache'[c] = server_cache[c]
                            \/ /\ server_cache'[c] = None
                               /\ ~died_fired[server_cache[c]] /\ died_fired'[server_cache[c]]
  <1>1. ASSUME IInv, [Next]_vars
        PROVE  [Evicts]_vars
    <2>1. SUFFICES ASSUME phase' # phase, NEW c \in Cam, server_cache'[c] # server_cache[c]
                   PROVE  /\ server_cache'[c] = None
                          /\ ~died_fired[server_cache[c]] /\ died_fired'[server_cache[c]]
      OBVIOUS
    <2>2. ~ \E t \in Task : TaskStep(t)
      BY <2>1 DEF TaskStep, TaskResumes, CallStop, CallStart, CallStopAll, WaitClosedReturns,
         WaitTimesOut, AfterWait, StopRest, StartListens, StartFails, StartReturns, clients
    <2>3. PICK k \in Client : ConnectFails(k) /\ Trips(conn[k]) /\ FireOnProxyDied(k, conn[k])
      BY <1>1, <2>1, <2>2
      DEF Next, ClientStep, HandlerResumes, ClientConnects, ConnectSucceeds, ConnectFails,
          FireWaitReturns, FireTimesOut, AfterFire, RelayEnds, PeerStalls, PeerResumes,
          TransportLost, PeerResets, WindowElapses, vars, caches, clients
    <2>4. conn[k] \in Gen
      BY <1>1, <2>3 DEF IInv, TypeOK, ServerInv, ConnInv, ConnectFails
    <2>5. IsCurrent(conn[k]) /\ c = owner[conn[k]] /\ server_cache[c] = conn[k]
      BY <1>1, <2>1, <2>3 DEF FireOnProxyDied, EvictCurrent, IsCurrent, IInv, TypeOK
    <2>6. server_cache'[c] = None
      BY <1>1, <2>3, <2>5 DEF FireOnProxyDied, EvictCurrent, IInv, TypeOK
    <2>7. QED
      BY <1>1, <2>3, <2>4, <2>5, <2>6 DEF Trips, FireOnProxyDied, IInv, TypeOK
  <1>2. QED
    BY <1>1, Invariance, PTL DEF Spec, NewerGenerationSurvives

-----------------------------------------------------------------------------
(* When the coordinator makes one call at a time.                          *)

(* An open server is the one registered for the camera it belongs to. *)
OpenIsRegistered ==
    \A g \in Gen : srv[g] = "open" => owner[g] \in Cam /\ server_cache[owner[g]] = g

(* While a start is under way no server is registered for its camera, and   *)
(* stop_all_proxies still has every registered camera on its list.         *)
SerialInv ==
    /\ \A t \in Task : pc[t] \in {"start_wait", "start_bind", "start_bound"} =>
                          server_cache[arg[t]] = None
    /\ \A t \in Task : pc[t] = "all_wait" =>
          \A c \in Cam : server_cache[c] # None => c \in todo[t]
    /\ OpenIsRegistered

LEMMA SerialInit == Init => SerialInv
  BY DEF Init, SerialInv, OpenIsRegistered

(* The steps of connections and handlers. *)
LEMMA ClientSerial ==
    ASSUME IInv, SerialInv, NEW k \in Client, ClientStep(k)
    PROVE  SerialInv'
  <1>1. CASE \E g \in Gen : Trips(g) /\ FireOnProxyDied(k, g) /\ UNCHANGED <<owner, tasks>>
    <2>1. PICK g \in Gen : FireOnProxyDied(k, g) /\ UNCHANGED <<owner, tasks>>
      BY <1>1
    <2>2. \A c \in Cam : server_cache'[c] \in {server_cache[c], None}
      BY <2>1 DEF FireOnProxyDied, EvictCurrent, IInv, TypeOK
    <2>3. OpenIsRegistered'
      BY <2>1 DEF FireOnProxyDied, EvictCurrent, IsCurrent, CloseServers, SerialInv,
         OpenIsRegistered, IInv, TypeOK
    <2>4. QED
      BY <2>1, <2>2, <2>3 DEF SerialInv, tasks, IInv, TaskInv
  <1>2. CASE UNCHANGED <<server_cache, owner, srv, tasks>>
    BY <1>2 DEF SerialInv, OpenIsRegistered, tasks
  <1>3. \A g : phase[k] = "connect" /\ conn[k] = g => g \in Gen
    BY DEF IInv, TypeOK, ServerInv, ConnInv
  <1>4. QED
    BY <1>1, <1>2, <1>3
    DEF ClientStep, HandlerResumes, ClientConnects, ConnectSucceeds, ConnectFails,
        FireWaitReturns, FireTimesOut, AfterFire, RelayEnds, PeerStalls, PeerResumes,
        TransportLost, PeerResets, caches, closure

(* A stop closes what it takes out of the dicts. *)
LEMMA StopLeavesNoOrphan ==
    ASSUME IInv, OpenIsRegistered, NEW C \in SUBSET Cam, StopCameras(C), owner' = owner
    PROVE  /\ OpenIsRegistered'
           /\ \A c \in Cam : server_cache'[c] = IF c \in C THEN None ELSE server_cache[c]
  <1>1. \A c \in Cam : server_cache'[c] = IF c \in C THEN None ELSE server_cache[c]
    BY DEF StopCameras
  <1>2. ASSUME NEW g \in Gen, srv'[g] = "open"
        PROVE  owner'[g] \in Cam /\ server_cache'[owner'[g]] = g
    <2>1. srv[g] = "open" /\ g \notin {server_cache[c] : c \in C} \ {None}
      BY <1>2 DEF StopCameras, CloseServers, IInv, TypeOK
    <2>2. owner[g] \in Cam /\ server_cache[owner[g]] = g /\ g # None
      BY <2>1, NoneAssumption DEF OpenIsRegistered
    <2>3. owner[g] \notin C
      BY <2>1, <2>2
    <2>4. QED
      BY <1>1, <2>2, <2>3
  <1>3. QED
    BY <1>1, <1>2 DEF OpenIsRegistered

LEMMA StopRestSerial ==
    ASSUME IInv, OpenIsRegistered, \A s, t \in Task : s = t,
           NEW t \in Task, NEW rest \in SUBSET Cam, StopRest(t, rest),
           \A c \in Cam : server_cache[c] # None => c \in rest
    PROVE  SerialInv'
  <1>1. PICK D \in SUBSET rest :
          \/ /\ D = rest
             /\ CloseServers({server_cache[c] : c \in D} \ {None})
             /\ server_cache' = [c \in Cam |-> None]
             /\ Return(t)
          \/ \E c \in rest \ D :
                /\ StopCameras(D \cup {c})
                /\ Suspend(t, "all_wait", c, server_cache[c], rest \ (D \cup {c}))
    BY DEF StopRest
  <1>2. owner' = owner
    BY DEF StopRest, closure
  <1>3. CASE /\ D = rest
             /\ CloseServers({server_cache[c] : c \in D} \ {None})
             /\ server_cache' = [c \in Cam |-> None]
             /\ Return(t)
    <2>1. OpenIsRegistered'
      <3>1. ASSUME NEW g \in Gen, srv'[g] = "open"
            PROVE  FALSE
        <4>1. srv[g] = "open" /\ g \notin {server_cache[c] : c \in D} \ {None}
          BY <1>3, <3>1 DEF CloseServers, IInv, TypeOK
        <4>2. server_cache[owner[g]] = g /\ g # None /\ owner[g] \in Cam
          BY <4>1, NoneAssumption DEF OpenIsRegistered
        <4>3. QED
          BY <1>3, <4>1, <4>2
      <3>2. QED
        BY <3>1 DEF OpenIsRegistered
    <2>2. \A s \in Task : pc'[s] = "idle"
      BY <1>3 DEF Return, Suspend, IInv, TypeOK
    <2>3. QED
      BY <2>1, <2>2 DEF SerialInv
  <1>4. CASE \E c \in rest \ D :
                /\ StopCameras(D \cup {c})
                /\ Suspend(t, "all_wait", c, server_cache[c], rest \ (D \cup {c}))
    <2>1. PICK c \in rest \ D :
                /\ StopCameras(D \cup {c})
                /\ Suspend(t, "all_wait", c, server_cache[c], rest \ (D \cup {c}))
      BY <1>4
    <2>2. D \cup {c} \in SUBSET Cam
      OBVIOUS
    <2>3. /\ OpenIsRegistered'
          /\ \A b \in Cam : server_cache'[b] = IF b \in D \cup {c} THEN None
                                                                  ELSE server_cache[b]
      BY <1>2, <2>1, <2>2, StopLeavesNoOrphan
    <2>4. \A s \in Task : pc'[s] = "all_wait" /\ todo'[s] = rest \ (D \cup {c})
      BY <2>1 DEF Suspend, IInv, TypeOK
    <2>5. QED
      BY <2>3, <2>4 DEF SerialInv
  <1>5. QED
    BY <1>1, <1>3, <1>4

(* The steps of the one task. *)
LEMMA TaskSerial ==
    ASSUME IInv, SerialInv, \A s, t \in Task : s = t, NEW t \in Task, TaskStep(t)
    PROVE  SerialInv'
  <1>1. OpenIsRegistered /\ TypeOK
    BY DEF IInv, SerialInv
  <1>2. ASSUME NEW c \in Cam, CallStop(t, c)
        PROVE  SerialInv'
    <2>1. OpenIsRegistered'
      BY <1>1, <1>2, StopLeavesNoOrphan DEF CallStop, closure
    <2>2. \A s \in Task : pc'[s] \in {"idle", "stop_wait"}
      BY <1>1, <1>2 DEF CallStop, Suspend, tasks, TypeOK
    <2>3. QED
      BY <2>1, <2>2 DEF SerialInv
  <1>3. ASSUME NEW c \in Cam, CallStart(t, c)
        PROVE  SerialInv'
    <2>1. OpenIsRegistered' /\ server_cache'[c] = None
      BY <1>1, <1>3, StopLeavesNoOrphan DEF CallStart, closure
    <2>2. \A s \in Task : pc'[s] \in {"start_wait", "start_bind"} /\ arg'[s] = c
      BY <1>1, <1>3 DEF CallStart, Suspend, TypeOK
    <2>3. QED
      BY <2>1, <2>2 DEF SerialInv
  <1>4. CASE CallStopAll(t)
    <2>1. {c \in Cam : server_cache[c] # None} \in SUBSET Cam
      OBVIOUS
    <2>2. QED
      BY <1>1, <1>4, <2>1, StopRestSerial DEF CallStopAll
  <1>5. CASE AfterWait(t)
    <2>1. CASE pc[t] = "stop_wait"
      BY <1>1, <1>5, <2>1 DEF AfterWait, Return, Suspend, SerialInv, OpenIsRegistered,
         caches, closure, TypeOK
    <2>2. CASE pc[t] = "start_wait"
      BY <1>1, <1>5, <2>2 DEF AfterWait, Suspend, SerialInv, OpenIsRegistered,
         caches, closure, TypeOK
    <2>3. CASE pc[t] = "all_wait"
      <3>1. todo[t] \in SUBSET Cam /\ \A c \in Cam : server_cache[c] # None => c \in todo[t]
        BY <1>1, <2>3 DEF TypeOK, SerialInv
      <3>2. QED
        BY <1>1, <1>5, <2>3, <3>1, StopRestSerial DEF AfterWait
    <2>4. QED
      BY <1>5, <2>1, <2>2, <2>3 DEF AfterWait
  <1>6. ASSUME NEW g \in Gen, StartListens(t, g)
        PROVE  SerialInv'
    <2>1. OpenIsRegistered'
      BY <1>1, <1>6 DEF StartListens, OpenIsRegistered, caches, TypeOK
    <2>2. \A s \in Task : pc'[s] = "start_bound" /\ arg'[s] = arg[t]
      BY <1>1, <1>6 DEF StartListens, Suspend, TypeOK
    <2>3. QED
      BY <1>6, <2>1, <2>2 DEF StartListens, SerialInv, caches
  <1>7. CASE StartFails(t)
    BY <1>1, <1>7 DEF StartFails, Return, Suspend, SerialInv, OpenIsRegistered,
       caches, closure, TypeOK
  <1>8. CASE StartReturns(t)
    <2>1. /\ arg[t] \in Cam /\ held[t] \in Gen /\ owner[held[t]] = arg[t]
          /\ server_cache[arg[t]] = None
      BY <1>8 DEF IInv, TaskInv, SerialInv, StartReturns
    <2>2. OpenIsRegistered'
      <3>1. ASSUME NEW g \in Gen, srv'[g] = "open"
            PROVE  owner'[g] \in Cam /\ server_cache'[owner'[g]] = g
        <4>1. CASE g = held[t]
          BY <1>1, <1>8, <2>1, <4>1 DEF StartReturns, Register, closure, TypeOK
        <4>2. CASE g # held[t]
          <5>1. srv[g] = "open" /\ owner'[g] = owner[g]
            BY <1>1, <1>8, <2>1, <3>1, <4>2 DEF StartReturns, closure, TypeOK
          <5>2. owner[g] \in Cam /\ server_cache[owner[g]] = g /\ owner[g] # arg[t]
            BY <1>1, <2>1, <5>1, NoneAssumption DEF OpenIsRegistered
          <5>3. QED
            BY <1>1, <1>8, <2>1, <5>1, <5>2 DEF StartReturns, Register, TypeOK
        <4>3. QED
          BY <4>1, <4>2
      <3>2. QED
        BY <3>1 DEF OpenIsRegistered
    <2>3. \A s \in Task : pc'[s] = "idle"
      BY <1>1, <1>8 DEF StartReturns, Return, Suspend, TypeOK
    <2>4. QED
      BY <2>2, <2>3 DEF SerialInv
  <1>9. QED
    BY <1>2, <1>3, <1>4, <1>5, <1>6, <1>7, <1>8
    DEF TaskStep, TaskResumes, WaitClosedReturns, WaitTimesOut

(* If the coordinator makes one call at a time, every open listener can be  *)
(* found through the dicts: a stop_tls_proxy or stop_all_proxies closes it. *)
THEOREM SerialNoOrphan ==
    ASSUME \A s, t \in Task : s = t
    PROVE  Spec => []NoOrphanListener
  <1>1. ASSUME IInv, SerialInv, [Next]_vars
        PROVE  SerialInv'
    <2>1. CASE \E t \in Task : TaskStep(t)
      BY <1>1, <2>1, TaskSerial
    <2>2. CASE \E k \in Client : ClientStep(k)
      BY <1>1, <2>2, ClientSerial
    <2>3. CASE (\E g \in Gen : WindowElapses(g)) \/ UNCHANGED vars
      BY <1>1, <2>3 DEF WindowElapses, SerialInv, OpenIsRegistered, vars, caches, closure, tasks
    <2>4. QED
      BY <1>1, <2>1, <2>2, <2>3 DEF Next
  <1>2. Spec => []SerialInv
    BY <1>1, SerialInit, Invariance, PTL DEF Spec
  <1>3. SerialInv => NoOrphanListener
    BY DEF SerialInv, OpenIsRegistered, NoOrphanListener
  <1>4. QED
    BY <1>2, <1>3, PTL

-----------------------------------------------------------------------------
(* The refinement of ProxyLease, action by action.                         *)

(* The closure of a server that was started knows its camera. *)
OwnerInv == \A g \in Gen : srv[g] # "none" => owner[g] \in Cam

Listening == {g \in Gen : srv[g] \in {"bound", "open"}}

Report == [g \in Gen |-> ReportOf(g)]

(* A server is only started for a camera, and keeps it. *)
LEMMA OwnerStep ==
    ASSUME IInv, OwnerInv, [Next]_vars
    PROVE  OwnerInv'
  <1>1. TypeOK /\ TaskInv
    BY DEF IInv
  <1>2. ASSUME NEW S, CloseServers(S), owner' = owner, \A g \in S : g \in Gen => srv[g] # "none"
        PROVE  OwnerInv'
    BY <1>2 DEF OwnerInv, CloseServers
  <1>3. \A C \in SUBSET Cam : \A g \in {server_cache[c] : c \in C} \ {None} :
                                g \in Gen => srv[g] # "none"
    BY DEF IInv, ServerInv, CachedIsListening
  <1>4. ASSUME NEW t \in Task, NEW c \in Cam, CallStop(t, c) \/ CallStart(t, c)
        PROVE  OwnerInv'
    <2>1. CloseServers({server_cache[b] : b \in {c}} \ {None}) /\ owner' = owner
      BY <1>4 DEF CallStop, CallStart, StopCameras, closure
    <2>2. QED
      BY <1>2, <1>3, <2>1
  <1>5. ASSUME NEW t \in Task, NEW rest \in SUBSET Cam, StopRest(t, rest)
        PROVE  OwnerInv'
    <2>1. PICK C \in SUBSET Cam : CloseServers({server_cache[b] : b \in C} \ {None})
      <3>1. \A D \in SUBSET rest : D \in SUBSET Cam /\ \A c \in rest \ D : D \cup {c} \in SUBSET Cam
        OBVIOUS
      <3>2. QED
        BY <1>5, <3>1 DEF StopRest, StopCameras
    <2>2. owner' = owner
      BY <1>5 DEF StopRest, closure
    <2>3. QED
      BY <1>2, <1>3, <2>1, <2>2
  <1>6. ASSUME NEW t \in Task, AfterWait(t)
        PROVE  OwnerInv'
    <2>1. todo[t] \in SUBSET Cam
      BY <1>1 DEF TypeOK
    <2>2. QED
      BY <1>5, <1>6, <2>1 DEF AfterWait, OwnerInv, closure
  <1>7. ASSUME NEW t \in Task, TaskStep(t)
        PROVE  OwnerInv'
    <2>1. CASE CallStopAll(t)
      <3>1. {c \in Cam : server_cache[c] # None} \in SUBSET Cam
        OBVIOUS
      <3>2. QED
        BY <1>5, <2>1, <3>1 DEF CallStopAll
    <2>2. ASSUME NEW g \in Gen, StartListens(t, g)
          PROVE  OwnerInv'
      BY <1>1, <2>2 DEF TypeOK, TaskInv, OwnerInv, StartListens
    <2>3. CASE StartFails(t)
      BY <2>3 DEF OwnerInv, StartFails, closure
    <2>4. CASE StartReturns(t)
      BY <1>1, <2>4 DEF TypeOK, TaskInv, OwnerInv, StartReturns, closure
    <2>5. QED
      BY <1>4, <1>6, <1>7, <2>1, <2>2, <2>3, <2>4
      DEF TaskStep, TaskResumes, WaitClosedReturns, WaitTimesOut
  <1>8. ASSUME NEW k \in Client, ClientStep(k)
        PROVE  OwnerInv'
    <2>1. CASE ConnectFails(k)
      <3>1. conn[k] \in Gen => srv[conn[k]] # "none"
        BY <2>1, NoneAssumption DEF IInv, ServerInv, ConnInv, ConnectFails
      <3>2. owner' = owner
        BY <2>1 DEF ConnectFails
      <3>3. CASE CloseServers({conn[k]})
        BY <1>2, <3>1, <3>2, <3>3
      <3>4. CASE srv' = srv
        BY <3>2, <3>4 DEF OwnerInv
      <3>5. QED
        BY <2>1, <3>3, <3>4 DEF ConnectFails, FireOnProxyDied
    <2>2. CASE ~ConnectFails(k)
      BY <1>8, <2>2 DEF ClientStep, HandlerResumes, ClientConnects, ConnectSucceeds,
         FireWaitReturns, FireTimesOut, AfterFire, RelayEnds, PeerStalls, PeerResumes,
         TransportLost, PeerResets, OwnerInv, closure
    <2>3. QED
      BY <2>1, <2>2
  <1>9. CASE (\E g \in Gen : WindowElapses(g)) \/ UNCHANGED vars
    BY <1>9 DEF WindowElapses, OwnerInv, vars, closure
  <1>10. QED
    BY <1>7, <1>8, <1>9 DEF Next

(* A handler whose breaker is not waiting for its report before nor after a *)
(* step changes no server's report.                                        *)
LEMMA ReportSame ==
    ASSUME TypeOK, NEW k \in Client, NEW ph, NEW tr, SetClient(k, ph, tr),
           ph = "fire_current" <=> phase[k] = "fire_current", rebuilds' = rebuilds
    PROVE  Report' = Report
  <1>1. ASSUME NEW g \in Gen, NEW j \in Client
        PROVE  conn'[j] = g /\ phase'[j] = "fire_current" <=>
                   conn[j] = g /\ phase[j] = "fire_current"
    BY DEF SetClient, TypeOK
  <1>2. \A g \in Gen : ReportOf(g)' = ReportOf(g)
    BY <1>1 DEF ReportOf
  <1>3. QED
    BY <1>2 DEF Report

(* What neither calls on_proxy_died nor moves a handler changes no report. *)
LEMMA ReportOfUnchanged ==
    ASSUME UNCHANGED <<rebuilds, conn, phase>>
    PROVE  Report' = Report
  BY DEF Report, ReportOf

(* A stop ends the leases of its cameras. *)
LEMMA StopEnds ==
    ASSUME TypeOK, NEW C \in SUBSET Cam, StopCameras(C), UNCHANGED <<closure, conn, phase>>
    PROVE  Lease!End(C)
  <1>1. server_cache' = [c \in Cam |-> IF c \in C THEN None ELSE server_cache[c]]
    BY DEF StopCameras
  <1>2. Listening' = Listening \ {server_cache[c] : c \in C}
    BY NoneAssumption DEF StopCameras, CloseServers, Listening
  <1>3. Report' = Report
    BY ReportOfUnchanged DEF closure
  <1>4. QED
    BY <1>1, <1>2, <1>3 DEF Lease!End, Listening, Report

(* The rest of stop_all_proxies ends the leases it finds, and at its end    *)
(* forgets those granted meanwhile.                                        *)
LEMMA StopRestEnds ==
    ASSUME TypeOK, NEW t \in Task, NEW rest \in SUBSET Cam, StopRest(t, rest)
    PROVE  Lease!Next
  <1>1. UNCHANGED <<closure, conn, phase>>
    BY DEF StopRest
  <1>2. ASSUME NEW D \in SUBSET Cam, CloseServers({server_cache[c] : c \in D} \ {None}),
               server_cache' = [c \in Cam |-> None]
        PROVE  Lease!EndAll(D)
    <2>1. Listening' = Listening \ {server_cache[c] : c \in D}
      BY <1>2, NoneAssumption DEF CloseServers, Listening
    <2>2. Report' = Report
      BY <1>1, ReportOfUnchanged DEF closure
    <2>3. QED
      BY <1>2, <2>1, <2>2 DEF Lease!EndAll, Lease!NoLease, Listening, Report
  <1>3. \E C \in SUBSET Cam :
            \/ StopCameras(C)
            \/ /\ CloseServers({server_cache[c] : c \in C} \ {None})
               /\ server_cache' = [c \in Cam |-> None]
    <2>1. \A D \in SUBSET rest : D \in SUBSET Cam /\ \A c \in rest \ D : D \cup {c} \in SUBSET Cam
      OBVIOUS
    <2>2. QED
      BY <2>1 DEF StopRest
  <1>4. \E C \in SUBSET Cam : Lease!End(C) \/ Lease!EndAll(C)
    BY <1>1, <1>2, <1>3, StopEnds
  <1>5. QED
    BY <1>4 DEF Lease!Next

(* What the coordinator's tasks do to the leases. *)
LEMMA TaskLeases ==
    ASSUME IInv, NEW t \in Task, TaskStep(t)
    PROVE  [Lease!Next]_(Lease!leases)
  <1>1. TypeOK /\ TaskInv /\ ServerInv
    BY DEF IInv
  <1>2. ASSUME UNCHANGED <<caches, closure, srv, clients>>
        PROVE  UNCHANGED Lease!leases
    <2>1. Report' = Report
      BY <1>2, ReportOfUnchanged DEF closure, clients
    <2>2. QED
      BY <1>2, <2>1 DEF caches, Lease!leases, Report
  <1>3. ASSUME NEW c \in Cam, CallStop(t, c) \/ CallStart(t, c)
        PROVE  Lease!Next
    <2>1. {c} \in SUBSET Cam
      OBVIOUS
    <2>2. Lease!End({c})
      BY <1>1, <1>3, <2>1, StopEnds DEF CallStop, CallStart
    <2>3. QED
      BY <2>1, <2>2 DEF Lease!Next
  <1>4. CASE CallStopAll(t)
    <2>1. {c \in Cam : server_cache[c] # None} \in SUBSET Cam
      OBVIOUS
    <2>2. QED
      BY <1>1, <1>4, <2>1, StopRestEnds DEF CallStopAll
  <1>5. CASE AfterWait(t)
    <2>1. todo[t] \in SUBSET Cam
      BY <1>1 DEF TypeOK
    <2>2. QED
      BY <1>1, <1>2, <1>5, <2>1, StopRestEnds DEF AfterWait
  <1>6. ASSUME NEW g \in Gen, StartListens(t, g)
        PROVE  Lease!Open(g)
    <2>1. g \notin Listening /\ Listening' = Listening \cup {g}
      BY <1>1, <1>6 DEF StartListens, Free, Listening, TypeOK
    <2>2. \A k \in Client : conn[k] # g /\ UNCHANGED <<conn, phase>>
      BY <1>6 DEF StartListens, Free, clients
    <2>3. \A h \in Gen : rebuilds'[h] = IF h = g THEN 0 ELSE rebuilds[h]
      BY <1>1, <1>6 DEF StartListens, TypeOK
    <2>4. ReportOf(g) # "due" /\ ReportOf(g)' = "none"
      BY <1>6, <2>2, <2>3 DEF ReportOf, StartListens, clients
    <2>5. \A h \in Gen \ {g} : ReportOf(h)' = ReportOf(h)
      BY <1>6, <2>3 DEF ReportOf, StartListens, clients
    <2>6. Report' = [Report EXCEPT ![g] = "none"]
      BY <2>4, <2>5 DEF Report
    <2>7. server_cache' = server_cache
      BY <1>6 DEF StartListens, caches
    <2>8. QED
      BY <2>1, <2>4, <2>6, <2>7 DEF Lease!Open, Listening, Report
  <1>7. CASE StartFails(t)
    BY <1>2, <1>7 DEF StartFails
  <1>8. CASE StartReturns(t)
    <2>1. arg[t] \in Cam /\ held[t] \in Gen /\ srv[held[t]] = "bound"
      BY <1>1, <1>8 DEF StartReturns, TaskInv
    <2>2. \A d \in Cam : server_cache[d] # held[t]
      BY <1>1, <2>1, NoneAssumption DEF ServerInv, CachedIsListening
    <2>3. Listening' = Listening /\ held[t] \in Listening
      BY <1>1, <1>8, <2>1 DEF StartReturns, Listening, TypeOK
    <2>4. Report' = Report
      BY <1>8, ReportOfUnchanged DEF StartReturns, closure, clients
    <2>5. Lease!Grant(arg[t], held[t])
      BY <1>8, <2>2, <2>3, <2>4 DEF StartReturns, Register, Lease!Grant, Listening, Report
    <2>6. QED
      BY <2>1, <2>5 DEF Lease!Next
  <1>9. QED
    BY <1>3, <1>4, <1>5, <1>6, <1>7, <1>8
    DEF TaskStep, TaskResumes, WaitClosedReturns, WaitTimesOut, Lease!Next

(* The trip of a breaker makes the report of its server due, or told, if the *)
(* server is the current one, and touches no other report.                 *)
LEMMA TripReports ==
    ASSUME TypeOK, ServerInv, NEW k \in Client, NEW g \in Gen, phase[k] = "connect",
           conn[k] = g, ~died_fired[g], FireOnProxyDied(k, g)
    PROVE  /\ ReportOf(g) = "none"
           /\ IF IsCurrent(g) THEN ReportOf(g)' \in {"due", "told"} ELSE ReportOf(g)' = "none"
           /\ \A h \in Gen \ {g} : ReportOf(h)' = ReportOf(h)
  <1>1. rebuilds[g] = 0 /\ \A j \in Client : conn[j] = g => phase[j] # "fire_current"
    BY DEF ServerInv, BreakerInv, Firing
  <1>2. ReportOf(g) = "none"
    BY <1>1 DEF ReportOf
  <1>3. \A j \in Client \ {k} : conn'[j] = conn[j] /\ phase'[j] = phase[j]
    BY DEF FireOnProxyDied, TypeOK
  <1>4. CASE Active(g)
    <2>1. rebuilds' = rebuilds /\ conn' = conn
      BY <1>4 DEF FireOnProxyDied
    <2>2. phase'[k] = IF IsCurrent(g) THEN "fire_current" ELSE "fire_stale"
      BY <1>4 DEF FireOnProxyDied, TypeOK
    <2>3. IF IsCurrent(g) THEN ReportOf(g)' = "due" ELSE ReportOf(g)' = "none"
      BY <1>1, <1>3, <2>1, <2>2 DEF ReportOf
    <2>4. \A h \in Gen \ {g} : ReportOf(h)' = ReportOf(h)
      BY <1>3, <2>1 DEF ReportOf
    <2>5. QED
      BY <1>2, <2>3, <2>4
  <1>5. CASE ~Active(g)
    <2>1. phase'[k] = "done"
      BY <1>5 DEF FireOnProxyDied, TypeOK
    <2>2. rebuilds'[g] = (IF IsCurrent(g) THEN 1 ELSE 0)
      BY <1>1, <1>5 DEF FireOnProxyDied, TypeOK
    <2>3. \A h \in Gen \ {g} : rebuilds'[h] = rebuilds[h]
      BY <1>5 DEF FireOnProxyDied, TypeOK
    <2>4. IF IsCurrent(g) THEN ReportOf(g)' = "told" ELSE ReportOf(g)' = "none"
      BY <1>1, <1>3, <2>1, <2>2 DEF ReportOf
    <2>5. ASSUME NEW h \in Gen \ {g}, NEW j \in Client
          PROVE  conn'[j] = h /\ phase'[j] = "fire_current" <=>
                     conn[j] = h /\ phase[j] = "fire_current"
      BY <1>3, <2>1
    <2>6. \A h \in Gen \ {g} : ReportOf(h)' = ReportOf(h)
      BY <2>3, <2>5 DEF ReportOf
    <2>7. QED
      BY <1>2, <2>4, <2>6
  <1>6. QED
    BY <1>4, <1>5

(* A trip ends the lease of its own server, or that of none. *)
LEMMA TripLeases ==
    ASSUME TypeOK, ServerInv, OwnerInv, NEW k \in Client, NEW g \in Gen,
           phase[k] = "connect", conn[k] = g, ~died_fired[g], FireOnProxyDied(k, g)
    PROVE  Lease!Next
  <1>1. owner[g] \in Cam
    BY NoneAssumption DEF OwnerInv, ServerInv, ConnInv
  <1>2. Listening' = Listening \ {g}
    BY DEF FireOnProxyDied, CloseServers, Listening
  <1>3. CASE IsCurrent(g)
    <2>1. PICK r \in {"due", "told"} : ReportOf(g)' = r
      BY <1>3, TripReports
    <2>2. ReportOf(g) = "none" /\ Report' = [Report EXCEPT ![g] = r]
      <3>1. ReportOf(g) = "none" /\ \A h \in Gen \ {g} : ReportOf(h)' = ReportOf(h)
        BY TripReports
      <3>2. QED
        BY <2>1, <3>1 DEF Report
    <2>3. server_cache' = [server_cache EXCEPT ![owner[g]] = None]
      BY <1>3 DEF FireOnProxyDied, EvictCurrent
    <2>4. server_cache[owner[g]] = g
      BY <1>3 DEF IsCurrent
    <2>5. Report[g] = "none" /\ g # None
      BY <2>2, NoneAssumption DEF Report
    <2>6. PICK c \in Cam : c = owner[g]
      BY <1>1
    <2>7. Lease!Lose(c)
      BY <1>2, <2>2, <2>3, <2>4, <2>5, <2>6 DEF Lease!Lose, Listening, Report
    <2>8. QED
      BY <2>7 DEF Lease!Next
  <1>4. CASE ~IsCurrent(g)
    <2>1. \A c \in Cam : server_cache[c] # g
      BY <1>4, NoneAssumption DEF IsCurrent, ServerInv, CachedIsListening
    <2>2. server_cache' = server_cache
      BY <1>4 DEF FireOnProxyDied, EvictCurrent
    <2>3. Report' = Report
      BY <1>4, TripReports DEF Report
    <2>4. Lease!Lapse(g)
      BY <1>2, <2>1, <2>2, <2>3 DEF Lease!Lapse, Listening, Report
    <2>5. QED
      BY <2>4 DEF Lease!Next
  <1>5. QED
    BY <1>3, <1>4

(* The end of the breaker's wait tells the loss of a server, if that is due. *)
LEMMA AfterFireLeases ==
    ASSUME TypeOK, ServerInv, NEW k \in Client, NEW g \in Gen, conn[k] = g, AfterFire(k)
    PROVE  [Lease!Next]_(Lease!leases)
  <1>1. rebuilds[g] = 0 /\ \A j \in Client : Firing(j) /\ conn[j] = g => j = k
    BY DEF AfterFire, ServerInv, BreakerInv, Firing
  <1>2. /\ phase'[k] = "done"
        /\ \A j \in Client \ {k} : conn'[j] = conn[j] /\ phase'[j] = phase[j]
    BY DEF AfterFire, SetClient, TypeOK
  <1>3. server_cache' = server_cache /\ Listening' = Listening
    BY DEF AfterFire, caches, Listening
  <1>4. \A h \in Gen \ {g} : rebuilds'[h] = rebuilds[h]
    BY DEF AfterFire, TypeOK
  <1>5. ASSUME NEW h \in Gen \ {g}, NEW j \in Client
        PROVE  conn'[j] = h /\ phase'[j] = "fire_current" <=>
                   conn[j] = h /\ phase[j] = "fire_current"
    BY <1>2, <1>4 DEF AfterFire, SetClient, TypeOK
  <1>6. \A h \in Gen \ {g} : ReportOf(h)' = ReportOf(h)
    BY <1>4, <1>5 DEF ReportOf
  <1>7. CASE phase[k] = "fire_current"
    <2>1. rebuilds'[g] = 1
      BY <1>1, <1>7 DEF AfterFire, TypeOK
    <2>2. ReportOf(g) = "due" /\ ReportOf(g)' = "told"
      BY <1>1, <1>7, <2>1 DEF ReportOf
    <2>3. Report' = [Report EXCEPT ![g] = "told"]
      BY <1>6, <2>2 DEF Report
    <2>4. Report[g] = "due"
      BY <2>2 DEF Report
    <2>5. Lease!Tell(g)
      BY <1>3, <2>3, <2>4 DEF Lease!Tell, Listening, Report
    <2>6. QED
      BY <2>5 DEF Lease!Next
  <1>8. CASE phase[k] = "fire_stale"
    <2>1. rebuilds' = rebuilds
      BY <1>8 DEF AfterFire, TypeOK
    <2>2. ReportOf(g) = "none" /\ ReportOf(g)' = "none"
      BY <1>1, <1>2, <1>8, <2>1 DEF ReportOf, Firing
    <2>3. Report' = Report
      BY <1>6, <2>2 DEF Report
    <2>4. QED
      BY <1>3, <2>3 DEF Lease!leases, Listening, Report
  <1>9. QED
    BY <1>7, <1>8 DEF AfterFire

(* What a connection's steps do to the leases. *)
LEMMA ClientLeases ==
    ASSUME IInv, OwnerInv, NEW k \in Client, ClientStep(k)
    PROVE  [Lease!Next]_(Lease!leases)
  <1>1. TypeOK /\ ServerInv
    BY DEF IInv
  <1>2. ASSUME server_cache' = server_cache, srv' = srv, Report' = Report
        PROVE  UNCHANGED Lease!leases
    BY <1>2 DEF Lease!leases, Report
  <1>3. ASSUME NEW ph \in HandlerState, NEW tr, SetClient(k, ph, tr),
               ph = "fire_current" <=> phase[k] = "fire_current",
               rebuilds' = rebuilds, server_cache' = server_cache, srv' = srv
        PROVE  UNCHANGED Lease!leases
    BY <1>1, <1>2, <1>3, ReportSame
  <1>4. ASSUME NEW g \in Gen, ClientConnects(k, g)
        PROVE  UNCHANGED Lease!leases
    <2>1. phase[k] = "done" \/ conn[k] # None
      BY <1>1 DEF ServerInv, ConnInv
    <2>2. ASSUME NEW h \in Gen, NEW j \in Client
          PROVE  conn'[j] = h /\ phase'[j] = "fire_current" <=>
                     conn[j] = h /\ phase[j] = "fire_current"
      BY <1>1, <1>4, <2>1 DEF ClientConnects, TypeOK
    <2>3. \A h \in Gen : ReportOf(h)' = ReportOf(h)
      BY <1>4, <2>2 DEF ReportOf, ClientConnects, closure
    <2>4. QED
      BY <1>2, <1>4, <2>3 DEF Report, ClientConnects, caches
  <1>5. CASE ConnectSucceeds(k)
    BY <1>3, <1>5 DEF ConnectSucceeds, caches, HandlerState
  <1>6. CASE ConnectFails(k)
    <2>1. conn[k] \in Gen /\ phase[k] = "connect"
      BY <1>1, <1>6 DEF ConnectFails, TypeOK, ServerInv, ConnInv
    <2>2. CASE Trips(conn[k]) /\ FireOnProxyDied(k, conn[k])
      BY <1>1, <2>1, <2>2, TripLeases DEF Trips
    <2>3. CASE SetClient(k, "done", Closed(transport[k])) /\ UNCHANGED <<caches, srv, rebuilds>>
      BY <1>3, <2>1, <2>3 DEF caches, HandlerState
    <2>4. QED
      BY <1>6, <2>2, <2>3 DEF ConnectFails
  <1>7. CASE AfterFire(k)
    <2>1. PICK g \in Gen : conn[k] = g
      BY <1>1, <1>7 DEF AfterFire, TypeOK, ServerInv, ConnInv
    <2>2. QED
      BY <1>1, <1>7, <2>1, AfterFireLeases
  <1>8. CASE RelayEnds(k)
    BY <1>3, <1>8 DEF RelayEnds, caches, closure, HandlerState
  <1>9. CASE PeerStalls(k) \/ PeerResumes(k)
    BY <1>2, <1>9, ReportOfUnchanged DEF PeerStalls, PeerResumes, caches, closure
  <1>10. CASE TransportLost(k) \/ PeerResets(k)
    BY <1>1, <1>3, <1>10 DEF TransportLost, PeerResets, caches, closure, TypeOK
  <1>11. QED
    BY <1>4, <1>5, <1>6, <1>7, <1>8, <1>9, <1>10
    DEF ClientStep, HandlerResumes, FireWaitReturns, FireTimesOut

(* The dicts and the breaker, with every interleaving of tasks and handlers, *)
(* implement the leases of ProxyLease.                                     *)
THEOREM LeaseRefinement == Spec => ImplementsLease
  <1>1. Init => Lease!Init /\ OwnerInv
    BY DEF Init, Lease!Init, Lease!NoLease, ReportOf, OwnerInv
  <1>2. IInv /\ OwnerInv /\ [Next]_vars => [Lease!Next]_(Lease!leases)
    <2>1. SUFFICES ASSUME IInv, OwnerInv, [Next]_vars
                   PROVE  [Lease!Next]_(Lease!leases)
      OBVIOUS
    <2>2. CASE (\E g \in Gen : WindowElapses(g)) \/ UNCHANGED vars
      <3>1. UNCHANGED <<server_cache, srv, rebuilds, conn, phase>>
        BY <2>2 DEF WindowElapses, vars, caches, closure, clients
      <3>2. Report' = Report
        BY <3>1, ReportOfUnchanged
      <3>3. QED
        BY <3>1, <3>2 DEF Lease!leases, Report
    <2>3. QED
      BY <2>1, <2>2, TaskLeases, ClientLeases DEF Next
  <1>3. IInv /\ OwnerInv /\ [Next]_vars => OwnerInv'
    BY OwnerStep
  <1>4. Spec => []OwnerInv
    BY <1>1, <1>3, Invariance, PTL DEF Spec
  <1>5. QED
    BY <1>1, <1>2, <1>4, Invariance, PTL DEF Spec, ImplementsLease, Lease!Spec

=============================================================================
