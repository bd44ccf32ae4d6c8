------------------------------- MODULE Relay -------------------------------
(***************************************************************************)
(* One relayed connection of the TLS proxy (tls_proxy.py, _pipe and the    *)
(* second half of _handle_client): a pipe from the client to the camera    *)
(* with an idle timeout, that rewrites SETUP requests, and a pipe from the *)
(* camera to the client without one.  A pipe that ends closes the writer   *)
(* it writes to, and the other pipe learns of that only when the transport *)
(* is lost, which asyncio puts off until its buffer is flushed.            *)
(*                                                                         *)
(* Client, camera, the transports and the stop of the server are external. *)
(* What the client sends is far less than a write buffer holds, so drain() *)
(* on the way to the camera does not wait.                                 *)
(***************************************************************************)
EXTENDS Naturals, Sequences, SequencesExt

CONSTANTS
    MaxSetup,       \* bound: SETUP requests of the client
    HighWater,      \* items a write buffer holds before drain() waits
    MaxPieces,      \* bound: pieces on their way from the client
    MaxQueue,       \* bound: items on their way from the camera
    LastNumber      \* bound: what the camera may take a torn number for

ASSUME RelayAssumption ==
    /\ MaxSetup \in Nat /\ HighWater \in Nat \ {0}
    /\ MaxPieces \in Nat /\ MaxQueue \in Nat /\ LastNumber \in Nat

Request == 1 .. MaxSetup

(* A SETUP that asks for UDP, cut where a cut makes a difference: "SET",    *)
(* "UP ...", "Transport: RTP/", "AVP;unicast;client_port=5" and             *)
(* "0000-50001 ...".  One read may return any number of these pieces, also *)
(* of several requests; request 0 is any other traffic of the client.      *)
Part == {"verb", "line", "transport", "port", "rest"}

Piece == [req : Request, part : Part] \cup [req : {0}, part : {"other"}]

(* 0: media; n: the reply to SETUP n. *)
Item == 0 .. MaxSetup

VARIABLES
    client,         \* "talking", "silent" for good, or "closed"
    camera,         \* "up" or "gone"
    setups,         \* SETUP requests the client has sent
    heard,          \* those it has the reply of
    early,          \* history: those it sent with a reply outstanding
    from_client,    \* pieces for client_reader
    from_camera,    \* items for tls_reader
    to_client,      \* client_writer's buffer, not yet taken by the client
    client_tr,      \* client_writer's transport
    tls_tr,         \* tls_writer's transport
    interleaved,    \* local interleaved_counter of the C->CAM pipe
    given,          \* history: channels the camera finds in the SETUPs, if any
    torn,           \* history: SETUPs it finds the end of a client_port in as well
    arrived,        \* history: SETUPs the camera got and has not answered
    up,             \* C->CAM pipe: "read" or "ended"
    down,           \* CAM->C pipe: "read", "drain" or "ended"
    handler,        \* _handle_client: "gather" or "done"
    stopped,        \* history: close_clients() reached the connection
    lost            \* history: an item the proxy had read was dropped

ends  == <<client, camera>>
rtsp  == <<setups, heard, early>>
asked == <<interleaved, given, torn, arrived>>
trs   == <<client_tr, tls_tr>>
pipes == <<up, down, handler>>
hist  == <<stopped, lost>>
vars  == <<ends, rtsp, from_client, from_camera, to_client, asked, trs, pipes, hist>>

Init ==
    /\ client = "talking" /\ camera = "up"
    /\ setups = 0 /\ heard = {} /\ early = {}
    /\ from_client = <<>> /\ from_camera = <<>> /\ to_client = <<>>
    /\ client_tr = "open" /\ tls_tr = "open"
    /\ interleaved = 0 /\ given = [n \in Request |-> {}]
    /\ torn = {} /\ arrived = {}
    /\ up = "read" /\ down = "read" /\ handler = "gather"
    /\ stopped = FALSE /\ lost = FALSE

(* Mutated form of Closing: the transport is aborted. *)
Aborted(tr) == "lost"

(* transport.close(): connection_lost follows once the buffer is empty. *)
Closing(tr) == IF tr = "open" THEN "closing" ELSE tr

-----------------------------------------------------------------------------
(* The client, which reads when it likes, if at all.                       *)

ClientSends(pieces) ==
    /\ client = "talking" /\ client_tr = "open"
    /\ Len(from_client) + Len(pieces) <= MaxPieces
    /\ from_client' = from_client \o pieces
    /\ UNCHANGED <<ends, from_camera, to_client, asked, trs, pipes, hist>>

Setup(n) == <<[req |-> n, part |-> "verb"], [req |-> n, part |-> "line"],
              [req |-> n, part |-> "transport"], [req |-> n, part |-> "port"],
              [req |-> n, part |-> "rest"]>>

(* A SETUP, after the reply to the one before or, pipelined, without it. *)
SendsSetup ==
    /\ setups < MaxSetup
    /\ LET n == setups + 1
       IN  /\ ClientSends(Setup(n))
           /\ setups' = n
           /\ early' = IF \A m \in 1 .. setups : m \in heard THEN early ELSE early \cup {n}
    /\ UNCHANGED heard

(* Bound: no more of it while a piece of it is on its way. *)
SendsOther ==
    /\ \A i \in DOMAIN from_client : from_client[i].req # 0
    /\ ClientSends(<<[req |-> 0, part |-> "other"]>>)
    /\ UNCHANGED rtsp

ClientReads ==
    /\ client # "closed"
    /\ to_client # <<>>
    /\ to_client' = Tail(to_client)
    /\ heard' = heard \cup ({Head(to_client)} \ {0})
    /\ UNCHANGED <<ends, setups, early, from_client, from_camera, asked, trs, pipes, hist>>

(* It stops sending for good, or closes the connection. *)
ClientStops ==
    /\ client # "closed"
    /\ client' \in {"silent", "closed"} \ {client}
    /\ UNCHANGED <<camera, rtsp, from_client, from_camera, to_client, asked, trs, pipes, hist>>

-----------------------------------------------------------------------------
(* The camera.                                                             *)

CameraSends(item) ==
    /\ camera = "up" /\ tls_tr = "open"
    /\ Len(from_camera) < MaxQueue
    /\ from_camera' = Append(from_camera, item)
    /\ UNCHANGED <<ends, rtsp, from_client, to_client, interleaved, given, torn, trs, pipes, hist>>

CameraReplies(n) ==
    /\ n \in arrived
    /\ CameraSends(n)
    /\ arrived' = arrived \ {n}

SendsMedia ==
    /\ CameraSends(0)
    /\ UNCHANGED arrived

(* The connection to the camera ends; TCP keepalive finds a dead one. *)
CameraGoes ==
    /\ camera = "up"
    /\ camera' = "gone"
    /\ tls_tr' = "lost"
    /\ UNCHANGED <<client, rtsp, from_client, from_camera, to_client, asked,
                   client_tr, pipes, hist>>

-----------------------------------------------------------------------------
(* The transports.                                                         *)

(* stop_tls_proxy or the breaker closes the server's clients. *)
ServerCloses ==
    /\ ~stopped
    /\ stopped' = TRUE
    /\ client_tr' = Closing(client_tr)
    /\ UNCHANGED <<ends, rtsp, from_client, from_camera, to_client, asked, tls_tr, pipes, lost>>

ClientTransportLost ==
    /\ client_tr = "closing" /\ to_client = <<>>
    /\ client_tr' = "lost"
    /\ UNCHANGED <<ends, rtsp, from_client, from_camera, to_client, asked, tls_tr, pipes, hist>>

(* Data sent to a client that is gone is answered with a reset. *)
ClientResets ==
    /\ client = "closed"
    /\ to_client # <<>>
    /\ client_tr' = "lost"
    /\ to_client' = <<>>
    /\ UNCHANGED <<ends, rtsp, from_client, from_camera, asked, tls_tr, pipes, hist>>

(* The TLS shutdown is answered, or timed out. *)
TlsTransportLost ==
    /\ tls_tr = "closing"
    /\ tls_tr' = "lost"
    /\ UNCHANGED <<ends, rtsp, from_client, from_camera, to_client, asked,
                   client_tr, pipes, hist>>

-----------------------------------------------------------------------------
(* The pipe from the client to the camera.                                 *)

PartsOf(chunk, n) == {p.part : p \in {q \in ToSet(chunk) : q.req = n}}

(* b"SETUP " in data *)
HasSetup(chunk) == \E n \in Request : {"verb", "line"} \subseteq PartsOf(chunk, n)

(* The SETUPs the re.sub applies to: the pattern asks for one character of  *)
(* the client_port, and only in a chunk that a SETUP begins in.            *)
Rewritten(chunk) ==
    {n \in Request : HasSetup(chunk) /\ {"transport", "port"} \subseteq PartsOf(chunk, n)}

Whole(chunk) == {n \in Request : "rest" \in PartsOf(chunk, n)}

(* Mutated form of Channels: the same channels for every SETUP. *)
FirstChannels(hi) == {0, hi - interleaved}

(* interleaved={lo}-{hi} *)
Channels(hi) == {interleaved, hi}

(* read() returns what is there, or only the first part of it.  If it ends *)
(* inside the client_port, the camera gets the rest of that behind hi, and *)
(* may read the two as one number.                                         *)
UpForwards(n) ==
    /\ up = "read"
    /\ n \in 1 .. Len(from_client)
    /\ LET chunk  == SubSeq(from_client, 1, n)
           forced == Rewritten(chunk)
           cut    == forced \ Whole(chunk)
       IN  /\ from_client' = SubSeq(from_client, n + 1, Len(from_client))
           /\ interleaved' = IF HasSetup(chunk) THEN interleaved + 2 ELSE interleaved
           /\ IF tls_tr = "lost"
              THEN up' = "ended" /\ UNCHANGED <<given, torn, arrived>>
              ELSE /\ \E number \in {interleaved + 1} \cup (interleaved + 1 .. LastNumber) :
                         given' = [m \in Request |->
                                     IF m \in cut THEN Channels(number)
                                     ELSE IF m \in forced THEN Channels(interleaved + 1)
                                     ELSE given[m]]
                   /\ torn' = torn \cup cut
                   /\ arrived' = arrived \cup Whole(chunk)
                   /\ UNCHANGED up
    /\ UNCHANGED <<ends, rtsp, from_camera, to_client, trs, down, handler, hist>>

(* Mutated form of UpCloses: the pipe just returns. *)
UpClosesNothing == UNCHANGED trs

(* The finally clause of the pipe. *)
UpCloses ==
    /\ tls_tr' = Closing(tls_tr)
    /\ UNCHANGED client_tr

UpEof == from_client = <<>> /\ (client = "closed" \/ client_tr = "lost")

(* Mutated form of UpIdle: read() is not bounded. *)
NeverIdle == FALSE

(* Nothing from the client for _CLIENT_TO_CAM_IDLE_TIMEOUT. *)
UpIdle == from_client = <<>>

UpEnds ==
    /\ up = "read"
    /\ UpEof \/ UpIdle
    /\ up' = "ended"
    /\ UpCloses
    /\ UNCHANGED <<ends, rtsp, from_client, from_camera, to_client, asked, down, handler, hist>>

-----------------------------------------------------------------------------
(* The pipe from the camera to the client.                                 *)

IsFull(buffer) == Len(buffer) >= HighWater

(* Mutated form of AfterWrite: the pipe reads on without drain(). *)
ReadsOn(buffer) == "read"

(* drain() returns at once unless the buffer is full. *)
AfterWrite(buffer) == IF IsFull(buffer) THEN "drain" ELSE "read"

(* write() on a transport that is lost, or closing with nothing left to     *)
(* flush, drops the data; drain() raises on a lost one, and waits while    *)
(* the buffer is full.                                                     *)
DownForwards ==
    /\ down = "read"
    /\ from_camera # <<>>
    /\ from_camera' = Tail(from_camera)
    /\ IF client_tr = "lost" \/ (client_tr = "closing" /\ to_client = <<>>)
       THEN /\ lost' = TRUE
            /\ down' = IF client_tr = "lost" THEN "ended" ELSE "read"
            /\ UNCHANGED to_client
       ELSE /\ to_client' = Append(to_client, Head(from_camera))
            /\ down' = AfterWrite(to_client')
            /\ UNCHANGED lost
    /\ client_tr' = IF down' = "ended" THEN Closing(client_tr) ELSE client_tr
    /\ UNCHANGED <<ends, rtsp, from_client, asked, tls_tr, up, handler, stopped>>

Drained ==
    /\ down = "drain"
    /\ \/ client_tr = "lost" /\ down' = "ended"
       \/ client_tr # "lost" /\ ~IsFull(to_client) /\ down' = "read"
    /\ UNCHANGED <<ends, rtsp, from_client, from_camera, to_client, asked, trs,
                   up, handler, hist>>

DownEnds ==
    /\ down = "read"
    /\ from_camera = <<>> /\ tls_tr = "lost"
    /\ down' = "ended"
    /\ client_tr' = Closing(client_tr)
    /\ UNCHANGED <<ends, rtsp, from_client, from_camera, to_client, asked, tls_tr,
                   up, handler, hist>>

(* gather() returns: the finally clause closes both sides. *)
HandlerReturns ==
    /\ handler = "gather" /\ up = "ended" /\ down = "ended"
    /\ handler' = "done"
    /\ client_tr' = Closing(client_tr)
    /\ tls_tr' = Closing(tls_tr)
    /\ UNCHANGED <<ends, rtsp, from_client, from_camera, to_client, asked, up, down, hist>>

Loop ==
    \/ \E n \in 1 .. MaxPieces : UpForwards(n)
    \/ UpEnds
    \/ DownForwards \/ Drained \/ DownEnds
    \/ HandlerReturns
    \/ ClientTransportLost \/ ClientResets \/ TlsTransportLost

Next ==
    \/ SendsSetup \/ SendsOther \/ ClientReads \/ ClientStops
    \/ SendsMedia \/ CameraGoes
    \/ \E n \in Request : CameraReplies(n)
    \/ ServerCloses
    \/ Loop

Spec == Init /\ [][Next]_vars

(* The event loop runs what is ready and the idle timeout passes.  Nothing *)
(* is assumed of the camera, nor that the client ever stops or reads.      *)
Fairness ==
    /\ WF_vars(\E n \in 1 .. MaxPieces : UpForwards(n)) /\ WF_vars(UpEnds)
    /\ WF_vars(DownForwards \/ Drained \/ DownEnds)
    /\ WF_vars(HandlerReturns)
    /\ WF_vars(ClientTransportLost) /\ WF_vars(ClientResets) /\ WF_vars(TlsTransportLost)

FairSpec == Spec /\ Fairness

(* A client that goes on reading what it is sent. *)
ReadingSpec == FairSpec /\ WF_vars(ClientReads)

-----------------------------------------------------------------------------
(* Every variable keeps its kind of value; what the client awaits is on its *)
(* way, and at most one write goes past a full buffer.                     *)
TypeOK ==
    /\ client \in {"talking", "silent", "closed"}
    /\ camera \in {"up", "gone"}
    /\ setups \in 0 .. MaxSetup /\ heard \subseteq 1 .. setups /\ early \subseteq 1 .. setups
    /\ from_client \in Seq(Piece) /\ Len(from_client) <= MaxPieces
    /\ from_camera \in Seq(Item) /\ Len(from_camera) <= MaxQueue
    /\ to_client \in Seq(Item) /\ Len(to_client) <= HighWater
    /\ client_tr \in {"open", "closing", "lost"} /\ tls_tr \in {"open", "closing", "lost"}
    /\ interleaved \in 0 .. 2 * MaxSetup
    /\ given \in [Request -> SUBSET Nat] /\ torn \subseteq Request
    /\ arrived \subseteq Request
    /\ up \in {"read", "ended"} /\ down \in {"read", "drain", "ended"}
    /\ handler \in {"gather", "done"}
    /\ stopped \in BOOLEAN /\ lost \in BOOLEAN

(* Two SETUPs name the same interleaved channel, which mixes up the tracks  *)
(* of a stream, only if the client sent the later one without waiting for  *)
(* a reply, or if a read() ended inside the client_port of the earlier     *)
(* one, whose header then names a number the proxy did not count.          *)
ChannelsDistinct ==
    \A m, n \in Request :
        m < n /\ given[m] \cap given[n] # {} => n \in early \/ m \in torn

(* What the camera sent before it ended reaches the client: the proxy drops *)
(* data it has read only when the client has closed or is closed by a stop. *)
TailIsDelivered ==
    lost \/ (client_tr = "lost" /\ to_client # <<>>) => client = "closed" \/ stopped

(* "A dead client silently stops sending, so a read timeout is how we       *)
(* detect and clean up."                                                   *)
SilentClientIsCleanedUp == client = "silent" ~> handler = "done"

(* When the client closes, the camera goes or the server is stopped, both   *)
(* connections are released, whatever the other side goes on sending.      *)
EndReachesBothSides ==
    client = "closed" \/ camera = "gone" \/ stopped
        ~> client_tr = "lost" /\ tls_tr = "lost"
=============================================================================
