# Formal models of bosch-shc-camera-client

`src/bosch_shc_camera_client` is an asyncio client library for Bosch Smart Home
cameras: it talks to the Bosch cloud, to the camera's RCP endpoint (through the
cloud proxy or on the LAN), and it runs a local TCP→TLS proxy so that a player
can read the camera's RTSPS stream. A long-running coordinator owns the state and
passes it in (dicts, sessions, locks). The TLA+ modules here model the
parts where that sharing, the awaits, the timeouts and the failures make
correctness hard; TLC checks them on small instances, TLAPS proves the safety
properties for all instances.

All line numbers are of files in `src/bosch_shc_camera_client/`.

## Inventory

| Component | State | Operations | Talks to | What is hard, what makes it correct | Model |
|---|---|---|---|---|---|
| Proxy lifecycle, `tls_proxy.py` 63–88, 331–342, 359–418 | caller's `port_cache`, `server_cache`; listening servers | `start_tls_proxy`, `stop_tls_proxy`, `stop_all_proxies` | asyncio servers; called by coordinator tasks that may overlap | calls suspend in `wait_closed()` and `start_server`; both dicts agree, a registered server listens, no listener is lost, calls return although a client stalls | `TlsProxy` |
| Connection handlers and circuit breaker, 83–170, 243–329 | closure of one server: `fail_count`, `first_fail_at`, `died_fired` | `_handle_client`, `_fire_on_proxy_died` | evicts from the caller's dicts, calls `on_proxy_died` | a handler outlives its server's registration; trips must not hit a newer server, are reported once, only on a real burst | `TlsProxy`, `BurstBreaker` |
| Byte relay, 172–241 | two pipes per connection | `_pipe`, SETUP rewriting | camera, player | half-close, an idle timeout on one direction only, split requests; both ends are released, the camera's last data arrives | `Relay` |
| Keepalive, pre-warm, confirm, 421–733 | one socket and a retry counter per call | `rtsp_keepalive`, `pre_warm_rtsp`, `confirm_encoder_ready` | connects through the proxy | its failed attempts feed the breaker of the proxy it waits for, and its timeouts do not stop the proxy's connects; it leaks no socket and is bounded | `PreWarm` with `BurstBreaker` |
| RCP session, `rcp.py` 34–46, 67–192, 430–522 | caller's `session_cache`, `session_locks` | `get_cached_rcp_session`, `rcp_session`, `rcp_read` | cloud proxy: one live session per hash | handshakes race, answers come late, dead ids are replayed | `RcpSession` |
| RCP poll, 731–1119 | caller's `cmd_failures` per camera | `fetch_rcp_camera_data` | uses the RCP session | twelve hand-written blocks that count failures; polls overlap | `RcpFetch` |
| RCP parsers, 528–702 | none | pure decoding | – | wrong lengths | not modelled: no state, no ordering |
| Local RCP, `rcp.py` 203–424, `local_rcp.py` | none | LAN reads and writes | camera | a write that may or may not have been done | `CameraWrite` (writes) |
| Settings, `settings.py` | none; the object lives in the cloud | `_merge_put`, `_send`, getters, setters | Bosch cloud | read-merge-write without a version: lost updates; a PUT that timed out may have been applied | `SettingsWrite` (writes) |
| Cloud primitives, `cloud.py` | none | `cloud_put_json`, `cloud_set_camera_light`, … | Bosch cloud | two PUTs of which either counts as success; a PUT that timed out may still be applied | `CameraWrite` |
| Digest requests, `auth_utils.py` | none | `async_digest_request` | camera | stale nonce, retry, timeout per request; a write is not done twice | `CameraWrite` |
| Pre-roll ring, `mini_nvr.py` | segment files | list, prune, finalized test | ffmpeg writes the same directory | files vanish and appear between listing and use, prunes overlap; only surplus old segments go | `PrerollRing` |
| Live connection, `live.py` | none | one PUT, validation | Bosch cloud | – | not modelled: a single request |
| Cameras, states, client, `cameras.py`, `states.py`, `client.py` | none mutable | fetch and parse | Bosch cloud | – | not modelled: parsing |
| Events, actions, media, `events.py`, `actions.py`, `media_transfer.py` | none | one-shot requests, a chunked copy | Bosch cloud, SMB | – | not modelled: sequential I/O |

Interactions: the coordinator's tasks and the handlers of the proxy's servers
share the two dicts; handlers call back into the coordinator (`on_proxy_died`);
RCP callers share the session cache and its locks; the polls of a camera share
`cmd_failures`; pre-warm and keepalive are clients of the proxy.

The hazards, each at its line and with the properties about it, are in
`PROJECT.json`.

## Plan

In this order, most important behaviour first. All modules are written.

1. `TlsProxy`: tasks × handlers × servers; safety, liveness, proofs.
2. `BurstBreaker`: the breaker with its clock; proofs.
3. `RcpSession`: lock, handshake, invalidation against the external proxy; proofs.
4. `RcpFetch`: three strikes under overlapping polls; proofs.
5. `SettingsWrite`: `_merge_put` and `put_setting` with PUTs that are applied after
   their timeout; proofs.
6. `ProxyLease`, the abstract specification `TlsProxy` implements.
7. `PreWarm`, composed with `BurstBreaker`; proofs that the composition keeps the
   breaker's guarantees.
8. `Relay`: the two pipes of one connection.
9. `CameraWrite`: cloud and LAN writes with the Digest exchange.
10. `PrerollRing`: listing, pruning and probing against a writing ffmpeg.

Every invariant the passing runs check is proved, and so are the action properties
and the refinement of `ProxyLease`; see "What is proved". Left: what the proof system
cannot do (the liveness properties).

No module uses RECURSIVE operators, so that all of them can be proved about.

## The modules

### TlsProxy

One event loop: control changes hands only at an `await`, so each action is the
code between two awaits. `Task` are coordinator tasks (idle, or suspended in
`wait_closed()` of one of the three callers, or in `start_server`). `Client` are
connection slots; a slot has the server that accepted it, the await its
`_handle_client` is in, and its transport. `Gen` are server objects; a closed
server nobody refers to may be returned again as a new object, so a finite `Gen`
bounds the servers alive at once and not how many are ever made.

| Code | Model |
|---|---|
| `stop_tls_proxy` 387–392, then 393–405 | `StopCameras`, `AfterWait`; `CallStop` is the call up to its first await |
| `start_tls_proxy` 80–81, 83–88, 331–342 | `CallStart`, `StartListens`, `StartFails`, `StartReturns` |
| `stop_all_proxies` 413–418 | `CallStopAll`, `StopRest` (loop to the next wait, then `clear()`) |
| `_handle_client` 247–256 / 293–329 / 257–291 | `ClientConnects`, `ConnectSucceeds`, `RelayEnds`, `ConnectFails` |
| `_fire_on_proxy_died` 90–139 / 140–170 | `FireOnProxyDied`, `AfterFire` |
| `asyncio.timeout(5)` 138, 394 | `FireTimesOut`, `WaitTimesOut` |

The port is identified with the server that listens on it. `start_server` is two
steps because it binds before its last `sleep(0)`. `transport.close()` with a
full write buffer leaves the transport "wedged" until the peer reads or resets,
which is what makes `wait_closed()` hang. The breaker's clock is one
flag, `window_over`. Cancellation of tasks is not modelled.

### ProxyLease

What a coordinator may rely on, without calls, awaits and connections: a lease per
camera on a listening server; a lease ends because its owner ends it or because
that server lost its camera, and only the latter is told, once. `TlsProxy`
implements it under the mapping `lease` = `server_cache`, `listening` = the
servers that are bound or open, `report` = `ReportOf` (due while the breaker
that tripped as the current one waits in `wait_closed()`, told after
`on_proxy_died`). A `stop_all_proxies` is `End` or, if it clears what another task
has registered meanwhile, `EndAll`.

### BurstBreaker

The closure variables of one server with the clock as a number, and as history
the times of the failures since the last success.

### PreWarm

Extends `BurstBreaker`. `Caller` are tasks in `pre_warm_rtsp`
("warm"), `confirm_encoder_ready` or `rtsp_keepalive`; each attempt is a
connection `Conn` with the probe's side (`line`) and the proxy's (`up`). The
proxy's connect is `ConnectFails` or `ConnectSucceeds` of the breaker. A probe that
stops waiting closes its side; the connect goes on for up to its own timeout, ends as a
failure the breaker counts or as a success that resets it, and only then
notices. A trip cuts off the connections that relay. `TimePasses` is the breaker's
`Tick`, when nothing is due. The keepalive's CSeq, the requests' text and the hash
are left out.

### Relay

One connection after `open_connection` succeeded: `up` and `down` are the two
`_pipe` coroutines (172–241), `handler` the `gather` and the `finally` of
`_handle_client` (299–329). A `read()` returns any non-empty prefix of what is there;
a SETUP is five pieces, "SET", "UP ...", "Transport: RTP/", "AVP;unicast;client_port=5" and
"0000-50001 ...", one for each place where a cut changes what lines 220–231 do, so that
it can be split over reads or merged with another in all these ways. A cut in front of
`client_port` leaves the header to no chunk or to one without "SETUP ", and it is passed on as it
is; a cut inside it has the first part rewritten and the rest forwarded behind it. The
camera may then take `interleaved=0-10000-50001` for a higher second channel, which is `number` in `UpForwards`; that
it takes it for a lower one (a number modulo a byte, say) is left out.
`transport.close()` makes a transport "closing" until
its buffer is flushed. The 120 s idle timeout is `UpIdle`, possible whenever nothing
has come.

### RcpSession

Callers of `get_cached_rcp_session` followed by reads with the id, for one
`proxy_hash` (the dicts are keyed by it and no operation touches two keys). The
proxy is external: it behaves as the docstring at 79–83 says, one live session per
hash, the second open rejected; it may end a session at any time; a read of an
ended session is answered "closed" (`0x0c0d`, 401, 403). The answer and
its arrival are separate steps, so answers come late and out of order. A session
id is handed out again only when nobody holds it.

### RcpFetch

Commands are numbered in the order they are read. Their blocks fall in four
kinds by the replies they count as failures (`RangedFails`, `SizedFails`,
`TextFails`, `LooseFails`). After a read the coroutine runs on to the next
command that is not suppressed without an await (`ReadNext`). A reply
is one of: None, XML envelope, too short, senseless, data, exception. The last only
happens after the owner closed its aiohttp session, since `rcp_read` catches the
rest. Which fields of the result are filled is not modelled.

### SettingsWrite

One settings object of one camera. `Writer` are coroutines in a setter: those that
go through `_merge_put` are suspended in the GET (`"get"`) and then in the PUT
(`"put"`), those that send a body of their own (`put_setting`,
`set_lighting_override`) only in the PUT. These bodies are complete in the model; in the code
`put_setting` sends what it is given, and `set_lighting_override` leaves the intensity out with
the front light off (435). What the cloud makes of a missing key is not known here. The code between the GET's answer and the
PUT is one action, `GetReturns`. Nothing serialises the writers.

The cloud is external and assumed to store what it is sent: it takes a PUT from
the wire and applies the body whole, or refuses it, at any time; so PUTs are
reordered, and one whose writer has timed out (`late`) may still be applied. Other
clients change one key at a time. The history variable `missed` holds, per read object and
per PUT, the keys that changed since the GET was answered.

Of a `changes` argument only the keys and values count; that `_merge_put` refuses
infinities is left out, and so is that a failed call says why.

### CameraWrite

Calls that switch a camera: `cloud_set_camera_light` on a Gen2 camera ("light":
one PUT per lamp, one after the other), any writer with one PUT ("single":
`cloud_put_json`, privacy, notifications), `rcp_local_write` without and with
credentials ("plain", "digest": `async_digest_request`, up to three requests). A
request is on the wire until the cloud or camera has carried it out or refused it;
the call waits for the answer and may give up first, after which the request may still be
carried out. The camera's nonces expire and its credentials rotate. A challenge (`Asked`) names MD5,
SHA-256 or another algorithm, as a -sess one or not, and offers no qop, or several of
which auth or auth-int is the first; a camera that offers auth-int may do without any.
`Response` is what `_build_digest_header` hashes with and what goes into it beyond the
credentials, the nonce and the request, `Directives` what the header discloses. The camera
computes its own response for such a header (`Expected`), and minds a directive the
response is not computed from. `Answerable` are the challenges the library knows how to answer.
Assumed of the cloud: a status other than OK
means that nothing was applied. Assumed of aiohttp: it puts each request on the
wire once. Versions that send an idempotent request again after a dropped connection
would apply a PUT twice; it writes the same value, but `AnswersAreTrue` counts it. Which of the two ways is used, and a fallback from
one to the other, is the caller's.

### PrerollRing

One ring directory. A listing is a snapshot of the names (`os.listdir`) and then one
`stat` per name, so files appear, grow and vanish in between; the deletions are one
`unlink` each, oldest first, and may fail. ffmpeg writes segments one after the
other, the newest only, so that creation order is the order of the mtimes; it may
die, which leaves a segment without a moov atom, and is restarted. Listing and `stat` may
fail for what is there, which makes a list shorter. The ffprobe that
`newest_segment_is_finalized` starts answers from the file as it is then, may hang, and
is killed if it is still there; that it succeeds only for a finalized file is assumed.

## What the runs check

| Run | Bounds | Shows |
|---|---|---|
| `tls_proxy_safety` | 2 cameras, 2 servers, 2 tasks, 2 connections, `_MAX_BURST` 2; symmetric | `TypeOK`; `PortsMatchServers`: the dicts agree; `CachedIsListening`: a registered server is alive; `NoClientOutlivesServer`; `ReportedOnce`; `NewerGenerationSurvives`: a handler evicts only the server whose breaker it trips; `ImplementsLease` |
| `tls_proxy_live` | 1 camera, 2 servers, 1 task, 2 connections; fair | `NoOrphanListener` when calls do not overlap; `CallsReturn` and `ImplementsFairLease` (a loss is told) although clients stall |
| `tls_proxy_spurious` | same | violated: see below |
| `pre_warm` | 2 callers, 4 connections, threshold 3, window 3, connect 2, read 1, waits 1, 2 attempts, clock to 7, 3 failures in a row; symmetric | `WarmTypeOK`; `FreshBurstTrips`, `TripIsJustified`: the breaker under the probes' traffic; `NoSocketLeft`; `CallsAreBounded`; `QuietWhenReady`: a warm-up that says ready has no connect of its own left |
| `burst_rearm` | 1 caller, 2 connections, window 5, connect 3, read 2, 3 attempts, clock to 12 | violated: see below |
| `relay` | 2 SETUPs in 5 pieces each, 11 pieces from the client and 1 item from the camera on the way, buffer of 2, torn numbers up to 3; a client that reads | `TypeOK`; `ChannelsDistinct`; `TailIsDelivered`: the camera's last data is not cut off; `SilentClientIsCleanedUp`; `EndReachesBothSides` |
| `relay_stalled` | same, a client that need not read | violated: see below |
| `rcp_session` | 3 callers, 3 ids; fair | `TypeOK`, `OneHandshake`, `NoDeadReplay`, `GetsReturn` |
| `rcp_fetch` | 2 polls, 5 commands (each kind unsupported, one supported); fair | `TypeOK`, `ThreeStrikes`, `StrikesBounded`, `StaysSuppressed`, `NoEndlessRetry` |
| `settings_write` | 2 writers, 2 keys, 2 values, 2 PUTs on the way; changes of either key or of none, one full body; symmetric | `UndoesOnlyOverlapping`: a PUT undoes at most what changed after its own GET; `TypeOK`: the object stays complete |
| `camera_write` | 2 calls of any kind, 1 rotation of the credentials, 2 nonce expiries | `TypeOK`; `AnswersAreTrue`: OK means done, a refusal means not done, nothing is done twice; `ResultIsHonest`; `OnlyDoubtfulWritesComeLate`; `GoodCredentialsSuffice` |
| `preroll_ring` | 2 callers, ring of 2, 4 segments; symmetric | `TypeOK`; `KeepsNewest`: a segment is deleted only if 2 newer ones are there; `TrueMeansFinalized` |

Why the bounds are enough. In `TlsProxy` every hazard is between two servers of one
camera (old and new), with at most one task in a call and another
starting a second, and one handler that trips while another still relays; the
second camera is there for `stop_all_proxies`. `_MAX_BURST` 2 keeps counter,
reset and window apart. In `PreWarm` two callers with two attempts have up to four
connects in progress; a connect outlasts a read, as in the code (10 s against 5 s), so
attempts overlap with the connects of earlier ones; the clock passes the window twice. Only
`burst_rearm` needs the ratios of the code, where five failures of a warm-up, 8 s
apart, just miss the window of 30 s: a failed read and the wait after it are shorter
than the window, three of them longer. `Relay`'s
two SETUPs and one other request are all on their way at once, sent one after the other or pipelined, and
cut anywhere; a torn number may be the right one, or one of the second SETUP's channels (2 and 3);
a buffer of 2 fills. In `CameraWrite` a second call is what a late
write of the first can overwrite, and two expiries are one more than the retry covers. In
`PrerollRing` four segments and a ring of two leave two deletions for two
callers to contend for. Three
callers of `RcpSession` are one that holds a dead id, one that opens a new session, and one that
waits. Two polls are enough to overlap; three or more are covered by the proofs. In
`SettingsWrite` a PUT that is late needs a second slot for the writer's next one, and
two keys are the one asked for and the rest.

Fairness. `TlsProxy`: a task or handler that is ready, or whose timed wait can
end, eventually runs (the event loop does not starve callbacks, and
`open_connection` and both `wait_closed()` are bounded by 10 s and 5 s);
`start_server` completes; a drained closed transport is lost. Nothing is assumed of players, camera or relay. `RcpSession`: both
requests of the handshake end (8 s each); a caller waiting for the lock gets it
if it is free again and again, `asyncio.Lock` being first come, first served.
`RcpFetch`: a read ends (8 s). Nothing makes polls start or sessions open. `Relay`: the
event loop runs what is ready, the idle timeout passes, a closed transport whose
buffer is empty is lost; `ReadingSpec` adds a client that takes what it is sent, which
is the difference between `relay` and `relay_stalled`. Nothing is assumed of the
camera. `PreWarm`, `CameraWrite` and `PrerollRing` have safety properties only
(`CallsAreBounded` is one, about the clock).

`CHECK_DEADLOCK FALSE` stands where the system may stop: in `PreWarm` at the
last tick of the clock, in `Relay` after both ends are closed, in `CameraWrite`
after the last call. The other runs check for deadlock.

### Disagreements between the code and its comments

* `tls_proxy_spurious`. `_fire_on_proxy_died` computes `is_current` (104), waits up
  to 5 s (138–139) and calls `on_proxy_died` (162–164) if the server was current
  before the wait. Meanwhile `start_tls_proxy` may have registered a new
  server, and the coordinator is told to rebuild a healthy session, which lines 100–103 say must not happen.
* `burst_rearm`. `first_fail_at` is set only when `fail_count` is 0 (259). When that
  failure has left the window without a trip, the test at 273 compares with it for
  good, and no burst trips until a connect succeeds. Lines 55–56 speak of any
  `_MAX_BURST` consecutive failures within the window. The run gets there with the
  attempts of two `pre_warm_rtsp` calls in a row.
* `relay_stalled`. The pipe towards the client waits in `drain()` (233)
  without a limit, and `gather` waits for that pipe. A client that has stopped sending and
  reading keeps its handler and its socket although the other pipe timed out and
  closed the connection to the camera; lines 43–45 say that the read timeout is how a
  dead client is cleaned up.

### Behaviour a reader should know

These follow from the models and have no run of their own: the passing properties
are stated around them, or the code promises nothing about them.

* Two overlapping starts for one camera each find nothing to stop and each register;
  the first server stays open and is in no dict. The same happens to a server
  registered while `stop_all_proxies` waits: `clear()` drops it. The module docstring
  (9–12) counts on the dicts for a complete teardown. With
  non-overlapping calls it does not happen (`tls_proxy_live`, `SerialNoOrphan`).
* `_drop_cached_session` (462–469) pops whatever is cached. A read that is told
  late drops the session another caller has opened since; the next handshake is then
  rejected while that session lives.
* The blocks of `0x0c00` and `0x0b91` (1029–1041, 1062–1074) neither count a short
  reply nor reject an XML envelope: a camera that answers so is asked in every
  poll, although the docstring (750–753) speaks of suppression for every command.
  `NoEndlessRetry` leaves these two out.
* `_merge_put` (307–317) undoes a change made between its GET and its PUT, and
  `set_audio_settings` without arguments does so although it changes nothing.
* A warm-up ends, with attempts left, when the second answer is not 200 or is an end
  of file (630–640); when it is a reset or a timeout, it tries again (656–671).
* A Transport header that comes in a later `read()` than "SETUP " is passed on as it is, so
  the camera gets a request for UDP. If a `read()` ends inside `client_port=`, the regex (225–226)
  takes the digits that are there for all of it, and the rest follows the rewritten
  header: `client_port=5`, cut there, becomes `interleaved=0-10000-50001`.
  Pipelined SETUPs that share a `read()` share their channels. The channel is one byte
  and its counter is never reset. `ChannelsDistinct` is stated around the torn and the
  pipelined SETUPs.
* `async_digest_request` looks at the first qop option only (98): to a camera that
  offers "auth-int,auth" or "auth-int" it sends the response of RFC 2069, without qop.
  Any algorithm but the SHA-256 ones is hashed with MD5 (80–83), while the header repeats the
  challenge's name for it, and a -sess variant of it is not treated as one. Good credentials are denied
  then unless the camera is lenient; `GoodCredentialsSuffice` excepts these challenges.
* With `max_segments` of 0 or less the segment ffmpeg has open is deleted;
  segments under 1 KB are never pruned.
* `async_digest_request` applies its timeout per request, so an exchange may take three
  times as long.
* `local_rcp.py` (133) and `rcp.py` read the payload of `0x0d00` (privacy)
  differently; neither parser is modelled.

## What is proved

For every number of cameras, servers, tasks, connections, probes, callers, polls and
commands, writers and keys, SETUPs, calls and segments, and every threshold, window,
timeout and buffer size, from the named ASSUMEs of the modules
(that `None` is no element of the sets, `MaxBurst` is positive, kinds of commands
partition them, `Poll` is finite).

* `TlsProxyProofs`. The inductive invariant adds to the checked properties what
  they rest on: the held server of each suspended task and its state (a
  server between bind and registration is "bound", held by exactly one task and
  in no dict), that a server is registered at most under its owner, that closed
  servers have no open transport, and that a handler that waits in the breaker is the only
  one of its server and has not reported. From it: `TypeCorrect`, `DictsAgree`,
  `RegisteredServersListen`, `ClientsEndWithServer`, `OneReportPerServer`,
  `StaleTripEvictsNothing`. `SerialNoOrphan` takes as an assumption that there is at most
  one task and proves that then no listening server leaves the dicts; it fails
  without the assumption.
  `LeaseRefinement` is the implementation of `ProxyLease`, step by step: each action
  of a task or handler is mapped to the lease step it takes (`Open`, `Grant`, `End`, `EndAll`,
  `Lose`, `Lapse`, `Tell`) or to a stutter. It rests on the same invariant and on
  one fact more, that every server has an owner, since `ProxyLease` names the camera
  that a loss is told of.
* `PreWarmProofs`, first the breaker alone. The invariant ties `first_fail_at` to the
  first element of the history and the history to non-decreasing times: `FreshBurst`,
  `NoEarlyTrip`. Every step of `PreWarm` is a step of `BurstBreaker` or leaves it
  alone, and its initial states are the breaker's (`ProbesDriveTheBreaker`); with it the two
  theorems hold of any number of probes (`WarmFreshBurst`, `WarmNoEarlyTrip`), and
  `WarmTypeCorrect`.
  Then the probes. `SocketsAreClosed`: the socket a call reads from is open and no other
  call's, a call that does not read holds none (`SocketInv`), and the proxy's side of a
  connection agrees with it (`UpstreamInv`). `CallsReturnInTime`: `NoSocketLeft` says
  nothing of time, so `ClockInv` bounds the deadline of a call's current wait by what
  the attempts so far may have used up (`Budget`). `QuietAfterWarmUp`: every connect of
  the proxy that an earlier attempt left behind began so long ago that the attempt's
  timeout, the sleep after it and the final sleep outlast it (`QuietInv`). It has two
  hypotheses on the timeouts, that a read may wait at all and that
  `describe_timeout + retry_wait + post_success_wait` exceeds the connect timeout: 5 + 3 + 3 s
  against 10 s with the defaults of 541–544 and the 10 s of `open_connection`. A caller
  who passes shorter ones does not get the property.
* `RcpSessionProofs`. Who is in a handshake holds the lock, and only one; an id being
  opened or cached is not among the known dead, since the proxy
  does not hand out an id that somebody still holds: `TypeCorrect`,
  `HandshakesExclude`, `DeadStaysOut`.
* `RcpFetchProofs`. Counter and history agree up to three; and past three,
  counter plus polls still reading the command stays below three plus the number
  of polls, which is inductive while the bound alone is not: `Strikes`,
  `Bounded`, `SuppressionLasts`.
* `SettingsWriteProofs`. What a writer has read, and the body of every PUT on the way,
  agrees with the cloud's object on all keys outside those asked for and those
  missed since; every change of the object adds to `missed` what it touches, which keeps
  that inductive: `LostUpdateWindow`.
* `RelayProofs`. Three parts: what the client sent is still in its order, a SETUP that is
  cut still has its end, and a `client_port` behind another one belongs to a pipelined SETUP
  (`OrderInv`); no SETUP is answered, or can be, before its end has passed (`AnswerInv`), without which
  the client's pipelining could not be told from the order on the wire; the counter is
  beyond every channel given to a SETUP that was not torn, and at most twice the number of the
  SETUPs that began (`ChannelInv`). From them `ChannelsAreDistinct`, for any number of SETUPs and every cut by
  `read()`; both its exceptions are necessary, TLC finds a clash without either. `TailReachesClient` rests on `DownInv`: the client's transport
  is not open only after a stop, the client's own close, or the end of the pipe towards it; and
  `TypeCorrect` on its other half, that a pipe that reads has room for one more item.
* `CameraWriteProofs`. Per call and lamp: at most one request is on its way, and none
  once the write was carried out or refused; a lamp without an outcome that the call does not
  await is untouched (`LampState`), which is why a Digest exchange may send a write up to
  three times without its being done twice. `AnswersHold`, `ResultsAreHonest`. `LateInv`
  is `OnlyDoubtfulWritesComeLate` from the moment a lamp is switched, before the answer is
  read: `LateWritesAreDoubtful`. For `GoodCredentialsDo`, what is known of a call at its
  second and third request: its header verifies for every challenge that is `Answerable`
  (`HeaderVerifies`), and its nonce is at least the first, or a later one, than the camera had
  when the call began (`Proper`, `Challenged`).
* `PrerollRingProofs`. What a caller has listed was listed once; a segment that is deleted, or
  chosen for deletion from a list however old, has `MaxSegments` newer ones: if one
  of those it counted is gone, that one left enough newer ones itself (`OldListIsSafe`).
  `NewestAreKept`, `FinalizedIsTrue`, `TypeCorrect`.

Only model-checked: everything under fairness (`CallsReturn`, `ImplementsFairLease`,
`GetsReturn`, `NoEndlessRetry`, `SilentClientIsCleanedUp`, `EndReachesBothSides`),
liveness being out of the proof system's reach; and the three disagreements above, which
are counterexamples. `ImplementsFairLease` is the safety refinement, which is proved, with
the fairness of `ProxyLease`, which is not.

## Not modelled

Bytes on the wire (RTSP text, XML, hashes, TLS), payload parsers (pure decoding),
log output, argument validation, and the components that are one request
and the parsing of its answer: camera list and states, live connection, events,
actions, the settings getters, local RCP reads. `media_transfer.py` copies chunks
in one thread.

Cancellation of coroutines is not modelled; a task cancelled in the last await of
`start_server` leaves a listening server to the garbage collector. The event loop's
clock is only modelled where times are compared (`BurstBreaker`, `PreWarm`);
elsewhere a timeout may strike at any time its await is pending.

Assumed of the environment: a connection over loopback takes no time, and
`drain()` towards the camera does not wait, a client sending little; the cloud applies
a PUT whole or not at all, and not if it answers with an error; the RCP proxy keeps one session
per hash; ffmpeg writes only its newest segment.

## Running

    tlc -config tls_proxy_safety.cfg MCTlsProxy.tla
    tlapm TlsProxyProofs.tla
