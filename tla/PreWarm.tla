------------------------------ MODULE PreWarm ------------------------------
(***************************************************************************)
(* The RTSP probes of tls_proxy.py, pre_warm_rtsp, confirm_encoder_ready   *)
(* and rtsp_keepalive, against one running proxy: each attempt is a client *)
(* connection of its own, for which the proxy opens a connection to the    *)
(* camera, and whose failure the circuit breaker of BurstBreaker counts.   *)
(* A probe that stops waiting does not stop the proxy's connect, so what a *)
(* probe gave up on still ends later, as a failure or as a success.        *)
(*                                                                         *)
(* Time is the breaker's clock.  It moves only when nothing is due.  The   *)
(* loopback connection takes no time; the camera takes any time it likes.  *)
(***************************************************************************)
EXTENDS BurstBreaker

CONSTANTS
    Caller,             \* tasks that call the probes
    Conn,               \* connections to the proxy alive at once
    None,               \* writer is None; no caller
    ConnectTimeout,     \* _TIMEOUT_TLS_PROXY_CONNECT
    DescribeTimeout,    \* describe_timeout, _TIMEOUT_TLS_PROXY_RTSP_READ
    RetryWait,          \* retry_wait
    PostWait,           \* post_success_wait
    MaxAttempts         \* max_attempts

ASSUME ProbeAssumption ==
    /\ ConnectTimeout \in Nat /\ DescribeTimeout \in Nat
    /\ RetryWait \in Nat /\ PostWait \in Nat
    /\ MaxAttempts \in Nat \ {0}
    /\ None \notin Conn \cup Caller

VARIABLES
    kind,       \* which probe a caller runs
    at,         \* await at which it is suspended
    attempt,    \* local attempt
    due,        \* time at which that await is over
    ready,      \* local got_ok, and what the call returned
    began,      \* history: time of the call
    writer,     \* local writer: the connection the probe has open
    line,       \* the client's side of a connection to the proxy
    up,         \* the proxy's side: its connection to the camera
    opened,     \* time at which the proxy began to connect to the camera
    by          \* history: the caller for whom it connects

probes == <<kind, at, attempt, due, ready, began, writer>>
links  == <<line, up, opened, by>>
wvars  == <<vars, probes, links>>

Kind == {"warm", "keepalive", "confirm"}

(* "open": about to connect; "read1", "read2": waiting for the answer to    *)
(* the first and to the authenticated request; "retry", "post": asleep.    *)
ProbeState == {"idle", "open", "read1", "read2", "retry", "post"}

(* "eof": closed by the proxy; "shut": closed by the probe. *)
LineState == {"none", "open", "eof", "shut"}

WarmInit ==
    /\ Init
    /\ kind = [c \in Caller |-> "warm"]
    /\ at = [c \in Caller |-> "idle"]
    /\ attempt = [c \in Caller |-> 0]
    /\ due = [c \in Caller |-> 0]
    /\ ready = [c \in Caller |-> FALSE]
    /\ began = [c \in Caller |-> 0]
    /\ writer = [c \in Caller |-> None]
    /\ line = [k \in Conn |-> "none"]
    /\ up = [k \in Conn |-> "none"]
    /\ opened = [k \in Conn |-> 0]
    /\ by = [k \in Conn |-> None]

-----------------------------------------------------------------------------
(* The probe's side.                                                       *)

Suspend(c, where, until, got) ==
    /\ at' = [at EXCEPT ![c] = where]
    /\ due' = [due EXCEPT ![c] = until]
    /\ ready' = [ready EXCEPT ![c] = got]

(* The locals of a call that returned are gone. *)
Return(c, got) ==
    /\ Suspend(c, "idle", 0, got)
    /\ kind' = [kind EXCEPT ![c] = "warm"]
    /\ attempt' = [attempt EXCEPT ![c] = 0]
    /\ began' = [began EXCEPT ![c] = 0]

GoesOn(c, where, until, got) ==
    /\ Suspend(c, where, until, got)
    /\ UNCHANGED <<kind, attempt, began>>

(* opened and by are those of a connect in progress. *)
SetLinks(l, u) ==
    /\ line' = l
    /\ up' = u
    /\ opened' = [k \in Conn |-> IF u[k] = "connecting" THEN opened[k] ELSE 0]
    /\ by' = [k \in Conn |-> IF u[k] = "connecting" THEN by[k] ELSE None]

(* Mutated form of Shut: the writer is dropped without a close(). *)
Forget(c) ==
    /\ writer' = [writer EXCEPT ![c] = None]
    /\ UNCHANGED links

(* writer.close(), if there is a writer.  A relay ends with the client's    *)
(* end of file; a connect in progress does not notice.                     *)
Shut(c) ==
    /\ writer' = [writer EXCEPT ![c] = None]
    /\ LET k == writer[c]
           ends == k \in Conn /\ up[k] # "connecting"
       IN  SetLinks([j \in Conn |-> IF j # k THEN line[j]
                                   ELSE IF ends THEN "none" ELSE "shut"],
                    [j \in Conn |-> IF j = k /\ ends THEN "none" ELSE up[j]])

(* A call begins. *)
Call(c, k) ==
    /\ at[c] = "idle"
    /\ kind' = [kind EXCEPT ![c] = k]
    /\ attempt' = [attempt EXCEPT ![c] = 1]
    /\ began' = [began EXCEPT ![c] = now]
    /\ Suspend(c, "open", now, FALSE)
    /\ UNCHANGED <<vars, writer, links>>

(* Mutated form of MayRetry: the last attempt is followed by another one. *)
RetriesAlways(c) == kind[c] = "warm"

MayRetry(c) == kind[c] = "warm" /\ attempt[c] < MaxAttempts

(* An attempt failed: sleep and try again, or return False. *)
GivesUp(c) ==
    /\ Shut(c)
    /\ IF MayRetry(c) THEN GoesOn(c, "retry", now + RetryWait, FALSE)
                      ELSE Return(c, FALSE)
    /\ UNCHANGED vars

(* Mutated form of Pause: the warm-up returns as soon as it has its answer. *)
NoPause(c) == 0

(* The warm-up sleeps before it returns its answer; the others do not. *)
Pause(c) == PostWait

(* The second answer ends the call, whatever it is. *)
Concludes(c, got) ==
    /\ Shut(c)
    /\ IF kind[c] = "warm" THEN GoesOn(c, "post", now + Pause(c), got)
                           ELSE Return(c, got)
    /\ UNCHANGED vars

(* open_connection to the proxy, and the first request. *)
Opens(c, k) ==
    /\ at[c] = "open"
    /\ ~died_fired
    /\ line[k] = "none" /\ up[k] = "none"
    /\ line' = [line EXCEPT ![k] = "open"]
    /\ up' = [up EXCEPT ![k] = "connecting"]
    /\ opened' = [opened EXCEPT ![k] = now]
    /\ by' = [by EXCEPT ![k] = c]
    /\ writer' = [writer EXCEPT ![c] = k]
    /\ GoesOn(c, "read1", now + DescribeTimeout, FALSE)
    /\ UNCHANGED vars

(* Nobody listens on the port any more. *)
IsRefused(c) ==
    /\ at[c] = "open"
    /\ died_fired
    /\ GivesUp(c)

(* The camera challenges the first request: send it again with the digest. *)
Challenged(c) ==
    /\ at[c] = "read1"
    /\ up[writer[c]] = "relay"
    /\ GoesOn(c, "read2", now + DescribeTimeout, FALSE)
    /\ UNCHANGED <<vars, writer, links>>

(* Something else: a keepalive takes a 200 here, the others need a nonce. *)
Unchallenged(c) ==
    /\ at[c] = "read1"
    /\ up[writer[c]] = "relay"
    /\ \/ GivesUp(c)
       \/ kind[c] = "keepalive" /\ Concludes(c, TRUE)

(* The answer to the authenticated request: 200 or anything else. *)
Answered(c) ==
    /\ at[c] = "read2"
    /\ up[writer[c]] = "relay"
    /\ \E got \in BOOLEAN : Concludes(c, got)

(* read() returns b"", with no nonce in it and no 200, or raises because    *)
(* the connection was reset.                                               *)
ReadsEof(c) ==
    /\ at[c] \in {"read1", "read2"}
    /\ line[writer[c]] = "eof"
    /\ GivesUp(c) \/ (at[c] = "read2" /\ Concludes(c, FALSE))

(* Mutated form of ReadIsDue: the answer is waited for without a limit. *)
NeverDue(c) == FALSE

ReadIsDue(c) == at[c] \in {"read1", "read2"} /\ now = due[c]

(* wait_for raises TimeoutError. *)
ReadTimesOut(c) ==
    /\ ReadIsDue(c)
    /\ GivesUp(c)

(* The end of a sleep: the next attempt, or the return. *)
Wakes(c) ==
    /\ at[c] \in {"retry", "post"}
    /\ now = due[c]
    /\ IF at[c] = "retry"
       THEN /\ attempt' = [attempt EXCEPT ![c] = @ + 1]
            /\ Suspend(c, "open", now, FALSE)
            /\ UNCHANGED <<kind, began>>
       ELSE Return(c, ready[c])
    /\ UNCHANGED <<vars, writer, links>>

-----------------------------------------------------------------------------
(* The proxy's side: _handle_client with the breaker.                      *)

(* The connect fails, at the latest by its timeout.  The client is closed;  *)
(* if the breaker trips, so is every other client of the proxy.            *)
UpstreamFails(k) ==
    /\ up[k] = "connecting"
    /\ ConnectFails
    /\ LET cut == IF died_fired' /\ ~died_fired THEN Conn ELSE {k}
       IN  SetLinks([j \in Conn |->
                        IF j = k /\ line[j] = "shut" THEN "none"
                        ELSE IF j \in cut /\ line[j] = "open" THEN "eof"
                        ELSE line[j]],
                    [j \in Conn |->
                        IF j = k \/ (j \in cut /\ up[j] = "relay") THEN "none"
                        ELSE up[j]])
    /\ UNCHANGED probes

(* The connect succeeds.  The relay of a client that is gone ends at once. *)
UpstreamSucceeds(k) ==
    /\ up[k] = "connecting"
    /\ ConnectSucceeds
    /\ SetLinks([line EXCEPT ![k] = IF @ = "shut" THEN "none" ELSE @],
                [up EXCEPT ![k] = IF line[k] = "open" THEN "relay" ELSE "none"])
    /\ UNCHANGED probes

(* The camera drops the connection; the relay passes it on. *)
CameraHangsUp(k) ==
    /\ up[k] = "relay"
    /\ SetLinks([line EXCEPT ![k] = "eof"], [up EXCEPT ![k] = "none"])
    /\ UNCHANGED <<vars, probes>>

(* An end of file on the loopback is read, a sleep or a timed wait is over. *)
Overdue ==
    \/ \E c \in Caller :
          \/ at[c] = "open"
          \/ at[c] \in {"retry", "post"} /\ now = due[c]
          \/ ReadIsDue(c)
          \/ at[c] \in {"read1", "read2"} /\ line[writer[c]] = "eof"
    \/ \E k \in Conn : up[k] = "connecting" /\ now = opened[k] + ConnectTimeout

TimePasses ==
    /\ ~Overdue
    /\ Tick
    /\ UNCHANGED <<probes, links>>

CallerStep(c) ==
    \/ \E k \in Kind : Call(c, k)
    \/ \E k \in Conn : Opens(c, k)
    \/ IsRefused(c)
    \/ Challenged(c)
    \/ Unchallenged(c)
    \/ Answered(c)
    \/ ReadsEof(c)
    \/ ReadTimesOut(c)
    \/ Wakes(c)

ProxyStep(k) ==
    \/ UpstreamFails(k)
    \/ UpstreamSucceeds(k)
    \/ CameraHangsUp(k)

WarmNext ==
    \/ \E c \in Caller : CallerStep(c)
    \/ \E k \in Conn : ProxyStep(k)
    \/ TimePasses

WarmSpec == WarmInit /\ [][WarmNext]_wvars

-----------------------------------------------------------------------------
(* Every variable keeps its kind of value, those of the breaker included. *)
WarmTypeOK ==
    /\ TypeOK
    /\ kind \in [Caller -> Kind]
    /\ at \in [Caller -> ProbeState]
    /\ attempt \in [Caller -> 0 .. MaxAttempts]
    /\ due \in [Caller -> Nat]
    /\ ready \in [Caller -> BOOLEAN]
    /\ began \in [Caller -> Nat]
    /\ writer \in [Caller -> Conn \cup {None}]
    /\ line \in [Conn -> LineState]
    /\ up \in [Conn -> {"none", "connecting", "relay"}]
    /\ opened \in [Conn -> Nat]
    /\ by \in [Conn -> Caller \cup {None}]

(* No probe leaks a socket, whichever of its ways out it takes ("would      *)
(* otherwise leak one fd/socket per keepalive"): a connection whose client *)
(* side is open belongs to a call that is waiting for its answer.          *)
NoSocketLeft ==
    \A k \in Conn : line[k] \in {"open", "eof"} =>
        \E c \in Caller : writer[c] = k /\ at[c] \in {"read1", "read2"}

(* A call returns in bounded time whatever the camera and the proxy do: the *)
(* caller decides on the answer whether to fall back to REMOTE.            *)
CallsAreBounded ==
    \A c \in Caller : at[c] # "idle" =>
        now - began[c] <=
            IF kind[c] = "warm"
            THEN MaxAttempts * (2 * DescribeTimeout)
                 + (MaxAttempts - 1) * RetryWait + PostWait
            ELSE 2 * DescribeTimeout

(* When the warm-up says the camera is ready, none of its own attempts is   *)
(* still connecting to it, the ones that timed out included: the player    *)
(* that connects next does not compete with them for the camera's session  *)
(* slots, nor does a late failure of one reach the breaker.                *)
QuietWhenReady ==
    [][\A c \in Caller :
         at[c] = "post" /\ at'[c] = "idle" /\ ready'[c] =>
             \A k \in Conn : by[k] = c /\ opened[k] >= began[c]
                                => up[k] # "connecting"]_wvars
=============================================================================
