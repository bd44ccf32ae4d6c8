----------------------------- MODULE RcpSession -----------------------------
(***************************************************************************)
(* RCP sessions through the cloud proxy (rcp.py): get_cached_rcp_session   *)
(* with its per-hash lock, the two-step handshake of rcp_session, and the  *)
(* reads of rcp_read, which drop the cached session when the proxy says it *)
(* is closed.  One proxy_hash is modelled: cache and locks are keyed by it *)
(* and no operation touches two keys.  The callers pass both dicts, as     *)
(* fetch_rcp_camera_data does.                                             *)
(*                                                                         *)
(* The proxy is external.  It is what the docstrings say of it: it keeps   *)
(* one live session per hash, rejects an open while there is one, may end  *)
(* a session at any time, and answers a read of an ended one with "closed".*)
(***************************************************************************)
EXTENDS FiniteSets

CONSTANTS
    Caller,     \* coroutines that fetch RCP data for this hash
    Session,    \* session ids the proxy hands out; an unused one is reused
    None

ASSUME NoneAssumption == None \notin Session \cup Caller
ASSUME AnswerAssumption == Session \cap {"none", "rejected", "closed", "ok"} = {}

VARIABLES
    cached,     \* session_cache[proxy_hash]: its session id
    fresh,      \* ... and whether expires_at is still ahead
    lock,       \* holder of session_locks[proxy_hash]
    pc,         \* await at which a caller is suspended
    sid,        \* local session_id of a caller
    reply,      \* the proxy's answer to the caller's request, until it is read
    live,       \* the proxy's live session
    known_dead  \* history: sessions of which a caller has read "closed"

cache == <<cached, fresh>>
vars  == <<cached, fresh, lock, pc, sid, reply, live, known_dead>>

(* "lock": waiting for the lock; "step1", "step2": in the handshake's two   *)
(* requests; "have": running with a session id; "read": in rcp_read.       *)
CallerState == {"idle", "lock", "step1", "step2", "have", "read"}

(* "rejected": sessionid 0x00000000; "closed": err 0x0c0d or HTTP 401/403;  *)
(* "ok": any other answer; a session id answers an open.                   *)
Answer == {"none", "rejected", "closed", "ok"} \cup Session

Init ==
    /\ cached = None /\ fresh = FALSE
    /\ lock = None
    /\ pc = [c \in Caller |-> "idle"]
    /\ sid = [c \in Caller |-> None]
    /\ reply = [c \in Caller |-> "none"]
    /\ live = None
    /\ known_dead = {}

Goto(c, where) == pc' = [pc EXCEPT ![c] = where]
Hear(c, answer) == reply' = [reply EXCEPT ![c] = answer]

-----------------------------------------------------------------------------
(* get_cached_rcp_session *)

CallGet(c) ==
    /\ pc[c] = "idle"
    /\ Goto(c, "lock")
    /\ UNCHANGED <<cache, lock, sid, reply, live, known_dead>>

(* The lock is free and the cache has an id that has not expired: taking    *)
(* and releasing the lock around the lookup is one step without an await.  *)
GetCached(c) ==
    /\ pc[c] = "lock" /\ lock = None
    /\ cached # None /\ fresh
    /\ sid' = [sid EXCEPT ![c] = cached]
    /\ Goto(c, "have")
    /\ UNCHANGED <<cache, lock, reply, live, known_dead>>

(* Mutated form of Acquire: the lock is not held across the handshake. *)
AcquireNothing(c) == lock = None /\ lock' = None

Acquire(c) == lock = None /\ lock' = c

(* An expired entry is deleted; step 1 of the handshake is sent, with the   *)
(* lock held until the handshake is over.                                  *)
OpenSession(c) ==
    /\ pc[c] = "lock" /\ Acquire(c)
    /\ cached = None \/ ~fresh
    /\ cached' = None /\ fresh' = FALSE
    /\ Goto(c, "step1")
    /\ UNCHANGED <<sid, reply, live, known_dead>>

(* Mutated form of Release: the failure path keeps the lock. *)
KeepLock(c) == UNCHANGED lock

(* async with releases the lock however the block is left. *)
Release(c) == lock' = None

(* Mutated form of Granted: 0x00000000 passes for a session id. *)
AnySessionId(c) == reply[c] \in Session \cup {"rejected"}

Granted(c) == reply[c] \in Session

(* Step 1 was answered with a session id: step 2, the ACK, is sent. *)
StepOneGranted(c) ==
    /\ pc[c] = "step1" /\ Granted(c)
    /\ sid' = [sid EXCEPT ![c] = reply[c]]
    /\ Hear(c, "none")
    /\ Goto(c, "step2")
    /\ UNCHANGED <<cache, lock, live, known_dead>>

(* Step 1 failed: rejected by the proxy, an HTTP status other than 200, no  *)
(* sessionid in the text, a connection error, or eight seconds.  The       *)
(* proxy may have opened a session nobody will use.                        *)
StepOneFails(c) ==
    /\ pc[c] = "step1"
    /\ Release(c)
    /\ Hear(c, "none")
    /\ Goto(c, "idle")
    /\ UNCHANGED <<cache, sid, live, known_dead>>

(* The ACK was answered, failed or timed out: the code treats all of these  *)
(* alike, caches the session and returns it.                               *)
StepTwoEnds(c) ==
    /\ pc[c] = "step2"
    /\ cached' = sid[c] /\ fresh' = TRUE
    /\ lock' = None
    /\ Goto(c, "have")
    /\ UNCHANGED <<sid, reply, live, known_dead>>

(* The clock passes expires_at. *)
CacheExpires ==
    /\ fresh
    /\ fresh' = FALSE
    /\ UNCHANGED <<cached, lock, pc, sid, reply, live, known_dead>>

-----------------------------------------------------------------------------
(* rcp_read *)

Read(c) ==
    /\ pc[c] = "have"
    /\ Goto(c, "read")
    /\ UNCHANGED <<cache, lock, sid, reply, live, known_dead>>

(* Mutated form of DropCachedSession: session_cache was not passed on. *)
DropNothing(c) == UNCHANGED cache

(* _drop_cached_session pops whatever is cached for the hash. *)
DropCachedSession(c) == cached' = None /\ fresh' = FALSE

ReadClosed(c) ==
    /\ pc[c] = "read" /\ reply[c] = "closed"
    /\ DropCachedSession(c)
    /\ known_dead' = known_dead \cup {sid[c]}
    /\ Hear(c, "none")
    /\ Goto(c, "have")
    /\ UNCHANGED <<lock, sid, live>>

(* Any other end of a read, an error or the timeout included: the caller    *)
(* goes on with the same session id.                                       *)
ReadEnds(c) ==
    /\ pc[c] = "read" /\ reply[c] # "closed"
    /\ Hear(c, "none")
    /\ Goto(c, "have")
    /\ UNCHANGED <<cache, lock, sid, live, known_dead>>

(* The caller is done with this session. *)
Finish(c) ==
    /\ pc[c] = "have"
    /\ sid' = [sid EXCEPT ![c] = None]
    /\ Goto(c, "idle")
    /\ UNCHANGED <<cache, lock, reply, live, known_dead>>

-----------------------------------------------------------------------------
(* The proxy *)

InUse(s) ==
    \/ s \in {live, cached}
    \/ \E c \in Caller : s \in {sid[c], reply[c]}

ProxyOpens(c, s) ==
    /\ pc[c] = "step1" /\ reply[c] = "none"
    /\ live = None
    /\ ~InUse(s)
    /\ live' = s
    /\ known_dead' = known_dead \ {s}
    /\ Hear(c, s)
    /\ UNCHANGED <<cache, lock, pc, sid>>

ProxyRejects(c) ==
    /\ pc[c] = "step1" /\ reply[c] = "none"
    /\ live # None
    /\ Hear(c, "rejected")
    /\ UNCHANGED <<cache, lock, pc, sid, live, known_dead>>

ProxyAnswers(c) ==
    /\ pc[c] = "read" /\ reply[c] = "none"
    /\ Hear(c, IF sid[c] = live THEN "ok" ELSE "closed")
    /\ UNCHANGED <<cache, lock, pc, sid, live, known_dead>>

ProxyCloses ==
    /\ live # None
    /\ live' = None
    /\ UNCHANGED <<cache, lock, pc, sid, reply, known_dead>>

-----------------------------------------------------------------------------
Gets(c) == GetCached(c) \/ OpenSession(c)

HandshakeStep(c) == StepOneGranted(c) \/ StepOneFails(c) \/ StepTwoEnds(c)

CallerStep(c) ==
    \/ CallGet(c) \/ Gets(c) \/ HandshakeStep(c)
    \/ Read(c) \/ ReadClosed(c) \/ ReadEnds(c) \/ Finish(c)

ProxyStep ==
    \/ \E c \in Caller : ProxyRejects(c) \/ ProxyAnswers(c)
    \/ \E c \in Caller, s \in Session : ProxyOpens(c, s)
    \/ ProxyCloses

Next ==
    \/ \E c \in Caller : CallerStep(c)
    \/ ProxyStep
    \/ CacheExpires

Spec == Init /\ [][Next]_vars

(* Both requests of the handshake are bounded by a timeout.  asyncio.Lock   *)
(* is first come, first served: a caller that waits while the lock is free *)
(* again and again gets it.                                                *)
Fairness ==
    \A c \in Caller : WF_vars(HandshakeStep(c)) /\ SF_vars(Gets(c))

FairSpec == Spec /\ Fairness

-----------------------------------------------------------------------------
(* Every variable keeps the kind of value the code stores in it. *)
TypeOK ==
    /\ cached \in Session \cup {None}
    /\ fresh \in BOOLEAN
    /\ lock \in Caller \cup {None}
    /\ pc \in [Caller -> CallerState]
    /\ sid \in [Caller -> Session \cup {None}]
    /\ reply \in [Caller -> Answer]
    /\ live \in Session \cup {None}
    /\ known_dead \in SUBSET Session

Opening(c) == pc[c] \in {"step1", "step2"}

(* The proxy rejects the second of two handshakes, so the lock lets one     *)
(* caller at a time run one: two callers that find the cache empty do not  *)
(* open two sessions.                                                      *)
OneHandshake == \A c, d \in Caller : Opening(c) /\ Opening(d) => c = d

(* "... instead of replaying a dead one": once a read with a session has    *)
(* been told that it is closed, that session is not in the cache, whatever *)
(* the other callers do.                                                   *)
NoDeadReplay == cached \notin known_dead

(* A caller that asked for a session gets one or None in the end: no path   *)
(* through the handshake keeps the lock.                                   *)
GetsReturn == \A c \in Caller : pc[c] = "lock" ~> pc[c] \in {"have", "idle"}
=============================================================================
