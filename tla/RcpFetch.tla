------------------------------ MODULE RcpFetch ------------------------------
(***************************************************************************)
(* fetch_rcp_camera_data (rcp.py): one poll of a camera reads the RCP      *)
(* commands in a fixed order and counts, per command, the failures since   *)
(* the last good reply in the cmd_failures dict its caller owns.  Three    *)
(* strikes suppress a command.  Polls of the same camera may overlap: they *)
(* are coroutines that share the dict and are suspended in every read.     *)
(*                                                                         *)
(* A command is its place in the order.  What a reply carries is abstracted*)
(* to the branch it takes.  How the session is opened, and why a read      *)
(* returns None, is RcpSession's subject.                                  *)
(***************************************************************************)
EXTENDS Integers, FiniteSets

CONSTANTS
    Poll,       \* calls of fetch_rcp_camera_data for one camera
    Last,       \* number of commands
    Ranged,     \* values are checked too: 0x0c22, 0x0a0f, 0x0c81
    Sized,      \* only the length is: 0x0d00, 0x0c38, 0x0c0a, 0x0c62, 0x0b60
    Text,       \* decoded as text: 0x0a36, 0x0aea
    Loose,      \* no XML check, short replies not counted: 0x0c00, 0x0b91
    Supported   \* commands this camera answers with data

Command == 1..Last
Guarded == Ranged \cup Sized \cup Text

ASSUME PollAssumption == IsFiniteSet(Poll)
ASSUME LastAssumption == Last \in Nat
ASSUME KindAssumption ==
    /\ Guarded \cup Loose = Command
    /\ Guarded \cap Loose = {}
ASSUME SupportedAssumption == Supported \subseteq Command

VARIABLES
    cmd_failures,   \* per command; an absent key is 0
    pc,             \* "session": in get_cached_rcp_session, "read": in _read
    at,             \* command a poll is reading
    session_open,   \* the caller has not closed its aiohttp session
    misses          \* history: replies without data since the last with data, to 3

vars == <<cmd_failures, pc, at, session_open, misses>>

(* What _read comes back with: None, an XML envelope, too few bytes, bytes  *)
(* that make no sense for the command, data, or an exception.              *)
Reply == {"none", "xml", "short", "odd", "good", "raises"}

(* A length has no range to be out of, and any text is long enough.  A      *)
(* command may fail on a camera that supports it.  rcp_read catches what    *)
(* the network can raise; a closed aiohttp session raises RuntimeError.     *)
MayAnswer(c, r) ==
    /\ session_open => r # "raises"
    /\ ~session_open => r \in {"none", "raises"}
    /\ r = "good" => c \in Supported
    /\ r \in {"xml", "short", "odd"} => c \notin Supported
    /\ r = "odd" => c \in Ranged \cup Text
    /\ r = "short" => c \notin Text

Init ==
    /\ cmd_failures = [c \in Command |-> 0]
    /\ pc = [p \in Poll |-> "idle"]
    /\ at = [p \in Poll |-> 0]
    /\ session_open = TRUE
    /\ misses = [c \in Command |-> 0]

-----------------------------------------------------------------------------
(* Mutated form of Skip: the fourth failure suppresses. *)
SkipAboveThree(n) == n > 3

(* _skip, for a failure count *)
Skip(n) == n >= 3

Suppressed(c) == Skip(cmd_failures[c])

(* Mutated form of ReadNext: commands whose length only is checked are read *)
(* without a look at the counter.                                          *)
ReadNextUnguarded(p, n) ==
    LET left == {c \in Command : c > n /\ (c \in Sized \/ ~Skip(cmd_failures'[c]))}
    IN  \/ /\ left = {}
           /\ pc' = [pc EXCEPT ![p] = "idle"]
           /\ at' = [at EXCEPT ![p] = 0]
        \/ /\ \E c \in left :
                 /\ \A d \in left : c <= d
                 /\ at' = [at EXCEPT ![p] = c]
           /\ pc' = [pc EXCEPT ![p] = "read"]

(* Poll p goes on behind command n, with no await before the next read: it  *)
(* skips what is suppressed now, and returns behind the last command.      *)
ReadNext(p, n) ==
    LET left == {c \in Command : c > n /\ ~Skip(cmd_failures'[c])}
    IN  \/ /\ left = {}
           /\ pc' = [pc EXCEPT ![p] = "idle"]
           /\ at' = [at EXCEPT ![p] = 0]
        \/ /\ \E c \in left :
                 /\ \A d \in left : c <= d
                 /\ at' = [at EXCEPT ![p] = c]
           /\ pc' = [pc EXCEPT ![p] = "read"]

CallFetch(p) ==
    /\ pc[p] = "idle"
    /\ pc' = [pc EXCEPT ![p] = "session"]
    /\ UNCHANGED <<cmd_failures, at, session_open, misses>>

(* No session could be opened: None, nothing is read. *)
NoSession(p) ==
    /\ pc[p] = "session"
    /\ pc' = [pc EXCEPT ![p] = "idle"]
    /\ UNCHANGED <<cmd_failures, at, session_open, misses>>

SessionOpened(p) ==
    /\ pc[p] = "session"
    /\ UNCHANGED <<cmd_failures, session_open, misses>>
    /\ ReadNext(p, 0)

(* Which replies reach _mark_fail, by kind of command. *)
RangedFails(c, r) == c \in Ranged /\ r \in {"none", "xml", "short", "odd"}
TextFails(c, r) == c \in Text /\ r \in {"none", "xml", "odd"}
LooseFails(c, r) == c \in Loose /\ r = "none"

(* Mutated form of SizedFails: a reply that is too short is not counted. *)
SizedFailsUnlessShort(c, r) == c \in Sized /\ r \in {"none", "xml"}

SizedFails(c, r) == c \in Sized /\ r \in {"none", "xml", "short"}

Fails(c, r) ==
    RangedFails(c, r) \/ TextFails(c, r) \/ SizedFails(c, r) \/ LooseFails(c, r)

(* ... and which reach _mark_ok: a long envelope passes for a zone table. *)
Succeeds(c, r) == r = "good" \/ (c \in Loose /\ r = "xml")

(* Mutated form of Marked: a good reply takes one strike back. *)
MarkedDown(c, r) ==
    [cmd_failures EXCEPT ![c] =
        IF Succeeds(c, r) THEN @ - 1 ELSE IF Fails(c, r) THEN @ + 1 ELSE @]

(* _mark_ok pops the counter, _mark_fail adds one; other replies do neither.*)
Marked(c, r) ==
    [cmd_failures EXCEPT ![c] =
        IF Succeeds(c, r) THEN 0 ELSE IF Fails(c, r) THEN @ + 1 ELSE @]

Missed(c, r) ==
    [misses EXCEPT ![c] =
        IF c \in Loose \/ r = "good" THEN 0
        ELSE IF r = "raises" \/ @ = 3 THEN @ ELSE @ + 1]

ReadEnds(p, r) ==
    LET c == at[p]
    IN  /\ pc[p] = "read"
        /\ MayAnswer(c, r)
        /\ cmd_failures' = Marked(c, r)
        /\ misses' = Missed(c, r)
        /\ UNCHANGED session_open
        /\ ReadNext(p, c)

CloseSession ==
    /\ session_open
    /\ session_open' = FALSE
    /\ UNCHANGED <<cmd_failures, pc, at, misses>>

-----------------------------------------------------------------------------
ReadReturns(p) == \E r \in Reply : ReadEnds(p, r)

Next ==
    \/ \E p \in Poll :
          CallFetch(p) \/ NoSession(p) \/ SessionOpened(p) \/ ReadReturns(p)
    \/ CloseSession

Spec == Init /\ [][Next]_vars

(* rcp_read gives up after eight seconds. *)
FairSpec == Spec /\ \A p \in Poll : WF_vars(ReadReturns(p))

-----------------------------------------------------------------------------
Readers(c) == {p \in Poll : pc[p] = "read" /\ at[p] = c}

(* Every variable keeps the kind of value the code stores in it. *)
TypeOK ==
    /\ cmd_failures \in [Command -> Nat]
    /\ pc \in [Poll -> {"idle", "session", "read"}]
    /\ at \in [Poll -> 0..Last]
    /\ session_open \in BOOLEAN
    /\ misses \in [Command -> 0..3]
    /\ \A p \in Poll : pc[p] = "read" => at[p] \in Command

(* "Skipped after 3 consecutive failures": a command is suppressed exactly  *)
(* when its last three replies, of whatever polls, carried no data, whichever*)
(* of the ways of carrying none they took.  The two commands of the Loose  *)
(* kind do not promise this.                                               *)
ThreeStrikes == \A c \in Guarded : Suppressed(c) <=> misses[c] = 3

(* The check of the counter comes before the await and the count after it,  *)
(* so overlapping polls push it past three, each by at most one.           *)
StrikesBounded == \A c \in Command : cmd_failures[c] < 3 + Cardinality(Poll)

(* "The skip-state persists across calls": a suppressed command that no     *)
(* poll is still reading is not read again by any poll, and only a read    *)
(* begun before the third strike can lift the suppression.                 *)
StaysSuppressed ==
    [][\A c \in Command : Suppressed(c) /\ Readers(c) = {} =>
                             Suppressed(c)' /\ Readers(c)' = {}]_vars

(* A command the camera does not support is not "retried every single       *)
(* coordinator poll forever".  Reads that raise are not counted.           *)
NoEndlessRetry ==
    [](session_open) => \A c \in Guarded \ Supported : <>[](Readers(c) = {})
=============================================================================
