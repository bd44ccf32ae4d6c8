---------------------------- MODULE BurstBreaker ----------------------------
(***************************************************************************)
(* The circuit breaker inside start_tls_proxy with the clock it reads: the *)
(* closure variables fail_count, first_fail_at and died_fired of one       *)
(* server, written by the handlers whose connects to the camera end.       *)
(* TlsProxy keeps of the clock only whether the window is over; here time  *)
(* is a number, so that the window itself can be judged.                   *)
(***************************************************************************)
EXTENDS Naturals, Sequences

CONSTANTS
    MaxBurst,       \* _MAX_BURST
    BurstWindow,    \* _BURST_WINDOW
    NoBurst,        \* float("-inf"): a first failure replaces it before it is read
    MaxTime,        \* bound: the clock stops there
    MaxFails        \* bound: failures without a success between them

ASSUME BreakerAssumption ==
    /\ MaxBurst \in Nat \ {0}
    /\ BurstWindow \in Nat
    /\ MaxTime \in Nat
    /\ MaxFails \in Nat
    /\ NoBurst \notin Nat

VARIABLES
    now,            \* time.monotonic()
    fail_count,
    first_fail_at,
    died_fired,
    fails           \* history: times of the failures since the last success

vars == <<now, fail_count, first_fail_at, died_fired, fails>>

Init ==
    /\ now = 0
    /\ fail_count = 0
    /\ first_fail_at = NoBurst
    /\ died_fired = FALSE
    /\ fails = <<>>

Tick ==
    /\ now < MaxTime
    /\ now' = now + 1
    /\ UNCHANGED <<fail_count, first_fail_at, died_fired, fails>>

(* Mutated form of BurstStart: every failure restarts the window. *)
BurstRestart(n) == now

(* first_fail_at after a failure that follows n others. *)
BurstStart(n) == IF n = 0 THEN now ELSE first_fail_at

(* Mutated form of Trips: the window is not looked at. *)
TripsOnCount(n, first) == n >= MaxBurst

(* Mutated form of Trips: one failure more than _MAX_BURST is waited for. *)
TripsLate(n, first) == n > MaxBurst /\ now - first <= BurstWindow

Trips(n, first) == n >= MaxBurst /\ now - first <= BurstWindow

(* A connect attempt fails; _fire_on_proxy_died does nothing the 2nd time. *)
ConnectFails ==
    /\ Len(fails) < MaxFails
    /\ fail_count' = fail_count + 1
    /\ first_fail_at' = BurstStart(fail_count)
    /\ died_fired' = (died_fired \/ Trips(fail_count', first_fail_at'))
    /\ fails' = Append(fails, now)
    /\ UNCHANGED now

(* A connect attempt succeeds, of a client accepted before the breaker      *)
(* tripped if it has.                                                      *)
ConnectSucceeds ==
    /\ fail_count' = 0
    /\ first_fail_at' = NoBurst
    /\ fails' = <<>>
    /\ UNCHANGED <<now, died_fired>>

Next == Tick \/ ConnectFails \/ ConnectSucceeds

Spec == Init /\ [][Next]_vars

-----------------------------------------------------------------------------
(* Every variable keeps its kind of value, and the counter and the start of *)
(* the burst are those of the failures since the last success.             *)
TypeOK ==
    /\ now \in Nat
    /\ fail_count \in Nat
    /\ first_fail_at \in Nat \cup {NoBurst}
    /\ died_fired \in BOOLEAN
    /\ fails \in Seq(Nat)
    /\ fail_count = Len(fails)
    /\ fail_count > 0 => first_fail_at = fails[1] /\ first_fail_at <= now

(* The breaker never closes a server on less than MaxBurst connects that    *)
(* failed without a success between them, all of them within BurstWindow.  *)
TripIsJustified ==
    [][~died_fired /\ died_fired' =>
         /\ Len(fails') >= MaxBurst
         /\ \A i \in DOMAIN fails' : now - fails'[i] <= BurstWindow]_vars

(* The burst that starts with the first failure after a success (or after   *)
(* the start of the proxy) closes the server.                              *)
FreshBurstTrips ==
    /\ Len(fails) >= MaxBurst
    /\ fails[MaxBurst] - fails[1] <= BurstWindow
    => died_fired

(* "After _MAX_BURST consecutive failures within _BURST_WINDOW seconds we   *)
(* close the server": any MaxBurst failures in a row, also those that      *)
(* follow earlier, isolated ones.                                          *)
EveryBurstTrips ==
    \A i \in DOMAIN fails :
        /\ i >= MaxBurst
        /\ fails[i] - fails[i - MaxBurst + 1] <= BurstWindow
        => died_fired
=============================================================================
