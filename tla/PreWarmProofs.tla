--------------------------- MODULE PreWarmProofs ----------------------------
(***************************************************************************)
(* Proofs about the circuit breaker of BurstBreaker, for every threshold   *)
(* and every window, and about the probes of PreWarm that use a proxy with *)
(* that breaker, for any number of probes and connections and all          *)
(* timeouts.                                                               *)
(***************************************************************************)
EXTENDS PreWarm, Integers, TLAPS

-----------------------------------------------------------------------------
(* The breaker, whatever drives it.                                        *)

(* Failures are recorded in the order of their times, up to now; and as     *)
(* long as the breaker has not tripped, the first burst has not been one.  *)
IInv ==
    /\ TypeOK
    /\ \A i \in DOMAIN fails : fails[1] <= fails[i] /\ fails[i] <= now
    /\ FreshBurstTrips

LEMMA InitIInv == Init => IInv
  <1>1. <<>> \in Seq(Nat) /\ Len(<<>>) = 0 /\ DOMAIN <<>> = {}
    OBVIOUS
  <1>2. ASSUME Init
        PROVE  TypeOK
    <2>1. now \in Nat /\ fail_count = 0 /\ first_fail_at = NoBurst /\ died_fired = FALSE
      BY <1>2 DEF Init
    <2>2. fails \in Seq(Nat) /\ Len(fails) = 0
      BY <1>1, <1>2 DEF Init
    <2>3. fail_count \in Nat /\ ~(fail_count > 0) /\ fail_count = Len(fails)
      BY <2>1, <2>2
    <2>4. died_fired \in BOOLEAN
      BY <2>1
    <2>5. QED
      BY <2>1, <2>2, <2>3, <2>4, Zenon DEF TypeOK
  <1>3. ASSUME Init
        PROVE  FreshBurstTrips
    BY <1>1, <1>3, BreakerAssumption DEF Init, FreshBurstTrips
  <1>4. QED
    BY <1>1, <1>2, <1>3 DEF Init, IInv

(* The first failure of the burst, after one more failure. *)
LEMMA FailStarts ==
    ASSUME IInv, ConnectFails
    PROVE  /\ Len(fails') = Len(fails) + 1
           /\ fail_count' = Len(fails')
           /\ fails' \in Seq(Nat)
           /\ \A i \in DOMAIN fails' :
                 fails'[i] = IF i <= Len(fails) THEN fails[i] ELSE now
           /\ first_fail_at' = fails'[1]
           /\ \A i \in DOMAIN fails' : fails'[1] <= fails'[i] /\ fails'[i] <= now
  <1>1. /\ fails \in Seq(Nat) /\ now \in Nat /\ Len(fails) \in Nat
        /\ fail_count = Len(fails)
        /\ fails' = Append(fails, now)
        /\ fail_count' = fail_count + 1
        /\ first_fail_at' = IF fail_count = 0 THEN now ELSE first_fail_at
    BY DEF IInv, TypeOK, ConnectFails, BurstStart
  <1>2. /\ Len(fails') = Len(fails) + 1
        /\ fail_count' = Len(fails')
        /\ fails' \in Seq(Nat)
        /\ \A i \in DOMAIN fails' :
              fails'[i] = IF i <= Len(fails) THEN fails[i] ELSE now
    BY <1>1
  <1>3. first_fail_at' = fails'[1]
    BY <1>1, <1>2 DEF IInv, TypeOK
  <1>4. \A i \in DOMAIN fails' : fails'[1] <= fails'[i] /\ fails'[i] <= now
    BY <1>1, <1>2 DEF IInv
  <1>5. QED
    BY <1>1, <1>2, <1>3, <1>4

LEMMA NextIInv ==
    ASSUME IInv, [Next]_vars
    PROVE  IInv'
  <1>1. CASE Tick
    BY <1>1 DEF Tick, IInv, TypeOK, FreshBurstTrips
  <1>2. CASE ConnectFails
    <2>1. TypeOK'
      BY <1>2, FailStarts DEF ConnectFails, IInv, TypeOK
    <2>2. FreshBurstTrips'
      <3>1. SUFFICES ASSUME Len(fails') >= MaxBurst,
                            fails'[MaxBurst] - fails'[1] <= BurstWindow
                     PROVE  died_fired'
        BY DEF FreshBurstTrips
      <3>2. CASE Len(fails) >= MaxBurst
        <4>1. fails'[MaxBurst] = fails[MaxBurst] /\ fails'[1] = fails[1]
          <5>1. /\ fails \in Seq(Nat) /\ fails' \in Seq(Nat)
                /\ Len(fails) \in Nat /\ Len(fails') = Len(fails) + 1
                /\ MaxBurst \in 1 .. Len(fails) /\ 1 \in 1 .. Len(fails)
            BY <1>2, <3>2, FailStarts, BreakerAssumption DEF IInv, TypeOK
          <5>2. MaxBurst \in DOMAIN fails' /\ 1 \in DOMAIN fails'
            BY <5>1
          <5>3. \A i \in DOMAIN fails' : fails'[i] = IF i <= Len(fails) THEN fails[i] ELSE now
            BY <1>2, FailStarts
          <5>4. MaxBurst <= Len(fails) /\ 1 <= Len(fails)
            BY <5>1
          <5>5. QED
            BY <5>2, <5>3, <5>4
        <4>2. QED
          BY <1>2, <3>1, <3>2, <4>1 DEF IInv, FreshBurstTrips, ConnectFails
      <3>3. CASE ~(Len(fails) >= MaxBurst)
        <4>1. Len(fails') = MaxBurst /\ fails'[MaxBurst] = now /\ fails'[1] = first_fail_at'
          BY <1>2, <3>1, <3>3, FailStarts, BreakerAssumption DEF IInv, TypeOK
        <4>2. QED
          BY <1>2, <3>1, <4>1, FailStarts, BreakerAssumption DEF ConnectFails, Trips
      <3>4. QED
        BY <3>2, <3>3
    <2>3. QED
      BY <1>2, <2>1, <2>2, FailStarts DEF IInv, ConnectFails
  <1>3. CASE ConnectSucceeds
    BY <1>3, BreakerAssumption DEF ConnectSucceeds, IInv, TypeOK, FreshBurstTrips
  <1>4. CASE UNCHANGED vars
    BY <1>4 DEF vars, IInv, TypeOK, FreshBurstTrips
  <1>5. QED
    BY <1>1, <1>2, <1>3, <1>4 DEF Next

THEOREM Invariance == Spec => []IInv
  BY InitIInv, NextIInv, PTL DEF Spec

(* The burst that starts with the first failure after a success always      *)
(* closes the server, for every _MAX_BURST and _BURST_WINDOW.              *)
THEOREM FreshBurst == Spec => []FreshBurstTrips
  BY Invariance, PTL DEF IInv

(* The breaker never trips on less than a full burst within the window. *)
THEOREM NoEarlyTrip == Spec => TripIsJustified
  <1> DEFINE Justified ==
        ~died_fired /\ died_fired' =>
          /\ Len(fails') >= MaxBurst
          /\ \A i \in DOMAIN fails' : now - fails'[i] <= BurstWindow
  <1>1. ASSUME IInv, [Next]_vars
        PROVE  [Justified]_vars
    <2>1. SUFFICES ASSUME ~died_fired, died_fired'
                   PROVE  /\ Len(fails') >= MaxBurst
                          /\ \A i \in DOMAIN fails' : now - fails'[i] <= BurstWindow
      OBVIOUS
    <2>2. ConnectFails
      BY <1>1, <2>1 DEF Next, Tick, ConnectSucceeds, vars
    <2>3. Trips(fail_count', first_fail_at')
      BY <2>1, <2>2 DEF ConnectFails
    <2>4. fails' \in Seq(Nat) /\ now \in Nat
      BY <1>1, <2>2, FailStarts DEF IInv, TypeOK
    <2>5. QED
      BY <1>1, <2>2, <2>3, <2>4, FailStarts, BreakerAssumption DEF Trips
  <1>2. QED
    BY <1>1, Invariance, PTL DEF Spec, TripIsJustified

-----------------------------------------------------------------------------
(* The probes over the breaker.                                            *)

(* Every step of the probes and of the proxy they use is a step of the      *)
(* breaker or leaves its state alone.                                      *)
LEMMA StepDrivesTheBreaker ==
    ASSUME [WarmNext]_wvars
    PROVE  [Next]_vars
  <1>1. ASSUME NEW c \in Caller, CallerStep(c)
        PROVE  UNCHANGED vars
    BY <1>1 DEF CallerStep, Call, Opens, IsRefused, Challenged, Unchallenged, Answered,
                ReadsEof, ReadTimesOut, Wakes, GivesUp, Concludes
  <1>2. ASSUME NEW k \in Conn, ProxyStep(k)
        PROVE  [Next]_vars
    BY <1>2 DEF ProxyStep, UpstreamFails, UpstreamSucceeds, CameraHangsUp, Next
  <1>3. CASE TimePasses
    BY <1>3 DEF TimePasses, Next
  <1>4. CASE UNCHANGED wvars
    BY <1>4 DEF wvars
  <1>5. QED
    BY <1>1, <1>2, <1>3, <1>4 DEF WarmNext

(* What is proved of the breaker holds whatever the probes do with it:      *)
(* failures and successes reach it one at a time and in the order of time, *)
(* also those of connects that a probe gave up on.                         *)
THEOREM ProbesDriveTheBreaker == WarmSpec => Spec
  <1>1. WarmInit => Init
    BY DEF WarmInit
  <1>2. QED
    BY <1>1, StepDrivesTheBreaker, PTL DEF WarmSpec, Spec

(* The probes' failed connects, if they begin a burst, close the server. *)
THEOREM WarmFreshBurst == WarmSpec => []FreshBurstTrips
  BY ProbesDriveTheBreaker, FreshBurst, PTL

(* The probes never make the breaker trip on less than a full burst. *)
THEOREM WarmNoEarlyTrip == WarmSpec => TripIsJustified
  BY ProbesDriveTheBreaker, NoEarlyTrip, PTL

-----------------------------------------------------------------------------
(* A warm-up sleeps between attempts only if it has another attempt, which  *)
(* is what keeps the attempts below their maximum.                         *)
WarmIInv ==
    /\ WarmTypeOK
    /\ \A c \in Caller : at[c] = "retry" => attempt[c] < MaxAttempts

ProbeTypes ==
    /\ kind \in [Caller -> Kind]
    /\ at \in [Caller -> ProbeState]
    /\ attempt \in [Caller -> 0 .. MaxAttempts]
    /\ due \in [Caller -> Nat]
    /\ ready \in [Caller -> BOOLEAN]
    /\ began \in [Caller -> Nat]
    /\ writer \in [Caller -> Conn \cup {None}]

LinkTypes ==
    /\ line \in [Conn -> LineState]
    /\ up \in [Conn -> {"none", "connecting", "relay"}]
    /\ opened \in [Conn -> Nat]
    /\ by \in [Conn -> Caller \cup {None}]

Sleepers == \A c \in Caller : at[c] = "retry" => attempt[c] < MaxAttempts

LEMMA WarmIInvParts == WarmIInv <=> TypeOK /\ ProbeTypes /\ LinkTypes /\ Sleepers
  BY Zenon DEF WarmIInv, WarmTypeOK, ProbeTypes, LinkTypes, Sleepers

(* A probe's step that suspends it, or returns. *)
LEMMA GoesOnTypes ==
    ASSUME WarmIInv, NEW c \in Caller, NEW where \in ProbeState, NEW until \in Nat,
           NEW got \in BOOLEAN, GoesOn(c, where, until, got),
           where = "retry" => attempt[c] < MaxAttempts,
           writer' \in [Caller -> Conn \cup {None}]
    PROVE  ProbeTypes' /\ Sleepers'
  BY DEF GoesOn, Suspend, WarmIInv, WarmTypeOK, ProbeTypes, Sleepers

LEMMA ReturnTypes ==
    ASSUME WarmIInv, NEW c \in Caller, NEW got \in BOOLEAN, Return(c, got),
           writer' \in [Caller -> Conn \cup {None}]
    PROVE  ProbeTypes' /\ Sleepers'
  <1>1. "warm" \in Kind /\ "idle" \in ProbeState /\ 0 \in 0 .. MaxAttempts
    BY ProbeAssumption DEF Kind, ProbeState
  <1>2. ProbeTypes'
    BY <1>1 DEF Return, Suspend, WarmIInv, WarmTypeOK, ProbeTypes
  <1>3. Sleepers'
    BY DEF Return, Suspend, WarmIInv, WarmTypeOK, Sleepers
  <1>4. QED
    BY <1>2, <1>3

LEMMA SetLinksTypes ==
    ASSUME WarmIInv, NEW l \in [Conn -> LineState],
           NEW u \in [Conn -> {"none", "connecting", "relay"}], SetLinks(l, u)
    PROVE  LinkTypes'
  BY DEF SetLinks, WarmIInv, WarmTypeOK, LinkTypes

LEMMA ShutTypes ==
    ASSUME WarmIInv, NEW c \in Caller, Shut(c)
    PROVE  LinkTypes' /\ writer' \in [Caller -> Conn \cup {None}]
  <1> DEFINE k == writer[c]
             ends == k \in Conn /\ up[k] # "connecting"
             l == [j \in Conn |-> IF j # k THEN line[j]
                                  ELSE IF ends THEN "none" ELSE "shut"]
             u == [j \in Conn |-> IF j = k /\ ends THEN "none" ELSE up[j]]
  <1>1. l \in [Conn -> LineState] /\ u \in [Conn -> {"none", "connecting", "relay"}]
    BY DEF WarmIInv, WarmTypeOK, LineState
  <1>2. SetLinks(l, u)
    BY DEF Shut
  <1>3. LinkTypes'
    BY <1>1, <1>2, SetLinksTypes
  <1>4. writer' \in [Caller -> Conn \cup {None}]
    BY DEF Shut, WarmIInv, WarmTypeOK
  <1>5. QED
    BY <1>3, <1>4

LEMMA WarmInitIInv == WarmInit => WarmIInv
  <1>1. SUFFICES ASSUME WarmInit
                 PROVE  WarmIInv
    OBVIOUS
  <1>2. TypeOK
    <2>1. Init
      BY <1>1 DEF WarmInit
    <2>2. IInv
      BY <2>1, InitIInv
    <2>3. QED
      BY <2>2 DEF IInv
  <1>3. ProbeTypes
    <2>1. 0 \in 0 .. MaxAttempts /\ 0 \in Nat /\ "warm" \in Kind /\ "idle" \in ProbeState
      BY ProbeAssumption DEF Kind, ProbeState
    <2>2. QED
      BY <1>1, <2>1, Zenon DEF WarmInit, ProbeTypes
  <1>4. LinkTypes
    <2>1. 0 \in Nat /\ "none" \in LineState
      BY DEF LineState
    <2>2. QED
      BY <1>1, <2>1, Zenon DEF WarmInit, LinkTypes
  <1>5. Sleepers
    <2>1. \A c \in Caller : at[c] = "idle"
      BY <1>1, Zenon DEF WarmInit
    <2>2. QED
      BY <2>1 DEF Sleepers
  <1>6. QED
    BY <1>2, <1>3, <1>4, <1>5, WarmIInvParts

(* A probe that gives up or concludes: its socket is closed. *)
LEMMA GivesUpTypes ==
    ASSUME WarmIInv, NEW c \in Caller, GivesUp(c)
    PROVE  ProbeTypes' /\ LinkTypes' /\ Sleepers'
  <1>1. LinkTypes' /\ writer' \in [Caller -> Conn \cup {None}]
    BY ShutTypes DEF GivesUp
  <1>2. now + RetryWait \in Nat /\ "retry" \in ProbeState
    BY ProbeAssumption DEF WarmIInv, WarmTypeOK, TypeOK, ProbeState
  <1>3. CASE MayRetry(c)
    <2>1. GoesOn(c, "retry", now + RetryWait, FALSE) /\ attempt[c] < MaxAttempts
      BY <1>3 DEF GivesUp, MayRetry
    <2>2. QED
      BY <1>1, <1>2, <2>1, GoesOnTypes
  <1>4. CASE ~MayRetry(c)
    BY <1>1, <1>4, ReturnTypes DEF GivesUp
  <1>5. QED
    BY <1>1, <1>3, <1>4

LEMMA ConcludesTypes ==
    ASSUME WarmIInv, NEW c \in Caller, NEW got \in BOOLEAN, Concludes(c, got)
    PROVE  ProbeTypes' /\ LinkTypes' /\ Sleepers'
  <1>1. LinkTypes' /\ writer' \in [Caller -> Conn \cup {None}]
    BY ShutTypes DEF Concludes
  <1>2. now + Pause(c) \in Nat /\ "post" \in ProbeState
    BY ProbeAssumption DEF WarmIInv, WarmTypeOK, TypeOK, ProbeState, Pause
  <1>3. CASE kind[c] = "warm"
    <2>1. GoesOn(c, "post", now + Pause(c), got)
      BY <1>3 DEF Concludes
    <2>2. QED
      BY <1>1, <1>2, <2>1, GoesOnTypes
  <1>4. CASE kind[c] # "warm"
    BY <1>1, <1>4, ReturnTypes DEF Concludes
  <1>5. QED
    BY <1>1, <1>3, <1>4

LEMMA CallerStepTypes ==
    ASSUME WarmIInv, NEW c \in Caller, CallerStep(c)
    PROVE  ProbeTypes' /\ LinkTypes' /\ Sleepers'
  <1> USE DEF ProbeState
  <1>1. now \in Nat /\ now + DescribeTimeout \in Nat
    BY ProbeAssumption DEF WarmIInv, WarmTypeOK, TypeOK
  <1>2. ASSUME NEW k \in Kind, Call(c, k)
        PROVE  ProbeTypes' /\ LinkTypes' /\ Sleepers'
    <2>1. 1 \in 0 .. MaxAttempts
      BY ProbeAssumption
    <2>2. ProbeTypes'
      BY <1>1, <1>2, <2>1 DEF Call, Suspend, WarmIInv, WarmTypeOK, ProbeTypes
    <2>3. LinkTypes'
      BY <1>2 DEF Call, links, WarmIInv, WarmTypeOK, LinkTypes
    <2>4. Sleepers'
      BY <1>2 DEF Call, Suspend, WarmIInv, WarmTypeOK, Sleepers
    <2>5. QED
      BY <2>2, <2>3, <2>4
  <1>3. ASSUME NEW k \in Conn, Opens(c, k)
        PROVE  ProbeTypes' /\ LinkTypes' /\ Sleepers'
    <2>1. writer' \in [Caller -> Conn \cup {None}]
      BY <1>3 DEF Opens, WarmIInv, WarmTypeOK
    <2>2. LinkTypes'
      BY <1>1, <1>3 DEF Opens, WarmIInv, WarmTypeOK, LinkTypes, LineState
    <2>3. GoesOn(c, "read1", now + DescribeTimeout, FALSE)
      BY <1>3 DEF Opens
    <2>4. ProbeTypes' /\ Sleepers'
      BY <1>1, <2>1, <2>3, GoesOnTypes
    <2>5. QED
      BY <2>2, <2>4
  <1>4. CASE IsRefused(c)
    BY <1>4, GivesUpTypes DEF IsRefused
  <1>5. CASE Challenged(c)
    <2>1. writer' \in [Caller -> Conn \cup {None}]
      BY <1>5 DEF Challenged, WarmIInv, WarmTypeOK
    <2>2. LinkTypes'
      BY <1>5 DEF Challenged, links, WarmIInv, WarmTypeOK, LinkTypes
    <2>3. GoesOn(c, "read2", now + DescribeTimeout, FALSE)
      BY <1>5 DEF Challenged
    <2>4. ProbeTypes' /\ Sleepers'
      BY <1>1, <2>1, <2>3, GoesOnTypes
    <2>5. QED
      BY <2>2, <2>4
  <1>6. CASE Unchallenged(c)
    BY <1>6, GivesUpTypes, ConcludesTypes DEF Unchallenged
  <1>7. CASE Answered(c)
    BY <1>7, ConcludesTypes DEF Answered
  <1>8. CASE ReadsEof(c)
    BY <1>8, GivesUpTypes, ConcludesTypes DEF ReadsEof
  <1>9. CASE ReadTimesOut(c)
    BY <1>9, GivesUpTypes DEF ReadTimesOut
  <1>10. CASE Wakes(c)
    <2>1. LinkTypes' /\ writer' \in [Caller -> Conn \cup {None}]
      BY <1>10 DEF Wakes, links, WarmIInv, WarmTypeOK, LinkTypes
    <2>2. CASE at[c] = "retry"
      <3>1. attempt[c] + 1 \in 0 .. MaxAttempts
        <4>1. attempt[c] \in 0 .. MaxAttempts /\ attempt[c] < MaxAttempts
          BY <2>2, Zenon DEF WarmIInv, WarmTypeOK
        <4>2. QED
          BY <4>1, ProbeAssumption
      <3>2. ProbeTypes'
        <4>1. /\ attempt' = [attempt EXCEPT ![c] = @ + 1]
              /\ at' = [at EXCEPT ![c] = "open"]
              /\ due' = [due EXCEPT ![c] = now]
              /\ ready' = [ready EXCEPT ![c] = FALSE]
              /\ kind' = kind /\ began' = began
          BY <1>10, <2>2, Zenon DEF Wakes, Suspend
        <4>2. /\ kind \in [Caller -> Kind] /\ at \in [Caller -> ProbeState]
              /\ attempt \in [Caller -> 0 .. MaxAttempts] /\ due \in [Caller -> Nat]
              /\ ready \in [Caller -> BOOLEAN] /\ began \in [Caller -> Nat]
          BY Zenon DEF WarmIInv, WarmTypeOK
        <4>3. attempt' \in [Caller -> 0 .. MaxAttempts]
          BY <3>1, <4>1, <4>2
        <4>4. at' \in [Caller -> ProbeState] /\ due' \in [Caller -> Nat]
          BY <1>1, <4>1, <4>2
        <4>5. ready' \in [Caller -> BOOLEAN]
          BY <4>1, <4>2
        <4>6. QED
          BY <2>1, <4>1, <4>2, <4>3, <4>4, <4>5, Zenon DEF ProbeTypes
      <3>3. Sleepers'
        BY <1>10, <2>2 DEF Wakes, Suspend, WarmIInv, WarmTypeOK, Sleepers
      <3>4. QED
        BY <2>1, <3>2, <3>3
    <2>3. CASE at[c] # "retry"
      <3>1. Return(c, ready[c]) /\ ready[c] \in BOOLEAN
        BY <1>10, <2>3 DEF Wakes, WarmIInv, WarmTypeOK
      <3>2. QED
        BY <2>1, <3>1, ReturnTypes
    <2>4. QED
      BY <2>2, <2>3
  <1>11. QED
    BY <1>2, <1>3, <1>4, <1>5, <1>6, <1>7, <1>8, <1>9, <1>10 DEF CallerStep

LEMMA ProxyStepTypes ==
    ASSUME WarmIInv, NEW k \in Conn, ProxyStep(k)
    PROVE  ProbeTypes' /\ LinkTypes' /\ Sleepers'
  <1>1. ProbeTypes' /\ Sleepers'
    BY DEF ProxyStep, UpstreamFails, UpstreamSucceeds, CameraHangsUp, probes,
           WarmIInv, WarmTypeOK, ProbeTypes, Sleepers
  <1>2. CASE UpstreamFails(k)
    <2> DEFINE cut == IF died_fired' /\ ~died_fired THEN Conn ELSE {k}
               l == [j \in Conn |->
                        IF j = k /\ line[j] = "shut" THEN "none"
                        ELSE IF j \in cut /\ line[j] = "open" THEN "eof"
                        ELSE line[j]]
               u == [j \in Conn |->
                        IF j = k \/ (j \in cut /\ up[j] = "relay") THEN "none"
                        ELSE up[j]]
    <2>1. l \in [Conn -> LineState] /\ u \in [Conn -> {"none", "connecting", "relay"}]
      BY DEF WarmIInv, WarmTypeOK, LineState
    <2>2. SetLinks(l, u)
      BY <1>2 DEF UpstreamFails
    <2>3. QED
      BY <1>1, <2>1, <2>2, SetLinksTypes
  <1>3. CASE UpstreamSucceeds(k)
    <2> DEFINE l == [line EXCEPT ![k] = IF @ = "shut" THEN "none" ELSE @]
               u == [up EXCEPT ![k] = IF line[k] = "open" THEN "relay" ELSE "none"]
    <2>1. l \in [Conn -> LineState] /\ u \in [Conn -> {"none", "connecting", "relay"}]
      BY DEF WarmIInv, WarmTypeOK, LineState
    <2>2. SetLinks(l, u)
      BY <1>3 DEF UpstreamSucceeds
    <2>3. QED
      BY <1>1, <2>1, <2>2, SetLinksTypes
  <1>4. CASE CameraHangsUp(k)
    <2> DEFINE l == [line EXCEPT ![k] = "eof"]
               u == [up EXCEPT ![k] = "none"]
    <2>1. l \in [Conn -> LineState] /\ u \in [Conn -> {"none", "connecting", "relay"}]
      BY DEF WarmIInv, WarmTypeOK, LineState
    <2>2. SetLinks(l, u)
      BY <1>4 DEF CameraHangsUp
    <2>3. QED
      BY <1>1, <2>1, <2>2, SetLinksTypes
  <1>5. QED
    BY <1>2, <1>3, <1>4 DEF ProxyStep

LEMMA WarmNextIInv ==
    ASSUME IInv, IInv', WarmIInv, [WarmNext]_wvars
    PROVE  WarmIInv'
  <1>1. TypeOK'
    BY DEF IInv
  <1>2. ProbeTypes' /\ LinkTypes' /\ Sleepers'
    <2>1. CASE TimePasses
      BY <2>1 DEF TimePasses, probes, links, WarmIInv, WarmTypeOK,
                  ProbeTypes, LinkTypes, Sleepers
    <2>2. CASE UNCHANGED wvars
      BY <2>2 DEF wvars, probes, links, WarmIInv, WarmTypeOK,
                  ProbeTypes, LinkTypes, Sleepers
    <2>3. QED
      BY <2>1, <2>2, CallerStepTypes, ProxyStepTypes DEF WarmNext
  <1>3. QED
    <2>1. WarmTypeOK'
      BY <1>1, <1>2, Zenon DEF WarmTypeOK, ProbeTypes, LinkTypes
    <2>2. QED
      BY <1>2, <2>1, Zenon DEF WarmIInv, Sleepers

(* Type correctness of the probes over the breaker, for any number of       *)
(* callers and connections, any timeouts and any number of attempts.       *)
THEOREM WarmTypeCorrect == WarmSpec => []WarmTypeOK
  <1>1. WarmSpec => []IInv
    BY ProbesDriveTheBreaker, Invariance, PTL
  <1>2. WarmSpec => []WarmIInv
    BY <1>1, WarmInitIInv, WarmNextIInv, PTL DEF WarmSpec
  <1>3. WarmIInv => WarmTypeOK
    BY DEF WarmIInv
  <1>4. QED
    BY <1>2, <1>3, PTL

-----------------------------------------------------------------------------
(* The sockets of the probes.                                              *)

Reading(c) == at[c] \in {"read1", "read2"}

(* A probe has a connection of its own exactly while it waits for an answer. *)
SocketInv ==
    /\ \A c \in Caller : Reading(c) => /\ writer[c] \in Conn
                                       /\ line[writer[c]] \in {"open", "eof"}
    /\ \A c \in Caller : ~Reading(c) => writer[c] = None
    /\ \A c, d \in Caller : writer[c] # None /\ writer[c] = writer[d] => c = d
    /\ NoSocketLeft

(* A relay has an open client; a client whose connect is cut off is one the  *)
(* breaker cut, which leaves none open; and a probe that was challenged has *)
(* a relay, or had one.                                                    *)
UpstreamInv ==
    /\ \A k \in Conn : up[k] = "relay" => line[k] = "open"
    /\ \A k \in Conn : up[k] = "connecting" /\ line[k] = "eof" => died_fired
    /\ died_fired => \A k \in Conn : line[k] # "open"
    /\ \A c \in Caller : at[c] = "read2" => up[writer[c]] # "connecting"

LinkInv == SocketInv /\ UpstreamInv

(* What a probe does to its own state leaves that of the others alone. *)
LEMMA GivesUpEffect ==
    ASSUME WarmIInv, NEW c \in Caller, GivesUp(c)
    PROVE  /\ \A d \in Caller \ {c} : at'[d] = at[d]
           /\ at'[c] \in {"retry", "idle"}
           /\ Shut(c) /\ UNCHANGED vars
  BY DEF GivesUp, GoesOn, Return, Suspend, WarmIInv, WarmTypeOK

LEMMA ConcludesEffect ==
    ASSUME WarmIInv, NEW c \in Caller, NEW got, Concludes(c, got)
    PROVE  /\ \A d \in Caller \ {c} : at'[d] = at[d]
           /\ at'[c] \in {"post", "idle"}
           /\ Shut(c) /\ UNCHANGED vars
  BY DEF Concludes, GoesOn, Return, Suspend, WarmIInv, WarmTypeOK

(* What closing its socket does to the connections. *)
LEMMA ShutEffect ==
    ASSUME WarmIInv, NEW c \in Caller, Shut(c)
    PROVE  /\ writer'[c] = None
           /\ \A d \in Caller \ {c} : writer'[d] = writer[d]
           /\ \A k \in Conn : k # writer[c] => line'[k] = line[k] /\ up'[k] = up[k]
           /\ \A k \in Conn : k = writer[c] => line'[k] \in {"none", "shut"}
           /\ \A k \in Conn : up'[k] = "relay" => up[k] = "relay" /\ k # writer[c]
           /\ \A k \in Conn : up'[k] = "connecting" =>
                 up[k] = "connecting" /\ opened'[k] = opened[k] /\ by'[k] = by[k]
  <1>1. writer'[c] = None /\ \A d \in Caller \ {c} : writer'[d] = writer[d]
    BY DEF Shut, WarmIInv, WarmTypeOK
  <1>2. /\ \A k \in Conn : k # writer[c] => line'[k] = line[k] /\ up'[k] = up[k]
        /\ \A k \in Conn : k = writer[c] => line'[k] \in {"none", "shut"}
    BY DEF Shut, SetLinks
  <1>3. \A k \in Conn : up'[k] = "relay" => up[k] = "relay" /\ k # writer[c]
    BY DEF Shut, SetLinks, WarmIInv, WarmTypeOK
  <1>4. \A k \in Conn : up'[k] = "connecting" =>
                 up[k] = "connecting" /\ opened'[k] = opened[k] /\ by'[k] = by[k]
    BY DEF Shut, SetLinks
  <1>5. QED
    BY <1>1, <1>2, <1>3, <1>4

LEMMA ShutKeepsLinks ==
    ASSUME WarmIInv, LinkInv, NEW c \in Caller, Shut(c), UNCHANGED vars,
           \A d \in Caller \ {c} : at'[d] = at[d],
           at'[c] \in {"retry", "post", "idle"}
    PROVE  LinkInv'
  <1>1. /\ writer'[c] = None
        /\ \A d \in Caller \ {c} : writer'[d] = writer[d]
        /\ \A k \in Conn : k # writer[c] => line'[k] = line[k] /\ up'[k] = up[k]
        /\ \A k \in Conn : k = writer[c] => line'[k] \in {"none", "shut"}
        /\ \A k \in Conn : up'[k] = "relay" => up[k] = "relay" /\ k # writer[c]
        /\ \A k \in Conn : up'[k] = "connecting" => up[k] = "connecting"
    BY ShutEffect
  <1>2. died_fired' = died_fired
    BY DEF vars
  <1>3. ~Reading(c)' /\ \A d \in Caller \ {c} : Reading(d)' = Reading(d)
    BY DEF Reading
  <1>4. \A d \in Caller \ {c} : Reading(d) => writer[d] \in Conn /\ writer[d] # writer[c]
    BY ProbeAssumption DEF LinkInv, SocketInv
  <1>5. SocketInv'
    <2>1. \A d \in Caller : Reading(d)' => writer'[d] \in Conn
                                           /\ line'[writer'[d]] \in {"open", "eof"}
      BY <1>1, <1>3, <1>4 DEF LinkInv, SocketInv
    <2>2. \A d \in Caller : ~Reading(d)' => writer'[d] = None
      BY <1>1, <1>3 DEF LinkInv, SocketInv
    <2>3. \A d, e \in Caller : writer'[d] # None /\ writer'[d] = writer'[e] => d = e
      BY <1>1 DEF LinkInv, SocketInv
    <2>4. NoSocketLeft'
      <3>1. ASSUME NEW k \in Conn, line'[k] \in {"open", "eof"}
            PROVE  \E d \in Caller : writer'[d] = k /\ Reading(d)'
        <4>1. k # writer[c] /\ line[k] \in {"open", "eof"}
          BY <1>1, <3>1
        <4>2. PICK d \in Caller : writer[d] = k /\ Reading(d)
          BY <4>1 DEF LinkInv, SocketInv, NoSocketLeft, Reading
        <4>3. QED
          BY <1>1, <1>3, <4>1, <4>2
      <3>2. QED
        BY <3>1 DEF NoSocketLeft, Reading
    <2>5. QED
      BY <2>1, <2>2, <2>3, <2>4 DEF SocketInv
  <1>6. UpstreamInv'
    <2>1. \A k \in Conn : up'[k] = "relay" => line'[k] = "open"
      BY <1>1 DEF LinkInv, UpstreamInv
    <2>2. \A k \in Conn : up'[k] = "connecting" /\ line'[k] = "eof" => died_fired'
      BY <1>1, <1>2 DEF LinkInv, UpstreamInv
    <2>3. died_fired' => \A k \in Conn : line'[k] # "open"
      BY <1>1, <1>2 DEF LinkInv, UpstreamInv
    <2>4. ASSUME NEW d \in Caller, at'[d] = "read2"
          PROVE  up'[writer'[d]] # "connecting"
      <3>1. d # c /\ at[d] = "read2"
        BY <2>4
      <3>2. writer'[d] = writer[d] /\ writer[d] \in Conn /\ writer[d] # writer[c]
        BY <1>1, <1>4, <3>1 DEF Reading
      <3>3. QED
        BY <1>1, <3>1, <3>2 DEF LinkInv, UpstreamInv
    <2>5. QED
      BY <2>1, <2>2, <2>3, <2>4 DEF UpstreamInv
  <1>7. QED
    BY <1>5, <1>6 DEF LinkInv

LEMMA CallerKeepsLinks ==
    ASSUME WarmIInv, LinkInv, NEW c \in Caller, CallerStep(c)
    PROVE  LinkInv'
  <1>1. ASSUME GivesUp(c)
        PROVE  LinkInv'
    BY <1>1, GivesUpEffect, ShutKeepsLinks
  <1>2. ASSUME NEW got, Concludes(c, got)
        PROVE  LinkInv'
    BY <1>2, ConcludesEffect, ShutKeepsLinks
  <1>3. ASSUME UNCHANGED <<died_fired, writer, line, up>>,
               \A d \in Caller \ {c} : at'[d] = at[d],
               Reading(c)' = Reading(c),
               at'[c] = "read2" => at[c] = "read2" \/ up[writer[c]] = "relay"
        PROVE  LinkInv'
    <2>1. \A d \in Caller : Reading(d)' = Reading(d)
      BY <1>3 DEF Reading
    <2>2. SocketInv'
      BY <1>3, <2>1 DEF LinkInv, SocketInv, NoSocketLeft, Reading
    <2>3. UpstreamInv'
      BY <1>3 DEF LinkInv, UpstreamInv
    <2>4. QED
      BY <2>2, <2>3 DEF LinkInv
  <1>4. ASSUME NEW k \in Kind, Call(c, k)
        PROVE  LinkInv'
    <2>1. /\ \A d \in Caller \ {c} : at'[d] = at[d]
          /\ at[c] = "idle" /\ at'[c] = "open"
      BY <1>4 DEF Call, Suspend, WarmIInv, WarmTypeOK
    <2>2. UNCHANGED <<died_fired, writer, line, up>>
      BY <1>4 DEF Call, vars, links
    <2>3. QED
      BY <1>3, <2>1, <2>2 DEF Reading
  <1>5. ASSUME NEW k \in Conn, Opens(c, k)
        PROVE  LinkInv'
    <2>1. /\ \A d \in Caller \ {c} : at'[d] = at[d] /\ writer'[d] = writer[d]
          /\ at[c] = "open" /\ at'[c] = "read1" /\ writer'[c] = k
          /\ \A j \in Conn \ {k} : line'[j] = line[j] /\ up'[j] = up[j]
          /\ line[k] = "none" /\ up[k] = "none" /\ line'[k] = "open" /\ up'[k] = "connecting"
          /\ ~died_fired /\ died_fired' = died_fired
      BY <1>5 DEF Opens, GoesOn, Suspend, WarmIInv, WarmTypeOK, vars
    <2>2. Reading(c)' /\ \A d \in Caller \ {c} : Reading(d)' = Reading(d)
      BY <2>1 DEF Reading
    <2>3. \A d \in Caller \ {c} : Reading(d) => writer[d] \in Conn /\ writer[d] # k
      BY <2>1 DEF LinkInv, SocketInv
    <2>4. SocketInv'
      <3>1. \A d \in Caller : Reading(d)' => writer'[d] \in Conn
                                             /\ line'[writer'[d]] \in {"open", "eof"}
        BY <2>1, <2>2, <2>3 DEF LinkInv, SocketInv
      <3>2. \A d \in Caller : ~Reading(d)' => writer'[d] = None
        BY <2>1, <2>2 DEF LinkInv, SocketInv
      <3>3. \A d \in Caller \ {c} : writer[d] # k
        BY <2>3, ProbeAssumption DEF LinkInv, SocketInv
      <3>4. \A d, e \in Caller : writer'[d] # None /\ writer'[d] = writer'[e] => d = e
        BY <2>1, <3>3 DEF LinkInv, SocketInv
      <3>5. NoSocketLeft'
        <4>1. ASSUME NEW j \in Conn, line'[j] \in {"open", "eof"}
              PROVE  \E d \in Caller : writer'[d] = j /\ Reading(d)'
          <5>1. CASE j = k
            BY <2>1, <2>2, <5>1
          <5>2. CASE j # k
            <6>1. PICK d \in Caller : writer[d] = j /\ Reading(d)
              BY <2>1, <4>1, <5>2 DEF LinkInv, SocketInv, NoSocketLeft, Reading
            <6>2. d # c
              BY <2>1, <6>1 DEF Reading
            <6>3. QED
              BY <2>1, <2>2, <6>1, <6>2
          <5>3. QED
            BY <5>1, <5>2
        <4>2. QED
          BY <4>1 DEF NoSocketLeft, Reading
      <3>6. QED
        BY <3>1, <3>2, <3>4, <3>5 DEF SocketInv
    <2>5. UpstreamInv'
      BY <2>1, <2>3 DEF LinkInv, UpstreamInv, Reading
    <2>6. QED
      BY <2>4, <2>5 DEF LinkInv
  <1>6. CASE Challenged(c)
    <2>1. /\ \A d \in Caller \ {c} : at'[d] = at[d]
          /\ at[c] = "read1" /\ at'[c] = "read2" /\ up[writer[c]] = "relay"
      BY <1>6 DEF Challenged, GoesOn, Suspend, WarmIInv, WarmTypeOK
    <2>2. UNCHANGED <<died_fired, writer, line, up>>
      BY <1>6 DEF Challenged, vars, links
    <2>3. QED
      BY <1>3, <2>1, <2>2 DEF Reading
  <1>7. CASE Wakes(c)
    <2>1. /\ \A d \in Caller \ {c} : at'[d] = at[d]
          /\ at[c] \in {"retry", "post"} /\ at'[c] \in {"open", "idle"}
      BY <1>7 DEF Wakes, Return, Suspend, WarmIInv, WarmTypeOK
    <2>2. UNCHANGED <<died_fired, writer, line, up>>
      BY <1>7 DEF Wakes, vars, links
    <2>3. QED
      BY <1>3, <2>1, <2>2 DEF Reading
  <1>8. QED
    BY <1>1, <1>2, <1>4, <1>5, <1>6, <1>7
    DEF CallerStep, IsRefused, Unchallenged, Answered, ReadsEof, ReadTimesOut

(* A trip ends every client: no line is open and no relay is left. *)
LEMMA ProxyKeepsLinks ==
    ASSUME WarmIInv, LinkInv, NEW k \in Conn, ProxyStep(k)
    PROVE  LinkInv'
  <1>1. UNCHANGED <<at, writer>> /\ \A c \in Caller : Reading(c)' = Reading(c)
    BY DEF ProxyStep, UpstreamFails, UpstreamSucceeds, CameraHangsUp, probes, Reading
  <1>2. ASSUME \A j \in Conn : line'[j] \in {"open", "eof"} <=> line[j] \in {"open", "eof"},
               \A j \in Conn : up'[j] = "connecting" => up[j] = "connecting"
        PROVE  SocketInv' /\ \A c \in Caller : at'[c] = "read2" => up'[writer'[c]] # "connecting"
    <2>1. SocketInv'
      BY <1>1, <1>2 DEF LinkInv, SocketInv, NoSocketLeft, Reading
    <2>2. \A c \in Caller : at'[c] = "read2" => up'[writer'[c]] # "connecting"
      BY <1>1, <1>2 DEF LinkInv, SocketInv, UpstreamInv, Reading
    <2>3. QED
      BY <2>1, <2>2
  <1>3. CASE UpstreamFails(k)
    <2>1. died_fired => died_fired'
      BY <1>3 DEF UpstreamFails, ConnectFails, WarmIInv, WarmTypeOK, TypeOK
    <2>2. up[k] = "connecting" /\ up'[k] = "none"
      BY <1>3 DEF UpstreamFails, SetLinks
    <2>3. line'[k] = IF line[k] = "shut" THEN "none"
                     ELSE IF line[k] = "open" THEN "eof" ELSE line[k]
      BY <1>3 DEF UpstreamFails, SetLinks
    <2>4. CASE died_fired' /\ ~died_fired
      <3>1. \A j \in Conn \ {k} : /\ line'[j] = IF line[j] = "open" THEN "eof" ELSE line[j]
                                  /\ up'[j] = IF up[j] = "relay" THEN "none" ELSE up[j]
        BY <1>3, <2>4 DEF UpstreamFails, SetLinks
      <3>2. UpstreamInv'
        BY <1>1, <1>2, <2>2, <2>3, <2>4, <3>1 DEF LinkInv, UpstreamInv
      <3>3. SocketInv'
        BY <1>2, <2>2, <2>3, <3>1
      <3>4. QED
        BY <3>2, <3>3 DEF LinkInv
    <2>5. CASE ~(died_fired' /\ ~died_fired)
      <3>1. \A j \in Conn \ {k} : line'[j] = line[j] /\ up'[j] = up[j]
        BY <1>3, <2>5 DEF UpstreamFails, SetLinks
      <3>2. UpstreamInv'
        BY <1>2, <2>1, <2>2, <2>3, <2>5, <3>1 DEF LinkInv, UpstreamInv
      <3>3. SocketInv'
        BY <1>2, <2>2, <2>3, <3>1
      <3>4. QED
        BY <3>2, <3>3 DEF LinkInv
    <2>6. QED
      BY <2>4, <2>5
  <1>4. CASE UpstreamSucceeds(k)
    <2>1. died_fired' = died_fired /\ up[k] = "connecting"
      BY <1>4 DEF UpstreamSucceeds, ConnectSucceeds
    <2>2. /\ line'[k] = IF line[k] = "shut" THEN "none" ELSE line[k]
          /\ up'[k] = IF line[k] = "open" THEN "relay" ELSE "none"
          /\ \A j \in Conn \ {k} : line'[j] = line[j] /\ up'[j] = up[j]
      BY <1>4 DEF UpstreamSucceeds, SetLinks, WarmIInv, WarmTypeOK
    <2>3. UpstreamInv'
      BY <1>2, <2>1, <2>2 DEF LinkInv, UpstreamInv
    <2>4. SocketInv'
      BY <1>2, <2>1, <2>2
    <2>5. QED
      BY <2>3, <2>4 DEF LinkInv
  <1>5. CASE CameraHangsUp(k)
    <2>1. died_fired' = died_fired /\ up[k] = "relay" /\ line[k] = "open"
      BY <1>5 DEF CameraHangsUp, vars, LinkInv, UpstreamInv
    <2>2. /\ line'[k] = "eof" /\ up'[k] = "none"
          /\ \A j \in Conn \ {k} : line'[j] = line[j] /\ up'[j] = up[j]
      BY <1>5 DEF CameraHangsUp, SetLinks, WarmIInv, WarmTypeOK
    <2>3. UpstreamInv'
      BY <1>2, <2>1, <2>2 DEF LinkInv, UpstreamInv
    <2>4. SocketInv'
      BY <1>2, <2>1, <2>2
    <2>5. QED
      BY <2>3, <2>4 DEF LinkInv
  <1>6. QED
    BY <1>3, <1>4, <1>5 DEF ProxyStep

LEMMA LinksInvariant == WarmSpec => [](IInv /\ WarmIInv /\ LinkInv)
  <1>1. WarmSpec => []IInv
    BY ProbesDriveTheBreaker, Invariance, PTL
  <1>2. WarmSpec => []WarmIInv
    BY <1>1, WarmInitIInv, WarmNextIInv, PTL DEF WarmSpec
  <1>3. WarmInit => LinkInv
    BY DEF WarmInit, Init, LinkInv, SocketInv, UpstreamInv, NoSocketLeft, Reading
  <1>4. WarmIInv /\ LinkInv /\ [WarmNext]_wvars => LinkInv'
    <2>1. ASSUME LinkInv, UNCHANGED <<died_fired, probes, links>>
          PROVE  LinkInv'
      BY <2>1 DEF probes, links, LinkInv, SocketInv, UpstreamInv, NoSocketLeft, Reading
    <2>2. TimePasses \/ UNCHANGED wvars => UNCHANGED <<died_fired, probes, links>>
      BY DEF TimePasses, Tick, wvars, vars
    <2>3. QED
      BY <2>1, <2>2, CallerKeepsLinks, ProxyKeepsLinks DEF WarmNext
  <1>5. QED
    BY <1>1, <1>2, <1>3, <1>4, PTL DEF WarmSpec

(* No probe leaks its socket, on none of its ways out. *)
THEOREM SocketsAreClosed == WarmSpec => []NoSocketLeft
  <1>1. LinkInv => NoSocketLeft
    BY DEF LinkInv, SocketInv
  <1>2. QED
    BY <1>1, LinksInvariant, PTL

-----------------------------------------------------------------------------
(* The time a call takes.                                                  *)

(* An attempt that fails as late as it can, with the sleep after it. *)
Try == 2 * DescribeTimeout + RetryWait

(* The time by which a call's current wait is over, counted from the call. *)
Budget(c) ==
    CASE at[c] = "open"  -> (attempt[c] - 1) * Try
      [] at[c] = "read1" -> (attempt[c] - 1) * Try + DescribeTimeout
      [] at[c] = "read2" -> (attempt[c] - 1) * Try + 2 * DescribeTimeout
      [] at[c] = "post"  -> (attempt[c] - 1) * Try + 2 * DescribeTimeout + PostWait
      [] at[c] = "retry" -> attempt[c] * Try

(* Time does not pass what a call waits for, and that is within its budget. *)
OnTime(c) ==
    at[c] # "idle" =>
        /\ began[c] <= now /\ now <= due[c]
        /\ due[c] - began[c] <= Budget(c)
        /\ attempt[c] >= 1
        /\ kind[c] # "warm" => attempt[c] = 1 /\ at[c] \in {"open", "read1", "read2"}

ClockInv == \A c \in Caller : OnTime(c)

(* What a step of one probe leaves alone. *)
SameCall(c) ==
    UNCHANGED <<kind[c], at[c], attempt[c], due[c], ready[c], began[c], writer[c]>>

LEMMA CallerFrame ==
    ASSUME WarmIInv, NEW c \in Caller, CallerStep(c)
    PROVE  /\ UNCHANGED vars
           /\ \A d \in Caller \ {c} : SameCall(d)
  <1>1. ASSUME NEW d \in Caller \ {c}, Shut(c)
        PROVE  writer'[d] = writer[d]
    BY <1>1 DEF Shut
  <1>2. ASSUME NEW d \in Caller \ {c}, NEW where, NEW until, NEW got,
               GoesOn(c, where, until, got)
        PROVE  UNCHANGED <<kind[d], at[d], attempt[d], due[d], ready[d], began[d]>>
    BY <1>2 DEF GoesOn, Suspend, WarmIInv, WarmTypeOK
  <1>3. ASSUME NEW d \in Caller \ {c}, NEW got, Return(c, got)
        PROVE  UNCHANGED <<kind[d], at[d], attempt[d], due[d], ready[d], began[d]>>
    BY <1>3 DEF Return, Suspend, WarmIInv, WarmTypeOK
  <1>4. ASSUME GivesUp(c)
        PROVE  UNCHANGED vars /\ \A d \in Caller \ {c} : SameCall(d)
    BY <1>1, <1>2, <1>3, <1>4 DEF GivesUp, SameCall
  <1>5. ASSUME NEW got, Concludes(c, got)
        PROVE  UNCHANGED vars /\ \A d \in Caller \ {c} : SameCall(d)
    BY <1>1, <1>2, <1>3, <1>5 DEF Concludes, SameCall
  <1>6. ASSUME NEW k \in Kind, Call(c, k)
        PROVE  UNCHANGED vars /\ \A d \in Caller \ {c} : SameCall(d)
    BY <1>6 DEF Call, Suspend, WarmIInv, WarmTypeOK, SameCall
  <1>7. ASSUME NEW k \in Conn, Opens(c, k)
        PROVE  UNCHANGED vars /\ \A d \in Caller \ {c} : SameCall(d)
    <2>1. \A d \in Caller \ {c} : writer'[d] = writer[d]
      BY <1>7 DEF Opens, WarmIInv, WarmTypeOK
    <2>2. QED
      BY <1>2, <1>7, <2>1 DEF Opens, SameCall
  <1>8. CASE Challenged(c)
    BY <1>2, <1>8 DEF Challenged, SameCall
  <1>9. CASE Wakes(c)
    <2>1. CASE at[c] = "retry"
      BY <1>9, <2>1 DEF Wakes, Suspend, WarmIInv, WarmTypeOK, SameCall
    <2>2. CASE at[c] # "retry"
      BY <1>3, <1>9, <2>2 DEF Wakes, SameCall
    <2>3. QED
      BY <2>1, <2>2
  <1>10. QED
    BY <1>4, <1>5, <1>6, <1>7, <1>8, <1>9
    DEF CallerStep, IsRefused, Unchallenged, Answered, ReadsEof, ReadTimesOut

LEMMA TryTimes ==
    ASSUME NEW n \in Nat
    PROVE  /\ (n - 1) * Try \in Int /\ n * Try \in Int
           /\ n * Try = (n - 1) * Try + 2 * DescribeTimeout + RetryWait
           /\ \A m \in Nat : n <= m => (n - 1) * Try <= (m - 1) * Try
  <1>1. Try \in Nat
    BY ProbeAssumption DEF Try
  <1>2. (n - 1) * Try \in Int /\ n * Try \in Int
    BY <1>1
  <1>3. n * Try = (n - 1) * Try + Try
    BY <1>1
  <1>4. ASSUME NEW m \in Nat, n <= m
        PROVE  (n - 1) * Try <= (m - 1) * Try
    <2>1. \A d \in Nat, t \in Nat : d * t \in Nat
      OBVIOUS
    <2>2. m - n \in Nat /\ (m - n) * Try \in Nat
      BY <1>1, <1>4, <2>1
    <2>3. (m - 1) * Try = (n - 1) * Try + (m - n) * Try
      BY <1>1
    <2>4. (m - 1) * Try \in Int
      BY <1>1
    <2>5. QED
      BY <1>2, <2>2, <2>3, <2>4
  <1>5. QED
    BY <1>2, <1>3, <1>4, ProbeAssumption DEF Try

(* A call in progress has used up no more than its budget. *)
LEMMA UsedTime ==
    ASSUME WarmIInv, NEW c \in Caller, OnTime(c), at[c] \in {"open", "read1", "read2"}
    PROVE  /\ attempt[c] \in Nat /\ attempt[c] >= 1
           /\ began[c] \in Nat /\ now \in Nat /\ began[c] <= now
           /\ now - began[c] <= (attempt[c] - 1) * Try + 2 * DescribeTimeout
  <1>1. /\ attempt[c] \in Nat /\ began[c] \in Nat /\ due[c] \in Nat /\ now \in Nat
        /\ DescribeTimeout \in Nat
    BY ProbeAssumption DEF WarmIInv, WarmTypeOK, TypeOK
  <1>2. (attempt[c] - 1) * Try \in Int
    BY <1>1, TryTimes
  <1>3. Budget(c) \in Int /\ Budget(c) <= (attempt[c] - 1) * Try + 2 * DescribeTimeout
    <2>1. CASE at[c] = "open"
      BY <1>1, <1>2, <2>1 DEF Budget
    <2>2. CASE at[c] = "read1"
      BY <1>1, <1>2, <2>2 DEF Budget
    <2>3. CASE at[c] = "read2"
      BY <1>1, <1>2, <2>3 DEF Budget
    <2>4. QED
      BY <2>1, <2>2, <2>3
  <1>4. QED
    BY <1>1, <1>2, <1>3 DEF OnTime

LEMMA GivesUpOnTime ==
    ASSUME WarmIInv, NEW c \in Caller, OnTime(c), at[c] \in {"open", "read1", "read2"},
           GivesUp(c)
    PROVE  OnTime(c)'
  <1>1. CASE MayRetry(c)
    <2>1. /\ at'[c] = "retry" /\ due'[c] = now + RetryWait
          /\ attempt'[c] = attempt[c] /\ began'[c] = began[c] /\ kind'[c] = "warm"
          /\ now' = now
      BY <1>1 DEF GivesUp, MayRetry, GoesOn, Suspend, vars, WarmIInv, WarmTypeOK
    <2>2. Budget(c)' = attempt[c] * Try
      BY <2>1 DEF Budget
    <2>3. now + RetryWait - began[c] <= attempt[c] * Try
      BY UsedTime, TryTimes, ProbeAssumption
    <2>4. QED
      BY <2>1, <2>2, <2>3, UsedTime, ProbeAssumption DEF OnTime
  <1>2. CASE ~MayRetry(c)
    BY <1>2 DEF GivesUp, Return, Suspend, WarmIInv, WarmTypeOK, OnTime
  <1>3. QED
    BY <1>1, <1>2

LEMMA ConcludesOnTime ==
    ASSUME WarmIInv, NEW c \in Caller, OnTime(c), at[c] \in {"read1", "read2"},
           NEW got, Concludes(c, got)
    PROVE  OnTime(c)'
  <1>1. CASE kind[c] = "warm"
    <2>1. /\ at'[c] = "post" /\ due'[c] = now + PostWait
          /\ attempt'[c] = attempt[c] /\ began'[c] = began[c] /\ kind'[c] = "warm"
          /\ now' = now
      BY <1>1 DEF Concludes, Pause, GoesOn, Suspend, vars, WarmIInv, WarmTypeOK
    <2>2. Budget(c)' = (attempt[c] - 1) * Try + 2 * DescribeTimeout + PostWait
      BY <2>1 DEF Budget
    <2>3. now + PostWait - began[c] <= (attempt[c] - 1) * Try + 2 * DescribeTimeout + PostWait
      BY UsedTime, TryTimes, ProbeAssumption
    <2>4. QED
      BY <2>1, <2>2, <2>3, UsedTime, ProbeAssumption DEF OnTime
  <1>2. CASE kind[c] # "warm"
    BY <1>2 DEF Concludes, Return, Suspend, WarmIInv, WarmTypeOK, OnTime
  <1>3. QED
    BY <1>1, <1>2

LEMMA CallerOnTime ==
    ASSUME WarmIInv, NEW c \in Caller, OnTime(c), CallerStep(c)
    PROVE  OnTime(c)'
  <1>1. /\ now \in Nat /\ attempt[c] \in Nat /\ began[c] \in Nat /\ due[c] \in Nat
        /\ DescribeTimeout \in Nat /\ now' = now
    BY CallerFrame, ProbeAssumption DEF WarmIInv, WarmTypeOK, TypeOK, vars
  <1>2. (attempt[c] - 1) * Try \in Int
    BY <1>1, TryTimes
  <1>3. ASSUME NEW k \in Kind, Call(c, k)
        PROVE  OnTime(c)'
    <2>1. /\ at'[c] = "open" /\ due'[c] = now /\ attempt'[c] = 1 /\ began'[c] = now
      BY <1>3 DEF Call, Suspend, WarmIInv, WarmTypeOK
    <2>2. Budget(c)' = 0
      <3>1. (1 - 1) * Try = 0
        BY ProbeAssumption DEF Try
      <3>2. QED
        BY <2>1, <3>1 DEF Budget
    <2>3. QED
      BY <1>1, <2>1, <2>2 DEF OnTime
  <1>4. ASSUME NEW k \in Conn, Opens(c, k)
        PROVE  OnTime(c)'
    <2>1. /\ at[c] = "open" /\ at'[c] = "read1" /\ due'[c] = now + DescribeTimeout
          /\ attempt'[c] = attempt[c] /\ began'[c] = began[c] /\ kind'[c] = kind[c]
      BY <1>4 DEF Opens, GoesOn, Suspend, WarmIInv, WarmTypeOK
    <2>2. /\ Budget(c) = (attempt[c] - 1) * Try
          /\ Budget(c)' = (attempt[c] - 1) * Try + DescribeTimeout
      BY <2>1 DEF Budget
    <2>3. QED
      BY <1>1, <1>2, <2>1, <2>2 DEF OnTime
  <1>5. CASE Challenged(c)
    <2>1. /\ at[c] = "read1" /\ at'[c] = "read2" /\ due'[c] = now + DescribeTimeout
          /\ attempt'[c] = attempt[c] /\ began'[c] = began[c] /\ kind'[c] = kind[c]
      BY <1>5 DEF Challenged, GoesOn, Suspend, WarmIInv, WarmTypeOK
    <2>2. /\ Budget(c) = (attempt[c] - 1) * Try + DescribeTimeout
          /\ Budget(c)' = (attempt[c] - 1) * Try + 2 * DescribeTimeout
      BY <2>1 DEF Budget
    <2>3. QED
      BY <1>1, <1>2, <2>1, <2>2 DEF OnTime
  <1>6. CASE Wakes(c)
    <2>1. CASE at[c] = "retry"
      <3>1. /\ at'[c] = "open" /\ due'[c] = now /\ now = due[c]
            /\ attempt'[c] = attempt[c] + 1 /\ began'[c] = began[c] /\ kind'[c] = kind[c]
        BY <1>6, <2>1 DEF Wakes, Suspend, WarmIInv, WarmTypeOK
      <3>2. Budget(c) = attempt[c] * Try /\ Budget(c)' = attempt[c] * Try
        <4>1. (attempt[c] + 1) - 1 = attempt[c]
          BY <1>1
        <4>2. QED
          BY <2>1, <3>1, <4>1 DEF Budget
      <3>3. attempt[c] * Try \in Int
        BY <1>1, TryTimes
      <3>4. QED
        BY <1>1, <2>1, <3>1, <3>2, <3>3 DEF OnTime
    <2>2. CASE at[c] # "retry"
      BY <1>6, <2>2 DEF Wakes, Return, Suspend, WarmIInv, WarmTypeOK, OnTime
    <2>3. QED
      BY <2>1, <2>2
  <1>7. QED
    BY <1>3, <1>4, <1>5, <1>6, GivesUpOnTime, ConcludesOnTime
    DEF CallerStep, IsRefused, Unchallenged, Answered, ReadsEof, ReadTimesOut, ReadIsDue

(* No step of any process makes a call late. *)
LEMMA NextOnTime ==
    ASSUME WarmIInv, ClockInv, [WarmNext]_wvars
    PROVE  ClockInv'
  <1>1. ASSUME NEW d \in Caller, SameCall(d), now' = now, OnTime(d)
        PROVE  OnTime(d)'
    BY <1>1 DEF SameCall, OnTime, Budget
  <1>2. ASSUME NEW c \in Caller, CallerStep(c)
        PROVE  ClockInv'
    <2>1. ASSUME NEW d \in Caller
          PROVE  OnTime(d)'
      BY <1>1, <1>2, CallerFrame, CallerOnTime DEF ClockInv, vars
    <2>2. QED
      BY <2>1 DEF ClockInv
  <1>3. ASSUME UNCHANGED <<now, probes>>
        PROVE  ClockInv'
    BY <1>3 DEF probes, ClockInv, OnTime, Budget
  <1>4. ASSUME NEW k \in Conn, ProxyStep(k)
        PROVE  ClockInv'
    BY <1>3, <1>4 DEF ProxyStep, UpstreamFails, UpstreamSucceeds, CameraHangsUp,
                      ConnectFails, ConnectSucceeds, vars
  <1>5. CASE TimePasses
    <2>1. ASSUME NEW d \in Caller
          PROVE  OnTime(d)'
      <3>1. UNCHANGED <<kind[d], at[d], attempt[d], due[d], began[d]>> /\ now' = now + 1
        BY <1>5 DEF TimePasses, Tick, probes
      <3>2. now \in Nat /\ due[d] \in Nat /\ began[d] \in Nat /\ at[d] \in ProbeState
        BY DEF WarmIInv, WarmTypeOK, TypeOK
      <3>3. at[d] # "idle" => now # due[d]
        BY <1>5, <3>2 DEF TimePasses, Overdue, ReadIsDue, ProbeState
      <3>4. Budget(d)' = Budget(d)
        BY <3>1 DEF Budget
      <3>5. QED
        BY <3>1, <3>2, <3>3, <3>4 DEF ClockInv, OnTime
    <2>2. QED
      BY <2>1 DEF ClockInv
  <1>6. CASE UNCHANGED wvars
    BY <1>3, <1>6 DEF wvars, vars
  <1>7. QED
    BY <1>2, <1>4, <1>5, <1>6 DEF WarmNext

LEMMA ClockInvariant == WarmSpec => []ClockInv
  <1>1. WarmInit => ClockInv
    BY DEF WarmInit, ClockInv, OnTime
  <1>2. QED
    BY <1>1, NextOnTime, LinksInvariant, PTL DEF WarmSpec

(* A call returns in bounded time, for all timeouts and numbers of attempts. *)
THEOREM CallsReturnInTime == WarmSpec => []CallsAreBounded
  <1>1. ASSUME WarmIInv, ClockInv
        PROVE  CallsAreBounded
    <2>1. ASSUME NEW c \in Caller, at[c] # "idle"
          PROVE  now - began[c] <=
                    IF kind[c] = "warm"
                    THEN MaxAttempts * (2 * DescribeTimeout)
                         + (MaxAttempts - 1) * RetryWait + PostWait
                    ELSE 2 * DescribeTimeout
      <3>1. /\ now \in Nat /\ attempt[c] \in Nat /\ began[c] \in Nat /\ due[c] \in Nat
            /\ at[c] \in ProbeState /\ attempt[c] <= MaxAttempts
            /\ at[c] = "retry" => attempt[c] + 1 <= MaxAttempts
            /\ DescribeTimeout \in Nat /\ RetryWait \in Nat /\ PostWait \in Nat
            /\ MaxAttempts \in Nat
        <4>1. /\ now \in Nat /\ attempt[c] \in 0 .. MaxAttempts /\ began[c] \in Nat
              /\ due[c] \in Nat /\ at[c] \in ProbeState
          BY <1>1 DEF WarmIInv, WarmTypeOK, TypeOK
        <4>2. at[c] = "retry" => attempt[c] < MaxAttempts
          BY <1>1 DEF WarmIInv
        <4>3. QED
          BY <4>1, <4>2, ProbeAssumption
      <3>2. /\ (attempt[c] - 1) * Try \in Int /\ (MaxAttempts - 1) * Try \in Int
            /\ (attempt[c] - 1) * Try <= (MaxAttempts - 1) * Try
        BY <3>1, TryTimes
      <3>3. at[c] = "retry" => attempt[c] * Try <= (MaxAttempts - 1) * Try
        <4>1. attempt[c] + 1 \in Nat /\ (attempt[c] + 1) - 1 = attempt[c]
          BY <3>1
        <4>2. QED
          BY <3>1, <4>1, TryTimes
      <3>4. /\ due[c] - began[c] <= Budget(c) /\ now <= due[c]
            /\ kind[c] # "warm" => attempt[c] = 1 /\ at[c] \in {"open", "read1", "read2"}
        BY <1>1, <2>1 DEF ClockInv, OnTime
      <3>5. (MaxAttempts - 1) * Try + 2 * DescribeTimeout =
              MaxAttempts * (2 * DescribeTimeout) + (MaxAttempts - 1) * RetryWait
        BY <3>1 DEF Try
      <3>6. Budget(c) \in Int /\ Budget(c) <= (MaxAttempts - 1) * Try + 2 * DescribeTimeout + PostWait
        <4>1. attempt[c] * Try \in Int
          BY <3>1, TryTimes
        <4>2. CASE at[c] = "retry"
          BY <3>1, <3>2, <3>3, <4>1, <4>2 DEF Budget
        <4>3. CASE at[c] = "post"
          BY <3>1, <3>2, <4>3 DEF Budget
        <4>4. CASE at[c] = "open"
          BY <3>1, <3>2, <4>4 DEF Budget
        <4>5. CASE at[c] = "read1"
          BY <3>1, <3>2, <4>5 DEF Budget
        <4>6. CASE at[c] = "read2"
          BY <3>1, <3>2, <4>6 DEF Budget
        <4>7. QED
          BY <2>1, <3>1, <4>2, <4>3, <4>4, <4>5, <4>6 DEF ProbeState
      <3>7. CASE kind[c] = "warm"
        <4>1. now - began[c] <= (MaxAttempts - 1) * Try + 2 * DescribeTimeout + PostWait
          BY <3>1, <3>2, <3>4, <3>6
        <4>2. QED
          BY <3>5, <3>7, <4>1
      <3>8. CASE kind[c] # "warm"
        <4>1. (attempt[c] - 1) * Try = 0
          <5>1. Try \in Nat /\ attempt[c] - 1 = 0
            BY <3>1, <3>4, <3>8 DEF Try
          <5>2. QED
            BY <5>1
        <4>2. now - began[c] <= (attempt[c] - 1) * Try + 2 * DescribeTimeout
          BY <1>1, <3>4, <3>8, UsedTime DEF ClockInv
        <4>3. QED
          BY <3>1, <3>8, <4>1, <4>2
      <3>9. QED
        BY <3>7, <3>8
    <2>2. QED
      BY <2>1 DEF CallsAreBounded
  <1>2. QED
    BY <1>1, LinksInvariant, ClockInvariant, PTL

-----------------------------------------------------------------------------
(* What a probe that gave up leaves connecting behind it.                  *)

(* A connect k of an earlier attempt of c's call: c has waited for its       *)
(* answer and slept since, unless the breaker tripped meanwhile, after      *)
(* which no attempt is answered.                                           *)
Outlasts(c, k) ==
    /\ at[c] = "retry" => died_fired \/ due[c] >= opened[k] + DescribeTimeout + RetryWait
    /\ at[c] \in {"open", "read1", "read2"} =>
          died_fired \/ now >= opened[k] + DescribeTimeout + RetryWait
    /\ at[c] = "post" /\ ready[c] =>
          due[c] >= opened[k] + DescribeTimeout + RetryWait + PostWait

(* The proxy's connect k is that of the attempt c waits for, or an older one. *)
ConnectOf(c, k) ==
    IF writer[c] = k
    THEN at[c] = "read1" /\ due[c] = opened[k] + DescribeTimeout
    ELSE /\ died_fired \/ opened[k] < now
         /\ at[c] # "idle" /\ opened[k] >= began[c] => Outlasts(c, k)

QuietInv ==
    \A k \in Conn : up[k] = "connecting" =>
        /\ opened[k] <= now /\ now <= opened[k] + ConnectTimeout
        /\ \A c \in Caller : by[k] = c => ConnectOf(c, k)

(* A step that leaves a call alone, and every connect it makes possible.    *)
LEMMA SameConnectOf ==
    ASSUME NEW d \in Caller, NEW k \in Conn, SameCall(d), UNCHANGED <<now, died_fired>>,
           opened'[k] = opened[k], ConnectOf(d, k)
    PROVE  ConnectOf(d, k)'
  BY DEF SameCall, ConnectOf, Outlasts

(* Every connect in progress after a probe's step was so before, if the     *)
(* probe did not begin it.                                                 *)
LEMMA CallerConnects ==
    ASSUME WarmIInv, NEW c \in Caller, CallerStep(c), NEW k \in Conn, up'[k] = "connecting"
    PROVE  \/ up[k] = "connecting" /\ opened'[k] = opened[k] /\ by'[k] = by[k]
           \/ Opens(c, k)
  <1>1. ASSUME Shut(c)
        PROVE  up[k] = "connecting" /\ opened'[k] = opened[k] /\ by'[k] = by[k]
    BY <1>1, ShutEffect
  <1>2. ASSUME NEW j \in Conn, Opens(c, j)
        PROVE  j # k => up[k] = "connecting" /\ opened'[k] = opened[k] /\ by'[k] = by[k]
    BY <1>2 DEF Opens, WarmIInv, WarmTypeOK
  <1>3. ASSUME UNCHANGED links
        PROVE  up[k] = "connecting" /\ opened'[k] = opened[k] /\ by'[k] = by[k]
    BY <1>3 DEF links
  <1>4. QED
    BY <1>1, <1>2, <1>3 DEF CallerStep, Call, IsRefused, Challenged, Unchallenged, Answered,
       ReadsEof, ReadTimesOut, Wakes, GivesUp, Concludes

(* An attempt that fails: its connect, if it still runs, was waited for.    *)
LEMMA GivesUpQuietly ==
    ASSUME WarmIInv, LinkInv, DescribeTimeout > 0, NEW c \in Caller, GivesUp(c),
           at[c] \in {"open", "read1", "read2"},
           Reading(c) => now = due[c] \/ up[writer[c]] # "connecting" \/ died_fired,
           NEW k \in Conn, up'[k] = "connecting", ConnectOf(c, k), opened[k] <= now
    PROVE  ConnectOf(c, k)'
  <1>1. /\ writer'[c] = None /\ None # k
        /\ up[k] = "connecting" /\ opened'[k] = opened[k]
        /\ now' = now /\ died_fired' = died_fired
        /\ now \in Nat /\ opened[k] \in Nat /\ due[c] \in Nat
    BY ShutEffect, ProbeAssumption DEF GivesUp, vars, WarmIInv, WarmTypeOK, TypeOK
  <1>2. died_fired \/ opened[k] < now
    <2>1. CASE writer[c] = k
      <3>1. at[c] = "read1" /\ due[c] = opened[k] + DescribeTimeout
        BY <2>1 DEF ConnectOf
      <3>2. QED
        BY <1>1, <2>1, <3>1, ProbeAssumption DEF Reading
    <2>2. CASE writer[c] # k
      BY <2>2 DEF ConnectOf
    <2>3. QED
      BY <2>1, <2>2
  <1>3. CASE MayRetry(c)
    <2>1. /\ at'[c] = "retry" /\ due'[c] = now + RetryWait /\ began'[c] = began[c]
      BY <1>3 DEF GivesUp, GoesOn, Suspend, WarmIInv, WarmTypeOK
    <2>2. opened[k] >= began[c] => died_fired \/ now >= opened[k] + DescribeTimeout
      <3>1. CASE writer[c] = k
        BY <1>1, <3>1, ProbeAssumption DEF ConnectOf, Reading
      <3>2. CASE writer[c] # k
        BY <1>1, <3>2, ProbeAssumption DEF ConnectOf, Outlasts
      <3>3. QED
        BY <3>1, <3>2
    <2>3. QED
      BY <1>1, <1>2, <2>1, <2>2, ProbeAssumption DEF ConnectOf, Outlasts
  <1>4. CASE ~MayRetry(c)
    <2>1. at'[c] = "idle"
      BY <1>4 DEF GivesUp, Return, Suspend, WarmIInv, WarmTypeOK
    <2>2. QED
      BY <1>1, <1>2, <2>1 DEF ConnectOf
  <1>5. QED
    BY <1>3, <1>4

(* An attempt that is answered: the breaker has not tripped.                *)
LEMMA ConcludesQuietly ==
    ASSUME WarmIInv, LinkInv, NEW c \in Caller, NEW got \in BOOLEAN, Concludes(c, got),
           Reading(c), up[writer[c]] # "connecting", got => ~died_fired,
           NEW k \in Conn, up'[k] = "connecting", ConnectOf(c, k)
    PROVE  ConnectOf(c, k)'
  <1>1. /\ writer'[c] = None /\ None # k
        /\ up[k] = "connecting" /\ opened'[k] = opened[k] /\ writer[c] # k
        /\ now' = now /\ died_fired' = died_fired
        /\ now \in Nat /\ opened[k] \in Nat
    BY ShutEffect, ProbeAssumption DEF Concludes, vars, WarmIInv, WarmTypeOK, TypeOK
  <1>2. CASE kind[c] = "warm"
    <2>1. /\ at'[c] = "post" /\ due'[c] = now + PostWait /\ began'[c] = began[c]
          /\ ready'[c] = got
      BY <1>2 DEF Concludes, Pause, GoesOn, Suspend, WarmIInv, WarmTypeOK
    <2>2. QED
      BY <1>1, <2>1, ProbeAssumption DEF ConnectOf, Outlasts, Reading
  <1>3. CASE kind[c] # "warm"
    <2>1. at'[c] = "idle"
      BY <1>3 DEF Concludes, Return, Suspend, WarmIInv, WarmTypeOK
    <2>2. QED
      BY <1>1, <2>1 DEF ConnectOf
  <1>4. QED
    BY <1>2, <1>3

(* A probe's step, and a connect that it did not begin. *)
LEMMA CallerKeepsConnect ==
    ASSUME WarmIInv, LinkInv, ClockInv, DescribeTimeout > 0,
           NEW c \in Caller, CallerStep(c),
           NEW k \in Conn, up[k] = "connecting", up'[k] = "connecting",
           opened'[k] = opened[k], ConnectOf(c, k), opened[k] <= now
    PROVE  ConnectOf(c, k)'
  <1>1. /\ now' = now /\ died_fired' = died_fired
        /\ now \in Nat /\ opened[k] \in Nat /\ due[c] \in Nat /\ died_fired \in BOOLEAN
    BY CallerFrame DEF vars, WarmIInv, WarmTypeOK, TypeOK
  <1>2. ~Reading(c) => writer[c] # k
    BY ProbeAssumption DEF LinkInv, SocketInv
  <1>3. Reading(c) /\ up[writer[c]] = "relay" => ~died_fired /\ writer[c] # k
    BY DEF LinkInv, SocketInv, UpstreamInv
  <1>4. ASSUME NEW kd \in Kind, Call(c, kd)
        PROVE  ConnectOf(c, k)'
    <2>1. at[c] = "idle" /\ at'[c] = "open" /\ began'[c] = now /\ writer' = writer
      BY <1>4 DEF Call, Suspend, WarmIInv, WarmTypeOK
    <2>2. QED
      BY <1>1, <1>2, <2>1 DEF Reading, ConnectOf, Outlasts
  <1>5. ASSUME NEW j \in Conn, Opens(c, j)
        PROVE  ConnectOf(c, k)'
    <2>1. /\ at[c] = "open" /\ at'[c] = "read1" /\ began'[c] = began[c]
          /\ writer'[c] = j /\ j # k
      BY <1>5 DEF Opens, GoesOn, Suspend, WarmIInv, WarmTypeOK
    <2>2. QED
      BY <1>1, <1>2, <2>1 DEF Reading, ConnectOf, Outlasts
  <1>6. CASE IsRefused(c)
    BY <1>6, GivesUpQuietly DEF IsRefused, Reading
  <1>7. CASE Challenged(c)
    <2>1. /\ at[c] = "read1" /\ at'[c] = "read2" /\ began'[c] = began[c]
          /\ writer' = writer /\ up[writer[c]] = "relay"
      BY <1>7 DEF Challenged, GoesOn, Suspend, WarmIInv, WarmTypeOK
    <2>2. QED
      BY <1>1, <1>3, <2>1 DEF Reading, ConnectOf, Outlasts
  <1>8. CASE Unchallenged(c)
    <2>1. Reading(c) /\ at[c] = "read1" /\ up[writer[c]] = "relay" /\ ~died_fired
      BY <1>3, <1>8 DEF Unchallenged, Reading
    <2>2. CASE GivesUp(c)
      BY <2>1, <2>2, GivesUpQuietly
    <2>3. CASE Concludes(c, TRUE)
      BY <2>1, <2>3, ConcludesQuietly
    <2>4. QED
      BY <1>8, <2>2, <2>3 DEF Unchallenged
  <1>9. CASE Answered(c)
    <2>1. Reading(c) /\ up[writer[c]] = "relay" /\ ~died_fired
      BY <1>3, <1>9 DEF Answered, Reading
    <2>2. QED
      BY <1>9, <2>1, ConcludesQuietly DEF Answered
  <1>10. CASE ReadsEof(c)
    <2>1. Reading(c) /\ writer[c] \in Conn /\ line[writer[c]] = "eof"
      BY <1>10 DEF ReadsEof, Reading, LinkInv, SocketInv
    <2>2. up[writer[c]] # "connecting" \/ died_fired
      BY <2>1 DEF LinkInv, UpstreamInv
    <2>3. CASE GivesUp(c)
      BY <1>10, <2>1, <2>2, <2>3, GivesUpQuietly DEF ReadsEof
    <2>4. CASE at[c] = "read2" /\ Concludes(c, FALSE)
      <3>1. up[writer[c]] # "connecting"
        BY <2>4 DEF LinkInv, UpstreamInv
      <3>2. QED
        BY <1>10, <2>1, <2>4, <3>1, ConcludesQuietly DEF ReadsEof
    <2>5. QED
      BY <1>10, <2>3, <2>4 DEF ReadsEof
  <1>11. CASE ReadTimesOut(c)
    BY <1>11, GivesUpQuietly DEF ReadTimesOut, ReadIsDue
  <1>12. CASE Wakes(c)
    <2>1. at[c] \in {"retry", "post"} /\ now = due[c] /\ writer' = writer
      BY <1>12 DEF Wakes
    <2>2. CASE at[c] = "retry"
      <3>1. at'[c] = "open" /\ began'[c] = began[c]
        BY <1>12, <2>2 DEF Wakes, Suspend, WarmIInv, WarmTypeOK
      <3>2. QED
        BY <1>1, <1>2, <2>1, <2>2, <3>1 DEF Reading, ConnectOf, Outlasts
    <2>3. CASE at[c] = "post"
      <3>1. at'[c] = "idle"
        BY <1>12, <2>3 DEF Wakes, Return, Suspend, WarmIInv, WarmTypeOK
      <3>2. QED
        BY <1>1, <1>2, <2>1, <2>3, <3>1 DEF Reading, ConnectOf
    <2>4. QED
      BY <2>1, <2>2, <2>3
  <1>13. QED
    BY <1>4, <1>5, <1>6, <1>7, <1>8, <1>9, <1>10, <1>11, <1>12 DEF CallerStep

LEMMA CallerKeepsQuiet ==
    ASSUME WarmIInv, LinkInv, ClockInv, QuietInv, DescribeTimeout > 0,
           NEW c \in Caller, CallerStep(c)
    PROVE  QuietInv'
  <1>1. now' = now /\ died_fired' = died_fired /\ now \in Nat
    BY CallerFrame DEF vars, WarmIInv, WarmTypeOK, TypeOK
  <1>2. ASSUME NEW k \in Conn, up'[k] = "connecting", up[k] = "connecting",
               opened'[k] = opened[k], by'[k] = by[k]
        PROVE  /\ opened'[k] <= now' /\ now' <= opened'[k] + ConnectTimeout
               /\ \A d \in Caller : by'[k] = d => ConnectOf(d, k)'
    <2>1. opened'[k] <= now' /\ now' <= opened'[k] + ConnectTimeout
      BY <1>1, <1>2 DEF QuietInv
    <2>2. ASSUME NEW d \in Caller, by'[k] = d
          PROVE  ConnectOf(d, k)'
      <3>1. ConnectOf(d, k) /\ opened[k] <= now
        BY <1>2, <2>2 DEF QuietInv
      <3>2. CASE d = c
        BY <1>2, <3>1, <3>2, CallerKeepsConnect
      <3>3. CASE d # c
        BY <1>1, <1>2, <3>1, <3>3, CallerFrame, SameConnectOf
      <3>4. QED
        BY <3>2, <3>3
    <2>3. QED
      BY <2>1, <2>2
  <1>3. ASSUME NEW k \in Conn, Opens(c, k)
        PROVE  /\ opened'[k] <= now' /\ now' <= opened'[k] + ConnectTimeout
               /\ \A d \in Caller : by'[k] = d => ConnectOf(d, k)'
    <2>1. /\ opened'[k] = now /\ by'[k] = c /\ writer'[c] = k
          /\ at'[c] = "read1" /\ due'[c] = now + DescribeTimeout
      BY <1>3 DEF Opens, GoesOn, Suspend, WarmIInv, WarmTypeOK
    <2>2. ConnectOf(c, k)'
      BY <2>1 DEF ConnectOf
    <2>3. QED
      BY <1>1, <2>1, <2>2, ProbeAssumption
  <1>4. ASSUME NEW k \in Conn, up'[k] = "connecting"
        PROVE  /\ opened'[k] <= now' /\ now' <= opened'[k] + ConnectTimeout
               /\ \A d \in Caller : by'[k] = d => ConnectOf(d, k)'
    BY <1>2, <1>3, <1>4, CallerConnects
  <1>5. QED
    BY <1>4 DEF QuietInv

(* The proxy ends connects and begins none; only a trip can come in between. *)
LEMMA ProxyKeepsQuiet ==
    ASSUME WarmIInv, QuietInv, NEW k \in Conn, ProxyStep(k)
    PROVE  QuietInv'
  <1>1. /\ UNCHANGED probes /\ now' = now
        /\ died_fired => died_fired'
    BY DEF ProxyStep, UpstreamFails, UpstreamSucceeds, CameraHangsUp, ConnectFails,
           ConnectSucceeds, vars, WarmIInv, WarmTypeOK, TypeOK
  <1>2. \A j \in Conn : up'[j] = "connecting" =>
            up[j] = "connecting" /\ opened'[j] = opened[j] /\ by'[j] = by[j]
    <2>1. CASE UpstreamFails(k)
      BY <2>1 DEF UpstreamFails, SetLinks
    <2>2. CASE UpstreamSucceeds(k)
      BY <2>2 DEF UpstreamSucceeds, SetLinks, WarmIInv, WarmTypeOK
    <2>3. CASE CameraHangsUp(k)
      BY <2>3 DEF CameraHangsUp, SetLinks, WarmIInv, WarmTypeOK
    <2>4. QED
      BY <2>1, <2>2, <2>3 DEF ProxyStep
  <1>3. ASSUME NEW j \in Conn, NEW d \in Caller, opened'[j] = opened[j], ConnectOf(d, j)
        PROVE  ConnectOf(d, j)'
    BY <1>1, <1>3 DEF probes, ConnectOf, Outlasts
  <1>4. QED
    BY <1>1, <1>2, <1>3 DEF QuietInv

LEMMA QuietInvariant ==
    ASSUME DescribeTimeout > 0
    PROVE  WarmSpec => []QuietInv
  <1>1. WarmInit => QuietInv
    BY DEF WarmInit, QuietInv
  <1>2. WarmIInv /\ LinkInv /\ ClockInv /\ QuietInv /\ [WarmNext]_wvars => QuietInv'
    <2>1. SUFFICES ASSUME WarmIInv, LinkInv, ClockInv, QuietInv, [WarmNext]_wvars
                   PROVE  QuietInv'
      OBVIOUS
    <2>2. CASE TimePasses
      <3>1. UNCHANGED <<died_fired, probes, links>> /\ now' = now + 1 /\ now \in Nat
        BY <2>1, <2>2 DEF TimePasses, Tick, WarmIInv, WarmTypeOK, TypeOK
      <3>2. \A k \in Conn : up[k] = "connecting" => now # opened[k] + ConnectTimeout
        BY <2>2 DEF TimePasses, Overdue
      <3>3. \A k \in Conn : opened[k] \in Nat
        BY <2>1 DEF WarmIInv, WarmTypeOK
      <3>4. ASSUME NEW k \in Conn, up'[k] = "connecting"
            PROVE  opened'[k] <= now' /\ now' <= opened'[k] + ConnectTimeout
        BY <2>1, <3>1, <3>2, <3>3, <3>4, ProbeAssumption DEF QuietInv, links
      <3>5. ASSUME NEW k \in Conn, NEW c \in Caller, ConnectOf(c, k)
            PROVE  ConnectOf(c, k)'
        BY <3>1, <3>3, <3>5, ProbeAssumption DEF ConnectOf, Outlasts, probes, links
      <3>6. QED
        BY <2>1, <3>1, <3>4, <3>5 DEF QuietInv, links
    <2>3. CASE UNCHANGED wvars
      BY <2>1, <2>3 DEF wvars, vars, probes, links, QuietInv, ConnectOf, Outlasts
    <2>4. QED
      BY <2>1, <2>2, <2>3, CallerKeepsQuiet, ProxyKeepsQuiet DEF WarmNext
  <1>3. QED
    BY <1>1, <1>2, LinksInvariant, ClockInvariant, PTL DEF WarmSpec

(* With timeouts such that an attempt, its sleep and the final sleep outlast *)
(* a connect of the proxy (5 + 3 + 3 s against 10 s in the code), a warm-up *)
(* that says ready leaves none of its own attempts connecting.             *)
THEOREM QuietAfterWarmUp ==
    ASSUME DescribeTimeout > 0,
           DescribeTimeout + RetryWait + PostWait > ConnectTimeout
    PROVE  WarmSpec => QuietWhenReady
  <1> DEFINE Quiet ==
        \A c \in Caller :
          at[c] = "post" /\ at'[c] = "idle" /\ ready'[c] =>
             \A k \in Conn : by[k] = c /\ opened[k] >= began[c]
                                => up[k] # "connecting"
  <1>1. WarmIInv /\ LinkInv /\ ClockInv /\ QuietInv /\ [WarmNext]_wvars => [Quiet]_wvars
    <2>1. SUFFICES ASSUME WarmIInv, LinkInv, ClockInv, QuietInv, [WarmNext]_wvars,
                          NEW c \in Caller, at[c] = "post", at'[c] = "idle", ready'[c],
                          NEW k \in Conn, by[k] = c, opened[k] >= began[c],
                          up[k] = "connecting"
                   PROVE  FALSE
      OBVIOUS
    <2>2. CallerStep(c)
      <3>1. at'[c] # at[c]
        BY <2>1
      <3>2. \A d \in Caller \ {c} : ~CallerStep(d)
        BY <2>1, <3>1, CallerFrame DEF SameCall
      <3>3. \A j \in Conn : ~ProxyStep(j)
        BY <3>1 DEF ProxyStep, UpstreamFails, UpstreamSucceeds, CameraHangsUp, probes
      <3>4. ~TimePasses /\ ~UNCHANGED wvars
        BY <3>1 DEF TimePasses, wvars, probes
      <3>5. QED
        BY <2>1, <3>2, <3>3, <3>4 DEF WarmNext
    <2>3. Wakes(c)
      BY <2>1, <2>2 DEF CallerStep, Call, Opens, IsRefused, Challenged, Unchallenged, Answered,
         ReadsEof, ReadTimesOut, ReadIsDue
    <2>4. now = due[c] /\ ready[c]
      BY <2>1, <2>3 DEF Wakes, Return, Suspend, WarmIInv, WarmTypeOK
    <2>5. writer[c] # k
      BY <2>1, ProbeAssumption DEF LinkInv, SocketInv, Reading
    <2>6. due[c] >= opened[k] + DescribeTimeout + RetryWait + PostWait
      BY <2>1, <2>4, <2>5 DEF QuietInv, ConnectOf, Outlasts
    <2>7. now <= opened[k] + ConnectTimeout /\ opened[k] \in Nat
      BY <2>1 DEF QuietInv, WarmIInv, WarmTypeOK
    <2>8. QED
      BY <2>1, <2>4, <2>6, <2>7, ProbeAssumption DEF WarmIInv, WarmTypeOK, TypeOK
  <1>2. QED
    BY <1>1, LinksInvariant, ClockInvariant, QuietInvariant, PTL DEF WarmSpec, QuietWhenReady
=============================================================================
