------------------------- MODULE CameraWriteProofs -------------------------
(***************************************************************************)
(* Proofs about CameraWrite, for any number of calls, rotations of the     *)
(* credentials and expiries of the nonce.                                  *)
(***************************************************************************)
EXTENDS CameraWrite, TLAPS

Requests == [step : Step,
             auth : [nonce : 0 .. MaxNonce,
                     response : [hash : {"none", "MD5", "SHA-256"}, from : SUBSET Input],
                     directives : SUBSET Input]]

Replies == [kind : {"none", "ok", "other", "err", "challenge", "bare"},
            stale : BOOLEAN, nonce : 0 .. MaxNonce]

(* A lamp that a call awaits an answer about, one that a request of it may  *)
(* still switch, and one that it neither has switched nor will.            *)
Current(n, l) == at[n] \in Step /\ Target(at[n]) = l

Pending(n, l) == \E r \in wire[n] : Target(r.step) = l

Untouched(n, l) == applied[n][l] = 0 /\ ~Pending(n, l)

(* A call has an outcome for no lamp before it was answered about it, and  *)
(* began after the calls it counts as having returned.                     *)
CallOrder(n) ==
    /\ at[n] = "new" => before[n] = {} /\ \A l \in Lamp : status[n][l] = "unsent"
    /\ at[n] \notin Step => reply[n].kind = "none"
    /\ at[n] # "done" => result[n] = "none"
    /\ at[n] \in Step \ {"topdown"} => status[n]["topdown"] = "unsent"
    /\ \A m \in before[n] : at[m] = "done"

(* A call has one request per lamp on its way, and none once it is carried  *)
(* out or refused.                                                         *)
LampState(n, l) ==
    /\ applied[n][l] = 0 \/ (applied[n][l] = 1 /\ ~Pending(n, l))
    /\ status[n][l] = "ok" => applied[n][l] = 1
    /\ status[n][l] \in {"refused", "denied"} => Untouched(n, l)
    /\ status[n][l] = "unsent" /\ ~Current(n, l) => Untouched(n, l)
    /\ Current(n, l) =>
          /\ status[n][l] = "unsent"
          /\ reply[n].kind = "ok" => applied[n][l] = 1
          /\ reply[n].kind \notin {"none", "ok"} => Untouched(n, l)

Writes(n) ==
    /\ \A r, q \in wire[n] : Target(r.step) = Target(q.step) => r = q
    /\ \A l \in Lamp : LampState(n, l)

(* A result is what the outcomes make it. *)
Results(n) ==
    /\ result[n] = "true" => \E l \in Lamp : status[n][l] = "ok"
    /\ result[n] = "false" => \A l \in Lamp : status[n][l] # "ok"

(* The credentials of a call are not the camera's, or not asked for in a    *)
(* way the library knows; or its nonce has expired k times since it began. *)
Hopeless(n) == mine[n] # cred \/ ~Answerable

Outdated(n, k) == Hopeless(n) \/ nonce >= since[n] + k

(* The header of a request answers the camera's challenge, and has a nonce  *)
(* that was the camera's when the call began or later, the third one's a   *)
(* later one.                                                              *)
Proper(n, r) ==
    /\ r.step \in {"second", "third"} =>
          /\ r.auth.response = Response /\ r.auth.directives = Directives
          /\ since[n] <= r.auth.nonce /\ r.auth.nonce <= nonce
    /\ r.step = "third" => since[n] + 1 <= r.auth.nonce

(* What a challenge tells a call of its credentials and nonce. *)
Challenged(n) ==
    /\ since[n] <= reply[n].nonce /\ reply[n].nonce <= nonce
    /\ at[n] = "second" => IF reply[n].stale THEN since[n] + 1 <= reply[n].nonce
                                             ELSE Hopeless(n)
    /\ at[n] = "third" => Outdated(n, 2)

Digests(n) ==
    /\ mine[n] <= cred /\ since[n] <= nonce
    /\ api[n] = "digest" => at[n] \in {"new", "first", "second", "third", "done"}
    /\ \A r \in wire[n] : Proper(n, r)
    /\ reply[n].kind = "challenge" => Challenged(n)
    /\ api[n] = "digest" /\ status[n]["front"] = "denied" => Outdated(n, 2)

CallInv == \A n \in Call : CallOrder(n) /\ Writes(n) /\ Results(n) /\ Digests(n)

(* OnlyDoubtfulWritesComeLate, from the moment the lamp is switched. *)
Succeeding(n, l) ==
    status[n][l] = "ok" \/ (Current(n, l) /\ reply[n].kind = "ok")

LateInv ==
    \A l \in Lamp, m, n \in Call :
        Succeeding(n, l) /\ m \in before[n] /\ switched[l] = m => status[m][l] = "none"

IInv == TypeOK /\ CallInv /\ LateInv

-----------------------------------------------------------------------------
LEMMA Targets ==
    /\ \A s : Target(s) \in Lamp
    /\ \A s \in Step \ {"topdown"} : Target(s) = "front"
    /\ Target("topdown") = "topdown"
  BY DEF Target, Lamp

(* If the challenge can be answered, the header discloses all that the      *)
(* response was computed from, in the way the camera computes it.          *)
LEMMA HeaderVerifies ==
    ASSUME TypeOK, Answerable
    PROVE  /\ Response = Expected(Directives)
           /\ Directives = Response.from
           /\ "qop" \in Directives \/ scheme.qop = "none" \/ scheme.lenient
  <1>1. /\ UsedHash = scheme.hash /\ (IsSess <=> scheme.sess)
        /\ scheme.qop \in {"none", "auth", "auth-int"}
        /\ scheme.qop = "auth-int" => scheme.lenient
    BY DEF TypeOK, Asked, Answerable, UsedHash, IsSess
  <1>2. "qop" \in Directives <=> scheme.qop = "auth"
    BY DEF Directives
  <1>3. Directives = Response.from
    BY DEF Directives, Response, Input
  <1>4. Response = Expected(Directives)
    BY <1>1, <1>2 DEF Response, Expected
  <1>5. QED
    BY <1>1, <1>2, <1>3, <1>4

(* What was asked for stays as it is. *)
LEMMA SchemeStays ==
    ASSUME UNCHANGED scheme
    PROVE  Response' = Response /\ Directives' = Directives /\ Answerable' = Answerable
  BY DEF Response, Directives, Answerable, UsedHash, IsSess

LEMMA InitIInv == Init => IInv
  <1>1. SUFFICES ASSUME Init
                 PROVE  IInv
    OBVIOUS
  <1>2. TypeOK
    <2>1. scheme \in Asked /\ guarded \in BOOLEAN
      BY <1>1 DEF Init
    <2>2. cred \in 0 .. MaxCred /\ nonce \in 0 .. MaxNonce /\ 0 \in 0 .. MaxCred /\ 0 \in 0 .. MaxNonce
      BY <1>1, WriteAssumption DEF Init
    <2>3. switched \in [Lamp -> Call \cup {Nobody}] /\ applied \in [Call -> [Lamp -> Nat]]
      BY <1>1 DEF Init
    <2>4. /\ api \in [Call -> Api] /\ at \in [Call -> Step \cup {"new", "done"}]
          /\ mine \in [Call -> 0 .. MaxCred] /\ since \in [Call -> 0 .. MaxNonce]
          /\ status \in [Call -> [Lamp -> {"unsent", "ok", "refused", "denied", "none"}]]
          /\ result \in [Call -> {"none", "true", "false"}]
          /\ before \in [Call -> SUBSET Call]
      BY <1>1, <2>2 DEF Init, Api
    <2>5. /\ \A n \in Call : wire[n] = {}
          /\ wire \in [Call -> SUBSET Requests]
      BY <1>1 DEF Init, Requests
    <2>6. reply \in [Call -> Replies]
      BY <1>1, <2>2 DEF Init, NoReply, Replies
    <2>7. QED
      BY <2>1, <2>2, <2>3, <2>4, <2>5, <2>6 DEF TypeOK, Requests, Replies
  <1>3. ASSUME NEW n \in Call
        PROVE  CallOrder(n) /\ Writes(n) /\ Results(n) /\ Digests(n)
    <2>1. /\ at[n] = "new" /\ before[n] = {} /\ reply[n].kind = "none" /\ result[n] = "none"
          /\ wire[n] = {} /\ \A l \in Lamp : status[n][l] = "unsent" /\ applied[n][l] = 0
          /\ mine[n] = 0 /\ cred = 0 /\ since[n] = 0 /\ nonce = 0
      BY <1>1 DEF Init, NoReply
    <2>2. "new" \notin Step /\ "front" \in Lamp
      BY DEF Step, Lamp
    <2>3. CallOrder(n) /\ Results(n) /\ Digests(n)
      BY <2>1, <2>2 DEF CallOrder, Results, Digests
    <2>4. Writes(n)
      BY <2>1, <2>2 DEF Writes, LampState, Untouched, Pending, Current
    <2>5. QED
      BY <2>3, <2>4
  <1>4. LateInv
    BY <1>1 DEF Init, LateInv
  <1>5. QED
    BY <1>2, <1>3, <1>4 DEF IInv, CallInv

(* What happens to others, a rotation and an expiry leave a call alone. *)
LEMMA OthersKeep ==
    ASSUME IInv, NEW m \in Call,
           /\ at'[m] = at[m] /\ api'[m] = api[m] /\ mine'[m] = mine[m]
           /\ status'[m] = status[m] /\ result'[m] = result[m]
           /\ wire'[m] = wire[m] /\ reply'[m] = reply[m]
           /\ since'[m] = since[m] /\ before'[m] = before[m] /\ applied'[m] = applied[m],
           scheme' = scheme,
           cred' \in Nat /\ cred <= cred', nonce' \in Nat /\ nonce <= nonce',
           \A k \in Call : at[k] = "done" => at'[k] = "done"
    PROVE  (CallOrder(m) /\ Writes(m) /\ Results(m) /\ Digests(m))'
  <1>1. CallOrder(m) /\ Writes(m) /\ Results(m) /\ Digests(m)
    BY DEF IInv, CallInv
  <1>2. /\ cred \in Nat /\ nonce \in Nat /\ mine[m] \in Nat /\ since[m] \in Nat
        /\ before[m] \subseteq Call /\ reply[m].nonce \in Nat
        /\ \A r \in wire[m] : r.auth.nonce \in Nat
    BY WriteAssumption DEF IInv, TypeOK
  <1>3. CallOrder(m)'
    BY <1>1, <1>2 DEF CallOrder
  <1>4. Writes(m)' /\ Results(m)'
    BY <1>1 DEF Writes, LampState, Untouched, Pending, Current, Results
  <1>5. Digests(m)'
    <2>1. mine'[m] <= cred' /\ since'[m] <= nonce'
      BY <1>1, <1>2 DEF Digests
    <2>2. Hopeless(m) => Hopeless(m)'
      BY <1>1, <1>2, SchemeStays DEF Digests, Hopeless
    <2>3. Outdated(m, 2) => Outdated(m, 2)'
      BY <1>2, <2>2 DEF Outdated
    <2>4. Challenged(m) => Challenged(m)'
      BY <1>2, <2>2, <2>3 DEF Challenged
    <2>5. ASSUME NEW r \in wire[m]
          PROVE  Proper(m, r)'
      BY <1>1, <1>2, <2>5, SchemeStays DEF Digests, Proper
    <2>6. QED
      BY <1>1, <2>1, <2>3, <2>4, <2>5 DEF Digests
  <1>6. QED
    BY <1>3, <1>4, <1>5

(* A step that begins no call, switches no lamp and brings no success. *)
LEMMA LateKeeps ==
    ASSUME IInv, UNCHANGED <<switched, before>>,
           \A n \in Call, l \in Lamp : Succeeding(n, l)' => Succeeding(n, l),
           \A m \in Call : at[m] = "done" => status'[m] = status[m]
    PROVE  LateInv'
  <1>1. SUFFICES ASSUME NEW l \in Lamp, NEW m \in Call, NEW n \in Call,
                        Succeeding(n, l)', m \in before[n], switched[l] = m
                 PROVE  status'[m][l] = "none"
    BY DEF LateInv
  <1>2. status[m][l] = "none" /\ at[m] = "done"
    BY <1>1 DEF IInv, LateInv, CallInv, CallOrder
  <1>3. QED
    BY <1>2

-----------------------------------------------------------------------------
LEMMA BeginKeeps ==
    ASSUME IInv, NEW n \in Call, NEW a \in Api, Begin(n, a)
    PROVE  IInv'
  <1> DEFINE first == FirstStep(a)
             q == [step |-> first, auth |-> NoAuthorization]
  <1>1. PICK c \in IF a = "digest" THEN 0 .. cred ELSE {0} : mine' = [mine EXCEPT ![n] = c]
    BY DEF Begin
  <1>2. /\ at[n] = "new"
        /\ api' = [api EXCEPT ![n] = a]
        /\ since' = [since EXCEPT ![n] = IF a = "digest" THEN nonce ELSE 0]
        /\ before' = [before EXCEPT ![n] = {m \in Call : at[m] = "done"}]
        /\ at' = [at EXCEPT ![n] = first]
        /\ wire' = [wire EXCEPT ![n] = @ \cup {q}]
        /\ reply' = [reply EXCEPT ![n] = NoReply]
        /\ UNCHANGED <<switched, applied, guarded, scheme, cred, nonce, status, result>>
    BY DEF Begin, Sends, camera
  <1>3. TypeOK /\ CallOrder(n) /\ Writes(n) /\ Results(n) /\ Digests(n)
    BY DEF IInv, CallInv
  <1>4. /\ first \in {"front", "plain", "first"} /\ first \in Step \ {"topdown"}
        /\ a = "digest" => first = "first"
        /\ Target(first) = "front" /\ Lamp = {"front", "topdown"}
        /\ "new" \notin Step /\ "done" \notin Step
    BY DEF FirstStep, Api, Step, Lamp, Target
  <1>5. /\ \A l \in Lamp : status[n][l] = "unsent" /\ applied[n][l] = 0
        /\ wire[n] = {}
    <2>1. \A l \in Lamp : status[n][l] = "unsent" /\ Untouched(n, l)
      BY <1>2, <1>3, <1>4 DEF CallOrder, Writes, LampState, Current
    <2>2. QED
      BY <2>1, Targets DEF Untouched, Pending
  <1>6. cred \in Nat /\ nonce \in Nat /\ c \in 0 .. cred /\ 0 \in Nat
    BY <1>3, WriteAssumption DEF TypeOK
  <1>7. /\ at'[n] = first /\ wire'[n] = {q} /\ reply'[n] = NoReply /\ mine'[n] = c
        /\ api'[n] = a /\ since'[n] = (IF a = "digest" THEN nonce ELSE 0)
        /\ before'[n] = {m \in Call : at[m] = "done"}
    BY <1>1, <1>2, <1>3, <1>5 DEF TypeOK
  <1>8. \A m \in Call \ {n} :
           /\ at'[m] = at[m] /\ api'[m] = api[m] /\ mine'[m] = mine[m]
           /\ wire'[m] = wire[m] /\ reply'[m] = reply[m]
           /\ since'[m] = since[m] /\ before'[m] = before[m]
    BY <1>1, <1>2, <1>3 DEF TypeOK
  <1>9. TypeOK'
    <2>1. mine' \in [Call -> 0 .. MaxCred] /\ since' \in [Call -> 0 .. MaxNonce]
      <3>1. c \in 0 .. MaxCred
        BY <1>3, <1>6, WriteAssumption DEF TypeOK
      <3>2. nonce \in 0 .. MaxNonce /\ 0 \in 0 .. MaxNonce
        BY <1>3, WriteAssumption DEF TypeOK
      <3>3. QED
        BY <1>1, <1>2, <1>3, <3>1, <3>2 DEF TypeOK
    <2>2. /\ api' \in [Call -> Api] /\ at' \in [Call -> Step \cup {"new", "done"}]
          /\ before' \in [Call -> SUBSET Call]
      BY <1>2, <1>3, <1>4 DEF TypeOK
    <2>3. wire' \in [Call -> SUBSET Requests]
      <3>1. q \in Requests
        BY <1>4, WriteAssumption DEF NoAuthorization, Requests
      <3>2. QED
        BY <1>2, <1>3, <3>1 DEF TypeOK, Requests
    <2>4. reply' \in [Call -> Replies]
      BY <1>2, <1>3, WriteAssumption DEF TypeOK, NoReply, Replies
    <2>5. \A m \in Call : reply'[m].kind # "none" => \A r \in wire'[m] : r.step # at'[m]
      <3>1. reply'[n].kind = "none"
        BY <1>7 DEF NoReply
      <3>2. \A m \in Call \ {n} : reply'[m].kind # "none" => \A r \in wire'[m] : r.step # at'[m]
        BY <1>3, <1>8 DEF TypeOK
      <3>3. QED
        BY <3>1, <3>2
    <2>6. QED
      BY <1>2, <1>3, <2>1, <2>2, <2>3, <2>4, <2>5 DEF TypeOK, Requests, Replies
  <1>10. CallOrder(n)'
    BY <1>2, <1>3, <1>4, <1>5, <1>7, <1>8 DEF CallOrder, NoReply
  <1>11. Writes(n)'
    <2>1. ASSUME NEW l \in Lamp
          PROVE  LampState(n, l)'
      <3>1. /\ Pending(n, l)' <=> l = "front"
            /\ Current(n, l)' <=> l = "front"
        BY <1>4, <1>7, <2>1 DEF Pending, Current
      <3>2. status'[n][l] = "unsent" /\ applied'[n][l] = 0 /\ reply'[n].kind = "none"
        BY <1>2, <1>5, <1>7, <2>1 DEF NoReply
      <3>3. QED
        BY <3>1, <3>2 DEF LampState, Untouched
    <2>2. QED
      BY <1>7, <2>1 DEF Writes
  <1>12. Results(n)'
    BY <1>2, <1>3 DEF Results
  <1>13. Digests(n)'
    <2>1. mine'[n] <= cred' /\ since'[n] <= nonce'
      BY <1>2, <1>6, <1>7
    <2>2. \A r \in wire'[n] : Proper(n, r)'
      BY <1>4, <1>7 DEF Proper
    <2>3. status'[n]["front"] # "denied" /\ reply'[n].kind # "challenge"
      BY <1>2, <1>4, <1>5, <1>7 DEF NoReply
    <2>4. QED
      BY <1>4, <1>7, <2>1, <2>2, <2>3 DEF Digests
  <1>14. CallInv'
    <2>1. ASSUME NEW m \in Call \ {n}
          PROVE  (CallOrder(m) /\ Writes(m) /\ Results(m) /\ Digests(m))'
      <3>1. \A k \in Call : at[k] = "done" => at'[k] = "done"
        BY <1>2, <1>8
      <3>2. cred' \in Nat /\ cred <= cred' /\ nonce' \in Nat /\ nonce <= nonce'
        BY <1>2, <1>6
      <3>3. QED
        BY <1>2, <1>8, <2>1, <3>1, <3>2, OthersKeep
    <2>2. QED
      BY <1>10, <1>11, <1>12, <1>13, <2>1 DEF CallInv
  <1>15. LateInv'
    <2>1. ASSUME NEW l \in Lamp, NEW m \in Call, NEW k \in Call,
                 Succeeding(k, l)', m \in before'[k], switched[l] = m
          PROVE  status[m][l] = "none"
      <3>1. k # n
        BY <1>2, <1>5, <1>7, <2>1 DEF Succeeding, NoReply
      <3>2. Succeeding(k, l) /\ m \in before[k]
        BY <1>2, <1>8, <2>1, <3>1 DEF Succeeding, Current
      <3>3. QED
        BY <2>1, <3>2 DEF IInv, LateInv
    <2>2. QED
      BY <1>2, <2>1 DEF LateInv
  <1>16. QED
    BY <1>9, <1>14, <1>15 DEF IInv

(* The call answers a challenge: nothing of it can still be carried out. *)
LEMMA ChallengeKeeps ==
    ASSUME IInv, NEW n \in Call, AnswersChallenge(n)
    PROVE  IInv'
  <1> DEFINE step == IF at[n] = "first" THEN "second" ELSE "third"
             q == [step |-> step, auth |-> Authorization(reply[n].nonce)]
  <1>1. /\ reply[n].kind = "challenge"
        /\ at[n] = "first" \/ (at[n] = "second" /\ reply[n].stale)
        /\ at' = [at EXCEPT ![n] = step]
        /\ wire' = [wire EXCEPT ![n] = @ \cup {q}]
        /\ reply' = [reply EXCEPT ![n] = NoReply]
        /\ UNCHANGED <<switched, applied, guarded, scheme, cred, nonce, api, mine, status,
                       result, since, before>>
    BY DEF AnswersChallenge, Retries, Sends, camera
  <1>2. TypeOK /\ CallOrder(n) /\ Writes(n) /\ Results(n) /\ Digests(n)
    BY DEF IInv, CallInv
  <1>3. /\ at[n] \in Step \ {"topdown"} /\ Target(at[n]) = "front"
        /\ step \in {"second", "third"} /\ step \in Step \ {"topdown"} /\ Target(step) = "front"
        /\ Lamp = {"front", "topdown"} /\ "new" \notin Step /\ "done" \notin Step
    BY <1>1 DEF Step, Lamp, Target
  <1>4. /\ at'[n] = step /\ wire'[n] = wire[n] \cup {q} /\ reply'[n] = NoReply
        /\ \A m \in Call \ {n} : at'[m] = at[m] /\ wire'[m] = wire[m] /\ reply'[m] = reply[m]
    BY <1>1, <1>2 DEF TypeOK
  <1>5. Untouched(n, "front") /\ status[n]["front"] = "unsent"
    BY <1>1, <1>2, <1>3 DEF Writes, LampState, Current
  <1>6. /\ q \in Requests /\ q.step = step /\ q.auth.nonce = reply[n].nonce
        /\ q.auth.response = Response /\ q.auth.directives = Directives
    <2>1. reply[n].nonce \in 0 .. MaxNonce
      BY <1>2 DEF TypeOK
    <2>2. Directives \subseteq Input
      BY DEF Directives, Input
    <2>3. Response \in [hash : {"none", "MD5", "SHA-256"}, from : SUBSET Input]
      BY DEF Response, UsedHash, Input
    <2>4. QED
      BY <1>3, <2>1, <2>2, <2>3 DEF Requests, Authorization
  <1>7. TypeOK'
    <2>1. at' \in [Call -> Step \cup {"new", "done"}] /\ wire' \in [Call -> SUBSET Requests]
      BY <1>1, <1>2, <1>3, <1>6 DEF TypeOK, Requests
    <2>2. reply' \in [Call -> Replies]
      BY <1>1, <1>2, WriteAssumption DEF TypeOK, NoReply, Replies
    <2>3. \A m \in Call : reply'[m].kind # "none" => \A r \in wire'[m] : r.step # at'[m]
      <3>1. reply'[n].kind = "none"
        BY <1>4 DEF NoReply
      <3>2. \A m \in Call \ {n} : reply'[m].kind # "none" => \A r \in wire'[m] : r.step # at'[m]
        BY <1>2, <1>4 DEF TypeOK
      <3>3. QED
        BY <3>1, <3>2
    <2>4. QED
      BY <1>1, <1>2, <2>1, <2>2, <2>3 DEF TypeOK, Requests, Replies
  <1>8. CallOrder(n)'
    <2>1. \A m \in before[n] : at'[m] = "done"
      BY <1>2, <1>3, <1>4 DEF CallOrder, TypeOK
    <2>2. QED
      BY <1>1, <1>2, <1>3, <1>4, <2>1 DEF CallOrder
  <1>9. Writes(n)'
    <2>1. ASSUME NEW l \in Lamp
          PROVE  LampState(n, l)'
      <3>1. CASE l = "front"
        <4>1. Current(n, l)' /\ status'[n][l] = "unsent" /\ reply'[n].kind = "none"
              /\ applied'[n][l] = 0
          BY <1>1, <1>3, <1>4, <1>5, <3>1 DEF Current, NoReply, Untouched
        <4>2. QED
          BY <4>1 DEF LampState
      <3>2. CASE l # "front"
        <4>1. ~Current(n, l) /\ ~Current(n, l)' /\ (Pending(n, l)' <=> Pending(n, l))
          BY <1>3, <1>4, <1>6, <3>2 DEF Current, Pending
        <4>2. LampState(n, l)
          BY <1>2 DEF Writes
        <4>3. QED
          BY <1>1, <4>1, <4>2 DEF LampState, Untouched
      <3>3. QED
        BY <3>1, <3>2
    <2>2. \A r, p \in wire'[n] : Target(r.step) = Target(p.step) => r = p
      BY <1>2, <1>3, <1>4, <1>5, <1>6 DEF Writes, Untouched, Pending
    <2>3. QED
      BY <2>1, <2>2 DEF Writes
  <1>10. Results(n)'
    BY <1>1, <1>2 DEF Results
  <1>11. Digests(n)'
    <2>1. reply'[n].kind # "challenge"
      BY <1>4 DEF NoReply
    <2>2. ASSUME NEW r \in wire'[n]
          PROVE  Proper(n, r)'
      <3>1. Response' = Response /\ Directives' = Directives
        BY <1>1, SchemeStays
      <3>2. CASE r \in wire[n]
        BY <1>1, <1>2, <3>1, <3>2 DEF Digests, Proper
      <3>3. CASE r = q
        <4>1. /\ r.step = step /\ r.auth.response = Response /\ r.auth.directives = Directives
              /\ since[n] <= r.auth.nonce /\ r.auth.nonce <= nonce
          BY <1>1, <1>2, <1>6, <3>3 DEF Digests, Challenged
        <4>2. r.step = "third" => since[n] + 1 <= r.auth.nonce
          BY <1>1, <1>2, <1>6, <3>3 DEF Digests, Challenged
        <4>3. QED
          BY <1>1, <3>1, <4>1, <4>2 DEF Proper
      <3>4. QED
        BY <1>4, <3>2, <3>3
    <2>3. at'[n] \in {"second", "third"}
      BY <1>3, <1>4
    <2>4. /\ mine'[n] <= cred' /\ since'[n] <= nonce'
          /\ (api'[n] = "digest" /\ status'[n]["front"] = "denied") => Outdated(n, 2)'
      BY <1>1, <1>2, SchemeStays DEF Digests, Outdated, Hopeless
    <2>5. QED
      BY <2>1, <2>2, <2>3, <2>4 DEF Digests
  <1>12. CallInv'
    <2>1. ASSUME NEW m \in Call \ {n}
          PROVE  (CallOrder(m) /\ Writes(m) /\ Results(m) /\ Digests(m))'
      <3>1. cred \in Nat /\ nonce \in Nat
        BY <1>2, WriteAssumption DEF TypeOK
      <3>2. \A k \in Call : at[k] = "done" => at'[k] = "done"
        BY <1>3, <1>4
      <3>3. QED
        BY <1>1, <1>4, <2>1, <3>1, <3>2, OthersKeep
    <2>2. QED
      BY <1>8, <1>9, <1>10, <1>11, <2>1 DEF CallInv
  <1>13. LateInv'
    <2>1. \A m \in Call, l \in Lamp : Succeeding(m, l)' => Succeeding(m, l)
      BY <1>1, <1>4 DEF Succeeding, Current, NoReply
    <2>2. QED
      BY <1>1, <2>1, LateKeeps
  <1>14. QED
    BY <1>7, <1>12, <1>13 DEF IInv

(* An await is over, with an outcome that its answer, if any, justifies. *)
LEMMA ConcludesKeeps ==
    ASSUME IInv, NEW n \in Call, NEW o \in {"ok", "refused", "denied", "none"},
           at[n] \in Step, Concludes(n, o),
           o = "ok" => reply[n].kind = "ok",
           o \in {"refused", "denied"} => reply[n].kind \notin {"none", "ok"},
           o = "denied" /\ api[n] = "digest" => Outdated(n, 2)
    PROVE  IInv'
  <1> DEFINE lamp == Target(at[n])
             st == [status[n] EXCEPT ![lamp] = o]
             q == [step |-> "topdown", auth |-> NoAuthorization]
  <1>1. /\ status' = [status EXCEPT ![n] = st]
        /\ UNCHANGED <<switched, applied, guarded, scheme, cred, nonce, api, mine, since, before>>
        /\ reply' = [reply EXCEPT ![n] = NoReply]
        /\ IF MoreLamps(n)
           THEN /\ at' = [at EXCEPT ![n] = "topdown"]
                /\ wire' = [wire EXCEPT ![n] = @ \cup {q}]
                /\ result' = result
           ELSE /\ at' = [at EXCEPT ![n] = "done"]
                /\ result' = [result EXCEPT ![n] = IF AnyOk(n, st) THEN "true" ELSE "false"]
                /\ wire' = wire
    BY DEF Concludes, Sends, camera
  <1>2. TypeOK /\ CallOrder(n) /\ Writes(n) /\ Results(n) /\ Digests(n)
    BY DEF IInv, CallInv
  <1>3. /\ lamp \in Lamp /\ Lamp = {"front", "topdown"} /\ "topdown" \in Step
        /\ "new" \notin Step /\ "done" \notin Step /\ Target("topdown") = "topdown"
        /\ MoreLamps(n) => at[n] = "front" /\ lamp = "front" /\ api[n] = "light"
    BY DEF Target, Lamp, Step, MoreLamps
  <1>4. /\ reply'[n] = NoReply
        /\ status'[n] = st /\ st[lamp] = o /\ \A l \in Lamp \ {lamp} : st[l] = status[n][l]
        /\ \A m \in Call \ {n} : /\ status'[m] = status[m] /\ reply'[m] = reply[m]
                                 /\ at'[m] = at[m] /\ wire'[m] = wire[m] /\ result'[m] = result[m]
        /\ MoreLamps(n) => /\ at'[n] = "topdown" /\ wire'[n] = wire[n] \cup {q}
                           /\ result'[n] = result[n]
        /\ ~MoreLamps(n) => /\ at'[n] = "done" /\ wire'[n] = wire[n]
                            /\ result'[n] = IF AnyOk(n, st) THEN "true" ELSE "false"
    <2>1. status[n] \in [Lamp -> {"unsent", "ok", "refused", "denied", "none"}]
      BY <1>2 DEF TypeOK
    <2>2. reply'[n] = NoReply /\ status'[n] = st
      BY <1>1, <1>2 DEF TypeOK
    <2>3. st[lamp] = o /\ \A l \in Lamp \ {lamp} : st[l] = status[n][l]
      BY <1>3, <2>1
    <2>4. /\ \A m \in Call \ {n} : /\ status'[m] = status[m] /\ reply'[m] = reply[m]
                                   /\ at'[m] = at[m] /\ wire'[m] = wire[m] /\ result'[m] = result[m]
      BY <1>1, <1>2 DEF TypeOK
    <2>5. MoreLamps(n) => /\ at'[n] = "topdown" /\ wire'[n] = wire[n] \cup {q}
                          /\ result'[n] = result[n]
      BY <1>1, <1>2 DEF TypeOK
    <2>6. ~MoreLamps(n) => /\ at'[n] = "done" /\ wire'[n] = wire[n]
                           /\ result'[n] = IF AnyOk(n, st) THEN "true" ELSE "false"
      BY <1>1, <1>2 DEF TypeOK
    <2>7. QED
      BY <2>2, <2>3, <2>4, <2>5, <2>6
  <1>5. status[n][lamp] = "unsent" /\ (o \in {"refused", "denied"} => Untouched(n, lamp))
        /\ (o = "ok" => applied[n][lamp] = 1)
    BY <1>2, <1>3 DEF Writes, LampState, Current
  <1>6. MoreLamps(n) => Untouched(n, "topdown") /\ status[n]["topdown"] = "unsent"
    BY <1>2, <1>3 DEF CallOrder, Writes, LampState, Current
  <1>7. TypeOK'
    <2>1. status' \in [Call -> [Lamp -> {"unsent", "ok", "refused", "denied", "none"}]]
      BY <1>1, <1>2 DEF TypeOK
    <2>2. at' \in [Call -> Step \cup {"new", "done"}] /\ result' \in [Call -> {"none", "true", "false"}]
      <3>1. at \in [Call -> Step \cup {"new", "done"}] /\ result \in [Call -> {"none", "true", "false"}]
        BY <1>2 DEF TypeOK
      <3>2. CASE MoreLamps(n)
        BY <1>1, <1>3, <3>2, <3>1
      <3>3. CASE ~MoreLamps(n)
        <4>1. at' = [at EXCEPT ![n] = "done"]
          BY <1>1, <3>3
        <4>2. \E x \in {"true", "false"} : result' = [result EXCEPT ![n] = x]
          BY <1>1, <3>3
        <4>3. QED
          BY <3>1, <4>1, <4>2
      <3>4. QED
        BY <3>2, <3>3
    <2>3. wire' \in [Call -> SUBSET Requests]
      <3>1. q \in Requests
        BY <1>3, WriteAssumption DEF Requests, NoAuthorization
      <3>2. QED
        <4> wire \in [Call -> SUBSET Requests]
          BY <1>2 DEF TypeOK, Requests
        <4>1. CASE MoreLamps(n)
          <5>1. wire' = [wire EXCEPT ![n] = @ \cup {q}]
            BY <1>1, <4>1
          <5>2. QED
            BY <3>1, <5>1
        <4>2. CASE ~MoreLamps(n)
          BY <1>1, <4>2
        <4>3. QED
          BY <4>1, <4>2
    <2>4. reply' \in [Call -> Replies]
      BY <1>1, <1>2, WriteAssumption DEF TypeOK, NoReply, Replies
    <2>5. \A m \in Call : reply'[m].kind # "none" => \A r \in wire'[m] : r.step # at'[m]
      <3>1. reply'[n].kind = "none"
        BY <1>4 DEF NoReply
      <3>2. \A m \in Call \ {n} : reply'[m].kind # "none" => \A r \in wire'[m] : r.step # at'[m]
        BY <1>2, <1>4 DEF TypeOK
      <3>3. QED
        BY <3>1, <3>2
    <2>6. QED
      BY <1>1, <1>2, <2>1, <2>2, <2>3, <2>4, <2>5 DEF TypeOK, Requests, Replies
  <1>8. CallOrder(n)'
    <2>1. \A m \in before[n] : at'[m] = "done"
      BY <1>2, <1>3, <1>4 DEF CallOrder, TypeOK
    <2>2. result[n] = "none" /\ reply'[n].kind = "none"
      BY <1>2, <1>3, <1>4 DEF CallOrder, NoReply
    <2>3. at'[n] \in {"topdown", "done"} /\ (at'[n] = "topdown" => result'[n] = "none")
      BY <1>4, <2>2
    <2>4. QED
      BY <1>1, <1>3, <2>1, <2>2, <2>3 DEF CallOrder
  <1>9. Writes(n)'
    <2>1. ASSUME NEW l \in Lamp
          PROVE  LampState(n, l)'
      <3>1. LampState(n, l)
        BY <1>2 DEF Writes
      <3>2. reply'[n].kind = "none" /\ applied'[n] = applied[n]
        BY <1>1, <1>4 DEF NoReply
      <3>3. CASE l = lamp
        <4>1. ~Current(n, l)' /\ (Pending(n, l)' <=> Pending(n, l))
          BY <1>3, <1>4, <3>3 DEF Current, Pending
        <4>2. status'[n][l] = o
          BY <1>4, <3>3
        <4>3. QED
          BY <1>5, <3>1, <3>2, <3>3, <4>1, <4>2 DEF LampState, Untouched
      <3>4. CASE l # lamp /\ MoreLamps(n)
        <4>1. l = "topdown" /\ Current(n, l)' /\ status'[n][l] = "unsent" /\ applied'[n][l] = 0
          BY <1>3, <1>4, <1>6, <3>2, <3>4 DEF Current, Untouched
        <4>2. QED
          BY <3>2, <4>1 DEF LampState
      <3>5. CASE l # lamp /\ ~MoreLamps(n)
        <4>1. ~Current(n, l) /\ ~Current(n, l)' /\ (Pending(n, l)' <=> Pending(n, l))
          BY <1>3, <1>4, <3>5 DEF Current, Pending
        <4>2. status'[n][l] = status[n][l]
          BY <1>4, <3>5
        <4>3. QED
          BY <3>1, <3>2, <4>1, <4>2 DEF LampState, Untouched
      <3>6. QED
        BY <3>3, <3>4, <3>5
    <2>2. \A r, p \in wire'[n] : Target(r.step) = Target(p.step) => r = p
      <3>1. CASE MoreLamps(n)
        BY <1>2, <1>3, <1>4, <1>6, <3>1 DEF Writes, Untouched, Pending
      <3>2. CASE ~MoreLamps(n)
        BY <1>2, <1>4, <3>2 DEF Writes
      <3>3. QED
        BY <3>1, <3>2
    <2>3. QED
      BY <2>1, <2>2 DEF Writes
  <1>10. Results(n)'
    <2>1. result[n] = "none"
      BY <1>2, <1>3 DEF CallOrder
    <2>2. QED
      BY <1>4, <2>1 DEF Results, AnyOk
  <1>11. Digests(n)'
    <2>1. reply'[n].kind # "challenge"
      BY <1>4 DEF NoReply
    <2>2. \A r \in wire[n] : Proper(n, r)'
      BY <1>1, <1>2, SchemeStays DEF Digests, Proper
    <2>3. \A r \in wire'[n] : Proper(n, r)'
      BY <1>4, <2>2 DEF Proper
    <2>4. status'[n]["front"] = "denied" => status[n]["front"] = "denied" \/ o = "denied"
      BY <1>3, <1>4
    <2>5. api'[n] = "digest" => ~MoreLamps(n) /\ at'[n] = "done"
      BY <1>1, <1>3, <1>4
    <2>6. QED
      BY <1>1, <1>2, <2>1, <2>3, <2>4, <2>5, SchemeStays DEF Digests, Outdated, Hopeless
  <1>12. CallInv'
    <2>1. ASSUME NEW m \in Call \ {n}
          PROVE  (CallOrder(m) /\ Writes(m) /\ Results(m) /\ Digests(m))'
      <3>1. cred \in Nat /\ nonce \in Nat
        BY <1>2, WriteAssumption DEF TypeOK
      <3>2. \A k \in Call : at[k] = "done" => at'[k] = "done"
        BY <1>3, <1>4
      <3>3. QED
        BY <1>1, <1>4, <2>1, <3>1, <3>2, OthersKeep
    <2>2. QED
      BY <1>8, <1>9, <1>10, <1>11, <2>1 DEF CallInv
  <1>13. LateInv'
    <2>1. ASSUME NEW m \in Call, NEW l \in Lamp, Succeeding(m, l)'
          PROVE  Succeeding(m, l)
      <3>1. CASE m = n
        <4>1. status'[n][l] = "ok"
          <5>1. reply'[n].kind = "none"
            BY <1>4 DEF NoReply
          <5>2. QED
            BY <2>1, <3>1, <5>1 DEF Succeeding
        <4>2. CASE l = lamp
          BY <1>4, <3>1, <4>1, <4>2 DEF Succeeding, Current
        <4>3. CASE l # lamp
          BY <1>4, <3>1, <4>1, <4>3 DEF Succeeding
        <4>4. QED
          BY <4>2, <4>3
      <3>2. CASE m # n
        BY <1>4, <2>1, <3>2 DEF Succeeding, Current
      <3>3. QED
        BY <3>1, <3>2
    <2>2. \A m \in Call : at[m] = "done" => status'[m] = status[m]
      BY <1>3, <1>4
    <2>3. QED
      BY <1>1, <2>1, <2>2, LateKeeps
  <1>14. QED
    BY <1>7, <1>12, <1>13 DEF IInv

(* A request is carried out or refused, by the cloud or the camera: if the  *)
(* call still awaits it, the answer is on its way.                         *)
LEMMA AnsweredKeeps ==
    ASSUME IInv, NEW n \in Call, NEW r \in wire[n], NEW how \in Replies,
           Answered(n, r, how), how.kind # "none",
           UNCHANGED <<guarded, scheme, cred, nonce, caller>>,
           IF how.kind = "ok"
           THEN /\ switched' = [switched EXCEPT ![Target(r.step)] = n]
                /\ applied' = [applied EXCEPT ![n][Target(r.step)] = @ + 1]
           ELSE UNCHANGED <<switched, applied>>,
           how.kind = "challenge" =>
              /\ how.nonce = nonce
              /\ r.step = "second" => IF how.stale THEN since[n] + 1 <= nonce
                                                   ELSE Hopeless(n)
              /\ r.step = "third" => Outdated(n, 2)
    PROVE  IInv'
  <1> DEFINE lamp == Target(r.step)
             awaited == at[n] = r.step
  <1>1. /\ UNCHANGED <<guarded, scheme, cred, nonce, api, at, mine, status, result, since, before>>
        /\ wire' = [wire EXCEPT ![n] = @ \ {r}]
        /\ reply' = [reply EXCEPT ![n] = IF awaited THEN how ELSE @]
    BY DEF Answered, caller
  <1>2. TypeOK /\ CallOrder(n) /\ Writes(n) /\ Results(n) /\ Digests(n)
    BY DEF IInv, CallInv
  <1>3. lamp \in Lamp /\ r.step \in Step /\ "done" \notin Step
    <2>1. r.step \in Step
      BY <1>2 DEF TypeOK
    <2>2. "done" \notin Step
      BY DEF Step, Lamp
    <2>3. QED
      BY <2>1, <2>2, Targets
  <1>4. /\ wire'[n] = wire[n] \ {r} /\ reply'[n] = (IF awaited THEN how ELSE reply[n])
        /\ \A m \in Call \ {n} : wire'[m] = wire[m] /\ reply'[m] = reply[m]
    BY <1>1, <1>2 DEF TypeOK
  <1>5. /\ \A m \in Call \ {n} : applied'[m] = applied[m]
        /\ \A l \in Lamp \ {lamp} : applied'[n][l] = applied[n][l] /\ switched'[l] = switched[l]
        /\ applied'[n][lamp] = IF how.kind = "ok" THEN applied[n][lamp] + 1 ELSE applied[n][lamp]
        /\ switched'[lamp] = IF how.kind = "ok" THEN n ELSE switched[lamp]
        /\ applied' \in [Call -> [Lamp -> Nat]] /\ switched' \in [Lamp -> Call \cup {Nobody}]
    <2>1. switched \in [Lamp -> Call \cup {Nobody}] /\ applied \in [Call -> [Lamp -> Nat]]
      BY <1>2 DEF TypeOK
    <2>2. CASE how.kind = "ok"
      BY <1>3, <2>1, <2>2
    <2>3. CASE how.kind # "ok"
      BY <1>3, <2>1, <2>3
    <2>4. QED
      BY <2>2, <2>3
  <1>6. /\ applied[n][lamp] = 0 /\ Pending(n, lamp)
        /\ \A q \in wire[n] \ {r} : Target(q.step) # lamp
        /\ status[n][lamp] \notin {"ok", "refused", "denied"}
        /\ status[n][lamp] = "unsent" => Current(n, lamp)
        /\ Current(n, lamp) => reply[n].kind = "none"
    <2>1. Pending(n, lamp) /\ LampState(n, lamp)
      BY <1>2, <1>3 DEF Pending, Writes
    <2>2. \A q \in wire[n] \ {r} : Target(q.step) # lamp
      BY <1>2 DEF Writes
    <2>3. applied[n][lamp] = 0
      BY <2>1 DEF LampState
    <2>4. QED
      BY <2>1, <2>2, <2>3 DEF LampState, Untouched
  <1>7. TypeOK'
    <2>1. wire' \in [Call -> SUBSET Requests] /\ reply' \in [Call -> Replies]
      <3>1. wire \in [Call -> SUBSET Requests] /\ reply \in [Call -> Replies]
        BY <1>2 DEF TypeOK, Requests, Replies
      <3>2. QED
        BY <1>1, <3>1
    <2>2. \A m \in Call : reply'[m].kind # "none" => \A q \in wire'[m] : q.step # at[m]
      <3>1. \A m \in Call \ {n} : reply'[m].kind # "none" => \A q \in wire'[m] : q.step # at[m]
        BY <1>2, <1>4 DEF TypeOK
      <3>2. reply'[n].kind # "none" => \A q \in wire'[n] : q.step # at[n]
        <4>1. CASE awaited
          BY <1>4, <1>6, <4>1
        <4>2. CASE ~awaited
          BY <1>2, <1>4, <4>2 DEF TypeOK
        <4>3. QED
          BY <4>1, <4>2
      <3>3. QED
        BY <3>1, <3>2
    <2>3. QED
      BY <1>1, <1>2, <1>5, <2>1, <2>2 DEF TypeOK, Requests, Replies
  <1>8. CallOrder(n)'
    BY <1>1, <1>2, <1>3, <1>4 DEF CallOrder
  <1>9. Writes(n)'
    <2>1. ASSUME NEW l \in Lamp
          PROVE  LampState(n, l)'
      <3>1. Current(n, l)' <=> Current(n, l)
        BY <1>1 DEF Current
      <3>2. CASE l = lamp
        <4>1. ~Pending(n, l)'
          BY <1>4, <1>6, <3>2 DEF Pending
        <4>2. applied'[n][l] = IF how.kind = "ok" THEN 1 ELSE 0
          BY <1>5, <1>6, <3>2
        <4>3. Current(n, l) /\ reply'[n].kind # "none" => reply'[n].kind = how.kind
          BY <1>4, <1>6, <3>2
        <4>4. status[n][l] = "unsent" \/ status[n][l] = "none"
          BY <1>2, <1>3, <1>6, <3>2 DEF TypeOK
        <4>5. Current(n, l) => status[n][l] = "unsent"
          BY <1>2, <2>1 DEF Writes, LampState
        <4>6. QED
          BY <1>1, <1>6, <3>1, <3>2, <4>1, <4>2, <4>3, <4>4, <4>5 DEF LampState, Untouched
      <3>3. CASE l # lamp
        <4>1. Pending(n, l)' <=> Pending(n, l)
          BY <1>4, <3>3 DEF Pending
        <4>2. Current(n, l) => reply'[n] = reply[n]
          BY <1>4, <3>3 DEF Current
        <4>3. LampState(n, l)
          BY <1>2 DEF Writes
        <4>4. QED
          BY <1>1, <1>5, <3>1, <3>3, <4>1, <4>2, <4>3 DEF LampState, Untouched
      <3>4. QED
        BY <3>2, <3>3
    <2>2. QED
      BY <1>2, <1>4, <2>1 DEF Writes
  <1>10. Results(n)'
    BY <1>1, <1>2 DEF Results
  <1>11. Digests(n)'
    <2>1. \A q \in wire'[n] : Proper(n, q)'
      BY <1>1, <1>2, <1>4, SchemeStays DEF Digests, Proper
    <2>2. reply'[n].kind = "challenge" => Challenged(n)'
      <3>1. CASE awaited
        <4>1. since[n] <= nonce /\ nonce \in Nat /\ since[n] \in Nat
          BY <1>2, WriteAssumption DEF Digests, TypeOK
        <4>2. reply'[n] = how
          BY <1>4, <3>1
        <4>3. QED
          BY <1>1, <3>1, <4>1, <4>2, SchemeStays DEF Challenged, Outdated, Hopeless
      <3>2. CASE ~awaited
        BY <1>1, <1>2, <1>4, <3>2, SchemeStays DEF Digests, Challenged, Outdated, Hopeless
      <3>3. QED
        BY <3>1, <3>2
    <2>3. QED
      BY <1>1, <1>2, <2>1, <2>2, SchemeStays DEF Digests, Outdated, Hopeless
  <1>12. CallInv'
    <2>1. ASSUME NEW m \in Call \ {n}
          PROVE  (CallOrder(m) /\ Writes(m) /\ Results(m) /\ Digests(m))'
      <3>1. cred \in Nat /\ nonce \in Nat
        BY <1>2, WriteAssumption DEF TypeOK
      <3>2. QED
        BY <1>1, <1>4, <1>5, <2>1, <3>1, OthersKeep
    <2>2. QED
      BY <1>8, <1>9, <1>10, <1>11, <2>1 DEF CallInv
  <1>13. LateInv'
    <2>1. ASSUME NEW l \in Lamp, NEW m \in Call, NEW k \in Call,
                 Succeeding(k, l)', m \in before[k], switched'[l] = m
          PROVE  status[m][l] = "none"
      <3>1. at[m] = "done"
        BY <2>1 DEF IInv, CallInv, CallOrder
      <3>2. CASE l = lamp /\ how.kind = "ok"
        <4>1. m = n
          BY <1>5, <2>1, <3>2
        <4>2. status[n][lamp] # "unsent"
          BY <1>3, <1>6, <3>1, <4>1 DEF Current
        <4>3. QED
          BY <1>2, <1>3, <1>6, <3>2, <4>1, <4>2 DEF TypeOK
      <3>3. CASE ~(l = lamp /\ how.kind = "ok")
        <4>1. switched[l] = m
          BY <1>3, <1>5, <2>1, <3>3
        <4>2. Succeeding(k, l)
          <5>1. CASE k = n
            BY <1>1, <1>4, <2>1, <3>3, <5>1 DEF Succeeding, Current
          <5>2. CASE k # n
            BY <1>1, <1>4, <2>1, <5>2 DEF Succeeding, Current
          <5>3. QED
            BY <5>1, <5>2
        <4>3. QED
          BY <2>1, <4>1, <4>2 DEF IInv, LateInv
      <3>4. QED
        BY <3>2, <3>3
    <2>2. QED
      BY <1>1, <2>1 DEF LateInv
  <1>14. QED
    BY <1>7, <1>12, <1>13 DEF IInv

LEMMA ExecutesKeeps ==
    ASSUME IInv, NEW n \in Call, NEW r \in wire[n], Executes(n, r)
    PROVE  IInv'
  <1>1. \A kind \in {"ok", "other", "err"} :
           Plain(kind) \in Replies /\ Plain(kind).kind = kind
    BY WriteAssumption DEF Plain, Replies
  <1>2. UNCHANGED <<guarded, scheme, cred, nonce, caller>>
    BY DEF Executes
  <1>3. CASE /\ switched' = [switched EXCEPT ![Target(r.step)] = n]
             /\ applied' = [applied EXCEPT ![n][Target(r.step)] = @ + 1]
             /\ Answered(n, r, Plain("ok"))
    BY <1>1, <1>2, <1>3, AnsweredKeeps
  <1>4. CASE Answered(n, r, Plain("other")) /\ UNCHANGED <<switched, applied>>
    BY <1>1, <1>2, <1>4, AnsweredKeeps
  <1>5. CASE Answered(n, r, Plain("err")) /\ UNCHANGED <<switched, applied>>
    BY <1>1, <1>2, <1>5, AnsweredKeeps
  <1>6. QED
    BY <1>3, <1>4, <1>5 DEF Executes

(* The camera takes a stale nonce for one that has expired since, and a     *)
(* wrong response for other credentials, or cannot be answered.            *)
LEMMA RefusesKeeps ==
    ASSUME IInv, NEW n \in Call, NEW r \in wire[n], NEW stale \in BOOLEAN,
           Refuses(n, r, stale),
           IF stale THEN Verifies(n, r) /\ r.auth.nonce # nonce ELSE ~Verifies(n, r)
    PROVE  IInv'
  <1>1. TypeOK /\ Proper(n, r)
    BY DEF IInv, CallInv, Digests
  <1>2. /\ Challenge(stale) \in Replies /\ Plain("bare") \in Replies
        /\ Challenge(stale).kind = "challenge" /\ Challenge(stale).nonce = nonce
        /\ Challenge(stale).stale = stale /\ Plain("bare").kind = "bare"
    BY <1>1, WriteAssumption DEF Challenge, Plain, Replies, TypeOK
  <1>3. nonce \in Nat /\ since[n] \in Nat /\ r.auth.nonce \in Nat
    BY <1>1, WriteAssumption DEF TypeOK
  <1>4. ~stale /\ r.step \in {"second", "third"} => Hopeless(n)
    <2>1. SUFFICES ASSUME ~Verifies(n, r), r.step \in {"second", "third"},
                          mine[n] = cred, Answerable
                   PROVE  FALSE
      BY DEF Hopeless
    <2>2. r.auth.response = Response /\ r.auth.directives = Directives
      BY <1>1, <2>1 DEF Proper
    <2>3. QED
      BY <1>1, <2>1, <2>2, HeaderVerifies DEF Verifies
  <1>5. /\ stale /\ r.step = "second" => since[n] + 1 <= nonce
    BY <1>1, <1>3 DEF Proper
  <1>6. (stale /\ r.step = "third") => nonce >= since[n] + 2
    BY <1>1, <1>3 DEF Proper
  <1>7. UNCHANGED <<switched, applied, guarded, scheme, cred, nonce, caller>>
    BY DEF Refuses, camera
  <1>8. CASE Answered(n, r, Challenge(stale))
    BY <1>2, <1>4, <1>5, <1>6, <1>7, <1>8, AnsweredKeeps DEF Outdated
  <1>9. CASE Answered(n, r, Plain("bare"))
    BY <1>2, <1>7, <1>9, AnsweredKeeps
  <1>10. QED
    BY <1>8, <1>9 DEF Refuses

LEMMA ReadsReplyKeeps ==
    ASSUME IInv, NEW n \in Call, ReadsReply(n)
    PROVE  IInv'
  <1> DEFINE o == Outcome(reply[n].kind)
  <1>1. /\ reply[n].kind # "none" /\ ~Retries(n) /\ Concludes(n, o)
        /\ TypeOK /\ CallOrder(n) /\ Digests(n)
    BY DEF ReadsReply, IInv, CallInv
  <1>2. at[n] \in Step
    BY <1>1 DEF CallOrder
  <1>3. /\ o \in {"ok", "refused", "denied", "none"}
        /\ o = "ok" => reply[n].kind = "ok"
        /\ o \in {"refused", "denied"} => reply[n].kind \notin {"none", "ok"}
        /\ o = "denied" => reply[n].kind = "challenge"
    BY <1>1 DEF Outcome, Succeeded
  <1>4. ASSUME o = "denied", api[n] = "digest"
        PROVE  Outdated(n, 2)
    <2>1. reply[n].kind = "challenge" /\ Challenged(n)
      BY <1>1, <1>3, <1>4 DEF Digests
    <2>2. at[n] \in {"first", "second", "third"}
      BY <1>1, <1>2, <1>4 DEF Digests, Step, Lamp
    <2>3. QED
      BY <1>1, <2>1, <2>2 DEF Challenged, Retries, Outdated
  <1>5. QED
    BY <1>1, <1>2, <1>3, <1>4, ConcludesKeeps

-----------------------------------------------------------------------------
(* Every step of the calls, the cloud and the camera keeps the invariant. *)
THEOREM Invariance == Spec => []IInv
  <1>1. ASSUME IInv, UNCHANGED <<switched, applied, guarded, scheme, caller, wire, reply>>,
               cred' \in Nat, cred <= cred', nonce' \in Nat, nonce <= nonce', TypeOK'
        PROVE  IInv'
    <2>1. UNCHANGED <<api, at, mine, status, result, since, before>>
      BY <1>1 DEF caller
    <2>2. CallInv'
      <3>1. ASSUME NEW m \in Call
            PROVE  (CallOrder(m) /\ Writes(m) /\ Results(m) /\ Digests(m))'
        BY <1>1, <2>1, OthersKeep
      <3>2. QED
        BY <3>1 DEF CallInv
    <2>3. LateInv'
      <3>1. \A n \in Call, l \in Lamp : Succeeding(n, l)' => Succeeding(n, l)
        BY <1>1, <2>1 DEF Succeeding, Current
      <3>2. QED
        BY <1>1, <2>1, <3>1, LateKeeps
    <2>4. QED
      BY <1>1, <2>2, <2>3 DEF IInv
  <1>2. ASSUME IInv
        PROVE  /\ cred \in 0 .. MaxCred /\ nonce \in 0 .. MaxNonce
               /\ cred \in Nat /\ nonce \in Nat /\ MaxCred \in Nat /\ MaxNonce \in Nat
    BY <1>2, WriteAssumption DEF IInv, TypeOK
  <1>3. IInv /\ UNCHANGED vars => IInv'
    <2>1. SUFFICES ASSUME IInv, UNCHANGED vars
                   PROVE  IInv'
      OBVIOUS
    <2>2. TypeOK'
      BY <2>1 DEF IInv, TypeOK, vars, camera, caller
    <2>3. QED
      BY <1>1, <1>2, <2>1, <2>2 DEF vars, camera
  <1>4. ASSUME IInv, Next
        PROVE  IInv'
    <2>1. CASE \E n \in Call : \E a \in Api : Begin(n, a)
      BY <1>4, <2>1, BeginKeeps
    <2>2. CASE \E n \in Call : AnswersChallenge(n)
      BY <1>4, <2>2, ChallengeKeeps
    <2>3. CASE \E n \in Call : ReadsReply(n)
      BY <1>4, <2>3, ReadsReplyKeeps
    <2>4. CASE \E n \in Call : GivesUp(n)
      BY <1>4, <2>4, ConcludesKeeps DEF GivesUp
    <2>5. CASE \E n \in Call : \E r \in wire[n] : CloudGets(n, r)
      BY <1>4, <2>5, ExecutesKeeps DEF CloudGets
    <2>6. CASE \E n \in Call : \E r \in wire[n] : CameraGets(n, r)
      <3>1. PICK n \in Call : \E r \in wire[n] : CameraGets(n, r)
        BY <2>6
      <3>2. PICK r \in wire[n] : CameraGets(n, r)
        BY <3>1
      <3>3. CASE Executes(n, r)
        BY <1>4, <3>3, ExecutesKeeps
      <3>4. CASE ~Verifies(n, r) /\ Refuses(n, r, FALSE)
        BY <1>4, <3>4, RefusesKeeps
      <3>5. CASE Verifies(n, r) /\ r.auth.nonce # nonce /\ Refuses(n, r, TRUE)
        BY <1>4, <3>5, RefusesKeeps
      <3>6. QED
        BY <3>2, <3>3, <3>4, <3>5 DEF CameraGets
    <2>7. CASE Rotates
      <3>1. /\ cred < MaxCred /\ cred' = cred + 1 /\ nonce' = nonce
            /\ UNCHANGED <<switched, applied, guarded, scheme, caller, wire, reply>>
        BY <2>7 DEF Rotates
      <3>2. cred' \in 0 .. MaxCred /\ cred <= cred' /\ cred' \in Nat
        BY <1>2, <1>4, <3>1
      <3>3. TypeOK'
        BY <1>4, <3>1, <3>2 DEF IInv, TypeOK, caller
      <3>4. QED
        BY <1>1, <1>2, <1>4, <3>1, <3>2, <3>3
    <2>8. CASE NonceExpires
      <3>1. /\ nonce < MaxNonce /\ nonce' = nonce + 1 /\ cred' = cred
            /\ UNCHANGED <<switched, applied, guarded, scheme, caller, wire, reply>>
        BY <2>8 DEF NonceExpires
      <3>2. nonce' \in 0 .. MaxNonce /\ nonce <= nonce' /\ nonce' \in Nat
        BY <1>2, <1>4, <3>1
      <3>3. TypeOK'
        BY <1>4, <3>1, <3>2 DEF IInv, TypeOK, caller
      <3>4. QED
        BY <1>1, <1>2, <1>4, <3>1, <3>2, <3>3
    <2>9. QED
      BY <1>4, <2>1, <2>2, <2>3, <2>4, <2>5, <2>6, <2>7, <2>8 DEF Next, CallResumes
  <1>5. IInv /\ [Next]_vars => IInv'
    BY <1>3, <1>4
  <1>6. QED
    BY InitIInv, <1>5, PTL DEF Spec

(* Every variable of the calls and of the camera keeps its kind of value,   *)
(* and no call has an answer to a request that is still on its way.        *)
THEOREM TypeCorrect == Spec => []TypeOK
  <1>1. IInv => TypeOK
    BY DEF IInv
  <1>2. QED
    BY <1>1, Invariance, PTL

(* However many calls interleave: an answer says what became of the write,  *)
(* and no lamp gets the write of one call twice.                           *)
THEOREM AnswersHold == Spec => []AnswersAreTrue
  <1>1. IInv => AnswersAreTrue
    <2>1. SUFFICES ASSUME IInv, NEW n \in Call, NEW l \in Lamp
                   PROVE  /\ applied[n][l] <= 1
                          /\ status[n][l] = "ok" => applied[n][l] = 1
                          /\ status[n][l] \in {"refused", "denied"} =>
                                /\ applied[n][l] = 0
                                /\ \A r \in wire[n] : Target(r.step) # l
      BY DEF AnswersAreTrue
    <2>2. LampState(n, l)
      BY <2>1 DEF IInv, CallInv, Writes
    <2>3. QED
      BY <2>2 DEF LampState, Untouched, Pending
  <1>2. QED
    BY <1>1, Invariance, PTL

(* A call that returned true has switched a lamp; one that failed without   *)
(* giving up a request has switched none, and its caller may try again.    *)
THEOREM ResultsAreHonest == Spec => []ResultIsHonest
  <1>1. IInv => ResultIsHonest
    <2>1. SUFFICES ASSUME IInv, NEW n \in Call
                   PROVE  /\ result[n] = "true" => \E l \in Lamp : applied[n][l] = 1
                          /\ result[n] = "false" /\ (\A l \in Lamp : status[n][l] # "none")
                                => \A l \in Lamp : applied[n][l] = 0
      BY DEF ResultIsHonest
    <2>2. TypeOK /\ CallOrder(n) /\ Writes(n) /\ Results(n)
      BY <2>1 DEF IInv, CallInv
    <2>3. result[n] = "true" => \E l \in Lamp : applied[n][l] = 1
      BY <2>2 DEF Results, Writes, LampState
    <2>4. ASSUME result[n] = "false", NEW l \in Lamp, status[n][l] # "none"
          PROVE  applied[n][l] = 0
      <3>1. at[n] = "done" /\ status[n][l] # "ok"
        BY <2>2, <2>4 DEF CallOrder, Results
      <3>2. ~Current(n, l)
        BY <3>1 DEF Current, Step, Lamp
      <3>3. status[n][l] \in {"unsent", "refused", "denied"}
        BY <2>2, <2>4, <3>1 DEF TypeOK
      <3>4. QED
        BY <2>2, <2>4, <3>2, <3>3 DEF Writes, LampState, Untouched
    <2>5. QED
      BY <2>3, <2>4
  <1>2. QED
    BY <1>1, Invariance, PTL

(* A successful write is only ever overwritten, by a call that had returned *)
(* before, with a request that this call had given up.                     *)
THEOREM LateWritesAreDoubtful == Spec => []OnlyDoubtfulWritesComeLate
  <1>1. IInv => OnlyDoubtfulWritesComeLate
    BY DEF IInv, LateInv, Succeeding, OnlyDoubtfulWritesComeLate
  <1>2. QED
    BY <1>1, Invariance, PTL

(* With the camera's credentials, Digest is denied only when the nonce      *)
(* expired twice during the call, or when the challenge is one that the    *)
(* library cannot answer: an algorithm other than MD5 and SHA-256, or a    *)
(* required qop of which auth is not the first choice.                     *)
THEOREM GoodCredentialsDo == Spec => []GoodCredentialsSuffice
  <1>1. IInv => GoodCredentialsSuffice
    BY DEF IInv, CallInv, Digests, Outdated, Hopeless, GoodCredentialsSuffice
  <1>2. QED
    BY <1>1, Invariance, PTL

=============================================================================
