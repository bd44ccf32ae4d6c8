---------------------------- MODULE CameraWrite ----------------------------
(***************************************************************************)
(* Writes that switch a camera, on the two ways the library has: a PUT to  *)
(* the cloud (cloud.py), two of them for the two lamps of a Gen2 light,    *)
(* and rcp_local_write on the LAN (rcp.py) with the Digest exchange of     *)
(* auth_utils.py, which is up to three requests.  Each request is awaited  *)
(* for a limited time, and one that was given up may still be carried out. *)
(*                                                                         *)
(* A value is identified with the call that writes it.  The choice between *)
(* the two ways is the caller's and external, as are the cloud, the camera *)
(* with its credentials and nonces, and the network.                       *)
(***************************************************************************)
EXTENDS Naturals, FiniteSets

CONSTANTS
    Call,           \* calls into the library
    Nobody,         \* a lamp no call has switched yet
    MaxCred,        \* bound: times PUT /connection rotates the credentials
    MaxNonce        \* bound: times a nonce expires

ASSUME WriteAssumption == Nobody \notin Call /\ MaxCred \in Nat /\ MaxNonce \in Nat

(* A single PUT, or one request on the LAN, switches the front lamp. *)
Lamp == {"front", "topdown"}

Api == {"light", "single", "plain", "digest"}

(* The request a call awaits the answer of: to a lamp's endpoint, without   *)
(* credentials, or the first, second or third of a Digest exchange.        *)
Step == Lamp \cup {"plain", "first", "second", "third"}

(* What a challenge asks for: the hash its algorithm is named after and     *)
(* whether it is a -sess one, and the first quality of protection that is  *)
(* offered; and whether the camera, which offers some, does without.       *)
Asked == [hash : {"MD5", "SHA-256", "other"}, sess : BOOLEAN,
          qop : {"none", "auth", "auth-int"}, lenient : BOOLEAN]

Input == {"nc", "cnonce", "qop"}

VARIABLES
    switched,       \* the call whose write a lamp got last
    applied,        \* history: times a lamp got the write of a call
    guarded,        \* the camera asks for Digest credentials
    scheme,         \* what its challenge asks for
    cred,           \* the credentials it takes
    nonce,          \* the nonce it takes
    api,            \* what a call is
    at,             \* its request, or "new" or "done"
    mine,           \* the credentials it was given
    status,         \* outcome per lamp: r1.status and r2.status, resp.status
    result,         \* what it returned
    wire,           \* its requests that have not been carried out
    reply,          \* the answer to its current request
    since,          \* history: nonce when it began
    before          \* history: the calls that had returned when it began

camera == <<switched, applied, guarded, scheme, cred, nonce>>
caller == <<api, at, mine, status, result, since, before>>
vars   == <<camera, caller, wire, reply>>

NoReply == [kind |-> "none", stale |-> FALSE, nonce |-> 0]
Challenge(stale) == [kind |-> "challenge", stale |-> stale, nonce |-> nonce]
Plain(kind) == [kind |-> kind, stale |-> FALSE, nonce |-> 0]

Init ==
    /\ switched = [l \in Lamp |-> Nobody]
    /\ applied = [n \in Call |-> [l \in Lamp |-> 0]]
    /\ guarded \in BOOLEAN
    /\ scheme \in Asked
    /\ scheme.lenient => scheme.qop = "auth-int"
    /\ ~guarded => scheme = [hash |-> "MD5", sess |-> FALSE, qop |-> "none", lenient |-> FALSE]
    /\ cred = 0 /\ nonce = 0
    /\ api = [n \in Call |-> "single"]
    /\ at = [n \in Call |-> "new"]
    /\ mine = [n \in Call |-> 0]
    /\ status = [n \in Call |-> [l \in Lamp |-> "unsent"]]
    /\ result = [n \in Call |-> "none"]
    /\ wire = [n \in Call |-> {}]
    /\ reply = [n \in Call |-> NoReply]
    /\ since = [n \in Call |-> 0]
    /\ before = [n \in Call |-> {}]

Target(step) == IF step = "topdown" THEN "topdown" ELSE "front"

-----------------------------------------------------------------------------
(* The library.                                                            *)

(* An algorithm is hashed with MD5 unless it is a SHA-256 one, and one of   *)
(* neither name is not taken for a -sess one either.                       *)
UsedHash == IF scheme.hash = "SHA-256" THEN "SHA-256" ELSE "MD5"

IsSess == scheme.sess /\ scheme.hash # "other"

(* What the response is computed with and from, beyond the credentials, the *)
(* nonce and the request: without auth as the first qop it is the legacy   *)
(* response.                                                               *)
Response ==
    [hash |-> UsedHash,
     from |-> (IF scheme.qop = "auth" THEN Input ELSE {}) \cup (IF IsSess THEN {"cnonce"} ELSE {})]

(* Mutated form of Directives: cnonce goes with qop=auth only. *)
QopDirectives == IF scheme.qop = "auth" THEN Input ELSE {}

(* The directives of the Authorization header that disclose it. *)
Directives ==
    (IF scheme.qop = "auth" \/ IsSess THEN {"cnonce"} ELSE {})
        \cup (IF scheme.qop = "auth" THEN {"nc", "qop"} ELSE {})

Authorization(nc) == [nonce |-> nc, response |-> Response, directives |-> Directives]

NoAuthorization ==
    [nonce |-> 0, response |-> [hash |-> "none", from |-> {}], directives |-> {}]

(* session.request(): the call awaits the answer to a new request. *)
Sends(n, step, auth) ==
    /\ at' = [at EXCEPT ![n] = step]
    /\ wire' = [wire EXCEPT ![n] = @ \cup {[step |-> step, auth |-> auth]}]
    /\ reply' = [reply EXCEPT ![n] = NoReply]

FirstStep(a) ==
    CASE a = "plain" -> "plain" [] a = "digest" -> "first" [] OTHER -> "front"

(* A call with credentials from a LOCAL session, maybe not the latest one. *)
Begin(n, a) ==
    /\ at[n] = "new"
    /\ api' = [api EXCEPT ![n] = a]
    /\ \E c \in IF a = "digest" THEN 0 .. cred ELSE {0} :
          mine' = [mine EXCEPT ![n] = c]
    /\ since' = [since EXCEPT ![n] = IF a = "digest" THEN nonce ELSE 0]
    /\ before' = [before EXCEPT ![n] = {m \in Call : at[m] = "done"}]
    /\ Sends(n, FirstStep(a), NoAuthorization)
    /\ UNCHANGED <<camera, status, result>>

(* An OK status, on the LAN also without <err> in the body. *)
Succeeded(kind) == kind = "ok"

(* Mutated form of Outcome: the kind of the answer as it is. *)
RawOutcome(kind) == IF Succeeded(kind) THEN "ok" ELSE kind

Outcome(kind) ==
    IF Succeeded(kind) THEN "ok" ELSE IF kind = "challenge" THEN "denied" ELSE "refused"

(* Mutated form of AnyOk: the result of the second PUT only. *)
LastOk(n, st) == st[Target(at[n])] = "ok"

(* r1.ok or r2.ok *)
AnyOk(n, st) == \E l \in Lamp : st[l] = "ok"

(* The PUT for the other lamp follows, whatever became of the first one. *)
MoreLamps(n) == api[n] = "light" /\ at[n] = "front"

(* The await is over with outcome o; the call goes on or returns. *)
Concludes(n, o) ==
    LET st == [status[n] EXCEPT ![Target(at[n])] = o]
    IN  /\ status' = [status EXCEPT ![n] = st]
        /\ IF MoreLamps(n)
           THEN Sends(n, "topdown", NoAuthorization) /\ UNCHANGED result
           ELSE /\ at' = [at EXCEPT ![n] = "done"]
                /\ result' = [result EXCEPT ![n] = IF AnyOk(n, st) THEN "true" ELSE "false"]
                /\ reply' = [reply EXCEPT ![n] = NoReply]
                /\ UNCHANGED wire
        /\ UNCHANGED <<camera, api, mine, since, before>>

(* The first challenge is answered, the second one if it says stale=true. *)
Retries(n) ==
    /\ reply[n].kind = "challenge"
    /\ at[n] = "first" \/ (at[n] = "second" /\ reply[n].stale)

AnswersChallenge(n) ==
    /\ Retries(n)
    /\ Sends(n, IF at[n] = "first" THEN "second" ELSE "third",
             Authorization(reply[n].nonce))
    /\ UNCHANGED <<camera, api, mine, status, result, since, before>>

ReadsReply(n) ==
    /\ reply[n].kind # "none"
    /\ ~Retries(n)
    /\ Concludes(n, Outcome(reply[n].kind))

(* Mutated form of GivesUp: what was not answered is sent again. *)
SendsAgain(n) ==
    /\ at[n] \in Step
    /\ Sends(n, IF at[n] \in {"second", "third"} THEN "first" ELSE at[n], NoAuthorization)
    /\ UNCHANGED <<camera, api, mine, status, result, since, before>>

(* Mutated form of GivesUp: no answer is taken for a refusal. *)
GivesUpRefused(n) == at[n] \in Step /\ Concludes(n, "refused")

(* The timeout or a network error, also while an answer is being read. *)
GivesUp(n) == at[n] \in Step /\ Concludes(n, "none")

-----------------------------------------------------------------------------
(* The cloud, the camera and the network.                                  *)

Answered(n, r, how) ==
    /\ wire' = [wire EXCEPT ![n] = @ \ {r}]
    /\ reply' = [reply EXCEPT ![n] = IF at[n] = r.step THEN how ELSE @]

(* The write is carried out, or refused by a status or an RCP error. *)
Executes(n, r) ==
    /\ \/ /\ switched' = [switched EXCEPT ![Target(r.step)] = n]
          /\ applied' = [applied EXCEPT ![n][Target(r.step)] = @ + 1]
          /\ Answered(n, r, Plain("ok"))
       \/ /\ \/ Answered(n, r, Plain("other"))
             \/ r.step \notin Lamp /\ Answered(n, r, Plain("err"))
          /\ UNCHANGED <<switched, applied>>
    /\ UNCHANGED <<guarded, scheme, cred, nonce, caller>>

(* A 401, with a challenge or with a header that cannot be used. *)
Refuses(n, r, stale) ==
    /\ Answered(n, r, Challenge(stale)) \/ Answered(n, r, Plain("bare"))
    /\ UNCHANGED <<camera, caller>>

CloudGets(n, r) ==
    /\ r \in wire[n] /\ r.step \in Lamp
    /\ Executes(n, r)

(* What the camera computes for a header with such directives. *)
Expected(directives) ==
    [hash |-> scheme.hash,
     from |-> (IF "qop" \in directives THEN Input ELSE {})
                  \cup (IF scheme.sess THEN {"cnonce"} ELSE {})]

(* The response verifies: the credentials and the response are right, and   *)
(* the header has the directives the response is computed from, no others, *)
(* and a quality of protection unless none was offered or needed.          *)
Verifies(n, r) ==
    /\ r.step \in {"second", "third"}
    /\ mine[n] = cred
    /\ r.auth.response = Expected(r.auth.directives)
    /\ r.auth.directives = r.auth.response.from
    /\ "qop" \in r.auth.directives \/ scheme.qop = "none" \/ scheme.lenient

CameraGets(n, r) ==
    /\ r \in wire[n] /\ r.step \notin Lamp
    /\ \/ ~guarded /\ Executes(n, r)
       \/ guarded /\ ~Verifies(n, r) /\ Refuses(n, r, FALSE)
       \/ guarded /\ Verifies(n, r) /\ r.auth.nonce # nonce /\ Refuses(n, r, TRUE)
       \/ guarded /\ Verifies(n, r) /\ r.auth.nonce = nonce /\ Executes(n, r)

Rotates ==
    /\ guarded
    /\ cred < MaxCred
    /\ cred' = cred + 1
    /\ UNCHANGED <<switched, applied, guarded, scheme, nonce, caller, wire, reply>>

(* An expiry matters only to an exchange under way. *)
NonceExpires ==
    /\ nonce < MaxNonce
    /\ guarded /\ \E n \in Call : at[n] \in {"first", "second", "third"}
    /\ nonce' = nonce + 1
    /\ UNCHANGED <<switched, applied, guarded, scheme, cred, caller, wire, reply>>

CallResumes(n) == AnswersChallenge(n) \/ ReadsReply(n) \/ GivesUp(n)

Next ==
    \/ \E n \in Call :
          \/ \E a \in Api : Begin(n, a)
          \/ CallResumes(n)
          \/ \E r \in wire[n] : CloudGets(n, r) \/ CameraGets(n, r)
    \/ Rotates
    \/ NonceExpires

Spec == Init /\ [][Next]_vars

-----------------------------------------------------------------------------
(* Every variable keeps its kind of value, and a call awaits the answer to  *)
(* one request at a time.                                                  *)
TypeOK ==
    /\ switched \in [Lamp -> Call \cup {Nobody}]
    /\ applied \in [Call -> [Lamp -> Nat]]
    /\ guarded \in BOOLEAN /\ scheme \in Asked
    /\ cred \in 0 .. MaxCred /\ nonce \in 0 .. MaxNonce
    /\ api \in [Call -> Api]
    /\ at \in [Call -> Step \cup {"new", "done"}]
    /\ mine \in [Call -> 0 .. MaxCred]
    /\ status \in [Call -> [Lamp -> {"unsent", "ok", "refused", "denied", "none"}]]
    /\ result \in [Call -> {"none", "true", "false"}]
    /\ wire \in [Call -> SUBSET [step : Step,
                               auth : [nonce : 0 .. MaxNonce,
                                       response : [hash : {"none", "MD5", "SHA-256"},
                                                   from : SUBSET Input],
                                       directives : SUBSET Input]]]
    /\ reply \in [Call -> [kind : {"none", "ok", "other", "err", "challenge", "bare"},
                           stale : BOOLEAN, nonce : 0 .. MaxNonce]]
    /\ since \in [Call -> 0 .. MaxNonce] /\ before \in [Call -> SUBSET Call]
    /\ \A n \in Call : reply[n].kind # "none" => \A r \in wire[n] : r.step # at[n]

(* A call that got an answer is not in doubt: OK means that the write was   *)
(* carried out, a refusal that it was not and never will be.  Only a       *)
(* request that was given up may be carried out or not, then or later.     *)
(* Whatever times out or is challenged, no lamp gets a write twice.        *)
AnswersAreTrue ==
    \A n \in Call, l \in Lamp :
        /\ applied[n][l] <= 1
        /\ status[n][l] = "ok" => applied[n][l] = 1
        /\ status[n][l] \in {"refused", "denied"} =>
              /\ applied[n][l] = 0
              /\ \A r \in wire[n] : Target(r.step) # l

(* A call returns true only if a lamp was switched, and a call that failed  *)
(* on answers alone has switched nothing, so that its caller may fall back *)
(* to the other way without a second write.                                *)
ResultIsHonest ==
    \A n \in Call :
        /\ result[n] = "true" => \E l \in Lamp : applied[n][l] = 1
        /\ result[n] = "false" /\ (\A l \in Lamp : status[n][l] # "none")
              => \A l \in Lamp : applied[n][l] = 0

(* A write that was answered OK is overwritten by no call that had returned *)
(* before it began, except by a request that that call gave up.            *)
OnlyDoubtfulWritesComeLate ==
    \A l \in Lamp, m, n \in Call :
        /\ status[n][l] = "ok"
        /\ m \in before[n] /\ switched[l] = m
        => status[m][l] = "none"

(* A challenge that async_digest_request can answer: MD5 or SHA-256, -sess  *)
(* or not, and auth is the first qop offered, or none is or is needed.     *)
Answerable ==
    scheme.hash # "other" /\ (scheme.qop \in {"none", "auth"} \/ scheme.lenient)

(* Digest with the camera's own credentials is denied only if a nonce       *)
(* expired twice during the call, one expiry between the requests being    *)
(* what the stale=true retry is for, or if the challenge has an algorithm  *)
(* the library does not know or offers something else before qop=auth.     *)
(* All other challenges are answered with a header that verifies, also to  *)
(* a camera that minds a dangling directive.                               *)
GoodCredentialsSuffice ==
    \A n \in Call :
        api[n] = "digest" /\ status[n]["front"] = "denied" =>
            mine[n] # cred \/ nonce >= since[n] + 2 \/ ~Answerable
=============================================================================
