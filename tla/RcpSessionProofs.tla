-------------------------- MODULE RcpSessionProofs --------------------------
(***************************************************************************)
(* Proofs about RcpSession, for any number of callers and sessions.        *)
(***************************************************************************)
EXTENDS RcpSession, TLAPS

(* The lock is held exactly while its holder runs a handshake; only a       *)
(* request of step 1 is answered with a session id.                        *)
LockInv ==
    /\ \A c \in Caller : Opening(c) <=> lock = c
    /\ \A c \in Caller : reply[c] \in Session => pc[c] = "step1"

(* A session id on its way into the cache is known to its handshake only,   *)
(* so nobody can have been told that it is closed.                         *)
DeadInv ==
    /\ cached \notin known_dead
    /\ \A c \in Caller : pc[c] = "step2" => sid[c] \notin known_dead
    /\ \A c \in Caller : reply[c] \in Session => reply[c] \notin known_dead
    /\ \A c, d \in Caller : pc[c] = "step2" /\ pc[d] \in {"have", "read"} => sid[d] # sid[c]
    /\ \A c, d \in Caller :
          reply[c] \in Session /\ pc[d] \in {"step2", "have", "read"} => sid[d] # reply[c]
    /\ \A c \in Caller : pc[c] \in {"step2", "have", "read"} => sid[c] \in Session

IInv == TypeOK /\ LockInv /\ DeadInv

LEMMA InitIInv == Init => IInv
  BY NoneAssumption, AnswerAssumption
  DEF Init, IInv, TypeOK, LockInv, DeadInv, Opening, CallerState, Answer

(* The steps of a caller. *)
LEMMA CallerKeeps ==
    ASSUME IInv, NEW c \in Caller, CallerStep(c)
    PROVE  IInv'
  <1> USE NoneAssumption, AnswerAssumption
  <1>1. CASE CallGet(c)
    BY <1>1 DEF CallGet, Goto, cache, IInv, TypeOK, LockInv, DeadInv, Opening, CallerState
  <1>2. CASE GetCached(c)
    <2>1. TypeOK'
      BY <1>2 DEF GetCached, Goto, cache, IInv, TypeOK, CallerState
    <2>2. \A d \in Caller : ~Opening(d)
      BY <1>2 DEF GetCached, IInv, LockInv
    <2>3. LockInv'
      BY <1>2, <2>2 DEF GetCached, Goto, IInv, TypeOK, LockInv, Opening
    <2>4. DeadInv'
      BY <1>2, <2>2 DEF GetCached, Goto, cache, IInv, TypeOK, LockInv, DeadInv, Opening
    <2>5. QED
      BY <2>1, <2>3, <2>4 DEF IInv
  <1>3. CASE OpenSession(c)
    <2>1. TypeOK'
      BY <1>3 DEF OpenSession, Acquire, Goto, IInv, TypeOK, CallerState
    <2>2. LockInv'
      BY <1>3 DEF OpenSession, Acquire, Goto, IInv, TypeOK, LockInv, Opening
    <2>3. DeadInv'
      BY <1>3 DEF OpenSession, Acquire, Goto, IInv, TypeOK, DeadInv
    <2>4. QED
      BY <2>1, <2>2, <2>3 DEF IInv
  <1>4. CASE StepOneGranted(c)
    <2>1. TypeOK'
      BY <1>4 DEF StepOneGranted, Granted, Goto, Hear, cache, IInv, TypeOK, CallerState, Answer
    <2>2. LockInv'
      BY <1>4 DEF StepOneGranted, Granted, Goto, Hear, IInv, TypeOK, LockInv, Opening
    <2>3. \A d \in Caller : Opening(d) => d = c
      BY <1>4 DEF StepOneGranted, IInv, LockInv, Opening
    <2>4. DeadInv'
      BY <1>4, <2>3
      DEF StepOneGranted, Granted, Goto, Hear, cache, IInv, TypeOK, LockInv, DeadInv, Opening
    <2>5. QED
      BY <2>1, <2>2, <2>4 DEF IInv
  <1>5. CASE StepOneFails(c)
    <2>1. TypeOK'
      BY <1>5 DEF StepOneFails, Release, Goto, Hear, cache, IInv, TypeOK, CallerState, Answer
    <2>2. LockInv'
      BY <1>5 DEF StepOneFails, Release, Goto, Hear, IInv, TypeOK, LockInv, Opening
    <2>3. DeadInv'
      BY <1>5 DEF StepOneFails, Goto, Hear, cache, IInv, TypeOK, DeadInv
    <2>4. QED
      BY <2>1, <2>2, <2>3 DEF IInv
  <1>6. CASE StepTwoEnds(c)
    <2>1. sid[c] \in Session
      BY <1>6 DEF StepTwoEnds, IInv, DeadInv
    <2>2. TypeOK'
      BY <1>6, <2>1 DEF StepTwoEnds, Goto, IInv, TypeOK, CallerState
    <2>3. \A d \in Caller : Opening(d) => d = c
      BY <1>6 DEF StepTwoEnds, IInv, LockInv, Opening
    <2>4. LockInv'
      BY <1>6, <2>3 DEF StepTwoEnds, Goto, IInv, TypeOK, LockInv, Opening
    <2>5. DeadInv'
      BY <1>6, <2>3 DEF StepTwoEnds, Goto, IInv, TypeOK, LockInv, DeadInv, Opening
    <2>6. QED
      BY <2>2, <2>4, <2>5 DEF IInv
  <1>7. CASE Read(c)
    BY <1>7 DEF Read, Goto, cache, IInv, TypeOK, LockInv, DeadInv, Opening, CallerState
  <1>8. CASE ReadClosed(c)
    <2>1. sid[c] \in Session
      BY <1>8 DEF ReadClosed, IInv, DeadInv
    <2>2. TypeOK'
      BY <1>8, <2>1
      DEF ReadClosed, DropCachedSession, Goto, Hear, IInv, TypeOK, CallerState, Answer
    <2>3. LockInv'
      BY <1>8 DEF ReadClosed, Goto, Hear, IInv, TypeOK, LockInv, Opening
    <2>4. DeadInv'
      BY <1>8, <2>1
      DEF ReadClosed, DropCachedSession, Goto, Hear, IInv, TypeOK, LockInv, DeadInv, Opening
    <2>5. QED
      BY <2>2, <2>3, <2>4 DEF IInv
  <1>9. CASE ReadEnds(c)
    <2>1. TypeOK'
      BY <1>9 DEF ReadEnds, Goto, Hear, cache, IInv, TypeOK, CallerState, Answer
    <2>2. LockInv'
      BY <1>9 DEF ReadEnds, Goto, Hear, IInv, TypeOK, LockInv, Opening
    <2>3. DeadInv'
      BY <1>9 DEF ReadEnds, Goto, Hear, cache, IInv, TypeOK, DeadInv
    <2>4. QED
      BY <2>1, <2>2, <2>3 DEF IInv
  <1>10. CASE Finish(c)
    BY <1>10 DEF Finish, Goto, cache, IInv, TypeOK, LockInv, DeadInv, Opening, CallerState
  <1>11. QED
    BY <1>1, <1>2, <1>3, <1>4, <1>5, <1>6, <1>7, <1>8, <1>9, <1>10
    DEF CallerStep, Gets, HandshakeStep

(* The steps of the proxy and of the clock. *)
LEMMA ProxyKeeps ==
    ASSUME IInv, ProxyStep \/ CacheExpires
    PROVE  IInv'
  <1> USE NoneAssumption, AnswerAssumption
  <1>1. ASSUME NEW c \in Caller, NEW s \in Session, ProxyOpens(c, s)
        PROVE  IInv'
    <2>1. TypeOK'
      BY <1>1 DEF ProxyOpens, Hear, cache, IInv, TypeOK, Answer
    <2>2. LockInv'
      BY <1>1 DEF ProxyOpens, Hear, IInv, TypeOK, LockInv, Opening
    <2>3. DeadInv'
      BY <1>1 DEF ProxyOpens, InUse, Hear, cache, IInv, TypeOK, LockInv, DeadInv
    <2>4. QED
      BY <2>1, <2>2, <2>3 DEF IInv
  <1>2. ASSUME NEW c \in Caller, ProxyRejects(c) \/ ProxyAnswers(c)
        PROVE  IInv'
    <2>1. PICK a \in {"rejected", "ok", "closed"} : Hear(c, a)
      BY <1>2 DEF ProxyRejects, ProxyAnswers
    <2>2. UNCHANGED <<cache, lock, pc, sid, live, known_dead>>
      BY <1>2 DEF ProxyRejects, ProxyAnswers
    <2>3. QED
      BY <2>1, <2>2 DEF Hear, cache, IInv, TypeOK, LockInv, DeadInv, Opening, Answer
  <1>3. CASE ProxyCloses \/ CacheExpires
    BY <1>3 DEF ProxyCloses, CacheExpires, cache, IInv, TypeOK, LockInv, DeadInv, Opening
  <1>4. QED
    BY <1>1, <1>2, <1>3 DEF ProxyStep

(* The inductive invariant holds in every reachable state. *)
THEOREM Invariance == Spec => []IInv
  <1>1. ASSUME IInv, UNCHANGED vars
        PROVE  IInv'
    BY <1>1 DEF vars, IInv, TypeOK, LockInv, DeadInv, Opening
  <1>2. IInv /\ [Next]_vars => IInv'
    BY <1>1, CallerKeeps, ProxyKeeps DEF Next
  <1>3. QED
    BY InitIInv, <1>2, PTL DEF Spec

(* Type correctness, for any number of callers and sessions: an id, never    *)
(* something else the proxy said, is cached and used.                      *)
THEOREM TypeCorrect == Spec => []TypeOK
  <1>1. IInv => TypeOK
    BY DEF IInv
  <1>2. QED
    BY <1>1, Invariance, PTL

(* The per-hash lock makes handshakes mutually exclusive. *)
THEOREM HandshakesExclude == Spec => []OneHandshake
  <1>1. IInv => OneHandshake
    BY DEF IInv, LockInv, OneHandshake
  <1>2. QED
    BY <1>1, Invariance, PTL

(* A session somebody was told is closed is never in the cache again. *)
THEOREM DeadStaysOut == Spec => []NoDeadReplay
  <1>1. IInv => NoDeadReplay
    BY DEF IInv, DeadInv, NoDeadReplay
  <1>2. QED
    BY <1>1, Invariance, PTL
=============================================================================
