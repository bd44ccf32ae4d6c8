--------------------------- MODULE RcpFetchProofs ---------------------------
(***************************************************************************)
(* Theorems about RcpFetch, for any number of polls and of commands.       *)
(*                                                                         *)
(* Two strengthenings carry them.  A guarded command's counter and its     *)
(* history agree up to three.  And the polls still in a read of a command  *)
(* are counted against the bound: past the third strike a poll can only    *)
(* leave them, and takes at most one strike with it.                       *)
(***************************************************************************)
EXTENDS RcpFetch, FiniteSetTheorems, TLAPS

Counted == \A c \in Guarded :
    misses[c] = IF cmd_failures[c] < 3 THEN cmd_failures[c] ELSE 3

StrikesLeft == \A c \in Command :
    cmd_failures[c] >= 3 =>
        cmd_failures[c] + Cardinality(Readers(c)) < 3 + Cardinality(Poll)

IInv == TypeOK /\ Counted /\ StrikesLeft

(* The readers of a command are polls, and finitely many. *)
LEMMA ReadersFinite ==
    ASSUME NEW c
    PROVE  /\ IsFiniteSet(Readers(c))
           /\ Cardinality(Readers(c)) \in Nat
           /\ Cardinality(Poll) \in Nat
           /\ Cardinality(Readers(c)) <= Cardinality(Poll)
<1>1. Readers(c) \subseteq Poll
  BY DEF Readers
<1> QED
  BY <1>1, PollAssumption, FS_Subset, FS_CardinalityType

(* A poll that goes on behind command n reads no command up to n, and none  *)
(* that is suppressed; the other polls stay where they are.                *)
LEMMA ReadNextReads ==
    ASSUME TypeOK, NEW p \in Poll, NEW n \in 0..Last,
           cmd_failures' \in [Command -> Nat], ReadNext(p, n)
    PROVE  /\ pc' \in [Poll -> {"idle", "session", "read"}]
           /\ at' \in [Poll -> 0..Last]
           /\ \A q \in Poll \ {p} : pc'[q] = pc[q] /\ at'[q] = at[q]
           /\ pc'[p] = "read" => /\ at'[p] \in Command
                                 /\ at'[p] > n
                                 /\ ~Skip(cmd_failures'[at'[p]])
<1> DEFINE left == {c \in Command : c > n /\ ~Skip(cmd_failures'[c])}
<1>1. CASE left = {} /\ pc' = [pc EXCEPT ![p] = "idle"] /\ at' = [at EXCEPT ![p] = 0]
  BY <1>1, LastAssumption DEF TypeOK
<1>2. CASE /\ \E c \in left : at' = [at EXCEPT ![p] = c]
           /\ pc' = [pc EXCEPT ![p] = "read"]
  <2>1. PICK c \in left : at' = [at EXCEPT ![p] = c]
    BY <1>2
  <2>2. c \in Command /\ c \in 0..Last
    BY LastAssumption DEF Command
  <2> QED
    BY <1>2, <2>1, <2>2 DEF TypeOK
<1> QED
  BY <1>1, <1>2 DEF ReadNext

LEMMA InitIInv == Init => IInv
<1> SUFFICES ASSUME Init PROVE IInv
  OBVIOUS
<1>1. TypeOK
  BY LastAssumption DEF Init, TypeOK
<1>2. Counted
  BY KindAssumption DEF Init, Counted
<1>3. StrikesLeft
  BY DEF Init, StrikesLeft
<1> QED
  BY <1>1, <1>2, <1>3 DEF IInv

(* Steps that read nothing keep the invariant. *)
LEMMA QuietStep ==
    ASSUME IInv, UNCHANGED <<cmd_failures, misses>>, TypeOK',
           \A c \in Command : cmd_failures[c] >= 3 => Readers(c)' \subseteq Readers(c)
    PROVE  IInv'
<1>1. Counted'
  BY DEF IInv, Counted
<1>2. StrikesLeft'
  <2> SUFFICES ASSUME NEW c \in Command, cmd_failures[c] >= 3
               PROVE  cmd_failures[c] + Cardinality(Readers(c)') < 3 + Cardinality(Poll)
    BY DEF StrikesLeft
  <2>1. cmd_failures[c] + Cardinality(Readers(c)) < 3 + Cardinality(Poll)
    BY DEF IInv, StrikesLeft
  <2>2. /\ Cardinality(Readers(c)') \in Nat
        /\ Cardinality(Readers(c)') <= Cardinality(Readers(c))
    BY ReadersFinite, FS_Subset, FS_CardinalityType
  <2>3. cmd_failures[c] \in Nat
    BY DEF IInv, TypeOK
  <2> QED
    BY <2>1, <2>2, <2>3, ReadersFinite
<1> QED
  BY <1>1, <1>2 DEF IInv

(* What one read does to the counter and the history of its command. *)
LEMMA Strike ==
    ASSUME TypeOK, Counted, NEW c \in Command, NEW r \in Reply, MayAnswer(c, r)
    PROVE  /\ Marked(c, r) \in [Command -> Nat]
           /\ Missed(c, r) \in [Command -> 0..3]
           /\ \A d \in Command \ {c} : /\ Marked(c, r)[d] = cmd_failures[d]
                                       /\ Missed(c, r)[d] = misses[d]
           /\ Marked(c, r)[c] \in {0, cmd_failures[c], cmd_failures[c] + 1}
           /\ c \in Guarded =>
                 Missed(c, r)[c] = IF Marked(c, r)[c] < 3 THEN Marked(c, r)[c] ELSE 3
<1>1. cmd_failures[c] \in Nat /\ misses[c] \in 0..3
  BY DEF TypeOK
<1>2. Marked(c, r) \in [Command -> Nat] /\ Missed(c, r) \in [Command -> 0..3]
  BY <1>1 DEF TypeOK, Marked, Missed
<1>3. \A d \in Command \ {c} : /\ Marked(c, r)[d] = cmd_failures[d]
                               /\ Missed(c, r)[d] = misses[d]
  BY DEF TypeOK, Marked, Missed
<1>4. Marked(c, r)[c] = IF Succeeds(c, r) THEN 0
                        ELSE IF Fails(c, r) THEN cmd_failures[c] + 1
                        ELSE cmd_failures[c]
  BY DEF TypeOK, Marked
<1>5. Missed(c, r)[c] = IF c \in Loose \/ r = "good" THEN 0
                        ELSE IF r = "raises" \/ misses[c] = 3 THEN misses[c]
                        ELSE misses[c] + 1
  BY DEF TypeOK, Missed
<1>6. ASSUME c \in Guarded
      PROVE  Missed(c, r)[c] = IF Marked(c, r)[c] < 3 THEN Marked(c, r)[c] ELSE 3
  <2>1. c \notin Loose /\ misses[c] = IF cmd_failures[c] < 3 THEN cmd_failures[c] ELSE 3
    BY <1>6, KindAssumption DEF Counted
  <2>2. CASE r = "good"
    BY <1>4, <1>5, <2>2 DEF Succeeds
  <2>3. CASE r = "raises"
    BY <1>4, <1>5, <2>1, <2>3
       DEF Succeeds, Fails, RangedFails, SizedFails, TextFails, LooseFails
  <2>4. CASE r \in {"none", "xml", "short", "odd"}
    <3>1. Fails(c, r) /\ ~Succeeds(c, r)
      BY <1>6, <2>1, <2>4, KindAssumption
         DEF Guarded, MayAnswer, Succeeds, Fails, RangedFails, SizedFails, TextFails
    <3> QED
      BY <1>1, <1>4, <1>5, <2>1, <2>4, <3>1
  <2> QED
    BY <2>2, <2>3, <2>4 DEF Reply
<1> QED
  BY <1>1, <1>2, <1>3, <1>4, <1>6

LEMMA NextIInv == IInv /\ [Next]_vars => IInv'
<1> SUFFICES ASSUME IInv, [Next]_vars PROVE IInv'
  OBVIOUS
<1> USE DEF IInv
<1>1. ASSUME NEW p \in Poll, CallFetch(p) \/ NoSession(p) PROVE IInv'
  <2>1. TypeOK'
    BY <1>1, LastAssumption DEF CallFetch, NoSession, TypeOK
  <2>2. \A c \in Command : Readers(c)' \subseteq Readers(c)
    BY <1>1 DEF CallFetch, NoSession, Readers, TypeOK
  <2> QED
    BY <1>1, <2>1, <2>2, QuietStep DEF CallFetch, NoSession
<1>2. ASSUME NEW p \in Poll, SessionOpened(p) PROVE IInv'
  <2>1. cmd_failures' \in [Command -> Nat] /\ 0 \in 0..Last
    BY <1>2, LastAssumption DEF SessionOpened, TypeOK
  <2>2. ReadNext(p, 0)
    BY <1>2 DEF SessionOpened
  <2>3. /\ pc' \in [Poll -> {"idle", "session", "read"}]
        /\ at' \in [Poll -> 0..Last]
        /\ \A q \in Poll \ {p} : pc'[q] = pc[q] /\ at'[q] = at[q]
        /\ pc'[p] = "read" => at'[p] \in Command /\ ~Skip(cmd_failures'[at'[p]])
    BY <2>1, <2>2, ReadNextReads
  <2>4. TypeOK'
    BY <1>2, <2>3 DEF SessionOpened, TypeOK
  <2>5. \A c \in Command : cmd_failures[c] >= 3 => Readers(c)' \subseteq Readers(c)
    BY <1>2, <2>3 DEF SessionOpened, Readers, Skip
  <2> QED
    BY <1>2, <2>4, <2>5, QuietStep DEF SessionOpened
<1>3. ASSUME NEW p \in Poll, NEW r \in Reply, ReadEnds(p, r) PROVE IInv'
  <2> DEFINE c == at[p]
  <2>1. c \in Command /\ c \in 0..Last /\ MayAnswer(c, r) /\ pc[p] = "read"
    BY <1>3 DEF ReadEnds, TypeOK
  <2>2. cmd_failures' = Marked(c, r) /\ misses' = Missed(c, r) /\ ReadNext(p, c)
    BY <1>3 DEF ReadEnds
  <2>3. /\ cmd_failures' \in [Command -> Nat]
        /\ misses' \in [Command -> 0..3]
        /\ \A d \in Command \ {c} : /\ cmd_failures'[d] = cmd_failures[d]
                                    /\ misses'[d] = misses[d]
        /\ cmd_failures'[c] \in {0, cmd_failures[c], cmd_failures[c] + 1}
        /\ c \in Guarded =>
              misses'[c] = IF cmd_failures'[c] < 3 THEN cmd_failures'[c] ELSE 3
    <3> HIDE DEF c
    <3> QED
      BY <2>1, <2>2, Strike
  <2>4. /\ pc' \in [Poll -> {"idle", "session", "read"}]
        /\ at' \in [Poll -> 0..Last]
        /\ \A q \in Poll \ {p} : pc'[q] = pc[q] /\ at'[q] = at[q]
        /\ pc'[p] = "read" => /\ at'[p] \in Command
                              /\ at'[p] > c
                              /\ ~Skip(cmd_failures'[at'[p]])
    <3> HIDE DEF c
    <3> QED
      BY <2>1, <2>2, <2>3, ReadNextReads
  <2>5. TypeOK'
    BY <1>3, <2>3, <2>4 DEF ReadEnds, TypeOK
  <2>6. Counted'
    <3> SUFFICES ASSUME NEW d \in Guarded
                 PROVE  misses'[d] = IF cmd_failures'[d] < 3 THEN cmd_failures'[d] ELSE 3
      BY DEF Counted
    <3>1. d \in Command
      BY KindAssumption
    <3> QED
      BY <2>3, <3>1 DEF Counted
  <2>7. StrikesLeft'
    <3> SUFFICES ASSUME NEW d \in Command, cmd_failures'[d] >= 3
                 PROVE  cmd_failures'[d] + Cardinality(Readers(d)') < 3 + Cardinality(Poll)
      BY DEF StrikesLeft
    <3>1. cmd_failures[d] \in Nat /\ cmd_failures'[d] \in Nat
      BY <2>3 DEF TypeOK
    <3>2. Readers(d)' \subseteq Readers(d) \ {p}
      BY <2>1, <2>4 DEF Readers, Skip, Command
    <3>3. /\ Cardinality(Readers(d)') \in Nat
          /\ Cardinality(Readers(d)') <= Cardinality(Readers(d) \ {p})
          /\ Cardinality(Readers(d) \ {p}) =
                IF p \in Readers(d) THEN Cardinality(Readers(d)) - 1
                ELSE Cardinality(Readers(d))
      BY <3>2, ReadersFinite, FS_Subset, FS_RemoveElement, FS_CardinalityType
    <3>4. CASE d = c
      <4>1. p \in Readers(d)
        BY <2>1, <3>4 DEF Readers
      <4>2. cmd_failures'[d] \in {0, cmd_failures[d], cmd_failures[d] + 1}
        BY <2>3, <3>4
      <4>3. cmd_failures[d] >= 3 =>
              cmd_failures[d] + Cardinality(Readers(d)) < 3 + Cardinality(Poll)
        BY DEF StrikesLeft
      <4> HIDE DEF c
      <4> QED
        BY <3>1, <3>3, <4>1, <4>2, <4>3, ReadersFinite
    <3>5. CASE d # c
      <4>1. cmd_failures'[d] = cmd_failures[d]
        BY <2>3, <3>5
      <4>2. cmd_failures[d] + Cardinality(Readers(d)) < 3 + Cardinality(Poll)
        BY <4>1 DEF StrikesLeft
      <4> HIDE DEF c
      <4> QED
        BY <3>1, <3>3, <4>1, <4>2, ReadersFinite
    <3> QED
      BY <3>4, <3>5
  <2> QED
    BY <2>5, <2>6, <2>7
<1>4. CASE CloseSession
  <2>1. TypeOK'
    BY <1>4 DEF CloseSession, TypeOK
  <2>2. \A c \in Command : Readers(c)' \subseteq Readers(c)
    BY <1>4 DEF CloseSession, Readers
  <2> QED
    BY <1>4, <2>1, <2>2, QuietStep DEF CloseSession
<1>5. CASE UNCHANGED vars
  <2>1. TypeOK'
    BY <1>5 DEF vars, TypeOK
  <2>2. \A c \in Command : Readers(c)' \subseteq Readers(c)
    BY <1>5 DEF vars, Readers
  <2> QED
    BY <1>5, <2>1, <2>2, QuietStep DEF vars
<1> QED
  BY <1>1, <1>2, <1>3, <1>4, <1>5 DEF Next, ReadReturns

(* The inductive invariant holds throughout. *)
THEOREM Invariance == Spec => []IInv
BY InitIInv, NextIInv, PTL DEF Spec

(* The counters and the polls keep their types. *)
THEOREM TypeCorrect == Spec => []TypeOK
<1>1. IInv => TypeOK
  BY DEF IInv
<1> QED
  BY <1>1, Invariance, PTL

(* Three replies without data suppress a guarded command, and nothing else  *)
(* does, however many polls overlap.                                       *)
THEOREM Strikes == Spec => []ThreeStrikes
<1>1. IInv => ThreeStrikes
  <2> SUFFICES ASSUME IInv, NEW c \in Guarded
               PROVE  Suppressed(c) <=> misses[c] = 3
    BY DEF ThreeStrikes
  <2>1. cmd_failures[c] \in Nat
    BY KindAssumption DEF IInv, TypeOK
  <2> QED
    BY <2>1 DEF IInv, Counted, Suppressed, Skip
<1> QED
  BY <1>1, Invariance, PTL

(* The counter goes past three by less than the number of polls. *)
THEOREM Bounded == Spec => []StrikesBounded
<1>1. IInv => StrikesBounded
  <2> SUFFICES ASSUME IInv, NEW c \in Command
               PROVE  cmd_failures[c] < 3 + Cardinality(Poll)
    BY DEF StrikesBounded
  <2>1. cmd_failures[c] \in Nat
    BY DEF IInv, TypeOK
  <2>2. cmd_failures[c] >= 3 =>
            cmd_failures[c] + Cardinality(Readers(c)) < 3 + Cardinality(Poll)
    BY DEF IInv, StrikesLeft
  <2> QED
    BY <2>1, <2>2, ReadersFinite
<1> QED
  BY <1>1, Invariance, PTL

(* A suppressed command that nobody reads is never read again. *)
THEOREM SuppressionLasts == Spec => StaysSuppressed
<1>1. IInv /\ [Next]_vars =>
        [\A c \in Command : Suppressed(c) /\ Readers(c) = {} =>
                               Suppressed(c)' /\ Readers(c)' = {}]_vars
  <2> SUFFICES ASSUME IInv, Next, NEW c \in Command, Suppressed(c), Readers(c) = {}
               PROVE  Suppressed(c)' /\ Readers(c)' = {}
    OBVIOUS
  <2> USE DEF IInv
  <2>1. ASSUME NEW p \in Poll, CallFetch(p) \/ NoSession(p)
        PROVE  Suppressed(c)' /\ Readers(c)' = {}
    BY <2>1 DEF CallFetch, NoSession, Readers, Suppressed, TypeOK
  <2>2. ASSUME NEW p \in Poll, SessionOpened(p)
        PROVE  Suppressed(c)' /\ Readers(c)' = {}
    <3>1. cmd_failures' = cmd_failures /\ ReadNext(p, 0) /\ 0 \in 0..Last
      BY <2>2, LastAssumption DEF SessionOpened
    <3>2. /\ \A q \in Poll \ {p} : pc'[q] = pc[q] /\ at'[q] = at[q]
          /\ pc'[p] = "read" => ~Skip(cmd_failures'[at'[p]])
      BY <3>1, ReadNextReads DEF TypeOK
    <3> QED
      BY <3>1, <3>2 DEF Readers, Suppressed
  <2>3. ASSUME NEW p \in Poll, NEW r \in Reply, ReadEnds(p, r)
        PROVE  Suppressed(c)' /\ Readers(c)' = {}
    <3> DEFINE d == at[p]
    <3>1. d \in Command /\ d \in 0..Last /\ MayAnswer(d, r) /\ d # c
      BY <2>3 DEF ReadEnds, TypeOK, Readers
    <3>2. cmd_failures' = Marked(d, r) /\ ReadNext(p, d)
      BY <2>3 DEF ReadEnds
    <3> HIDE DEF d
    <3>3. cmd_failures' \in [Command -> Nat] /\ cmd_failures'[c] = cmd_failures[c]
      BY <3>1, <3>2, Strike
    <3>4. /\ \A q \in Poll \ {p} : pc'[q] = pc[q] /\ at'[q] = at[q]
          /\ pc'[p] = "read" => ~Skip(cmd_failures'[at'[p]])
      BY <3>1, <3>2, <3>3, ReadNextReads
    <3> QED
      BY <3>3, <3>4 DEF Readers, Suppressed
  <2>4. ASSUME CloseSession
        PROVE  Suppressed(c)' /\ Readers(c)' = {}
    BY <2>4 DEF CloseSession, Readers, Suppressed
  <2> QED
    BY <2>1, <2>2, <2>3, <2>4 DEF Next, ReadReturns
<1> QED
  BY <1>1, Invariance, PTL DEF Spec, StaysSuppressed
=============================================================================
