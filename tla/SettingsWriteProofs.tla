------------------------- MODULE SettingsWriteProofs ------------------------
(***************************************************************************)
(* Theorems about SettingsWrite, for any number of writers, keys, values   *)
(* and PUTs on their way.  The invariant: what was read agrees with the    *)
(* cloud's object on every key that has not been missed since.             *)
(***************************************************************************)
EXTENDS SettingsWrite, TLAPS

Agrees(old, keys) == \A k \in Key \ keys : old[k] = object[k]

ReadInv == \A w \in Writer :
    /\ pc[w] = "get" => changes[w] \in Change
    /\ current[w] # None => pc[w] = "get" /\ Agrees(current[w], missed[w])

WireInv == \A s \in Slot :
    wire[s] # None => Agrees(wire[s].body, wire[s].asked \cup wire[s].missed)

IInv == TypeOK /\ ReadInv /\ WireInv

LEMMA InitIInv == Init => IInv
BY DEF Init, IInv, TypeOK, ReadInv, WireInv

(* A writer that leaves its call leaves the others alone. *)
LEMMA LeaveKeeps ==
    ASSUME TypeOK, ReadInv, NEW w \in Writer, NEW where \in {"idle", "put"},
           Leave(w, where), UNCHANGED object
    PROVE  /\ ReadInv'
           /\ pc' \in [Writer -> {"idle", "get", "put"}]
           /\ changes' \in [Writer -> Change \cup {None}]
           /\ current' \in [Writer -> Object \cup {None}]
           /\ missed' \in [Writer -> SUBSET Key]
BY DEF TypeOK, ReadInv, Leave, Agrees

LEMMA MergedType ==
    ASSUME NEW cur \in Object, NEW ch \in Change
    PROVE  /\ Merged(cur, ch) \in Object
           /\ DOMAIN ch \in SUBSET Key
           /\ \A k \in Key \ DOMAIN ch : Merged(cur, ch)[k] = cur[k]
BY ChangeAssumption DEF Merged, Object

(* A PUT that agrees with the object may take a slot. *)
LEMMA SendKeeps ==
    ASSUME TypeOK, WireInv, NEW put \in Put, Send(put), UNCHANGED object,
           Agrees(put.body, put.asked \cup put.missed)
    PROVE  WireInv' /\ wire' \in [Slot -> Put \cup {None}]
<1>1. PICK s \in Slot : wire' = [wire EXCEPT ![s] = put]
  BY DEF Send
<1>2. wire' \in [Slot -> Put \cup {None}]
  BY <1>1 DEF TypeOK
<1>3. WireInv'
  BY <1>1 DEF TypeOK, WireInv, Agrees
<1> QED
  BY <1>2, <1>3

(* However the object becomes new, the keys it changes are missed. *)
LEMMA BecomesKeeps ==
    ASSUME IInv, NEW new \in Object, NEW puts \in [Slot -> Put \cup {None}],
           \A s \in Slot : puts[s] \in {wire[s], None},
           Becomes(new, puts), UNCHANGED <<pc, changes, current>>
    PROVE  IInv'
<1> DEFINE touched == {k \in Key : new[k] # object[k]}
<1>1. /\ object' = new
      /\ missed' = [w \in Writer |-> IF current[w] = None THEN {}
                                     ELSE missed[w] \cup touched]
      /\ wire' = [s \in Slot |-> IF puts[s] = None THEN None
                                 ELSE [puts[s] EXCEPT !.missed = @ \cup touched]]
  BY DEF Becomes
<1>2. ASSUME NEW s \in Slot, puts[s] # None
      PROVE  /\ wire'[s] \in Put
             /\ wire'[s].body = wire[s].body
             /\ wire'[s].asked = wire[s].asked
             /\ wire'[s].missed = wire[s].missed \cup touched
             /\ wire[s] # None
  <2>1. puts[s] \in Put /\ puts[s] = wire[s]
    BY <1>2
  <2>2. wire'[s] = [puts[s] EXCEPT !.missed = @ \cup touched]
    BY <1>1, <1>2
  <2> QED
    BY <1>2, <2>1, <2>2 DEF Put
<1>3. \A s \in Slot : puts[s] = None => wire'[s] = None
  BY <1>1
<1>4. TypeOK'
  <2>1. wire' \in [Slot -> Put \cup {None}]
    BY <1>1, <1>2, <1>3
  <2>2. missed' \in [Writer -> SUBSET Key]
    BY <1>1 DEF IInv, TypeOK
  <2> QED
    BY <1>1, <2>1, <2>2 DEF IInv, TypeOK
<1>5. ReadInv'
  <2> SUFFICES ASSUME NEW w \in Writer, current[w] # None
               PROVE  \A k \in Key \ missed'[w] : current[w][k] = new[k]
    BY <1>1 DEF IInv, ReadInv, Agrees
  <2>1. missed'[w] = missed[w] \cup touched
    BY <1>1
  <2> QED
    BY <2>1 DEF IInv, ReadInv, Agrees
<1>6. WireInv'
  <2> SUFFICES ASSUME NEW s \in Slot, wire'[s] # None,
                      NEW k \in Key \ (wire'[s].asked \cup wire'[s].missed)
               PROVE  wire'[s].body[k] = new[k]
    BY <1>1 DEF WireInv, Agrees
  <2>1. puts[s] # None
    BY <1>3
  <2>2. k \in Key \ (wire[s].asked \cup wire[s].missed) /\ new[k] = object[k]
    BY <1>2, <2>1
  <2> QED
    BY <1>2, <2>1, <2>2 DEF IInv, WireInv, Agrees
<1> QED
  BY <1>4, <1>5, <1>6 DEF IInv

LEMMA WriterKeeps ==
    ASSUME IInv, NEW w \in Writer, WriterStep(w)
    PROVE  IInv'
<1> USE DEF IInv
<1>1. ASSUME NEW ch \in Change, CallMerge(w, ch) PROVE IInv'
  <2>1. TypeOK'
    BY <1>1 DEF CallMerge, TypeOK
  <2>2. ReadInv'
    BY <1>1 DEF CallMerge, TypeOK, ReadInv, Agrees
  <2>3. WireInv'
    BY <1>1 DEF CallMerge, WireInv, Agrees
  <2> QED
    BY <2>1, <2>2, <2>3
<1>2. ASSUME NEW body \in Body, CallPut(w, body) PROVE IInv'
  <2> DEFINE put == [from |-> w, body |-> body, asked |-> Key, late |-> FALSE,
                     missed |-> {}]
  <2>1. put \in Put /\ Agrees(put.body, put.asked \cup put.missed)
    BY BodyAssumption DEF Put, Agrees
  <2>2. Send(put) /\ UNCHANGED object /\ Leave(w, "put")
    BY <1>2 DEF CallPut
  <2>3. WireInv' /\ wire' \in [Slot -> Put \cup {None}]
    <3> HIDE DEF put
    <3> QED
      BY <2>1, <2>2, SendKeeps
  <2> QED
    BY <2>2, <2>3, LeaveKeeps DEF TypeOK
<1>3. CASE GetFails(w)
  <2>1. WireInv'
    BY <1>3 DEF GetFails, WireInv, Agrees
  <2> QED
    BY <1>3, <2>1, LeaveKeeps DEF GetFails, TypeOK
<1>4. CASE GetReturns(w)
  <2> DEFINE put == [from |-> w, body |-> Merged(current[w], changes[w]),
                     asked |-> DOMAIN changes[w], late |-> FALSE,
                     missed |-> missed[w]]
  <2>1. /\ current[w] \in Object /\ changes[w] \in Change
        /\ Agrees(current[w], missed[w]) /\ missed[w] \in SUBSET Key
    BY <1>4 DEF GetReturns, TypeOK, ReadInv
  <2>2. put \in Put
    BY <2>1, MergedType DEF Put
  <2>3. Agrees(put.body, put.asked \cup put.missed)
    BY <2>1, MergedType DEF Agrees
  <2>4. Send(put) /\ UNCHANGED object /\ Leave(w, "put")
    BY <1>4 DEF GetReturns
  <2>5. WireInv' /\ wire' \in [Slot -> Put \cup {None}]
    <3> HIDE DEF put
    <3> QED
      BY <2>2, <2>3, <2>4, SendKeeps
  <2> QED
    BY <2>4, <2>5, LeaveKeeps DEF TypeOK
<1>5. CASE PutReturns(w)
  <2>1. WireInv'
    BY <1>5 DEF PutReturns, WireInv, Agrees
  <2> QED
    BY <1>5, <2>1, LeaveKeeps DEF PutReturns, TypeOK
<1>6. CASE PutTimesOut(w)
  <2>1. ASSUME NEW s \in Slot, wire[s] # None
        PROVE  /\ wire'[s] \in Put
               /\ wire'[s].body = wire[s].body
               /\ wire'[s].asked = wire[s].asked
               /\ wire'[s].missed = wire[s].missed
    BY <1>6, <2>1 DEF PutTimesOut, TypeOK, Put
  <2>2. ASSUME NEW s \in Slot, wire[s] = None PROVE wire'[s] = None
    BY <1>6, <2>2 DEF PutTimesOut, Pending
  <2>3. wire' \in [Slot -> Put \cup {None}]
    BY <1>6, <2>1, <2>2 DEF PutTimesOut
  <2>4. WireInv'
    BY <1>6, <2>1, <2>2 DEF PutTimesOut, WireInv, Agrees
  <2>5. UNCHANGED object /\ Leave(w, "idle")
    BY <1>6 DEF PutTimesOut
  <2> QED
    BY <2>3, <2>4, <2>5, LeaveKeeps DEF TypeOK
<1> QED
  BY <1>1, <1>2, <1>3, <1>4, <1>5, <1>6 DEF WriterStep

LEMMA CloudKeeps ==
    ASSUME IInv, CloudStep
    PROVE  IInv'
<1> USE DEF IInv
<1>1. ASSUME NEW w \in Writer, AnswersGet(w) PROVE IInv'
  <2>1. TypeOK'
    BY <1>1 DEF AnswersGet, TypeOK
  <2>2. ReadInv'
    BY <1>1 DEF AnswersGet, TypeOK, ReadInv, Agrees
  <2>3. WireInv'
    BY <1>1 DEF AnswersGet, WireInv, Agrees
  <2> QED
    BY <2>1, <2>2, <2>3
<1>2. ASSUME NEW s \in Slot, Applies(s) PROVE IInv'
  <2> DEFINE puts == [wire EXCEPT ![s] = None]
  <2>1. wire[s].body \in Object
    BY <1>2 DEF Applies, TypeOK, Put
  <2>2. puts \in [Slot -> Put \cup {None}] /\ \A r \in Slot : puts[r] \in {wire[r], None}
    BY DEF TypeOK
  <2>3. Becomes(wire[s].body, puts) /\ UNCHANGED <<pc, changes, current>>
    BY <1>2 DEF Applies
  <2> HIDE DEF puts
  <2> QED
    BY <2>1, <2>2, <2>3, BecomesKeeps
<1>3. ASSUME NEW s \in Slot, Refuses(s) PROVE IInv'
  <2>1. TypeOK'
    BY <1>3 DEF Refuses, TypeOK
  <2>2. ReadInv'
    BY <1>3 DEF Refuses, ReadInv, Agrees
  <2>3. WireInv'
    BY <1>3 DEF Refuses, WireInv, Agrees, TypeOK
  <2> QED
    BY <2>1, <2>2, <2>3
<1>4. ASSUME NEW k \in Key, NEW v \in Value, OthersChange(k, v) PROVE IInv'
  <2> DEFINE new == [object EXCEPT ![k] = v]
  <2>1. new \in Object
    BY DEF TypeOK, Object
  <2>2. Becomes(new, wire) /\ UNCHANGED <<pc, changes, current>>
    BY <1>4 DEF OthersChange
  <2>3. wire \in [Slot -> Put \cup {None}]
    BY DEF TypeOK
  <2> HIDE DEF new
  <2> QED
    BY <2>1, <2>2, <2>3, BecomesKeeps
<1> QED
  BY <1>1, <1>2, <1>3, <1>4 DEF CloudStep

LEMMA NextIInv == IInv /\ [Next]_vars => IInv'
<1>1. IInv /\ UNCHANGED vars => IInv'
  BY DEF IInv, TypeOK, ReadInv, WireInv, Agrees, vars
<1> QED
  BY <1>1, WriterKeeps, CloudKeeps DEF Next

(* The inductive invariant holds throughout. *)
THEOREM Invariance == Spec => []IInv
BY InitIInv, NextIInv, PTL DEF Spec

(* The object and every body on its way are complete, for any keys and      *)
(* values.                                                                 *)
THEOREM TypeCorrect == Spec => []TypeOK
<1>1. IInv => TypeOK
  BY DEF IInv
<1> QED
  BY <1>1, Invariance, PTL

(* A PUT undoes at most what changed since its own GET was answered.        *)
THEOREM LostUpdateWindow == Spec => UndoesOnlyOverlapping
<1>1. IInv /\ [Next]_vars =>
        [\A s \in Slot : wire[s] # None /\ wire'[s] = None =>
           \A k \in Key \ (wire[s].asked \cup wire[s].missed) : object'[k] = object[k]]_vars
  <2> SUFFICES ASSUME IInv, Next, NEW s \in Slot, wire[s] # None, wire'[s] = None,
                      NEW k \in Key \ (wire[s].asked \cup wire[s].missed)
               PROVE  object'[k] = object[k]
    OBVIOUS
  <2>1. wire[s].body[k] = object[k]
    BY DEF IInv, WireInv, Agrees
  <2>2. ASSUME NEW w \in Writer, WriterStep(w) PROVE object'[k] = object[k]
    BY <2>2 DEF WriterStep, CallMerge, CallPut, GetFails, GetReturns, PutReturns, PutTimesOut
  <2>3. ASSUME NEW w \in Writer, AnswersGet(w) PROVE object'[k] = object[k]
    BY <2>3 DEF AnswersGet
  <2>4. ASSUME NEW r \in Slot, Applies(r) \/ Refuses(r) PROVE object'[k] = object[k]
    <3>1. CASE Refuses(r)
      BY <3>1 DEF Refuses
    <3>2. CASE Applies(r) /\ r = s
      BY <2>1, <3>2 DEF Applies, Becomes
    <3>3. CASE Applies(r) /\ r # s
      <4>1. wire'[s] # None
        <5> DEFINE touched == {j \in Key : wire[r].body[j] # object[j]}
        <5>1. wire'[s] = [wire[s] EXCEPT !.missed = @ \cup touched]
          BY <3>3 DEF Applies, Becomes, IInv, TypeOK
        <5>2. wire[s] \in Put
          BY DEF IInv, TypeOK
        <5>3. wire'[s] \in Put
          BY <5>1, <5>2 DEF Put
        <5> QED
          BY <5>3, NoneAssumption
      <4> QED
        BY <4>1
    <3> QED
      BY <2>4, <3>1, <3>2, <3>3
  <2>5. ASSUME NEW j \in Key, NEW v \in Value, OthersChange(j, v)
        PROVE  object'[k] = object[k]
    <3> DEFINE touched == {i \in Key : [object EXCEPT ![j] = v][i] # object[i]}
    <3>1. wire'[s] = [wire[s] EXCEPT !.missed = @ \cup touched]
      BY <2>5 DEF OthersChange, Becomes
    <3>2. wire[s] \in Put
      BY DEF IInv, TypeOK
    <3>3. wire'[s] \in Put
      BY <3>1, <3>2 DEF Put
    <3> QED
      BY <3>3, NoneAssumption
  <2> QED
    BY <2>2, <2>3, <2>4, <2>5 DEF Next, CloudStep
<1> QED
  BY <1>1, Invariance, PTL DEF Spec, UndoesOnlyOverlapping
=============================================================================
