--------------------------- MODULE SettingsWrite ----------------------------
(***************************************************************************)
(* Writing one settings object of a camera (settings.py).  The cloud wants *)
(* the whole object in every PUT, so _merge_put reads it, applies the      *)
(* changes and writes it back; put_setting sends a body as it is.  Callers *)
(* are coroutines; nothing serialises them, and the object has no version. *)
(*                                                                         *)
(* The cloud is external: it applies a PUT whole when it gets to it, which *)
(* may be after the caller's timeout, or never does (refused: HTTP 401,    *)
(* 403, 443 and the rest; or lost).  Other clients change single keys.     *)
(***************************************************************************)

CONSTANTS
    Writer,     \* coroutines that change the object
    Key,
    Value,
    Change,     \* what a caller asks for: functions on some of the keys
    Body,       \* complete bodies put_setting is called with
    Slot,       \* bound: PUTs on their way at once
    None

Object == [Key -> Value]

(* A PUT on its way: its body, the keys its caller set, whether the caller  *)
(* has timed out; and as history, the keys that changed since the body was *)
(* read.                                                                   *)
Put == [from : Writer, body : Object, asked : SUBSET Key, late : BOOLEAN,
        missed : SUBSET Key]

ASSUME ChangeAssumption ==
    \A ch \in Change : DOMAIN ch \subseteq Key /\ \A k \in DOMAIN ch : ch[k] \in Value
ASSUME BodyAssumption == Body \subseteq Object
ASSUME NoneAssumption == None \notin Object /\ None \notin Put

VARIABLES
    object,     \* in the cloud
    pc,         \* await at which a writer is suspended
    changes,    \* argument of its call
    current,    \* the object the cloud answered its GET with
    missed,     \* history: keys that changed in the cloud since that answer
    wire        \* PUTs on their way

vars == <<object, pc, changes, current, missed, wire>>

Init ==
    /\ object \in Object
    /\ pc = [w \in Writer |-> "idle"]
    /\ changes = [w \in Writer |-> None]
    /\ current = [w \in Writer |-> None]
    /\ missed = [w \in Writer |-> {}]
    /\ wire = [s \in Slot |-> None]

-----------------------------------------------------------------------------
(* The writers *)

CallMerge(w, ch) ==
    /\ pc[w] = "idle"
    /\ pc' = [pc EXCEPT ![w] = "get"]
    /\ changes' = [changes EXCEPT ![w] = ch]
    /\ UNCHANGED <<object, current, missed, wire>>

(* The call is over, or hands over to its PUT. *)
Leave(w, where) ==
    /\ pc' = [pc EXCEPT ![w] = where]
    /\ changes' = [changes EXCEPT ![w] = None]
    /\ current' = [current EXCEPT ![w] = None]
    /\ missed' = [missed EXCEPT ![w] = {}]

(* The GET raised: timeout, network, HTTP status, not an object, or empty. *)
GetFails(w) ==
    /\ pc[w] = "get"
    /\ Leave(w, "idle")
    /\ UNCHANGED <<object, wire>>

(* Mutated form of Merged: only the changes are sent. *)
ChangesOnly(cur, ch) == ch

(* Mutated form of Merged: the rest of the object gets a default. *)
MergedInDefaults(cur, ch) ==
    [k \in Key |-> IF k \in DOMAIN ch THEN ch[k] ELSE CHOOSE v \in Value : TRUE]

(* {**current, **changes} *)
Merged(cur, ch) == [k \in Key |-> IF k \in DOMAIN ch THEN ch[k] ELSE cur[k]]

(* A PUT takes a free slot. *)
Send(put) ==
    \E s \in Slot :
        /\ wire[s] = None
        /\ wire' = [wire EXCEPT ![s] = put]

GetReturns(w) ==
    /\ pc[w] = "get" /\ current[w] # None
    /\ Send([from |-> w, body |-> Merged(current[w], changes[w]),
             asked |-> DOMAIN changes[w], late |-> FALSE,
             missed |-> missed[w]])
    /\ Leave(w, "put")
    /\ UNCHANGED object

(* put_setting and the setters that send a complete body. *)
CallPut(w, body) ==
    /\ pc[w] = "idle"
    /\ Send([from |-> w, body |-> body, asked |-> Key, late |-> FALSE, missed |-> {}])
    /\ Leave(w, "put")
    /\ UNCHANGED object

Pending(w, s) == wire[s] # None /\ wire[s].from = w /\ ~wire[s].late

(* The PUT was answered, with success or with an error to raise. *)
PutReturns(w) ==
    /\ pc[w] = "put"
    /\ \A s \in Slot : ~Pending(w, s)
    /\ Leave(w, "idle")
    /\ UNCHANGED <<object, wire>>

(* WRITE_TIMEOUT, or the connection broke: the call raises, wherever its    *)
(* PUT is.                                                                 *)
PutTimesOut(w) ==
    /\ pc[w] = "put"
    /\ wire' = [s \in Slot |-> IF Pending(w, s) THEN [wire[s] EXCEPT !.late = TRUE]
                                                ELSE wire[s]]
    /\ Leave(w, "idle")
    /\ UNCHANGED object

-----------------------------------------------------------------------------
(* The cloud *)

AnswersGet(w) ==
    /\ pc[w] = "get" /\ current[w] = None
    /\ current' = [current EXCEPT ![w] = object]
    /\ UNCHANGED <<object, pc, changes, missed, wire>>

(* The object becomes new; what was read before has missed that. *)
Becomes(new, puts) ==
    LET touched == {k \in Key : new[k] # object[k]}
    IN  /\ object' = new
        /\ missed' = [w \in Writer |-> IF current[w] = None THEN {}
                                       ELSE missed[w] \cup touched]
        /\ wire' = [s \in Slot |-> IF puts[s] = None THEN None
                                   ELSE [puts[s] EXCEPT !.missed = @ \cup touched]]

Applies(s) ==
    /\ wire[s] # None
    /\ Becomes(wire[s].body, [wire EXCEPT ![s] = None])
    /\ UNCHANGED <<pc, changes, current>>

Refuses(s) ==
    /\ wire[s] # None
    /\ wire' = [wire EXCEPT ![s] = None]
    /\ UNCHANGED <<object, pc, changes, current, missed>>

OthersChange(k, v) ==
    /\ Becomes([object EXCEPT ![k] = v], wire)
    /\ UNCHANGED <<pc, changes, current>>

-----------------------------------------------------------------------------
WriterStep(w) ==
    \/ \E ch \in Change : CallMerge(w, ch)
    \/ \E body \in Body : CallPut(w, body)
    \/ GetFails(w) \/ GetReturns(w) \/ PutReturns(w) \/ PutTimesOut(w)

CloudStep ==
    \/ \E w \in Writer : AnswersGet(w)
    \/ \E s \in Slot : Applies(s) \/ Refuses(s)
    \/ \E k \in Key, v \in Value : OthersChange(k, v)

Next == (\E w \in Writer : WriterStep(w)) \/ CloudStep

Spec == Init /\ [][Next]_vars

-----------------------------------------------------------------------------
(* The object in the cloud and every body on its way stay complete. *)
TypeOK ==
    /\ object \in Object
    /\ pc \in [Writer -> {"idle", "get", "put"}]
    /\ changes \in [Writer -> Change \cup {None}]
    /\ current \in [Writer -> Object \cup {None}]
    /\ missed \in [Writer -> SUBSET Key]
    /\ wire \in [Slot -> Put \cup {None}]

(* A PUT changes the keys its caller asked for; of the others it undoes at  *)
(* most what changed after its own GET was answered.  The window in which  *)
(* an update can be lost begins no earlier than that.                      *)
UndoesOnlyOverlapping ==
    [][\A s \in Slot : wire[s] # None /\ wire'[s] = None =>
          \A k \in Key \ (wire[s].asked \cup wire[s].missed) : object'[k] = object[k]]_vars
=============================================================================
