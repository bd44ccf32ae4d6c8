---------------------------- MODULE PrerollRing -----------------------------
(***************************************************************************)
(* The pre-roll ring of one camera (mini_nvr.py): a directory into which   *)
(* ffmpeg writes short segments.  Callers prune it, prune and count it, or *)
(* take its newest segment and ask ffprobe whether it is finalized.  The   *)
(* listing runs in executor threads, so callers overlap, and each step is  *)
(* a system call of its own.                                               *)
(*                                                                         *)
(* Segments are numbered in the order ffmpeg creates them, which is the    *)
(* order of their mtimes: only the newest is ever written to.  ffmpeg and  *)
(* ffprobe are external.                                                   *)
(***************************************************************************)
EXTENDS Integers, FiniteSets

CONSTANTS
    Caller,
    MaxSegments,    \* max_segments
    MaxFile         \* bound: segments ffmpeg creates

ASSUME RingAssumption == MaxSegments \in Int /\ MaxFile \in Nat

File == 1 .. MaxFile

VARIABLES
    disk,       \* "none": not yet created; "small": under PREROLL_MIN_SIZE_BYTES;
                \* "big"; "gone": unlinked
    writing,    \* segment ffmpeg has open, or 0
    final,      \* segments whose moov atom is written
    pc,         \* what a caller is doing
    job,        \* "prune", "count" (prune_and_count) or "newest"
    names,      \* listed names it has yet to stat
    segs,       \* segments its list has so far
    victims,    \* to_delete
    path,       \* segment it asks ffprobe about, or 0
    ffprobe     \* the subprocess that asks

ffmpeg   == <<disk, writing, final>>
probe    == <<path, ffprobe>>
vars     == <<ffmpeg, pc, job, names, segs, victims, probe>>

Present == {f \in File : disk[f] \in {"small", "big"}}
Listed  == {f \in File : disk[f] = "big"}

Init ==
    /\ disk = [f \in File |-> "none"]
    /\ writing = 0
    /\ final = {}
    /\ pc = [p \in Caller |-> "idle"]
    /\ job = [p \in Caller |-> "prune"]
    /\ names = [p \in Caller |-> {}]
    /\ segs = [p \in Caller |-> {}]
    /\ victims = [p \in Caller |-> {}]
    /\ path = [p \in Caller |-> 0]
    /\ ffprobe = [p \in Caller |-> "none"]

-----------------------------------------------------------------------------
(* ffmpeg *)

OpensSegment(f) ==
    /\ writing = 0
    /\ disk[f] = "none" /\ \A e \in File : e < f => disk[e] # "none"
    /\ disk' = [disk EXCEPT ![f] = "small"]
    /\ writing' = f
    /\ UNCHANGED <<final, pc, job, names, segs, victims, probe>>

(* The open segment passes the size from which on it is listed. *)
Grows ==
    /\ writing # 0 /\ disk[writing] = "small"
    /\ disk' = [disk EXCEPT ![writing] = "big"]
    /\ UNCHANGED <<writing, final, pc, job, names, segs, victims, probe>>

FinishesSegment ==
    /\ writing # 0
    /\ final' = final \cup {writing}
    /\ writing' = 0
    /\ UNCHANGED <<disk, pc, job, names, segs, victims, probe>>

(* ffmpeg dies: its segment stays behind without a moov atom. *)
Crashes ==
    /\ writing # 0
    /\ writing' = 0
    /\ UNCHANGED <<disk, final, pc, job, names, segs, victims, probe>>

-----------------------------------------------------------------------------
(* list_preroll_segments *)

(* isdir() and listdir(): the names, or none when either of them fails. *)
StartList(p, where) ==
    /\ pc' = [pc EXCEPT ![p] = where]
    /\ \E found \in {Present, {}} : names' = [names EXCEPT ![p] = found]
    /\ segs' = [segs EXCEPT ![p] = {}]

Call(p, what) ==
    /\ pc[p] = "idle"
    /\ StartList(p, "list")
    /\ job' = [job EXCEPT ![p] = what]
    /\ UNCHANGED <<victims, probe, ffmpeg>>

(* isfile() and stat() of the next name: gone and small ones are left out,  *)
(* and those that cannot be looked at.                                     *)
Stat(p) ==
    /\ pc[p] \in {"list", "recount"}
    /\ \E f \in names[p] :
          /\ names' = [names EXCEPT ![p] = @ \ {f}]
          /\ \/ disk[f] = "big" /\ segs' = [segs EXCEPT ![p] = @ \cup {f}]
             \/ UNCHANGED segs
    /\ UNCHANGED <<pc, job, victims, probe, ffmpeg>>

(* A call returns; what it leaves in its locals is of no interest. *)
Return(p) ==
    /\ pc' = [pc EXCEPT ![p] = "idle"]
    /\ job' = [job EXCEPT ![p] = "prune"]
    /\ segs' = [segs EXCEPT ![p] = {}]

-----------------------------------------------------------------------------
(* prune_preroll_cache and prune_and_count *)

(* Mutated form of ToDelete: the list is sorted newest first. *)
NewestFirst(S) == {f \in S : Cardinality({g \in S : g < f}) >= MaxSegments}

(* Mutated form of ToDelete: the files that are too small go as well. *)
SmallOnesToo(S) == {f \in Present : Cardinality({g \in S : g > f}) >= MaxSegments}

(* segs[: max(0, len(segs) - max_segments)] of the list, oldest first. *)
ToDelete(S) == {f \in S : Cardinality({g \in S : g > f}) >= MaxSegments}

PruneListed(p) ==
    /\ pc[p] = "list" /\ job[p] # "newest" /\ names[p] = {}
    /\ pc' = [pc EXCEPT ![p] = "unlink"]
    /\ victims' = [victims EXCEPT ![p] = ToDelete(segs[p])]
    /\ segs' = [segs EXCEPT ![p] = {}]
    /\ UNCHANGED <<job, names, probe, ffmpeg>>

(* The loop takes the oldest segment left. *)
TakesVictim(p, f) ==
    /\ pc[p] = "unlink"
    /\ f \in victims[p] /\ \A g \in victims[p] : f <= g
    /\ victims' = [victims EXCEPT ![p] = @ \ {f}]
    /\ UNCHANGED <<pc, job, names, segs, probe, writing, final>>

(* os.unlink(): the segment is gone, if it was not already. *)
Unlink(p, f) ==
    /\ TakesVictim(p, f)
    /\ disk' = [disk EXCEPT ![f] = "gone"]

(* os.unlink() raises although the segment is there: it stays. *)
UnlinkFails(p, f) ==
    /\ TakesVictim(p, f)
    /\ f \in Present
    /\ UNCHANGED disk

(* prune_preroll_cache returns, to its caller or to prune_and_count, which  *)
(* lists the directory again.                                              *)
PruneReturns(p) ==
    /\ pc[p] = "unlink" /\ victims[p] = {}
    /\ \/ job[p] = "prune" /\ Return(p) /\ UNCHANGED names
       \/ job[p] = "count" /\ StartList(p, "recount") /\ UNCHANGED job
    /\ UNCHANGED <<victims, probe, ffmpeg>>

CountReturns(p) ==
    /\ pc[p] = "recount" /\ names[p] = {}
    /\ Return(p)
    /\ UNCHANGED <<names, victims, probe, ffmpeg>>

-----------------------------------------------------------------------------
(* newest_preroll_path, then newest_segment_is_finalized of that path *)

(* segs[-1][0], if there is one and ffprobe can be started. *)
NewestListed(p) ==
    /\ pc[p] = "list" /\ job[p] = "newest" /\ names[p] = {}
    /\ \/ /\ \E f \in segs[p] :
                /\ \A g \in segs[p] : g <= f
                /\ path' = [path EXCEPT ![p] = f]
          /\ pc' = [pc EXCEPT ![p] = "communicate"]
          /\ segs' = [segs EXCEPT ![p] = {}]
          /\ ffprobe' = [ffprobe EXCEPT ![p] = "running"]
          /\ UNCHANGED job
       \/ Return(p) /\ UNCHANGED probe
    /\ UNCHANGED <<names, victims, ffmpeg>>

(* ffprobe reads the file while it is there; without a moov atom it fails. *)
FfprobeExits(p) ==
    /\ ffprobe[p] \in {"running", "killed"}
    /\ \E how \in {"ok", "failed"} :
          /\ how = "ok" => /\ ffprobe[p] = "running"
                           /\ path[p] \in final /\ path[p] \in Present
          /\ ffprobe' = [ffprobe EXCEPT ![p] = how]
    /\ UNCHANGED <<pc, job, names, segs, victims, path, ffmpeg>>

(* Mutated form of Finalized: what was not seen to fail is finalized. *)
NotFailed(how) == how # "failed"

(* What the probe returns: True for returncode 0 and a duration. *)
Finalized(how) == how = "ok"

ProbeReturns(p) ==
    /\ Return(p)
    /\ path' = [path EXCEPT ![p] = 0]
    /\ ffprobe' = [ffprobe EXCEPT ![p] = "none"]
    /\ UNCHANGED <<names, victims, ffmpeg>>

CommunicateReturns(p) ==
    /\ pc[p] = "communicate" /\ ffprobe[p] \in {"ok", "failed"}
    /\ ProbeReturns(p)

(* timeout_probe: ffprobe is killed, if it has not exited just now. *)
ProbeTimesOut(p) ==
    /\ pc[p] = "communicate"
    /\ pc' = [pc EXCEPT ![p] = "wait"]
    /\ ffprobe' = [ffprobe EXCEPT ![p] = IF @ = "running" THEN "killed" ELSE @]
    /\ UNCHANGED <<job, names, segs, victims, path, ffmpeg>>

(* wait() returns, or timeout_kill_wait passes: either way it is False. *)
WaitReturns(p) ==
    /\ pc[p] = "wait"
    /\ ProbeReturns(p)

-----------------------------------------------------------------------------
Ffmpeg ==
    \/ \E f \in File : OpensSegment(f)
    \/ Grows \/ FinishesSegment \/ Crashes

ProbeResumes(p) == CommunicateReturns(p) \/ ProbeTimesOut(p) \/ WaitReturns(p)

CallerStep(p) ==
    \/ \E what \in {"prune", "count", "newest"} : Call(p, what)
    \/ Stat(p) \/ PruneListed(p)
    \/ \E f \in File : Unlink(p, f) \/ UnlinkFails(p, f)
    \/ PruneReturns(p) \/ CountReturns(p)
    \/ NewestListed(p) \/ FfprobeExits(p) \/ ProbeResumes(p)

Next == Ffmpeg \/ \E p \in Caller : CallerStep(p)

Spec == Init /\ [][Next]_vars

-----------------------------------------------------------------------------
(* Every variable keeps its kind of value, and what a caller is about to    *)
(* delete was there when it listed the directory.                          *)
TypeOK ==
    /\ disk \in [File -> {"none", "small", "big", "gone"}]
    /\ writing \in File \cup {0}
    /\ final \in SUBSET File
    /\ pc \in [Caller -> {"idle", "list", "unlink", "recount", "communicate", "wait"}]
    /\ job \in [Caller -> {"prune", "count", "newest"}]
    /\ names \in [Caller -> SUBSET File]
    /\ segs \in [Caller -> SUBSET File]
    /\ victims \in [Caller -> SUBSET {f \in File : disk[f] \in {"big", "gone"}}]
    /\ path \in [Caller -> File \cup {0}]
    /\ ffprobe \in [Caller -> {"none", "running", "killed", "ok", "failed"}]

(* "Delete oldest segments keeping max_segments newest": however many       *)
(* prunes overlap with each other and with ffmpeg, a segment is deleted    *)
(* only if MaxSegments newer ones are there at that moment; so it is never *)
(* the one ffmpeg is writing, unless MaxSegments is 0.                     *)
KeepsNewest ==
    [][\A f \in Present : disk'[f] = "gone" =>
          Cardinality({g \in Listed : g > f}) >= MaxSegments]_vars

(* "False is the safe default": True is only said of a segment that ffmpeg  *)
(* has finalized, also when ffprobe hangs or the segment is pruned.        *)
TrueMeansFinalized ==
    [][\A p \in Caller :
          /\ pc[p] \in {"communicate", "wait"} /\ pc'[p] = "idle"
          /\ Finalized(ffprobe[p])
          => path[p] \in final]_vars
=============================================================================
