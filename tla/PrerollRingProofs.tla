------------------------- MODULE PrerollRingProofs --------------------------
(***************************************************************************)
(* Proofs about PrerollRing, for any number of overlapping callers, any    *)
(* max_segments and any number of segments.                                *)
(***************************************************************************)
EXTENDS PrerollRing, FiniteSetTheorems, TLAPS

(* Segments that were once large enough to be listed, the unlinked included. *)
Seen == {f \in File : disk[f] \in {"big", "gone"}}

(* Enough newer segments are there for f to be deleted. *)
Spare(f) == Cardinality({g \in Listed : g > f}) >= MaxSegments

(* A caller only lists, and only deletes, what was once listed.  What is    *)
(* deleted, or about to be, leaves enough newer segments behind: a caller's *)
(* old list still justifies its deletion, because a segment of it that is   *)
(* gone meanwhile left enough newer ones itself.                           *)
RingInv ==
    /\ \A p \in Caller : segs[p] \subseteq Seen
    /\ \A p \in Caller : \A f \in victims[p] : Spare(f)
    /\ \A f \in File : disk[f] = "gone" => Spare(f)
    /\ \A p \in Caller : ffprobe[p] = "ok" => path[p] \in final

IInv == TypeOK /\ RingInv

(* A set with a large enough part is large enough. *)
LEMMA EnoughInPart ==
    ASSUME NEW S \in SUBSET File, NEW T \in SUBSET S, Cardinality(T) >= MaxSegments
    PROVE  Cardinality(S) >= MaxSegments
  <1>1. IsFiniteSet(File)
    BY FS_Interval, RingAssumption DEF File
  <1>2. IsFiniteSet(S) /\ IsFiniteSet(T) /\ Cardinality(T) <= Cardinality(S)
    BY <1>1, FS_Subset
  <1>3. Cardinality(S) \in Nat /\ Cardinality(T) \in Nat
    BY <1>2, FS_CardinalityType
  <1>4. QED
    BY <1>2, <1>3, RingAssumption

(* The older of two segments has all the newer ones of the other. *)
LEMMA SpareOlder ==
    ASSUME NEW f \in File, NEW g \in File, f <= g, Spare(g)
    PROVE  Spare(f)
  <1>1. /\ {h \in Listed : h > f} \in SUBSET File
        /\ {h \in Listed : h > g} \in SUBSET {h \in Listed : h > f}
    BY RingAssumption DEF Listed, File
  <1>2. QED
    BY <1>1, EnoughInPart DEF Spare

(* What a list that may be out of date offers for deletion may be deleted.  *)
LEMMA OldListIsSafe ==
    ASSUME RingInv, NEW p \in Caller, NEW f \in ToDelete(segs[p])
    PROVE  Spare(f)
  <1>1. f \in File /\ segs[p] \subseteq Seen /\ Seen \subseteq File
    BY DEF ToDelete, RingInv, Seen
  <1>2. CASE \E g \in segs[p] : g > f /\ disk[g] = "gone"
    <2>1. PICK g \in File : g > f /\ disk[g] = "gone"
      BY <1>1, <1>2
    <2>2. Spare(g) /\ f <= g
      BY <1>1, <2>1, RingAssumption DEF RingInv, File
    <2>3. QED
      BY <1>1, <2>1, <2>2, SpareOlder
  <1>3. CASE ~\E g \in segs[p] : g > f /\ disk[g] = "gone"
    <2>1. /\ {g \in Listed : g > f} \in SUBSET File
          /\ {g \in segs[p] : g > f} \in SUBSET {g \in Listed : g > f}
      BY <1>1, <1>3 DEF Seen, Listed
    <2>2. Cardinality({g \in segs[p] : g > f}) >= MaxSegments
      BY DEF ToDelete
    <2>3. QED
      BY <2>1, <2>2, EnoughInPart DEF Spare
  <1>4. QED
    BY <1>2, <1>3

(* A step that unlinks nothing takes no listed segment away. *)
LEMMA SpareStays ==
    ASSUME \A g \in Listed : disk'[g] = "big"
    PROVE  \A f \in File : Spare(f) => Spare(f)'
  <1>1. ASSUME NEW f \in File, Spare(f)
        PROVE  Spare(f)'
    <2>1. /\ {g \in Listed' : g > f} \in SUBSET File
          /\ {g \in Listed : g > f} \in SUBSET {g \in Listed' : g > f}
      BY DEF Listed
    <2>2. Cardinality({g \in Listed' : g > f}) >= MaxSegments
      BY <1>1, <2>1, EnoughInPart DEF Spare
    <2>3. QED
      BY <2>2 DEF Spare, File
  <1>2. QED
    BY <1>1

(* Deleting a segment that can be spared leaves the others that could be    *)
(* spared as they were: what it takes from an older one, it had itself.    *)
LEMMA SpareAfterUnlink ==
    ASSUME NEW u \in File, Spare(u), disk' = [disk EXCEPT ![u] = "gone"],
           disk \in [File -> {"none", "small", "big", "gone"}]
    PROVE  \A f \in File : Spare(f) => Spare(f)'
  <1>1. ASSUME NEW f \in File, Spare(f)
        PROVE  Spare(f)'
    <2>1. Listed' = Listed \ {u} /\ {g \in Listed' : g > f} \in SUBSET File
      BY DEF Listed
    <2>2. CASE f < u
      <3>1. {g \in Listed : g > u} \in SUBSET {g \in Listed' : g > f}
        BY <2>1, <2>2, RingAssumption DEF Listed, File
      <3>2. Cardinality({g \in Listed' : g > f}) >= MaxSegments
        BY <2>1, <3>1, EnoughInPart DEF Spare
      <3>3. QED
        BY <3>2 DEF Spare, File
    <2>3. CASE ~(f < u)
      <3>1. {g \in Listed : g > f} \in SUBSET {g \in Listed' : g > f}
        BY <2>1, <2>3, RingAssumption DEF Listed, File
      <3>2. Cardinality({g \in Listed' : g > f}) >= MaxSegments
        BY <1>1, <2>1, <3>1, EnoughInPart DEF Spare
      <3>3. QED
        BY <3>2 DEF Spare, File
    <2>4. QED
      BY <2>2, <2>3
  <1>2. QED
    BY <1>1

-----------------------------------------------------------------------------
LEMMA InitIInv == Init => IInv
  BY DEF Init, IInv, TypeOK, RingInv, Seen

(* ffmpeg creates, fills and finishes segments, and unlinks none. *)
LEMMA FfmpegKeeps ==
    ASSUME IInv, Ffmpeg
    PROVE  IInv'
  <1> USE DEF IInv
  <1>1. UNCHANGED <<pc, job, names, segs, victims, probe>>
    BY DEF Ffmpeg, OpensSegment, Grows, FinishesSegment, Crashes
  <1>2. /\ disk' \in [File -> {"none", "small", "big", "gone"}]
        /\ writing' \in File \cup {0} /\ final' \in SUBSET File
        /\ final \subseteq final'
    BY DEF Ffmpeg, OpensSegment, Grows, FinishesSegment, Crashes, TypeOK
  <1>3. /\ \A f \in File : disk[f] \in {"big", "gone"} => disk'[f] = disk[f]
        /\ \A f \in File : disk'[f] = "gone" => disk[f] = "gone"
    BY DEF Ffmpeg, OpensSegment, Grows, FinishesSegment, Crashes, TypeOK
  <1>4. Seen \subseteq Seen' /\ \A f \in File : Spare(f) => Spare(f)'
    BY <1>3, SpareStays DEF Seen, Listed, File
  <1>5. TypeOK'
    BY <1>1, <1>2, <1>3 DEF TypeOK, probe
  <1>6. \A p \in Caller : victims[p] \subseteq File
    BY DEF TypeOK
  <1>7. RingInv'
    BY <1>1, <1>2, <1>3, <1>4, <1>6 DEF RingInv, probe, File
  <1>8. QED
    BY <1>5, <1>7

(* A caller's step that leaves the directory alone: what it puts in its     *)
(* list was seen, and what it puts in to_delete can be spared.             *)
LEMMA QuietStepKeeps ==
    ASSUME IInv, UNCHANGED ffmpeg,
           pc' \in [Caller -> {"idle", "list", "unlink", "recount", "communicate", "wait"}],
           job' \in [Caller -> {"prune", "count", "newest"}],
           names' \in [Caller -> SUBSET File],
           segs' \in [Caller -> SUBSET Seen],
           victims' \in [Caller -> SUBSET {f \in Seen : Spare(f)}],
           path' \in [Caller -> File \cup {0}],
           ffprobe' \in [Caller -> {"none", "running", "killed", "ok", "failed"}],
           \A q \in Caller : ffprobe'[q] = "ok" => path'[q] \in final
    PROVE  IInv'
  <1>1. disk' = disk /\ writing' = writing /\ final' = final
    BY DEF ffmpeg
  <1>2. Seen' = Seen /\ \A f \in File : Spare(f)' = Spare(f)
    BY <1>1 DEF Seen, Spare, Listed, File
  <1>3. TypeOK'
    BY <1>1 DEF IInv, TypeOK, Seen
  <1>4. RingInv'
    BY <1>1, <1>2 DEF IInv, RingInv, Seen, File
  <1>5. QED
    BY <1>3, <1>4 DEF IInv

LEMMA UnlinkKeeps ==
    ASSUME IInv, NEW p \in Caller, NEW f \in File, Unlink(p, f)
    PROVE  IInv'
  <1> USE DEF IInv
  <1>1. /\ f \in victims[p] /\ f \in Seen /\ Spare(f)
        /\ disk' = [disk EXCEPT ![f] = "gone"]
        /\ victims' = [victims EXCEPT ![p] = @ \ {f}]
        /\ UNCHANGED <<pc, job, names, segs, probe, writing, final>>
    BY DEF Unlink, TakesVictim, TypeOK, RingInv, Seen
  <1>2. \A g \in File : Spare(g) => Spare(g)'
    BY <1>1, SpareAfterUnlink DEF TypeOK
  <1>3. Seen' = Seen
    BY <1>1 DEF Seen, TypeOK
  <1>4. \A q \in Caller : victims'[q] \subseteq victims[q] /\ victims[q] \subseteq Seen
    BY <1>1 DEF TypeOK, Seen
  <1>5. TypeOK'
    <2>1. victims' \in [Caller -> SUBSET Seen']
      BY <1>1, <1>3, <1>4 DEF TypeOK
    <2>2. disk' \in [File -> {"none", "small", "big", "gone"}]
      BY <1>1 DEF TypeOK
    <2>3. QED
      BY <1>1, <2>1, <2>2 DEF TypeOK, Seen, probe
  <1>6. RingInv'
    <2>1. \A q \in Caller : segs'[q] \subseteq Seen'
      BY <1>1, <1>3 DEF RingInv
    <2>2. \A q \in Caller : \A g \in victims'[q] : Spare(g)'
      BY <1>2, <1>4 DEF RingInv, Seen
    <2>3. \A g \in File : disk'[g] = "gone" => Spare(g)'
      BY <1>1, <1>2 DEF RingInv, TypeOK
    <2>4. QED
      BY <1>1, <2>1, <2>2, <2>3 DEF RingInv, probe, File
  <1>7. QED
    BY <1>5, <1>6

LEMMA CallerKeeps ==
    ASSUME IInv, NEW p \in Caller, CallerStep(p)
    PROVE  IInv'
  <1> USE DEF IInv
  <1>1. /\ pc \in [Caller -> {"idle", "list", "unlink", "recount", "communicate", "wait"}]
        /\ job \in [Caller -> {"prune", "count", "newest"}]
        /\ names \in [Caller -> SUBSET File]
        /\ path \in [Caller -> File \cup {0}]
        /\ ffprobe \in [Caller -> {"none", "running", "killed", "ok", "failed"}]
        /\ \A q \in Caller : ffprobe[q] = "ok" => path[q] \in final
    BY DEF TypeOK, RingInv
  <1>2. segs \in [Caller -> SUBSET Seen]
    BY DEF TypeOK, RingInv
  <1>3. victims \in [Caller -> SUBSET {f \in Seen : Spare(f)}]
    BY DEF TypeOK, RingInv, Seen
  <1>4. ASSUME NEW where \in {"list", "recount"}, StartList(p, where)
        PROVE  /\ pc' \in [Caller -> {"idle", "list", "unlink", "recount", "communicate", "wait"}]
               /\ names' \in [Caller -> SUBSET File]
               /\ segs' \in [Caller -> SUBSET Seen]
    BY <1>1, <1>2, <1>4 DEF StartList, Present
  <1>5. ASSUME Return(p)
        PROVE  /\ pc' \in [Caller -> {"idle", "list", "unlink", "recount", "communicate", "wait"}]
               /\ job' \in [Caller -> {"prune", "count", "newest"}]
               /\ segs' \in [Caller -> SUBSET Seen]
    BY <1>1, <1>2, <1>5 DEF Return
  <1>6. ASSUME NEW what \in {"prune", "count", "newest"}, Call(p, what)
        PROVE  IInv'
    <2>1. job' \in [Caller -> {"prune", "count", "newest"}]
      BY <1>1, <1>6 DEF Call
    <2>2. QED
      BY <1>1, <1>3, <1>4, <1>6, <2>1, QuietStepKeeps DEF Call, probe
  <1>7. CASE Stat(p)
    <2>1. /\ names' \in [Caller -> SUBSET File] /\ segs' \in [Caller -> SUBSET Seen]
      BY <1>1, <1>2, <1>7 DEF Stat, Seen
    <2>2. QED
      BY <1>1, <1>3, <1>7, <2>1, QuietStepKeeps DEF Stat, probe
  <1>8. CASE PruneListed(p)
    <2>1. ToDelete(segs[p]) \in SUBSET {f \in Seen : Spare(f)}
      BY <1>2, OldListIsSafe DEF ToDelete
    <2>2. victims' \in [Caller -> SUBSET {f \in Seen : Spare(f)}]
      BY <1>3, <1>8, <2>1 DEF PruneListed
    <2>3. pc' \in [Caller -> {"idle", "list", "unlink", "recount", "communicate", "wait"}]
      BY <1>1, <1>8 DEF PruneListed
    <2>4. segs' \in [Caller -> SUBSET Seen]
      BY <1>2, <1>8 DEF PruneListed
    <2>5. QED
      BY <1>1, <1>8, <2>2, <2>3, <2>4, QuietStepKeeps DEF PruneListed, probe
  <1>9. ASSUME NEW f \in File, UnlinkFails(p, f)
        PROVE  IInv'
    <2>1. victims' \in [Caller -> SUBSET {g \in Seen : Spare(g)}]
      BY <1>3, <1>9 DEF UnlinkFails, TakesVictim
    <2>2. UNCHANGED ffmpeg
      BY <1>9 DEF UnlinkFails, TakesVictim, ffmpeg
    <2>3. QED
      BY <1>1, <1>2, <1>9, <2>1, <2>2, QuietStepKeeps DEF UnlinkFails, TakesVictim, probe
  <1>10. CASE PruneReturns(p)
    BY <1>1, <1>3, <1>4, <1>5, <1>10, QuietStepKeeps DEF PruneReturns, probe
  <1>11. CASE CountReturns(p)
    BY <1>1, <1>3, <1>5, <1>11, QuietStepKeeps DEF CountReturns, probe
  <1>12. CASE NewestListed(p)
    <2>1. CASE Return(p) /\ UNCHANGED probe
      BY <1>1, <1>3, <1>5, <1>12, <2>1, QuietStepKeeps DEF NewestListed, probe
    <2>2. CASE ~(Return(p) /\ UNCHANGED probe)
      <3>1. PICK f \in segs[p] : path' = [path EXCEPT ![p] = f]
        BY <1>12, <2>2 DEF NewestListed
      <3>2. f \in File
        BY <1>2 DEF Seen
      <3>3. path' \in [Caller -> File \cup {0}]
        BY <1>1, <3>1, <3>2
      <3>4. /\ pc' \in [Caller -> {"idle", "list", "unlink", "recount", "communicate", "wait"}]
            /\ segs' \in [Caller -> SUBSET Seen]
        BY <1>1, <1>2, <1>12, <2>2 DEF NewestListed
      <3>5. /\ ffprobe' \in [Caller -> {"none", "running", "killed", "ok", "failed"}]
            /\ \A q \in Caller : ffprobe'[q] = "ok" => path'[q] \in final
        BY <1>1, <1>12, <2>2, <3>1 DEF NewestListed
      <3>6. QED
        BY <1>1, <1>3, <1>12, <2>2, <3>3, <3>4, <3>5, QuietStepKeeps DEF NewestListed
    <2>3. QED
      BY <2>1, <2>2
  <1>13. CASE FfprobeExits(p)
    <2>1. /\ ffprobe' \in [Caller -> {"none", "running", "killed", "ok", "failed"}]
          /\ \A q \in Caller : ffprobe'[q] = "ok" => path[q] \in final
      BY <1>1, <1>13 DEF FfprobeExits
    <2>2. QED
      BY <1>1, <1>2, <1>3, <1>13, <2>1, QuietStepKeeps DEF FfprobeExits
  <1>14. ASSUME ProbeReturns(p)
         PROVE  IInv'
    <2>1. /\ path' \in [Caller -> File \cup {0}]
          /\ ffprobe' \in [Caller -> {"none", "running", "killed", "ok", "failed"}]
          /\ \A q \in Caller : ffprobe'[q] = "ok" => path'[q] \in final
      BY <1>1, <1>14 DEF ProbeReturns
    <2>2. QED
      BY <1>1, <1>3, <1>5, <1>14, <2>1, QuietStepKeeps DEF ProbeReturns
  <1>15. CASE ProbeTimesOut(p)
    <2>1. pc' \in [Caller -> {"idle", "list", "unlink", "recount", "communicate", "wait"}]
      BY <1>1, <1>15 DEF ProbeTimesOut
    <2>2. /\ ffprobe' \in [Caller -> {"none", "running", "killed", "ok", "failed"}]
          /\ \A q \in Caller : ffprobe'[q] = "ok" => path[q] \in final
      BY <1>1, <1>15 DEF ProbeTimesOut
    <2>3. QED
      BY <1>1, <1>2, <1>3, <1>15, <2>1, <2>2, QuietStepKeeps DEF ProbeTimesOut
  <1>16. QED
    BY <1>6, <1>7, <1>8, <1>9, <1>10, <1>11, <1>12, <1>13, <1>14, <1>15, UnlinkKeeps
    DEF CallerStep, ProbeResumes, CommunicateReturns, WaitReturns

THEOREM Invariance == Spec => []IInv
  <1>1. IInv /\ UNCHANGED vars => IInv'
    BY DEF IInv, TypeOK, RingInv, Seen, Spare, Listed, vars, ffmpeg, probe
  <1>2. IInv /\ [Next]_vars => IInv'
    BY <1>1, FfmpegKeeps, CallerKeeps DEF Next
  <1>3. QED
    BY <1>2, InitIInv, PTL DEF Spec

(* Type correctness, for any number of callers and segments. *)
THEOREM TypeCorrect == Spec => []TypeOK
  BY Invariance, PTL DEF IInv

(* However many prunes overlap, and however old their lists are, a segment  *)
(* is deleted only if max_segments newer ones are there at that moment.    *)
THEOREM NewestAreKept == Spec => KeepsNewest
  <1> DEFINE Keeps ==
        \A f \in Present : disk'[f] = "gone" =>
          Cardinality({g \in Listed : g > f}) >= MaxSegments
  <1>1. IInv /\ [Next]_vars => [Keeps]_vars
    <2>1. SUFFICES ASSUME IInv, [Next]_vars, NEW f \in Present, disk'[f] = "gone"
                   PROVE  Spare(f)
      BY DEF Spare
    <2>2. f \in File /\ disk[f] # "gone"
      BY DEF Present
    <2>3. ~Ffmpeg /\ ~UNCHANGED vars
      BY <2>1, <2>2 DEF IInv, TypeOK, Ffmpeg, OpensSegment, Grows, FinishesSegment, Crashes,
         vars, ffmpeg
    <2>4. PICK p \in Caller : CallerStep(p)
      BY <2>1, <2>3 DEF Next
    <2>5. \E u \in File : Unlink(p, u)
      BY <2>1, <2>2, <2>4 DEF CallerStep, Call, Stat, PruneListed, UnlinkFails, PruneReturns,
         CountReturns, NewestListed, FfprobeExits, ProbeResumes, CommunicateReturns,
         ProbeTimesOut, WaitReturns, ProbeReturns, ffmpeg
    <2>6. Unlink(p, f)
      BY <2>1, <2>2, <2>5 DEF Unlink, IInv, TypeOK
    <2>7. QED
      BY <2>1, <2>6 DEF Unlink, TakesVictim, IInv, RingInv
  <1>2. QED
    BY <1>1, Invariance, PTL DEF Spec, KeepsNewest

(* newest_segment_is_finalized says True only of a finalized segment. *)
THEOREM FinalizedIsTrue == Spec => TrueMeansFinalized
  <1> DEFINE Honest ==
        \A p \in Caller :
          /\ pc[p] \in {"communicate", "wait"} /\ pc'[p] = "idle"
          /\ Finalized(ffprobe[p])
          => path[p] \in final
  <1>1. IInv => [Honest]_vars
    BY DEF IInv, RingInv, Finalized
  <1>2. QED
    BY <1>1, Invariance, PTL DEF TrueMeansFinalized
=============================================================================
