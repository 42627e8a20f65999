-------------------------- MODULE ThreadHeadProofs --------------------------
(***************************************************************************)
(* Proofs about ThreadHead, for any runs, checkpoints and number of        *)
(* segments.                                                               *)
(***************************************************************************)
EXTENDS ThreadHead, Sequences, FiniteSetTheorems, WellFoundedInduction, TLAPS

(* A stored checkpoint of run r. *)
CkptOf(c, r) == c \in Ckpts /\ ckpts[c] # NoCkpt /\ ckpts[c].run = r

(* A checkpoint is the first of its run or follows another one of it. *)
ChainsOK ==
    \A c \in Ckpts : ckpts[c] # NoCkpt =>
       /\ ckpts[c].seq <= begun + 1
       /\ ckpts[c].parent = None => ckpts[c].seq = 1
       /\ ckpts[c].parent # None => /\ CkptOf(ckpts[c].parent, ckpts[c].run)
                                    /\ ckpts[c].seq = ckpts[ckpts[c].parent].seq + 1

(* A run record names a stored checkpoint of its own, or none. *)
RunsOK ==
    \A r \in Runs : runs[r] # NoRun =>
       /\ runs[r].ver <= begun
       /\ runs[r].ckpt # None => CkptOf(runs[r].ckpt, r)

(* The segment that runs: what it was called with, what it has stored so   *)
(* far, and that nothing of it has been published.                         *)
SegmentOK ==
    seg # Idle =>
       /\ begun > 0 /\ head.ver < begun /\ acked < begun
       /\ seg.seq <= begun + 1
       /\ seg.from = None => seg.seq = 1
       /\ seg.from # None => CkptOf(seg.from, seg.run) /\ seg.seq = ckpts[seg.from].seq + 1
       /\ seg.ckpt # None => CkptOf(seg.ckpt, seg.run)
       /\ seg.pc \notin {"thread", "head"} => head # Absent
       /\ seg.pc \in {"ckpt", "run", "summary", "publish"} => seg.status \in Statuses
       /\ seg.pc \in {"summary", "publish"} =>
             runs[seg.run] = [ver |-> begun, status |-> seg.status, ckpt |-> LatestCkpt]

(* A published snapshot is of a run with a record and names a stored       *)
(* checkpoint of it, or none.                                              *)
HeadOK ==
    /\ head.ver <= begun /\ acked <= begun
    /\ head \notin {Absent, Marker} =>
          /\ runs[head.run] # NoRun
          /\ head.ckpt # None => CkptOf(head.ckpt, head.run)

HeadInv ==
    /\ TypeOK /\ ChainsOK /\ RunsOK /\ SegmentOK /\ HeadOK
    /\ UnpublishedNeverSelected /\ AcknowledgedIsPublished
    /\ head = Absent => \A r \in Runs : runs[r] # NoRun => runs[r].ver = 0

USE HeadConstants

(* The initial store, with or without a legacy run, has the invariant. *)
LEMMA InitHeadInv == Init => HeadInv
<1> SUFFICES ASSUME Init PROVE HeadInv
  BY Zenon
<1> USE DEF Init
<1>1. TypeOK
  <2>1. PICK old \in Statuses \union {"none"} :
           /\ thread = (old # "none")
           /\ runs = [r \in Runs |-> IF r = LegacyRun /\ old # "none"
                                     THEN LegacyRecord(old) ELSE NoRun]
           /\ ckpts = [c \in Ckpts |-> IF c = LegacyCkpt /\ old \in Resumable
                                       THEN [run |-> LegacyRun, parent |-> None, seq |-> 1]
                                       ELSE NoCkpt]
    BY Zenon
  <2>2. old # "none" => LegacyRecord(old) \in RunRecords
    BY DEF LegacyRecord, RunRecords, Segments, Statuses, Resumable
  <2>3. runs \in [Runs -> RunRecords \union {NoRun}]
    BY Zenon, <2>1, <2>2
  <2>4. ckpts \in [Ckpts -> CkptRecords \union {NoCkpt}]
    BY <2>1 DEF CkptRecords
  <2>5. thread \in BOOLEAN
    BY Zenon, <2>1
  <2> QED
    <3>1. 0 \in Segments
      BY DEF Segments
    <3> QED
      BY <2>3, <2>4, <2>5, <3>1, Zenon DEF TypeOK
<1>2. ChainsOK
  BY DEF ChainsOK, NoCkpt
<1>3. RunsOK
  BY DEF RunsOK, NoRun, NoCkpt, LegacyRecord, CkptOf, Resumable, Statuses
<1>4. SegmentOK
  BY Zenon DEF SegmentOK
<1>5. HeadOK
  BY DEF HeadOK, Absent
<1>6. UnpublishedNeverSelected /\ AcknowledgedIsPublished
      /\ \A r \in Runs : runs[r] # NoRun => runs[r].ver = 0
  BY DEF UnpublishedNeverSelected, AcknowledgedIsPublished, CurrentRun, LegacySelection,
     LegacyRecord
<1> QED
  BY Zenon, <1>1, <1>2, <1>3, <1>4, <1>5, <1>6 DEF HeadInv

(* A call that begins a segment with a fresh run, or with a stored         *)
(* checkpoint of a run.                                                    *)
LEMMA BeginKeeps ==
    ASSUME HeadInv, NEW r \in Runs, NEW from \in Ckpts \union {None},
           NEW seq \in 1..(begun + 2),
           from = None => seq = 1,
           from # None => CkptOf(from, r) /\ seq = ckpts[from].seq + 1,
           Begin(r, from, seq)
    PROVE  HeadInv'
<1> USE DEF Begin, HeadInv, store
<1>1. TypeOK'
  BY DEF TypeOK, Segments, SegmentRecords, Idle, Statuses, Resumable
<1>2. ChainsOK'
  BY DEF ChainsOK, CkptOf, TypeOK, Segments, CkptRecords, NoCkpt
<1>3. RunsOK'
  BY DEF RunsOK, CkptOf, TypeOK, Segments, RunRecords, NoRun
<1>4. SegmentOK'
  BY DEF SegmentOK, CkptOf, TypeOK, Segments, Idle, HeadOK, Snapshots, Absent, Marker
<1>5. HeadOK'
  BY DEF HeadOK, CkptOf, TypeOK, Segments, Snapshots, Absent, Marker
<1>6. UnpublishedNeverSelected' /\ AcknowledgedIsPublished'
  BY Zenon DEF UnpublishedNeverSelected, AcknowledgedIsPublished, CurrentRun, LegacySelection
<1> QED
  BY Zenon, <1>1, <1>2, <1>3, <1>4, <1>5, <1>6

(* exec_start, exec_resume and exec_fork keep the invariant. *)
LEMMA CallsKeep ==
    ASSUME HeadInv, NEW r \in Runs, NEW c \in Ckpts, Start(r) \/ Fork(c, r) \/ Resume(c)
    PROVE  HeadInv'
<1>1. begun \in Nat
  BY DEF HeadInv, TypeOK, Segments
<1>2. CASE Start(r) \/ Fork(c, r)
  BY <1>1, <1>2, BeginKeeps DEF Start, Fork
<1>3. CASE Resume(c)
  <2>1. /\ ckpts[c].run \in Runs /\ ckpts[c] # NoCkpt
        /\ ckpts[c].seq \in 1..(begun + 1)
    BY <1>1, <1>3 DEF Resume, HeadInv, TypeOK, CkptRecords, NoCkpt, ChainsOK
  <2>2. ckpts[c].seq + 1 \in 1..(begun + 2) /\ CkptOf(c, ckpts[c].run)
    BY <1>1, <2>1 DEF CkptOf
  <2> QED
    BY Zenon, <1>3, <2>1, <2>2, BeginKeeps DEF Resume
<1> QED
  BY Zenon, <1>2, <1>3

(* A segment that fails, or a process that ends, leaves the store as it is. *)
LEMMA FailKeeps ==
    ASSUME HeadInv, seg' = Idle, inside' = FALSE, UNCHANGED <<store, begun, acked>>
    PROVE  HeadInv'
<1> USE DEF HeadInv, store
<1>1. TypeOK'
  BY ZenonT(30) DEF TypeOK, Idle
<1>2. ChainsOK' /\ RunsOK' /\ HeadOK'
  BY Zenon DEF ChainsOK, RunsOK, HeadOK, CkptOf
<1>3. SegmentOK'
  BY Zenon DEF SegmentOK
<1>4. UnpublishedNeverSelected' /\ AcknowledgedIsPublished'
  BY Zenon DEF UnpublishedNeverSelected, AcknowledgedIsPublished, CurrentRun, LegacySelection
<1> QED
  BY Zenon, <1>1, <1>2, <1>3, <1>4

(* upsert_thread *)
LEMMA UpsertThreadKeeps == HeadInv /\ UpsertThread => HeadInv'
<1> SUFFICES ASSUME HeadInv, UpsertThread PROVE HeadInv'
  BY Zenon
<1>1. /\ seg.pc = "thread" /\ seg \in SegmentRecords /\ ~inside
      /\ UNCHANGED <<runs, ckpts, head, begun, acked>>
  BY DEF UpsertThread, HeadInv, TypeOK, Idle
<1>2. /\ thread' \in BOOLEAN
      /\ (Goto("head") /\ UNCHANGED inside) \/ Fail
  BY Zenon DEF UpsertThread, HeadInv, TypeOK
<1>3. seg' \in SegmentRecords \union {Idle}
  BY <1>1, <1>2 DEF Goto, At, Fail, SegmentRecords
<1>4. inside' = FALSE
  BY <1>1, <1>2, Zenon DEF Fail, HeadInv, TypeOK
<1>5. TypeOK'
  BY <1>1, <1>2, <1>3, <1>4, Zenon DEF HeadInv, TypeOK
<1>6. ChainsOK' /\ RunsOK' /\ HeadOK'
  BY Zenon, <1>1 DEF HeadInv, ChainsOK, RunsOK, HeadOK, CkptOf
<1>7. SegmentOK'
  BY <1>1, <1>2 DEF HeadInv, SegmentOK, CkptOf, Goto, At, Fail, Idle
<1>8. UnpublishedNeverSelected' /\ AcknowledgedIsPublished'
  BY Zenon, <1>1 DEF HeadInv, UnpublishedNeverSelected, AcknowledgedIsPublished, CurrentRun,
     LegacySelection
<1> QED
  BY Zenon, <1>1, <1>5, <1>6, <1>7, <1>8 DEF HeadInv

(* turbo_runtime_head_initialize *)
LEMMA HeadInitializeKeeps == HeadInv /\ HeadInitialize => HeadInv'
<1> SUFFICES ASSUME HeadInv, HeadInitialize PROVE HeadInv'
  BY Zenon
<1> USE DEF HeadInitialize, HeadInv, Fail, Goto, At
<1>1. TypeOK'
  <2>1. seg \in SegmentRecords
    BY DEF TypeOK, Idle
  <2>2. seg' \in SegmentRecords \union {Idle}
    BY <2>1 DEF SegmentRecords
  <2>3. head' \in Snapshots \union {Absent, Marker}
    BY Zenon DEF TypeOK
  <2>4. inside' \in BOOLEAN /\ (seg'.pc = "graph" \/ inside' = FALSE)
    <3>1. At("graph", seg.status, seg.ckpt) => seg'.pc = "graph"
      BY DEF At
    <3> HIDE DEF At
    <3> QED
      BY <3>1, Zenon
  <2> QED
    BY Zenon, <2>2, <2>3, <2>4 DEF TypeOK
<1>2. ChainsOK' /\ RunsOK'
  BY Zenon DEF ChainsOK, RunsOK, CkptOf
<1>3. HeadOK'
  BY DEF HeadOK, CkptOf, Absent, Marker, TypeOK, Segments
<1>4. SegmentOK'
  BY DEF SegmentOK, CkptOf, Idle, Absent, Marker, TypeOK, Segments
<1>5. UnpublishedNeverSelected'
  BY Zenon DEF UnpublishedNeverSelected, CurrentRun, LegacySelection, Marker, Absent
<1>6. AcknowledgedIsPublished' /\ (head' = Absent => head = Absent /\ UNCHANGED runs)
  BY DEF AcknowledgedIsPublished, Marker, Absent, TypeOK, Segments
<1> QED
  BY Zenon, <1>1, <1>2, <1>3, <1>4, <1>5, <1>6

(* run_graph_stream *)
LEMMA RunGraphKeeps == HeadInv /\ RunGraph => HeadInv'
<1> SUFFICES ASSUME HeadInv, RunGraph PROVE HeadInv'
  BY Zenon
<1>1. CASE Fail
  BY ZenonT(30), <1>1, FailKeeps DEF RunGraph, Fail
<1>2. ASSUME NEW s \in Statuses,
             At(IF s \in Resumable THEN "ckpt" ELSE "run", s, seg.ckpt), UNCHANGED inside
      PROVE  HeadInv'
  <2> USE <1>2 DEF RunGraph, HeadInv, At, store
  <2>1. TypeOK'
    <3>1. seg \in SegmentRecords
      BY DEF TypeOK, Idle
    <3>2. seg' \in SegmentRecords /\ seg'.pc \in {"ckpt", "run"}
      BY Zenon, <3>1 DEF SegmentRecords, Resumable
    <3> QED
      BY Zenon, <3>2 DEF TypeOK
  <2>2. ChainsOK' /\ RunsOK' /\ HeadOK'
    BY Zenon DEF ChainsOK, RunsOK, HeadOK, CkptOf
  <2>3. SegmentOK'
    BY DEF SegmentOK, CkptOf, Idle
  <2>4. UnpublishedNeverSelected' /\ AcknowledgedIsPublished'
    BY Zenon DEF UnpublishedNeverSelected, AcknowledgedIsPublished, CurrentRun, LegacySelection
  <2> QED
    BY Zenon, <2>1, <2>2, <2>3, <2>4
<1> QED
  BY Zenon, <1>1, <1>2 DEF RunGraph

(* record_checkpoint_from_parts: a new checkpoint follows the one the      *)
(* segment was resumed from, and changes no other.                         *)
LEMMA PutCheckpointKeeps ==
    ASSUME HeadInv, NEW c \in Ckpts, PutCheckpoint(c)
    PROVE  HeadInv'
<1> DEFINE record == [run |-> seg.run, parent |-> seg.from, seq |-> seg.seq]
           put == [ckpts EXCEPT ![c] = record]
<1>1. /\ seg.pc = "ckpt" /\ seg \in SegmentRecords /\ seg # Idle /\ ckpts[c] = NoCkpt
      /\ UNCHANGED <<thread, runs, head, begun, acked>>
      /\ begun \in Nat
  BY DEF PutCheckpoint, FreshCkpt, HeadInv, TypeOK, Idle, Segments
<1>2. record \in CkptRecords /\ record # NoCkpt
  BY Zenon, <1>1 DEF CkptRecords, SegmentRecords, NoCkpt
<1>3. \/ ckpts' = put /\ At("run", seg.status, c) /\ UNCHANGED inside
      \/ ckpts' = put /\ Fail
      \/ ckpts' = ckpts /\ Fail
  BY Zenon DEF PutCheckpoint
<1>4. CASE ckpts' = ckpts /\ Fail
  BY ZenonT(30), <1>1, <1>4, FailKeeps DEF Fail, store
<1>5. CASE ckpts' = put /\ ((At("run", seg.status, c) /\ UNCHANGED inside) \/ Fail)
  <2>1. ckpts' \in [Ckpts -> CkptRecords \union {NoCkpt}]
    BY Zenon, <1>2, <1>5 DEF HeadInv, TypeOK
  <2>2. ckpts'[c] = record /\ \A k \in Ckpts : k # c => ckpts'[k] = ckpts[k]
    BY Zenon, <1>5 DEF HeadInv, TypeOK
  <2>3. \A k \in Ckpts, r \in Runs : CkptOf(k, r) => CkptOf(k, r)' /\ ckpts'[k] = ckpts[k]
    BY Zenon, <1>1, <2>2 DEF CkptOf
  <2>4. ckpts'[c] # NoCkpt /\ ckpts'[c].run = seg.run
    BY <1>2, <2>2
  <2> HIDE DEF record, put
  <2>5. seg' \in SegmentRecords \union {Idle} /\ seg'.pc \in {"run", "idle"}
    <3>1. CASE At("run", seg.status, c)
      BY Zenon, <1>1, <3>1 DEF At, SegmentRecords
    <3>2. CASE Fail
      BY Zenon, <3>2 DEF Fail, Idle
    <3> QED
      BY Zenon, <1>5, <3>1, <3>2
  <2>6. inside' \in BOOLEAN /\ (seg'.pc = "idle" => inside' = FALSE)
    <3>1. At("run", seg.status, c) => seg'.pc = "run"
      BY DEF At
    <3> QED
      BY <1>5, <3>1, Zenon DEF Fail, HeadInv, TypeOK
  <2>7. TypeOK'
    BY Zenon, <1>1, <2>1, <2>5, <2>6 DEF HeadInv, TypeOK
  <2>8. ChainsOK'
    <3> SUFFICES ASSUME NEW k \in Ckpts, ckpts'[k] # NoCkpt
                 PROVE  /\ ckpts'[k].seq <= begun + 1
                        /\ ckpts'[k].parent = None => ckpts'[k].seq = 1
                        /\ ckpts'[k].parent # None =>
                              /\ CkptOf(ckpts[k].parent, ckpts[k].run)'
                              /\ ckpts'[k].seq = ckpts'[ckpts'[k].parent].seq + 1
      BY Zenon, <1>1 DEF ChainsOK
    <3>1. CASE k = c
      <4>1. /\ seg.seq <= begun + 1 /\ (seg.from = None => seg.seq = 1)
            /\ seg.from # None => CkptOf(seg.from, seg.run) /\ seg.seq = ckpts[seg.from].seq + 1
        BY Zenon, <1>1 DEF HeadInv, SegmentOK
      <4>2. seg.from # None => seg.from \in Ckpts /\ seg.run \in Runs
        BY Zenon, <1>1 DEF SegmentRecords
      <4> QED
        BY <2>2, <2>3, <3>1, <4>1, <4>2 DEF record
    <3>2. CASE k # c
      <4>1. ckpts'[k] = ckpts[k]
        BY Zenon, <2>2, <3>2
      <4>2. ckpts[k] \in CkptRecords
        BY Zenon, <4>1 DEF HeadInv, TypeOK
      <4>3. ckpts[k].run \in Runs /\ ckpts[k].parent \in Ckpts \union {None}
        BY Zenon, <4>2 DEF CkptRecords
      <4> QED
        BY ZenonT(60), <4>1, <4>3, <2>3 DEF HeadInv, ChainsOK
    <3> QED
      BY Zenon, <3>1, <3>2
  <2>9. RunsOK'
    <3>1. \A r \in Runs : runs[r] # NoRun => runs[r].ckpt \in Ckpts \union {None}
      BY Zenon DEF HeadInv, TypeOK, RunRecords
    <3> QED
      BY Zenon, <1>1, <2>3, <3>1 DEF HeadInv, RunsOK
  <2>10. HeadOK'
    <3>1. head \notin {Absent, Marker} => head.run \in Runs /\ head.ckpt \in Ckpts \union {None}
      BY Zenon DEF HeadInv, TypeOK, Snapshots
    <3> QED
      BY Zenon, <1>1, <2>3, <3>1 DEF HeadInv, HeadOK
  <2>11. SegmentOK'
    <3>1. seg.from \in Ckpts \union {None} /\ seg.run \in Runs
      BY Zenon, <1>1 DEF SegmentRecords
    <3> QED
      BY <1>1, <1>5, <2>3, <2>4, <3>1 DEF HeadInv, SegmentOK, At, Fail, Idle, CkptOf
  <2>12. UnpublishedNeverSelected' /\ AcknowledgedIsPublished' /\ head' # Absent
    BY Zenon, <1>1 DEF HeadInv, SegmentOK, UnpublishedNeverSelected, AcknowledgedIsPublished
  <2> QED
    BY Zenon, <2>7, <2>8, <2>9, <2>10, <2>11, <2>12 DEF HeadInv
<1> QED
  BY Zenon, <1>3, <1>4, <1>5

(* finalize_run: the record names the newest checkpoint of its own run. *)
LEMMA PutRunKeeps == HeadInv /\ PutRun => HeadInv'
<1> SUFFICES ASSUME HeadInv, PutRun PROVE HeadInv'
  BY Zenon
<1> DEFINE record == [ver |-> begun, status |-> seg.status, ckpt |-> LatestCkpt]
           put == [runs EXCEPT ![seg.run] = record]
<1>1. /\ seg.pc = "run" /\ seg \in SegmentRecords /\ seg # Idle /\ seg.run \in Runs
      /\ UNCHANGED <<thread, ckpts, head, begun, acked>>
      /\ begun \in Nat /\ begun \in Segments /\ begun > 0
  BY DEF PutRun, HeadInv, TypeOK, Idle, Segments, SegmentOK, SegmentRecords
<1>2. /\ record \in RunRecords /\ record # NoRun
      /\ LatestCkpt # None => CkptOf(LatestCkpt, seg.run)
  BY <1>1 DEF RunRecords, SegmentRecords, NoRun, LatestCkpt, HeadInv, SegmentOK
<1>3. \/ runs' = put /\ Goto("summary") /\ UNCHANGED inside
      \/ runs' = put /\ Fail
      \/ runs' = runs /\ Fail
  BY Zenon DEF PutRun
<1>4. CASE runs' = runs /\ Fail
  BY ZenonT(30), <1>1, <1>4, FailKeeps DEF Fail, store
<1>5. CASE runs' = put /\ ((Goto("summary") /\ UNCHANGED inside) \/ Fail)
  <2>1. runs' \in [Runs -> RunRecords \union {NoRun}]
    BY ZenonT(30), <1>2, <1>5 DEF HeadInv, TypeOK
  <2>2. runs'[seg.run] = record /\ \A r \in Runs : r # seg.run => runs'[r] = runs[r]
    BY Zenon, <1>1, <1>5 DEF HeadInv, TypeOK
  <2> HIDE DEF put
  <2>3. seg' \in SegmentRecords \union {Idle} /\ seg'.pc \in {"summary", "idle"}
    <3>1. CASE Goto("summary")
      BY Zenon, <1>1, <3>1 DEF Goto, At, SegmentRecords
    <3>2. CASE Fail
      BY Zenon, <3>2 DEF Fail, Idle
    <3> QED
      BY Zenon, <1>5, <3>1, <3>2
  <2>4. inside' \in BOOLEAN /\ (seg'.pc = "idle" => inside' = FALSE)
    <3>1. Goto("summary") => seg'.pc = "summary"
      BY DEF Goto, At
    <3> QED
      BY <1>5, <3>1, Zenon DEF Fail, HeadInv, TypeOK
  <2>5. TypeOK'
    BY Zenon, <1>1, <2>1, <2>3, <2>4 DEF HeadInv, TypeOK
  <2>6. ChainsOK'
    BY Zenon, <1>1 DEF HeadInv, ChainsOK, CkptOf
  <2>7. RunsOK'
    BY <1>1, <1>2, <2>2 DEF HeadInv, RunsOK, CkptOf
  <2>8. HeadOK'
    BY Zenon, <1>1, <1>2, <2>2 DEF HeadInv, HeadOK, CkptOf, TypeOK, Snapshots
  <2>9. SegmentOK'
    <3>1. CASE Goto("summary")
      <4>1. LatestCkpt' = LatestCkpt
        BY Zenon, <3>1 DEF Goto, At, LatestCkpt
      <4>2. /\ seg'.run = seg.run /\ seg'.from = seg.from /\ seg'.ckpt = seg.ckpt
            /\ seg'.seq = seg.seq /\ seg'.status = seg.status /\ seg'.pc = "summary"
        BY Zenon, <3>1 DEF Goto, At
      <4>3. runs'[seg'.run] = [ver |-> begun', status |-> seg'.status, ckpt |-> LatestCkpt']
        BY Zenon, <1>1, <2>2, <4>1, <4>2
      <4> QED
        BY Zenon, <1>1, <4>2, <4>3 DEF HeadInv, SegmentOK, CkptOf
    <3>2. CASE Fail
      BY Zenon, <3>2 DEF Fail, SegmentOK
    <3> QED
      BY Zenon, <1>5, <3>1, <3>2
  <2>10. UnpublishedNeverSelected' /\ AcknowledgedIsPublished' /\ head' # Absent
    BY Zenon, <1>1 DEF HeadInv, SegmentOK, UnpublishedNeverSelected, AcknowledgedIsPublished
  <2> QED
    BY Zenon, <2>5, <2>6, <2>7, <2>8, <2>9, <2>10 DEF HeadInv
<1> QED
  BY Zenon, <1>3, <1>4, <1>5

(* make_summary *)
LEMMA SummaryKeeps == HeadInv /\ Summary => HeadInv'
<1> SUFFICES ASSUME HeadInv, Summary PROVE HeadInv'
  BY Zenon
<1>1. CASE Fail
  BY ZenonT(30), <1>1, FailKeeps DEF Summary, Fail
<1>2. CASE Goto("publish") /\ UNCHANGED inside
  <2>1. /\ seg.pc = "summary" /\ seg \in SegmentRecords /\ seg # Idle
        /\ UNCHANGED <<thread, runs, ckpts, head, begun, acked, inside>>
    BY <1>2 DEF Summary, HeadInv, TypeOK, Idle, store
  <2>2. /\ seg' \in SegmentRecords /\ seg' # Idle /\ seg'.pc = "publish"
        /\ seg'.run = seg.run /\ seg'.from = seg.from /\ seg'.ckpt = seg.ckpt
        /\ seg'.seq = seg.seq /\ seg'.status = seg.status
    BY Zenon, <1>2, <2>1 DEF Goto, At, SegmentRecords, Idle
  <2>3. TypeOK'
    BY Zenon, <2>1, <2>2 DEF HeadInv, TypeOK
  <2>4. ChainsOK' /\ RunsOK' /\ HeadOK'
    BY Zenon, <2>1 DEF HeadInv, ChainsOK, RunsOK, HeadOK, CkptOf
  <2>5. SegmentOK'
    BY ZenonT(30), <2>1, <2>2 DEF HeadInv, SegmentOK, CkptOf, LatestCkpt
  <2>6. UnpublishedNeverSelected' /\ AcknowledgedIsPublished'
    BY Zenon, <2>1 DEF HeadInv, UnpublishedNeverSelected, AcknowledgedIsPublished, CurrentRun,
       LegacySelection
  <2> QED
    BY Zenon, <2>1, <2>3, <2>4, <2>5, <2>6 DEF HeadInv
<1> QED
  BY Zenon, <1>1, <1>2 DEF Summary

(* turbo_runtime_head_publish: what it publishes is durable and newer than *)
(* the head.                                                               *)
LEMMA SnapshotNewer ==
    ASSUME HeadInv, seg.pc = "publish"
    PROVE  /\ Snapshot \in Snapshots /\ Snapshot.ver > head.ver /\ Snapshot.ver = begun
           /\ runs[Snapshot.run] = [ver |-> Snapshot.ver, status |-> Snapshot.status,
                                    ckpt |-> Snapshot.ckpt]
           /\ Snapshot.ckpt # None => CkptOf(Snapshot.ckpt, Snapshot.run)
<1>1. seg \in SegmentRecords /\ seg # Idle
  BY DEF HeadInv, TypeOK, Idle
<1>2. /\ begun \in Segments /\ head.ver < begun /\ seg.status \in Statuses
      /\ runs[seg.run] = [ver |-> begun, status |-> seg.status, ckpt |-> LatestCkpt]
      /\ LatestCkpt \in Ckpts \union {None}
      /\ LatestCkpt # None => CkptOf(LatestCkpt, seg.run)
  BY Zenon, <1>1 DEF HeadInv, TypeOK, SegmentOK, LatestCkpt, SegmentRecords
<1>3. head.ver \in Int /\ begun \in Nat
  BY DEF HeadInv, TypeOK, Snapshots, Absent, Marker, Segments
<1> QED
  BY ZenonT(30), <1>1, <1>2, <1>3 DEF Snapshot, Snapshots, SegmentRecords

LEMMA PublishKeeps == HeadInv /\ Publish => HeadInv'
<1> SUFFICES ASSUME HeadInv, Publish PROVE HeadInv'
  BY Zenon
<1>1. /\ seg.pc = "publish" /\ seg' = Idle /\ inside' = FALSE
      /\ UNCHANGED <<thread, runs, ckpts, begun>>
  BY Zenon DEF Publish
<1>2. \/ head' = Snapshot /\ acked' \in {acked, begun}
      \/ head' = head /\ acked' = acked
  BY Zenon DEF Publish
<1>4. CASE head' = head /\ acked' = acked
  BY ZenonT(30), <1>1, <1>4, FailKeeps DEF store
<1>3. CASE head' = Snapshot /\ acked' \in {acked, begun}
  <2>1. begun \in Segments /\ acked \in Segments /\ acked <= begun
    BY Zenon DEF HeadInv, TypeOK, HeadOK
  <2>2. TypeOK'
    BY <1>1, <1>3, <2>1, SnapshotNewer, Zenon DEF HeadInv, TypeOK
  <2>3. ChainsOK' /\ RunsOK'
    BY Zenon, <1>1 DEF HeadInv, ChainsOK, RunsOK, CkptOf
  <2>4. SegmentOK'
    BY Zenon, <1>1 DEF SegmentOK
  <2>5. HeadOK'
    BY <1>1, <1>3, <2>1, SnapshotNewer DEF HeadOK, CkptOf, NoRun, Snapshots, Segments
  <2>6. head' # Absent /\ AcknowledgedIsPublished'
    <3>1. head'.ver = begun /\ begun \in Nat /\ acked \in Nat
      BY <1>1, <1>3, <2>1, SnapshotNewer DEF Segments
    <3>2. acked' <= head'.ver
      BY <1>3, <2>1, <3>1
    <3> QED
      BY <3>1, <3>2 DEF AcknowledgedIsPublished, Absent
  <2>7. UnpublishedNeverSelected'
    BY Zenon, <2>6 DEF UnpublishedNeverSelected
  <2> QED
    BY Zenon, <2>2, <2>3, <2>4, <2>5, <2>6, <2>7 DEF HeadInv
<1> QED
  BY Zenon, <1>2, <1>3, <1>4

LEMMA NextHeadInv == HeadInv /\ [Next]_vars => HeadInv'
<1> SUFFICES ASSUME HeadInv, [Next]_vars PROVE HeadInv'
  BY Zenon
<1>1. CASE UNCHANGED vars
  <2>1. UNCHANGED <<thread, runs, ckpts, head, seg, inside, begun, acked>>
    BY Zenon, <1>1 DEF vars, store
  <2>2. TypeOK'
    BY Zenon, <2>1 DEF HeadInv, TypeOK
  <2>3. ChainsOK' /\ RunsOK' /\ HeadOK'
    BY Zenon, <2>1 DEF HeadInv, ChainsOK, RunsOK, HeadOK, CkptOf
  <2>4. SegmentOK'
    BY Zenon, <2>1 DEF HeadInv, SegmentOK, CkptOf, LatestCkpt
  <2>5. UnpublishedNeverSelected' /\ AcknowledgedIsPublished'
    BY Zenon, <2>1 DEF HeadInv, UnpublishedNeverSelected, AcknowledgedIsPublished, CurrentRun,
       LegacySelection
  <2>6. inside' = inside /\ head' = head /\ seg' = seg
    BY Zenon, <2>1
  <2> QED
    BY Zenon, <2>1, <2>2, <2>3, <2>4, <2>5, <2>6 DEF HeadInv
<1>2. CASE Crash
  BY ZenonT(30), <1>2, FailKeeps DEF Crash
<1>3. CASE \E r \in Runs : Start(r) \/ (\E c \in Ckpts : Fork(c, r))
  BY Zenon, <1>3, CallsKeep
<1>4. CASE \E c \in Ckpts : Resume(c) \/ PutCheckpoint(c)
  BY Zenon, <1>4, CallsKeep, PutCheckpointKeeps
<1> QED
  BY Zenon, <1>1, <1>2, <1>3, <1>4, UpsertThreadKeeps, HeadInitializeKeeps, RunGraphKeeps, PutRunKeeps,
     SummaryKeeps, PublishKeeps DEF Next

LEMMA HeadInvHolds == Spec => []HeadInv
BY InitHeadInv, NextHeadInv, PTL DEF Spec

(* Only adoption and publication write the head, and both move it on. *)
LEMMA HeadStepAdvances == HeadInv /\ Next => HeadOnlyAdvancesStep
<1> SUFFICES ASSUME HeadInv, Next, head' # head PROVE HeadOnlyAdvancesStep
  BY Zenon DEF HeadOnlyAdvancesStep
<1>1. CASE HeadInitialize
  <2>1. head = Absent /\ head' = Marker
    BY Zenon, <1>1 DEF HeadInitialize
  <2>2. Absent.ver = -2 /\ Marker.ver = -1
    BY Zenon DEF Absent, Marker
  <2>3. head'.ver > head.ver
    <3> HIDE DEF HeadInv, Next
    <3> QED
      BY <2>1, <2>2
  <2> QED
    BY Zenon, <2>1, <2>3 DEF HeadOnlyAdvancesStep
<1>2. CASE Publish
  BY Zenon, <1>2, SnapshotNewer DEF Publish, HeadOnlyAdvancesStep
<1>3. Next => HeadInitialize \/ Publish \/ head' = head
  BY ZenonT(30) DEF Next, Start, Fork, Resume, Begin, PutCheckpoint, UpsertThread, RunGraph, PutRun,
     Summary, Crash, store
<1> QED
  BY Zenon, <1>1, <1>2, <1>3

(* Publication order defines the head: it only moves on, to snapshots of   *)
(* later segments that are durable (turbo_runtime_head_initialize,         *)
(* turbo_runtime_head_publish), whatever fails between the puts.           *)
THEOREM HeadAdvances == Spec => HeadOnlyAdvances
<1>1. HeadInv /\ [Next]_vars => [HeadOnlyAdvancesStep]_vars
  BY ZenonT(30), HeadStepAdvances DEF HeadOnlyAdvancesStep, vars, store
<1> QED
  BY <1>1, HeadInvHolds, PTL DEF Spec, HeadOnlyAdvances

-----------------------------------------------------------------------------
(* A set of natural numbers that is not empty has a least element.  The    *)
(* inductions below take a least counterexample.                           *)
LEMMA LeastNumber ==
    ASSUME NEW T, T \subseteq Nat, T # {}
    PROVE  \E n \in T : \A m \in T : n <= m
<1> DEFINE Up == {0..n : n \in T}
<1>1. Up # {} /\ Up \subseteq FiniteSubsetsOf(Nat)
  <2>1. \A n \in Nat : IsFiniteSet(0..n) /\ 0..n \subseteq Nat
    BY FS_Interval
  <2> QED BY ZenonT(30), <2>1 DEF FiniteSubsetsOf
<1>2. IsWellFoundedOn(StrictSubsetOrdering(Nat), FiniteSubsetsOf(Nat))
  BY Zenon, FS_StrictSubsetOrderingWellFounded
<1> HIDE DEF Up
<1>3. PICK A \in Up : \A B \in Up : ~ (<<B, A>> \in StrictSubsetOrdering(Nat))
  BY Zenon, <1>1, <1>2, WFMin
<1> USE DEF Up
<1>4. PICK n \in T : A = 0..n
  BY Zenon
<1>5. ASSUME NEW m \in T PROVE n <= m
  <2> SUFFICES ASSUME m < n PROVE FALSE
    BY SMT
  <2>1. 0..m \in Up
    BY Zenon
  <2>2. 0..m \subseteq 0..n /\ 0..m # 0..n
    OBVIOUS
  <2>3. 0..m \in SUBSET Nat /\ 0..n \in SUBSET Nat
    OBVIOUS
  <2>4. <<0..m, A>> \in StrictSubsetOrdering(Nat)
    BY Zenon, <2>2, <2>3, <1>4 DEF StrictSubsetOrdering
  <2> QED BY ZenonT(30), <2>1, <2>4, <1>3
<1> QED BY Zenon, <1>5

(* The next checkpoint on the way to the root. *)
Up(a) == IF a = None THEN None ELSE ckpts[a].parent

(* u goes up from c step by step, k times. *)
IsWalk(u, c, k) == u = [i \in 0..k |-> IF i = 0 THEN c ELSE Up(u[i - 1])]

(* There is such a walk, of any length. *)
LEMMA WalkExists ==
    ASSUME TypeOK, NEW c \in Ckpts, NEW k \in Nat
    PROVE  \E u \in [0..k -> Ckpts \union {None}] : IsWalk(u, c, k)
<1> DEFINE Walkable(n) == \E u \in [0..n -> Ckpts \union {None}] : IsWalk(u, c, n)
           Missing == {n \in Nat : ~Walkable(n)}
<1>0. \A a \in Ckpts \union {None} : Up(a) \in Ckpts \union {None}
  BY DEF Up, TypeOK, CkptRecords, NoCkpt
<1>1. SUFFICES ASSUME Missing # {} PROVE FALSE
  BY ZenonT(30), <1>1
<1>2. PICK n \in Missing : \A m \in Missing : n <= m
  BY ZenonT(30), <1>1, LeastNumber
<1>3. n \in Nat /\ ~Walkable(n)
  BY Zenon
<1>4. n # 0
  <2> SUFFICES ASSUME n = 0 PROVE FALSE
    BY Zenon
  <2> DEFINE u == [i \in 0..0 |-> c]
  <2>1. u \in [0..0 -> Ckpts \union {None}] /\ IsWalk(u, c, 0)
    BY DEF IsWalk
  <2> QED
    BY Zenon, <2>1, <1>3
<1>5. n - 1 \in Nat /\ n - 1 \notin Missing
  <2> HIDE DEF Missing
  <2> QED
    BY <1>2, <1>3, <1>4
<1>6. PICK u \in [0..(n - 1) -> Ckpts \union {None}] : IsWalk(u, c, n - 1)
  BY Zenon, <1>5
<1> DEFINE v == [i \in 0..n |-> IF i = n THEN Up(u[n - 1]) ELSE u[i]]
<1>7. v \in [0..n -> Ckpts \union {None}]
  BY <1>0, <1>3, <1>4
<1>8. ASSUME NEW i \in 0..n PROVE v[i] = IF i = 0 THEN c ELSE Up(v[i - 1])
  <2>1. CASE i = n
    BY <2>1, <1>3, <1>4
  <2>2. CASE i # n
    <3>1. i \in 0..(n - 1) /\ v[i] = u[i] /\ (i # 0 => i - 1 \in 0..n /\ i - 1 # n)
      BY <2>2, <1>3
    <3>2. u[i] = IF i = 0 THEN c ELSE Up(u[i - 1])
      BY Zenon, <1>6, <3>1 DEF IsWalk
    <3>3. i # 0 => v[i - 1] = u[i - 1]
      BY Zenon, <3>1
    <3> QED
      BY Zenon, <3>1, <3>2, <3>3
  <2> QED
    BY Zenon, <2>1, <2>2
<1>9. IsWalk(v, c, n)
  BY Zenon, <1>8 DEF IsWalk
<1> QED
  BY Zenon, <1>3, <1>7, <1>9

(* Ancestor(c, k) is where a walk of k steps ends. *)
LEMMA AncestorWalks ==
    ASSUME TypeOK, NEW c \in Ckpts, NEW k \in Nat
    PROVE  \E u : IsWalk(u, c, k) /\ Ancestor(c, k) = u[k]
<1> DEFINE f == CHOOSE u : IsWalk(u, c, k)
<1>1. \E u : IsWalk(u, c, k)
  BY Zenon, WalkExists
<1>2. IsWalk(f, c, k)
  BY <1>1, Zenon
<1>3. Ancestor(c, k) = f[k]
  BY Zenon DEF Ancestor, Up, IsWalk
<1> QED
  BY <1>2, <1>3, Zenon

(* A walk from a stored checkpoint visits stored checkpoints of the same   *)
(* run, with numbers that go down by one, until it is past the root.       *)
LEMMA WalkIsStored ==
    ASSUME TypeOK, ChainsOK, NEW c \in Ckpts, ckpts[c] # NoCkpt, NEW k \in Nat,
           NEW u, IsWalk(u, c, k)
    PROVE  \A i \in 0..k :
              \/ u[i] = None /\ ckpts[c].seq <= i
              \/ CkptOf(u[i], ckpts[c].run) /\ ckpts[u[i]].seq = ckpts[c].seq - i
<1> DEFINE Good(i) == \/ u[i] = None /\ ckpts[c].seq <= i
                      \/ CkptOf(u[i], ckpts[c].run) /\ ckpts[u[i]].seq = ckpts[c].seq - i
           Bad == {i \in 0..k : ~Good(i)}
<1>1. SUFFICES ASSUME Bad # {} PROVE FALSE
  BY Zenon, <1>1
<1>2. Bad \subseteq Nat
  OBVIOUS
<1>3. PICK n \in Bad : \A m \in Bad : n <= m
  BY ZenonT(30), <1>1, <1>2, LeastNumber
<1>4. n \in 0..k /\ ~Good(n)
  BY Zenon
<1>5. \A a \in Ckpts : ckpts[a] # NoCkpt => ckpts[a].seq \in Nat /\ ckpts[a].seq >= 1
  BY DEF TypeOK, CkptRecords
<1>6. u[0] = c
  BY DEF IsWalk
<1>7. n # 0
  BY <1>4, <1>5, <1>6 DEF CkptOf
<1>8. n - 1 \in 0..k /\ n - 1 \notin Bad
  <2> HIDE DEF Bad, Good
  <2> QED
    BY <1>3, <1>4, <1>7
<1>9. Good(n - 1)
  <2> HIDE DEF Good
  <2> QED
    BY Zenon, <1>8
<1>10. u[n] = Up(u[n - 1])
  BY Zenon, <1>4, <1>7 DEF IsWalk
<1>11. CASE u[n - 1] = None
  BY <1>4, <1>5, <1>9, <1>10, <1>11 DEF Up, CkptOf
<1>12. CASE u[n - 1] # None
  <2> DEFINE a == u[n - 1]
  <2>1. a \in Ckpts /\ ckpts[a] # NoCkpt /\ ckpts[a].run = ckpts[c].run
        /\ ckpts[a].seq = ckpts[c].seq - (n - 1)
    BY Zenon, <1>9, <1>12 DEF CkptOf
  <2>2. u[n] = ckpts[a].parent
    BY Zenon, <1>10, <1>12 DEF Up
  <2> HIDE DEF a
  <2>3. /\ ckpts[a].parent = None => ckpts[a].seq = 1
        /\ ckpts[a].parent # None => /\ CkptOf(ckpts[a].parent, ckpts[a].run)
                                     /\ ckpts[a].seq = ckpts[ckpts[a].parent].seq + 1
    BY Zenon, <2>1 DEF ChainsOK
  <2>4. ckpts[c].seq \in Nat /\ n \in Nat
    BY <1>4, <1>5
  <2>5. CASE u[n] = None
    <3>1. ckpts[c].seq <= n
      BY <2>1, <2>2, <2>3, <2>4, <2>5
    <3> QED
      BY Zenon, <3>1, <2>5, <1>4
  <2>6. CASE u[n] # None
    <3>1. CkptOf(u[n], ckpts[c].run)
      BY Zenon, <2>1, <2>2, <2>3, <2>6
    <3>2. ckpts[u[n]].seq \in Nat
      BY Zenon, <3>1, <1>5 DEF CkptOf
    <3>3. ckpts[u[n]].seq = ckpts[c].seq - n
      BY <2>1, <2>2, <2>3, <2>4, <2>6, <3>2
    <3> QED
      BY Zenon, <3>1, <3>3, <1>4
  <2> QED
    BY Zenon, <2>5, <2>6
<1> QED
  BY Zenon, <1>11, <1>12

(* The parent chain of a stored checkpoint can be loaded.  *)
LEMMA ChainLoads ==
    ASSUME TypeOK, ChainsOK, NEW c \in Ckpts, ckpts[c] # NoCkpt
    PROVE  /\ \A k \in Nat :
                 Ancestor(c, k) # None => /\ ckpts[Ancestor(c, k)] # NoCkpt
                                          /\ ckpts[Ancestor(c, k)].seq = ckpts[c].seq - k
                                          /\ ckpts[Ancestor(c, k)].run = ckpts[c].run
           /\ Ancestor(c, ckpts[c].seq) = None
<1>1. \A k \in Nat :
         \/ Ancestor(c, k) = None /\ ckpts[c].seq <= k
         \/ CkptOf(Ancestor(c, k), ckpts[c].run)
            /\ ckpts[Ancestor(c, k)].seq = ckpts[c].seq - k
  <2> TAKE k \in Nat
  <2>1. PICK u : IsWalk(u, c, k) /\ Ancestor(c, k) = u[k]
    BY Zenon, AncestorWalks
  <2>2. k \in 0..k
    OBVIOUS
  <2> QED
    BY <2>1, <2>2, WalkIsStored
<1>2. \A a \in Ckpts : ckpts[a] # NoCkpt => ckpts[a].seq \in Nat /\ ckpts[a].seq >= 1
  BY DEF TypeOK, CkptRecords
<1>3. Ancestor(c, ckpts[c].seq) = None
  BY <1>1, <1>2 DEF CkptOf
<1> QED
  BY Zenon, <1>1, <1>3 DEF CkptOf

(* What is selected is a stored checkpoint of a run with a record. *)
LEMMA SelectedIsStored ==
    ASSUME HeadInv, NEW c \in CurrentCheckpoint
    PROVE  c \in Ckpts /\ ckpts[c] # NoCkpt /\ runs[ckpts[c].run] # NoRun
<1>1. CASE head = Absent
  <2>1. PICK r \in LegacySelection : c = runs[r].ckpt /\ c # None
    BY Zenon, <1>1 DEF CurrentCheckpoint, CurrentRun
  <2>2. r \in Runs /\ runs[r] # NoRun
    BY Zenon, <2>1 DEF LegacySelection
  <2> QED
    BY Zenon, <2>1, <2>2 DEF HeadInv, RunsOK, CkptOf
<1>2. CASE head # Absent
  <2>1. head # Marker /\ c = head.ckpt /\ c # None
    BY Zenon, <1>2 DEF CurrentCheckpoint
  <2> QED
    BY Zenon, <1>2, <2>1 DEF HeadInv, HeadOK, CkptOf
<1> QED
  BY Zenon, <1>1, <1>2

(* The invariant contains what HeadSound asks for. *)
LEMMA HeadInvSound == HeadInv => HeadSound
<1> SUFFICES ASSUME HeadInv PROVE HeadSound
  BY Zenon
<1>1. Cardinality(Ckpts) \in Nat
  BY Zenon, FS_CardinalityType
<1>2. SelectionLoads
  <2> SUFFICES ASSUME NEW c \in CurrentCheckpoint
               PROVE  /\ ckpts[c] # NoCkpt /\ runs[ckpts[c].run] # NoRun
                      /\ \A k \in 0..Cardinality(Ckpts) :
                            Ancestor(c, k) # None =>
                               /\ ckpts[Ancestor(c, k)] # NoCkpt
                               /\ ckpts[Ancestor(c, k)].seq = ckpts[c].seq - k
                               /\ ckpts[Ancestor(c, k)].run = ckpts[c].run
                      /\ Ancestor(c, ckpts[c].seq) = None
    BY Zenon DEF SelectionLoads
  <2>1. c \in Ckpts /\ ckpts[c] # NoCkpt /\ runs[ckpts[c].run] # NoRun
    BY Zenon, SelectedIsStored
  <2>2. \A k \in 0..Cardinality(Ckpts) : k \in Nat
    BY <1>1
  <2> QED
    BY Zenon, <2>1, <2>2, ChainLoads DEF HeadInv
<1> QED
  BY Zenon, <1>2 DEF HeadInv, HeadSound

(* After any failure or crash, what thread-scoped resume, fork and history *)
(* select can be loaded, is published and covers every acknowledged        *)
(* segment (turbo_runtime_segment.c, turbo_runtime_head.c), for any number *)
(* of runs, checkpoints and segments.                                      *)
THEOREM HeadIsSound == Spec => []HeadSound
BY HeadInvHolds, HeadInvSound, PTL

-----------------------------------------------------------------------------
(* The chain w of checkpoints in the store s, one record longer.           *)
Longer(s, w) ==
    IF w = <<>> THEN <<>>
    ELSE LET last == w[Len(w)]
             up == s[last].parent
         IN IF s[last] = NoCkpt THEN <<>>
            ELSE IF up = None THEN w
            ELSE IF up \in {w[i] : i \in DOMAIN w} THEN <<>>
            ELSE Append(w, up)

(* f[k] is the chain from c in s after k records. *)
IsChain(f, s, c, n) == f = [k \in 0..n |-> IF k = 0 THEN <<c>> ELSE Longer(s, f[k - 1])]

ChainIn(s, c) == (CHOOSE f : IsChain(f, s, c, Cardinality(Ckpts)))[Cardinality(Ckpts)]

LEMMA ChainExists ==
    ASSUME NEW s, NEW c, NEW k \in Nat
    PROVE  \E f : IsChain(f, s, c, k)
<1> DEFINE Missing == {n \in Nat : ~\E f : IsChain(f, s, c, n)}
<1>1. SUFFICES ASSUME Missing # {} PROVE FALSE
  BY Zenon, <1>1
<1>2. PICK n \in Missing : \A m \in Missing : n <= m
  BY ZenonT(30), <1>1, LeastNumber
<1>3. n \in Nat /\ ~\E f : IsChain(f, s, c, n)
  BY Zenon
<1>4. n # 0
  <2> SUFFICES ASSUME n = 0 PROVE FALSE
    BY Zenon
  <2> DEFINE u == [i \in 0..0 |-> <<c>>]
  <2>1. IsChain(u, s, c, 0)
    BY DEF IsChain
  <2> QED
    BY Zenon, <2>1, <1>3
<1>5. n - 1 \in Nat /\ n - 1 \notin Missing
  <2> HIDE DEF Missing
  <2> QED
    BY <1>2, <1>3, <1>4
<1>6. PICK u : IsChain(u, s, c, n - 1)
  BY Zenon, <1>5
<1> DEFINE v == [i \in 0..n |-> IF i = n THEN Longer(s, u[n - 1]) ELSE u[i]]
<1>8. ASSUME NEW i \in 0..n PROVE v[i] = IF i = 0 THEN <<c>> ELSE Longer(s, v[i - 1])
  <2>1. CASE i = n
    BY <2>1, <1>3, <1>4
  <2>2. CASE i # n
    <3>1. i \in 0..(n - 1) /\ v[i] = u[i] /\ (i # 0 => i - 1 \in 0..n /\ i - 1 # n)
      BY <2>2, <1>3
    <3>2. u[i] = IF i = 0 THEN <<c>> ELSE Longer(s, u[i - 1])
      BY Zenon, <1>6, <3>1 DEF IsChain
    <3>3. i # 0 => v[i - 1] = u[i - 1]
      BY Zenon, <3>1
    <3> QED
      BY Zenon, <3>1, <3>2, <3>3
  <2> QED
    BY Zenon, <2>1, <2>2
<1>9. IsChain(v, s, c, n)
  BY Zenon, <1>8 DEF IsChain
<1> QED
  BY Zenon, <1>3, <1>9

(* Two stores that agree on a set of stored checkpoints with all their     *)
(* parents have the same chains from it.                                   *)
Agree(s, t, S) ==
    \A a \in S : t[a] = s[a] /\ (s[a].parent # None => s[a].parent \in S)

LEMMA ChainsAgree ==
    ASSUME NEW s, NEW t, NEW S, NEW c \in S, Agree(s, t, S)
    PROVE  ChainIn(s, c) = ChainIn(t, c)
<1> DEFINE n == Cardinality(Ckpts)
           f == CHOOSE h : IsChain(h, s, c, n)
           g == CHOOSE h : IsChain(h, t, c, n)
<1>a. n \in Nat
  BY Zenon, FS_CardinalityType
<1>b. IsChain(f, s, c, n)
  <2>1. \E h : IsChain(h, s, c, n)
    BY Zenon, <1>a, ChainExists
  <2> QED BY <2>1, Zenon
<1>c. IsChain(g, t, c, n)
  <2>1. \E h : IsChain(h, t, c, n)
    BY Zenon, <1>a, ChainExists
  <2> QED BY <2>1, Zenon
<1>d. SUFFICES f[n] = g[n]
  BY <1>d, Zenon DEF ChainIn
<1> HIDE DEF n, f, g
<1> USE <1>a, <1>b, <1>c
<1> DEFINE Good(k) == f[k] \in Seq(S) /\ f[k] = g[k]
           Bad == {k \in 0..n : ~Good(k)}
<1>1. SUFFICES ASSUME Bad # {} PROVE FALSE
  BY <1>1
<1>0. Bad \subseteq Nat
  OBVIOUS
<1>2. PICK k \in Bad : \A m \in Bad : k <= m
  BY ZenonT(30), <1>0, <1>1, LeastNumber
<1>3. k \in 0..n /\ ~Good(k)
  BY Zenon
<1>4. k # 0
  <2>1. f[0] = <<c>> /\ g[0] = <<c>>
    BY DEF IsChain
  <2>2. <<c>> \in Seq(S)
    OBVIOUS
  <2> QED
    BY ZenonT(30), <1>3, <2>1, <2>2
<1>5. k - 1 \in 0..n /\ k - 1 \notin Bad
  <2> HIDE DEF Bad, Good
  <2> QED
    BY <1>2, <1>3, <1>4
<1>6. Good(k - 1)
  <2> HIDE DEF Good
  <2> QED
    BY Zenon, <1>5
<1> DEFINE w == f[k - 1]
<1>7. f[k] = Longer(s, w) /\ g[k] = Longer(t, w)
  BY Zenon, <1>3, <1>4, <1>6 DEF IsChain
<1>8. w \in Seq(S)
  BY Zenon, <1>6
<1> HIDE DEF w
<1>9. Longer(s, w) = Longer(t, w) /\ Longer(s, w) \in Seq(S)
  <2>1. CASE w = <<>>
    BY Zenon, <2>1, <1>8 DEF Longer
  <2>2. CASE w # <<>>
    <3> DEFINE last == w[Len(w)]
    <3>1. last \in S
      BY <1>8, <2>2
    <3>2. t[last] = s[last] /\ (s[last].parent # None => s[last].parent \in S)
      BY Zenon, <3>1 DEF Agree
    <3>3. Longer(s, w) = IF s[last] = NoCkpt THEN <<>>
                         ELSE IF s[last].parent = None THEN w
                         ELSE IF s[last].parent \in {w[i] : i \in DOMAIN w} THEN <<>>
                         ELSE Append(w, s[last].parent)
      BY <2>2, Zenon DEF Longer
    <3>4. Longer(t, w) = IF t[last] = NoCkpt THEN <<>>
                         ELSE IF t[last].parent = None THEN w
                         ELSE IF t[last].parent \in {w[i] : i \in DOMAIN w} THEN <<>>
                         ELSE Append(w, t[last].parent)
      BY <2>2, Zenon DEF Longer
    <3> HIDE DEF last
    <3>5. Longer(s, w) = Longer(t, w)
      BY <3>2, <3>3, <3>4
    <3>6. Longer(s, w) \in {<<>>, w, Append(w, s[last].parent)}
          /\ (Longer(s, w) \in {<<>>, w} \/ s[last].parent # None)
      BY <3>3, Zenon
    <3>7. <<>> \in Seq(S)
      OBVIOUS
    <3>8. s[last].parent # None => Append(w, s[last].parent) \in Seq(S)
      BY <3>2, <1>8
    <3> QED
      BY <1>8, <3>5, <3>6, <3>7, <3>8, Zenon
  <2> QED
    BY Zenon, <2>1, <2>2
<1> QED
  BY <1>3, <1>7, <1>9, Zenon

(* A segment that stores a checkpoint leaves the chain of every stored one *)
(* as it was (record_checkpoint_from_parts).                               *)
LEMMA PutKeepsChain ==
    ASSUME TypeOK, ChainsOK, NEW new \in Ckpts, NEW rec, FreshCkpt(new),
           ckpts' = [ckpts EXCEPT ![new] = rec],
           NEW c \in Ckpts, ckpts[c] # NoCkpt
    PROVE  ChainIn(ckpts', c) = ChainIn(ckpts, c)
<1> DEFINE S == {a \in Ckpts : ckpts[a] # NoCkpt}
<1>1. c \in S
  BY Zenon
<1>2. Agree(ckpts, ckpts', S)
  BY Zenon DEF Agree, TypeOK, ChainsOK, FreshCkpt, CkptOf
<1> HIDE DEF S
<1> QED
  BY <1>1, <1>2, ChainsAgree

=============================================================================
