----------------------------- MODULE ThreadHead -----------------------------
(***************************************************************************)
(* What one conversation thread leaves in the runtime store: its run       *)
(* records, its checkpoints and the published head                         *)
(* (src/runtime/src/turbo_runtime_segment.c, turbo_runtime_head.c and the  *)
(* selection of turbo_runtime_history.c), under segments that start,       *)
(* resume or fork a run, puts that fail and crashes between any two puts.  *)
(*                                                                         *)
(* Segments of a thread are serialized by the host                         *)
(* (turbo_runtime_segment.h).  A put is atomic, as the header requires of  *)
(* the backend; one that reports a failure may have been applied.  The     *)
(* state a segment computes is named by the number of the segment, 0 for   *)
(* what a version without heads left behind.                               *)
(***************************************************************************)
EXTENDS Integers, FiniteSets

CONSTANTS
    Runs,           \* run ids
    Ckpts,          \* checkpoint ids
    LegacyRun,      \* the run a version without heads may have left
    LegacyCkpt,     \* its checkpoint
    None,
    MaxSegments     \* bound: segments that begin

ASSUME HeadConstants ==
    /\ LegacyRun \in Runs /\ LegacyCkpt \in Ckpts
    /\ None \notin Runs /\ None \notin Ckpts
    /\ IsFiniteSet(Ckpts)
    /\ MaxSegments \in Nat

VARIABLES
    thread,     \* the thread record exists
    runs,       \* runs[r]: run record
    ckpts,      \* ckpts[c]: checkpoint record
    head,       \* thread_heads record
    seg,        \* the segment that runs: pc and what it was called with
    inside,     \* between segment->enter and segment->leave
    begun,      \* number of segments begun
    acked       \* last segment that returned 0

store == <<thread, runs, ckpts, head>>
vars == <<store, seg, inside, begun, acked>>

(* "stopped" stands for cancelled and for timed_out: both leave a          *)
(* checkpoint, and no selection looks for them.                            *)
Resumable == {"interrupted", "stopped"}
Statuses == Resumable \union {"completed"}
Segments == 0..MaxSegments

NoRun == [ver |-> -1, status |-> "none", ckpt |-> None]
RunRecords == [ver : Segments, status : Statuses, ckpt : Ckpts \union {None}]
NoCkpt == [run |-> None, parent |-> None, seq |-> 0]
CkptRecords == [run : Runs, parent : Ckpts \union {None}, seq : 1..(MaxSegments + 1)]

(* The head: no record, an adoption marker or the snapshot of a run. *)
Absent == [run |-> None, ver |-> -2, status |-> "absent", ckpt |-> None]
Marker == [run |-> None, ver |-> -1, status |-> "marker", ckpt |-> None]
Snapshots == [run : Runs, ver : Segments, status : Statuses, ckpt : Ckpts \union {None}]

Idle == [pc |-> "idle", run |-> None, from |-> None, seq |-> 0,
         status |-> "none", ckpt |-> None]
SegmentRecords ==
    [pc : {"thread", "head", "graph", "ckpt", "run", "summary", "publish"},
     run : Runs, from : Ckpts \union {None}, seq : 1..(MaxSegments + 1),
     status : Statuses \union {"none"}, ckpt : Ckpts \union {None}]

(* Every variable has its type. *)
TypeOK ==
    /\ thread \in BOOLEAN
    /\ runs \in [Runs -> RunRecords \union {NoRun}]
    /\ ckpts \in [Ckpts -> CkptRecords \union {NoCkpt}]
    /\ head \in Snapshots \union {Absent, Marker}
    /\ seg \in SegmentRecords \union {Idle}
    /\ inside \in BOOLEAN
    /\ begun \in Segments /\ acked \in Segments
    /\ seg.pc \in {"idle", "thread", "head"} => ~inside

LegacyRecord(status) ==
    [ver |-> 0, status |-> status,
     ckpt |-> IF status = "completed" THEN None ELSE LegacyCkpt]

(* A new store, or one in which a version without heads left a run. *)
Init ==
    /\ \E old \in Statuses \union {"none"} :
          /\ thread = (old # "none")
          /\ runs = [r \in Runs |-> IF r = LegacyRun /\ old # "none"
                                    THEN LegacyRecord(old) ELSE NoRun]
          /\ ckpts = [c \in Ckpts |-> IF c = LegacyCkpt /\ old \in Resumable
                                      THEN [run |-> LegacyRun, parent |-> None, seq |-> 1]
                                      ELSE NoCkpt]
    /\ head = Absent
    /\ seg = Idle /\ inside = FALSE
    /\ begun = 0 /\ acked = 0

-----------------------------------------------------------------------------
(* turbo_agent_runtime_make_id and turbo_runtime_record_uuid: an id no     *)
(* record names.                                                           *)
FreshRun(r) == runs[r] = NoRun /\ \A c \in Ckpts : ckpts[c].run # r
FreshCkpt(c) == ckpts[c] = NoCkpt

(* A segment begins when none runs: "The caller serializes conflicting     *)
(* runs/thread mutations" (turbo_runtime_segment.h).                       *)
Begin(r, from, seq) ==
    /\ seg = Idle /\ begun < MaxSegments
    /\ begun' = begun + 1
    /\ seg' = [pc |-> "thread", run |-> r, from |-> from, seq |-> seq,
               status |-> "none", ckpt |-> None]
    /\ UNCHANGED <<store, inside, acked>>

(* exec_start: a new run. *)
Start(r) == FreshRun(r) /\ Begin(r, None, 1)

(* exec_resume of a checkpoint, explicit or the thread's current one: the  *)
(* run goes on under its own id.                                           *)
Resume(c) ==
    /\ ckpts[c] # NoCkpt /\ runs[ckpts[c].run] # NoRun
    /\ Begin(ckpts[c].run, c, ckpts[c].seq + 1)

(* Faulty variant: the fork goes on under the run id of its source. *)
ForkReusesRun(c, r) ==
    /\ ckpts[c] # NoCkpt /\ runs[ckpts[c].run] # NoRun /\ r = ckpts[c].run
    /\ Begin(r, None, 1)

(* exec_fork: a new run from a checkpoint. *)
Fork(c, r) ==
    /\ ckpts[c] # NoCkpt /\ runs[ckpts[c].run] # NoRun /\ FreshRun(r)
    /\ Begin(r, None, 1)

(* The segment at pc, with the outcome and the checkpoint it has by then. *)
At(pc, status, ckpt) ==
    seg' = [pc |-> pc, run |-> seg.run, from |-> seg.from, seq |-> seg.seq,
            status |-> status, ckpt |-> ckpt]
Goto(pc) == At(pc, seg.status, seg.ckpt)

(* segment_execute returns -1; leave pairs with enter. *)
Fail == seg' = Idle /\ inside' = FALSE

(* upsert_thread *)
UpsertThread ==
    /\ seg.pc = "thread"
    /\ \/ thread' = TRUE /\ Goto("head") /\ UNCHANGED inside
       \/ thread' \in {thread, TRUE} /\ Fail
    /\ UNCHANGED <<runs, ckpts, head, begun, acked>>

(* turbo_runtime_head_initialize: only confirmed absence is adopted; then  *)
(* segment->enter.                                                         *)
HeadInitialize ==
    /\ seg.pc = "head"
    /\ \/ Fail /\ UNCHANGED head
       \/ head # Absent /\ UNCHANGED head /\ Goto("graph") /\ inside' = TRUE
       \/ head = Absent /\ head' = Marker /\ Goto("graph") /\ inside' = TRUE
       \/ head = Absent /\ head' = Marker /\ Fail
    /\ UNCHANGED <<thread, runs, ckpts, begun, acked>>

(* run_graph_stream: completed, stopped at a checkpoint, or failed. *)
RunGraph ==
    /\ seg.pc = "graph"
    /\ \/ \E s \in Statuses :
             /\ At(IF s \in Resumable THEN "ckpt" ELSE "run", s, seg.ckpt)
             /\ UNCHANGED inside
       \/ Fail
    /\ UNCHANGED <<store, begun, acked>>

(* record_checkpoint_from_parts *)
PutCheckpoint(c) ==
    /\ seg.pc = "ckpt" /\ FreshCkpt(c)
    /\ LET put == [ckpts EXCEPT ![c] = [run |-> seg.run, parent |-> seg.from,
                                        seq |-> seg.seq]]
       IN \/ /\ ckpts' = put
             /\ At("run", seg.status, c)
             /\ UNCHANGED inside
          \/ ckpts' \in {ckpts, put} /\ Fail
    /\ UNCHANGED <<thread, runs, head, begun, acked>>

(* persisted_checkpoint_id *)
LatestCkpt == IF seg.ckpt # None THEN seg.ckpt ELSE seg.from

(* finalize_run *)
PutRun ==
    /\ seg.pc = "run"
    /\ LET put == [runs EXCEPT ![seg.run] = [ver |-> begun, status |-> seg.status,
                                             ckpt |-> LatestCkpt]]
       IN \/ runs' = put /\ Goto("summary") /\ UNCHANGED inside
          \/ runs' \in {runs, put} /\ Fail
    /\ UNCHANGED <<thread, ckpts, head, begun, acked>>

(* make_summary *)
Summary ==
    /\ seg.pc = "summary"
    /\ \/ Goto("publish") /\ UNCHANGED inside
       \/ Fail
    /\ UNCHANGED <<store, begun, acked>>

Snapshot == [run |-> seg.run, ver |-> begun, status |-> seg.status, ckpt |-> LatestCkpt]

(* Faulty variant: the segment succeeds whatever the last put answered. *)
PublishUnchecked ==
    /\ seg.pc = "publish"
    /\ head' \in {head, Snapshot}
    /\ Fail /\ acked' = begun
    /\ UNCHANGED <<thread, runs, ckpts, begun>>

(* turbo_runtime_head_publish, and the segment returns. *)
Publish ==
    /\ seg.pc = "publish"
    /\ \/ head' = Snapshot /\ acked' = begun
       \/ head' \in {head, Snapshot} /\ UNCHANGED acked
    /\ seg' = Idle /\ inside' = FALSE
    /\ UNCHANGED <<thread, runs, ckpts, begun>>

(* The process ends during a segment; the store stays. *)
Crash ==
    /\ seg # Idle
    /\ seg' = Idle /\ inside' = FALSE
    /\ UNCHANGED <<store, begun, acked>>

Next ==
    \/ \E r \in Runs : Start(r) \/ (\E c \in Ckpts : Fork(c, r))
    \/ \E c \in Ckpts : Resume(c) \/ PutCheckpoint(c)
    \/ UpsertThread \/ HeadInitialize \/ RunGraph \/ PutRun \/ Summary \/ Publish
    \/ Crash

Spec == Init /\ [][Next]_vars

-----------------------------------------------------------------------------
(* turbo_runtime_history_select_run_id_for_thread, up to the order of      *)
(* updated_at: the interrupted runs, or any if there is none.              *)
LegacySelection ==
    LET known == {r \in Runs : runs[r] # NoRun}
        pending == {r \in known : runs[r].status = "interrupted"}
    IN IF pending # {} THEN pending ELSE known

(* turbo_agent_runtime_current_run_id_for_thread: the runs it may answer. *)
CurrentRun ==
    IF head = Absent THEN LegacySelection
    ELSE IF head = Marker THEN {} ELSE {head.run}

(* turbo_agent_runtime_current_checkpoint_id_for_thread *)
CurrentCheckpoint ==
    LET named == IF head = Absent THEN {runs[r].ckpt : r \in CurrentRun}
                 ELSE IF head = Marker THEN {} ELSE {head.ckpt}
    IN named \ {None}

(* turbo_runtime_checkpoint_chain: the k-th record on the way to the root. *)
Ancestor(c, k) ==
    LET up[i \in 0..k] ==
            IF i = 0 THEN c
            ELSE IF up[i - 1] = None THEN None ELSE ckpts[up[i - 1]].parent
    IN up[k]

(* What thread-scoped resume, fork and history select can be loaded: the   *)
(* checkpoint and its run have records, and its parent chain exists, does  *)
(* not repeat and is numbered upwards from its root                        *)
(* (turbo_agent_runtime_current_checkpoint_id_for_thread,                  *)
(* turbo_runtime_checkpoint_chain), after any failure or crash.            *)
SelectionLoads ==
    \A c \in CurrentCheckpoint :
        /\ ckpts[c] # NoCkpt /\ runs[ckpts[c].run] # NoRun
        /\ \A k \in 0..Cardinality(Ckpts) :
              LET a == Ancestor(c, k)
              IN a # None => /\ ckpts[a] # NoCkpt
                             /\ ckpts[a].seq = ckpts[c].seq - k
                             /\ ckpts[a].run = ckpts[c].run
        /\ Ancestor(c, ckpts[c].seq) = None

(* "A failed first publication cannot expose an unpublished run through    *)
(* the timestamp-based legacy fallback" (turbo_runtime_head_initialize):   *)
(* the thread's current run is the published one, or a legacy run in a     *)
(* store no segment has written to.                                        *)
UnpublishedNeverSelected ==
    /\ head = Absent => \A r \in CurrentRun : runs[r].ver = 0
    /\ head = Absent => \A c \in Ckpts \ {LegacyCkpt} : ckpts[c] = NoCkpt

(* A segment that returned 0 is the head, unless a later segment became    *)
(* it: no failure, crash or later failed segment takes an acknowledged     *)
(* segment back (turbo_runtime_segment.h, "a failed publication leaves the *)
(* previous head snapshot authoritative").                                 *)
AcknowledgedIsPublished == acked > 0 => head.ver >= acked

(* Publication order defines the head: it only moves from absent to the    *)
(* marker to snapshots of later and later segments, each of them already   *)
(* durable as a run record.                                                *)
HeadOnlyAdvancesStep ==
       head' # head => /\ head'.ver > head.ver
                       /\ head' # Marker => runs[head'.run] =
                            [ver |-> head'.ver, status |-> head'.status,
                             ckpt |-> head'.ckpt]
HeadOnlyAdvances == [][HeadOnlyAdvancesStep]_vars

(* What is selected loads, is published and covers every acknowledged      *)
(* segment (turbo_runtime_segment.c, turbo_runtime_head.c).                *)
HeadSound == SelectionLoads /\ UnpublishedNeverSelected /\ AcknowledgedIsPublished

=============================================================================
