---------------------------- MODULE RuntimeViews ----------------------------
(***************************************************************************)
(* The read side of the runtime over the store ThreadHead describes        *)
(* (src/agent/src/turbo_agent_runtime_v1.c, src/runtime/src/               *)
(* turbo_runtime_history.c): lineage, branch tree, timeline, history,      *)
(* trace events, checkpoint contexts and the observability index of one    *)
(* thread.  Readers take no lock: a view may be asked for between any two  *)
(* puts of a segment, after any failed put and after any crash, and that   *)
(* is where these operators are evaluated.                                 *)
(*                                                                         *)
(* A view either loads or fails as a whole.  The state a run record        *)
(* carries is named by the segment that stored it, runs[r].ver.  Its       *)
(* updated_at counts whole seconds, so several runs may share one; which   *)
(* of them a selection answers depends on the order of the store's         *)
(* listing, and the operators below give every run it may answer.  The     *)
(* events of a history are named by the checkpoints that carry them.       *)
(***************************************************************************)
EXTENDS ThreadHead, Sequences, SequencesExt, FiniteSetsExt

VARIABLES
    origin,     \* origin[r]: forked_from_checkpoint_id of run r
    stamp       \* stamp[r]: updated_at of run r, in seconds

viewVars == <<vars, origin, stamp>>

ViewsInit == Init /\ origin = [r \in Runs |-> None] /\ stamp = [r \in Runs |-> 0]

(* turbo_runtime_record_timestamp: the second in which a run is stored is  *)
(* that of the last stored run or a later one.                             *)
Stamped ==
    IF runs' = runs THEN UNCHANGED stamp
    ELSE LET last == Max({stamp[r] : r \in Runs})
         IN \E now \in {last, last + 1} : stamp' = [stamp EXCEPT ![seg.run] = now]

(* exec_fork passes the checkpoint it forks from on to the run record; a   *)
(* started run has none and a resumed run keeps its own.                   *)
ViewsNext ==
    \/ \E r \in Runs : Start(r) /\ origin' = [origin EXCEPT ![r] = None] /\ UNCHANGED stamp
    \/ \E r \in Runs, c \in Ckpts :
          Fork(c, r) /\ origin' = [origin EXCEPT ![r] = c] /\ UNCHANGED stamp
    \/ (\E c \in Ckpts : Resume(c) \/ PutCheckpoint(c)) /\ UNCHANGED <<origin, stamp>>
    \/ PutRun /\ Stamped /\ UNCHANGED origin
    \/ /\ UpsertThread \/ HeadInitialize \/ RunGraph \/ Summary \/ Publish \/ Crash
       /\ UNCHANGED <<origin, stamp>>

ViewsSpec == ViewsInit /\ [][ViewsNext]_viewVars

-----------------------------------------------------------------------------
(* Records, lists and selection *)

NoChain == <<>>     \* no chain of checkpoints

(* turbo_agent_runtime_list_runs: the run records of the thread. *)
KnownRuns == {r \in Runs : runs[r] # NoRun}

(* turbo_agent_runtime_list_checkpoints *)
CkptsOf(r) == {c \in Ckpts : ckpts[c] # NoCkpt /\ ckpts[c].run = r}

(* turbo_runtime_history_select_run_id_for_thread: the newest updated_at   *)
(* among the runs of the given status; the first one listed of a tie.      *)
Newest(candidates) ==
    {r \in candidates : \A q \in candidates : stamp[q] <= stamp[r]}

LatestRuns == Newest(KnownRuns)
PendingRuns == Newest({r \in KnownRuns : runs[r].status = "interrupted"})

(* turbo_runtime_checkpoint_chain: the checkpoints from c to its root, or  *)
(* a failure when a record is missing or the chain comes back to itself.   *)
ChainFrom(c) ==
    LET walk[k \in 0..Cardinality(Ckpts)] ==
            IF k = 0 THEN <<c>>
            ELSE LET below == walk[k - 1]
                     last == below[Len(below)]
                     up == ckpts[last].parent
                 IN IF below = NoChain THEN NoChain
                    ELSE IF ckpts[last] = NoCkpt THEN NoChain
                    ELSE IF up = None THEN below
                    ELSE IF up \in Range(below) THEN NoChain
                    ELSE Append(below, up)
    IN walk[Cardinality(Ckpts)]

(* turbo_runtime_root_checkpoint_id *)
RootOf(c) == Last(ChainFrom(c))

(* load_checkpoint_summary_by_id and attach_checkpoint_summary: no id is   *)
(* no summary, an id without a record is a failure.                        *)
SummaryLoads(c) == c = None \/ ckpts[c] # NoCkpt

-----------------------------------------------------------------------------
(* Lineage and branch tree *)

(* branch_from_run_record *)
RootSource(r) == IF runs[r].ckpt # None THEN runs[r].ckpt ELSE origin[r]
BranchLoads(r) ==
    /\ SummaryLoads(runs[r].ckpt)
    /\ RootSource(r) # None => ChainFrom(RootSource(r)) # NoChain
Branch(r) ==
    [run |-> r, ckpt |-> runs[r].ckpt, from |-> origin[r],
     root |-> IF RootSource(r) = None THEN None ELSE RootOf(RootSource(r))]

(* list_thread_lineage: the branches, newest run first, fail together; the *)
(* root is the first one a branch names.                                   *)
LineageLoads == \A r \in KnownRuns : BranchLoads(r)
LineageBranches == {Branch(r) : r \in KnownRuns}
LineageRoots ==
    LET rooted == {b \in LineageBranches : b.root # None}
    IN {b.root : b \in {o \in rooted : o.run \in Newest({x.run : x \in rooted})}}

(* branch_tree_edges_from_branches *)
Edges == {[source |-> origin[r], target |-> r] : r \in {q \in KnownRuns : origin[q] # None}}

(* branch_tree_branches_from_lineage *)
TreeBranchesLoad == \A r \in KnownRuns : SummaryLoads(runs[r].ckpt) /\ SummaryLoads(origin[r])

(* get_branch_tree: the current branch is the latest run's; the pending    *)
(* run is told only when it is that one.                                   *)
BranchTreeLoads ==
    /\ LineageLoads /\ TreeBranchesLoad
    /\ \A e \in Edges : SummaryLoads(e.source)
    /\ \A r \in LatestRuns : SummaryLoads(runs[r].ckpt)
BranchTreePending == PendingRuns \cap LatestRuns

-----------------------------------------------------------------------------
(* History, timeline and index *)

(* The current run of the views that go by updated_at, and of a thread     *)
(* without a head: the newest interrupted one, or else the newest.         *)
TimelineRuns == IF PendingRuns # {} THEN PendingRuns ELSE LatestRuns

(* load_history_events of a checkpoint: the chain, root first. *)
ChainHistory(c) == Reverse(ChainFrom(c))

(* turbo_runtime_checkpoint_records_sorted and load_history_events of a    *)
(* run: its checkpoints in the order of their numbers, which must be       *)
(* positive.                                                               *)
RunHistoryLoads(r) == \A c \in CkptsOf(r) : ckpts[c].seq > 0
RunHistory(r) == SetToSortSeq(CkptsOf(r), LAMBDA a, b : ckpts[a].seq < ckpts[b].seq)

(* Faulty variant: all the checkpoints of the head's run. *)
ThreadHistoryOfRun == IF head.run = None THEN <<>> ELSE RunHistory(head.run)

(* load_thread_history_events: the chain of the published head; without a  *)
(* head record the history of the current run; an adoption marker fails.   *)
ThreadHistoryLoads ==
    \/ head = Absent /\ TimelineRuns # {} /\ \A r \in TimelineRuns : RunHistoryLoads(r)
    \/ head \notin {Absent, Marker} /\ (head.ckpt # None => ChainFrom(head.ckpt) # NoChain)
ThreadHistory ==
    CASE ~ThreadHistoryLoads -> <<>>
      [] head = Absent -> RunHistory(CHOOSE r \in TimelineRuns : TRUE)
      [] OTHER -> IF head.ckpt = None THEN <<>> ELSE ChainHistory(head.ckpt)

(* get_thread_timeline_json_value *)
TimelineLoads ==
    /\ thread
    /\ \A r \in TimelineRuns : RunHistoryLoads(r) /\ SummaryLoads(runs[r].ckpt)

(* get_thread_state_json_value, which runtime.getThreadState dispatches    *)
(* to: the state of a newest run; a failure when there is none.            *)
ThreadStates == {runs[r].ver : r \in LatestRuns}

(* get_thread_trace_events_json_value *)
TraceLoads == ThreadStates # {}

(* get_thread_observability_index: every part of it, or nothing; the       *)
(* branch tree takes in the lineage.                                       *)
IndexLoads ==
    /\ TimelineLoads /\ TraceLoads /\ ThreadHistoryLoads /\ BranchTreeLoads

(* build_observability_counts_json of the branch tree that was read *)
Counts == [branches |-> Cardinality(KnownRuns), edges |-> Cardinality(Edges)]

(* get_checkpoint_context *)
ContextLoads(c) ==
    ckpts[c] # NoCkpt /\ runs[ckpts[c].run] # NoRun /\ thread /\ ChainFrom(c) # NoChain

(* list_observability_indexes_filtered, unfiltered: one index that fails   *)
(* fails the listing of all threads; other threads are taken to load.      *)
ListingLoads == thread => IndexLoads

-----------------------------------------------------------------------------
(* No put, failed put or crash leaves a thread that cannot be read:        *)
(* lineage, branch tree and timeline of an existing thread *)
(* always load (no run record names a checkpoint that was not stored), the *)
(* index fails only before the first run record and between adoption and   *)
(* the first publication, and the context of a stored checkpoint fails     *)
(* only while its run has no record (get_thread_timeline, get_branch_tree, *)
(* get_thread_observability_index, get_checkpoint_context).                *)
ViewsLoad ==
    /\ BranchTreeLoads
    /\ thread => TimelineLoads
    /\ IndexLoads <=> thread /\ KnownRuns # {} /\ head # Marker
    /\ \A c \in Ckpts : ckpts[c] # NoCkpt =>
          (ContextLoads(c) <=> runs[ckpts[c].run] # NoRun)

(* The run a branch was forked from (parent_run_id). *)
ParentRun(r) == IF origin[r] = None THEN None ELSE ckpts[origin[r]].run

(* The branch tree is a forest over the runs it lists: every edge leads    *)
(* from a checkpoint of a listed run to another run, the parents of a run  *)
(* never lead back to it, and the root of the lineage is the first         *)
(* checkpoint of a run (branch_tree_edges_from_branches and                *)
(* list_thread_lineage after exec_start, exec_resume and exec_fork in any  *)
(* order, with failures between).                                          *)
BranchTreeIsForest ==
    /\ \A e \in Edges : ckpts[e.source].run \in KnownRuns \ {e.target}
    /\ \A r \in KnownRuns :
          LET up[k \in 0..Cardinality(Runs)] ==
                  IF k = 0 THEN r ELSE IF up[k - 1] = None THEN None ELSE ParentRun(up[k - 1])
          IN up[Cardinality(Runs)] = None
    /\ \A root \in LineageRoots : ckpts[root].seq = 1

(* The parts of an observability index agree: there are fewer forks than   *)
(* branches; a run that is told as pending has stored the checkpoint it is *)
(* to be resumed from, at the end of a chain of its own; only a thread     *)
(* without a run or a published head keeps the listing of all threads from *)
(* loading; and the state a client is answered is older than the published *)
(* head only when runs were stored in the same second                      *)
(* (build_observability_counts_json, get_branch_tree,                      *)
(* list_observability_indexes, remote_dispatch_get_thread_state).          *)
IndexAgrees ==
    /\ KnownRuns # {} => Counts.edges < Counts.branches
    /\ \A r \in PendingRuns :
          /\ runs[r].ckpt # None
          /\ ChainFrom(runs[r].ckpt) # NoChain
          /\ \A c \in ToSet(ChainFrom(runs[r].ckpt)) : ckpts[c].run = r
    /\ ~ListingLoads => KnownRuns = {} \/ head = Marker
    /\ \A ver \in ThreadStates : ver >= head.ver \/ Cardinality(LatestRuns) > 1

(* A view is assembled from records that are read one after another while  *)
(* segments go on.  No record that a read may have named is taken away or  *)
(* rewritten before the next read asks for it, and an index of a published *)
(* thread that loads goes on loading, so one whose parts are read at       *)
(* different moments loads too (get_thread_observability_index).           *)
RecordsStayStep ==
    /\ thread => thread'
    /\ KnownRuns \subseteq KnownRuns'
    /\ \A c \in Ckpts : ckpts[c] # NoCkpt => ckpts'[c] = ckpts[c]
    /\ (store' # store /\ head # Absent /\ IndexLoads) => IndexLoads'

(* What load_thread_history_events reads for a published head is fixed by  *)
(* the publication: checkpoints and run records that later segments store  *)
(* before they fail neither add to it nor take from it.                    *)
HistoryStableStep ==
       head # Absent /\ head' = head /\ ckpts' # ckpts => ThreadHistory' = ThreadHistory
HistoryStable == [][HistoryStableStep]_viewVars

(* A head only advances, and the history behind it never changes           *)
(* (turbo_runtime_head_publish, load_thread_history_events).               *)
HistoryKept == [][HeadOnlyAdvancesStep /\ HistoryStableStep]_viewVars

=============================================================================
