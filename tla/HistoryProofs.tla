--------------------------- MODULE HistoryProofs ----------------------------
(***************************************************************************)
(* The history of a thread is fixed by the publication of its head: the    *)
(* proof that the views of RuntimeViews keep what ThreadHeadProofs shows   *)
(* of the segments and of the chains of checkpoints.                       *)
(***************************************************************************)
EXTENDS RuntimeViews, ThreadHeadProofs

(* turbo_runtime_checkpoint_chain reads such a chain. *)
LEMMA ChainFromIsChainIn == \A c : ChainFrom(c) = ChainIn(ckpts, c)
BY Zenon DEF ChainFrom, ChainIn, IsChain, Longer, NoChain, Range

(* The views do not change what segments do. *)
LEMMA ViewsNextIsNext == [ViewsNext]_viewVars => [Next]_vars
BY DEF ViewsNext, Next, viewVars

LEMMA ViewsInvHolds == ViewsSpec => []HeadInv
BY InitHeadInv, NextHeadInv, ViewsNextIsNext, PTL DEF ViewsSpec, ViewsInit

(* A head only advances, and the history behind it never changes, however  *)
(* many segments store checkpoints and fail after it was published         *)
(* (turbo_runtime_head_publish, load_thread_history_events).               *)
THEOREM HistoryIsKept == ViewsSpec => HistoryKept
<1>1. HeadInv /\ [ViewsNext]_viewVars => [HeadOnlyAdvancesStep /\ HistoryStableStep]_viewVars
  <2> SUFFICES ASSUME HeadInv, Next PROVE HeadOnlyAdvancesStep /\ HistoryStableStep
    BY ViewsNextIsNext DEF HeadOnlyAdvancesStep, HistoryStableStep, viewVars, vars, store
  <2>1. HeadOnlyAdvancesStep
    BY HeadStepAdvances DEF HeadOnlyAdvancesStep
  <2>2. HistoryStableStep
    <3> SUFFICES ASSUME head # Absent, head' = head, ckpts' # ckpts
                 PROVE  ThreadHistory' = ThreadHistory
      BY DEF HistoryStableStep
    <3>1. PICK c \in Ckpts : PutCheckpoint(c)
      BY ZenonT(30) DEF Next, Start, Fork, Resume, Begin, UpsertThread, HeadInitialize, RunGraph, PutRun,
         Summary, Publish, Crash, store
    <3>2. FreshCkpt(c) /\ ckpts' = [ckpts EXCEPT ![c] = [run |-> seg.run, parent |-> seg.from,
                                                        seq |-> seg.seq]]
      BY <3>1 DEF PutCheckpoint
    <3>3. CASE head = Marker
      BY <3>3 DEF ThreadHistory, ThreadHistoryLoads, Absent, Marker
    <3>4. CASE head # Marker /\ head.ckpt = None
      BY <3>4 DEF ThreadHistory, ThreadHistoryLoads
    <3>5. CASE head # Marker /\ head.ckpt # None
      <4>1. head.ckpt \in Ckpts /\ ckpts[head.ckpt] # NoCkpt
        BY <3>5 DEF HeadInv, HeadOK, CkptOf
      <4>2. ChainIn(ckpts', head.ckpt) = ChainIn(ckpts, head.ckpt)
        BY ZenonT(30), <3>2, <4>1, PutKeepsChain DEF HeadInv
      <4>3. ChainFrom(head.ckpt) = ChainIn(ckpts, head.ckpt)
        BY ChainFromIsChainIn
      <4>4. ChainFrom(head.ckpt)' = ChainIn(ckpts', head'.ckpt)
        BY Zenon DEF ChainFrom, ChainIn, IsChain, Longer, NoChain, Range
      <4> QED
        BY <3>5, <4>2, <4>3, <4>4 DEF ThreadHistory, ThreadHistoryLoads, ChainHistory
    <3> QED
      BY <3>3, <3>4, <3>5
  <2> QED
    BY <2>1, <2>2
<1> QED
  BY <1>1, ViewsInvHolds, PTL DEF ViewsSpec, HistoryKept

=============================================================================
