------------------------------ MODULE ToolBatch ------------------------------
(***************************************************************************)
(* turbo_agent_tool_executor_execute: how the calls of a batch are         *)
(* admitted, planned and dispatched to callbacks, when several threads     *)
(* hand batches to one executor (turbo_agent_tool_executor.c).             *)
(*                                                                         *)
(* The gate is BatchGate; the durable protocol of one call is ToolJournal, *)
(* of which only the result matters here.  The thread pool (queue, busy)   *)
(* is the external salts pool: max_workers threads, a bounded queue.       *)
(***************************************************************************)
EXTENDS BatchGate, Integers, Sequences

CONSTANTS
    Batch,          \* Batch[t]: sequence of [fate, mode], the calls of t
    MaxWorkers,     \* config.max_workers
    QueueCapacity   \* config.queue_capacity

(* What the checks before the gate, admission, argument check and journal  *)
(* preparation will find.                                                  *)
Fates == {"sound",       \* to be dispatched
          "oversized",   \* a field missing or arguments too long: EMSGSIZE
          "duplicate",   \* turn key and call id of an earlier call: EPROTO
          "not_found",   \* no such tool: settled, the batch goes on
          "denied",      \* policy: settled, the batch goes on
          "malformed",   \* arguments: the whole batch is refused
          "unprepared",  \* prepare_journal fails: the whole batch is refused
          "recorded"}    \* journal holds its outcome: settled

Modes == {"parallel", "exclusive"}

ASSUME BatchConstants ==
    /\ \A t \in Threads : Batch[t] \in Seq([fate : Fates, mode : Modes])
    /\ MaxWorkers \in Nat \ {0}
    /\ QueueCapacity \in Nat
    /\ QueueCapacity >= MaxWorkers       \* executor_config_valid

VARIABLES
    step,       \* step[t]: where in the function t is
    next,       \* next[t]: index of the loop t is in
    last,       \* last[t]: last index of the current wave
    call,       \* call[t][i]: what became of call i of t
    queue,      \* jobs <<t, i>> submitted to the pool and not taken
    busy        \* jobs a pool worker is executing

batchVars == <<step, next, last, call>>
poolVars == <<queue, busy>>
vars == <<gate, batchVars, poolVars>>

Steps == {"begin", "queued", "plan", "run", "single", "wave", "refuse",
          "fail", "answered", "turned_away", "refused", "failed", "stopped"}

CallStates == {"new", "settled", "planned", "running", "done", "cancelled",
               "backpressure"}

Count(t) == Len(Batch[t])
Jobs == UNION {{<<t, i>> : i \in 1..Count(t)} : t \in Threads}

TypeOK ==
    /\ GateTypeOK
    /\ step \in [Threads -> Steps]
    /\ \A t \in Threads : next[t] \in 1..(Count(t) + 1) /\ last[t] \in 0..Count(t)
    /\ \A t \in Threads : call[t] \in [1..Count(t) -> CallStates]
    /\ queue \subseteq Jobs
    /\ busy \subseteq Jobs

Init ==
    /\ GateInit
    /\ step = [t \in Threads |-> "begin"]
    /\ next = [t \in Threads |-> 1]
    /\ last = [t \in Threads |-> 0]
    /\ call = [t \in Threads |-> [i \in 1..Count(t) |-> "new"]]
    /\ queue = {}
    /\ busy = {}

Fate(t, i) == Batch[t][i].fate
Parallel(t, i) == Batch[t][i].mode = "parallel"

(* The last call of the parallel-safe group that starts at i. *)
GroupEnd(t, i) ==
    CHOOSE j \in i..Count(t) :
        /\ \A k \in i..j : Parallel(t, k)
        /\ j = Count(t) \/ ~Parallel(t, j + 1)

Goto(t, s) == step' = [step EXCEPT ![t] = s]
Advance(t) == next' = [next EXCEPT ![t] = @ + 1]
Record(t, i, s) == call' = [call EXCEPT ![t][i] = s]

-----------------------------------------------------------------------------
(* Resolution, policy and argument checks, in memory, once t is inside: a  *)
(* malformed call refuses the batch before anything is planned.            *)
Admission(t) ==
    /\ call' = [call EXCEPT ![t] = [i \in 1..Count(t) |->
          IF Fate(t, i) \in {"not_found", "denied"} THEN "settled" ELSE @[i]]]
    /\ Goto(t, IF \E i \in 1..Count(t) : Fate(t, i) = "malformed"
               THEN "refuse" ELSE "plan")

(* batch_acquire left with the status of a stopped token: every call that  *)
(* has no result yet takes that status.                                    *)
LeaveQueue(t) ==
    /\ Goto(t, "stopped")
    /\ call' = [call EXCEPT ![t] = [i \in 1..Count(t) |-> "cancelled"]]

(* Faulty variant: a batch starts without waiting for the gate. *)
EnterUngated(t) ==
    /\ step[t] = "begin"
    /\ active' = TRUE
    /\ place' = [place EXCEPT ![t] = "inside"]
    /\ Admission(t)
    /\ UNCHANGED <<stopped, next, last, poolVars>>

(* A batch that cannot be told apart or is too large is refused before the *)
(* gate: no call has a status.                                             *)
WellFormed(t) == \A i \in 1..Count(t) : Fate(t, i) \notin {"oversized", "duplicate"}

TurnAway(t) ==
    /\ step[t] = "begin" /\ ~WellFormed(t)
    /\ Goto(t, "turned_away")
    /\ UNCHANGED <<gate, next, last, call, poolVars>>

(* The three ways out of one pass of batch_acquire. *)
Enter(t) ==
    /\ \/ step[t] = "begin" /\ WellFormed(t) /\ Acquire(t)
       \/ step[t] = "queued" /\ Recheck(t)
    /\ \/ place'[t] = "inside" /\ Admission(t)
       \/ place'[t] = "asleep" /\ Goto(t, "queued") /\ UNCHANGED call
       \/ place'[t] = "outside" /\ LeaveQueue(t)
    /\ UNCHANGED <<next, last, poolVars>>

(* prepare_journal of the next call; all are planned before any runs. *)
Prepare(t) ==
    /\ step[t] = "plan"
    /\ next[t] <= Count(t)
    /\ LET i == next[t] IN
          \/ /\ call[t][i] = "settled"
             /\ Advance(t)
             /\ UNCHANGED <<step, call>>
          \/ /\ call[t][i] = "new" /\ Fate(t, i) = "unprepared"
             /\ Goto(t, "refuse")
             /\ UNCHANGED <<next, call>>
          \/ /\ call[t][i] = "new" /\ Fate(t, i) \in {"sound", "recorded"}
             /\ Record(t, i, IF Fate(t, i) = "sound" THEN "planned" ELSE "settled")
             /\ Advance(t)
             /\ UNCHANGED step
    /\ UNCHANGED <<gate, last, poolVars>>

(* The planning loop is over: the dispatch loop starts at the first call. *)
Dispatch(t) ==
    /\ step[t] = "plan"
    /\ next[t] > Count(t)
    /\ Goto(t, "run")
    /\ next' = [next EXCEPT ![t] = 1]
    /\ UNCHANGED <<gate, last, call, poolVars>>

(* execute_one up to the callback, on t's thread: a call with a result is  *)
(* passed over, a stopped token cancels it, otherwise the callback runs.   *)
Single(t) ==
    /\ step[t] = "run"
    /\ next[t] <= Count(t)
    /\ ~Parallel(t, next[t])
    /\ LET i == next[t] IN
          \/ /\ call[t][i] = "settled"
             /\ Advance(t)
             /\ UNCHANGED <<step, call>>
          \/ /\ call[t][i] = "planned" /\ t \in stopped
             /\ Record(t, i, "cancelled")
             /\ Advance(t)
             /\ UNCHANGED step
          \/ /\ call[t][i] = "planned" /\ t \notin stopped
             /\ Record(t, i, "running")
             /\ Goto(t, "single")
             /\ UNCHANGED next
    /\ UNCHANGED <<gate, last, poolVars>>

(* The callback that ran on t's own thread returns. *)
SingleDone(t) ==
    /\ step[t] = "single"
    /\ Record(t, next[t], "done")
    /\ Advance(t)
    /\ Goto(t, "run")
    /\ UNCHANGED <<gate, last, poolVars>>

(* execute_parallel_group: a wave of at most max_workers calls.  Without   *)
(* memory for its tasks the batch ends, whatever ran before.               *)
BeginWave(t) ==
    /\ step[t] = "run"
    /\ next[t] <= Count(t)
    /\ Parallel(t, next[t])
    /\ \/ LET end == GroupEnd(t, next[t]) IN
             /\ last' = [last EXCEPT ![t] =
                   IF next[t] + MaxWorkers - 1 < end THEN next[t] + MaxWorkers - 1 ELSE end]
             /\ Goto(t, "wave")
       \/ Goto(t, "fail") /\ UNCHANGED last
    /\ UNCHANGED <<gate, next, call, poolVars>>

(* cmeta_threadpool_try_submit of the next call of the wave, settled calls *)
(* included; a full queue overwrites the call's status.                    *)
Submit(t) ==
    /\ step[t] = "wave"
    /\ next[t] <= last[t]
    /\ IF Cardinality(queue) < QueueCapacity
       THEN queue' = queue \union {<<t, next[t]>>} /\ UNCHANGED call
       ELSE Record(t, next[t], "backpressure") /\ UNCHANGED queue
    /\ Advance(t)
    /\ UNCHANGED <<gate, step, last, busy>>

(* A pool worker takes job <<t, i>> and runs execute_one up to the         *)
(* callback.                                                               *)
WorkerTakes(t, i) ==
    /\ <<t, i>> \in queue
    /\ Cardinality(busy) < MaxWorkers
    /\ queue' = queue \ {<<t, i>>}
    /\ \/ /\ call[t][i] = "settled"
          /\ UNCHANGED <<call, busy>>
       \/ /\ call[t][i] = "planned" /\ t \in stopped
          /\ Record(t, i, "cancelled")
          /\ UNCHANGED busy
       \/ /\ call[t][i] = "planned" /\ t \notin stopped
          /\ Record(t, i, "running")
          /\ busy' = busy \union {<<t, i>>}
    /\ UNCHANGED <<gate, step, next, last>>

(* The callback on a pool worker returns. *)
WorkerDone(t, i) ==
    /\ <<t, i>> \in busy
    /\ busy' = busy \ {<<t, i>>}
    /\ Record(t, i, "done")
    /\ UNCHANGED <<gate, step, next, last, queue>>

(* cmeta_threadpool_wait: the wave ends when the pool is idle. *)
EndWave(t) ==
    /\ step[t] = "wave"
    /\ next[t] > last[t]
    /\ queue = {} /\ busy = {}
    /\ Goto(t, "run")
    /\ UNCHANGED <<gate, next, last, call, poolVars>>

(* Faulty variant: a refused batch returns without the cleanup. *)
LeaveHolding(t) ==
    /\ \/ step[t] = "run" /\ next[t] > Count(t) /\ Goto(t, "answered") /\ Release(t)
       \/ step[t] = "refuse" /\ Goto(t, "refused") /\ UNCHANGED gate
       \/ step[t] = "fail" /\ Goto(t, "failed") /\ Release(t)
    /\ UNCHANGED <<next, last, call, poolVars>>

(* The end of the dispatch loop, or the cleanup of a refused or failed     *)
(* batch.                                                                  *)
Leave(t) ==
    /\ \/ step[t] = "run" /\ next[t] > Count(t) /\ Goto(t, "answered")
       \/ step[t] = "refuse" /\ Goto(t, "refused")
       \/ step[t] = "fail" /\ Goto(t, "failed")
    /\ Release(t)
    /\ UNCHANGED <<next, last, call, poolVars>>

(* A sleeper's time slice ends; a token is stopped. *)
Wake(t) == WakeUp(t) /\ UNCHANGED <<batchVars, poolVars>>
Stop(t) == StopToken(t) /\ UNCHANGED <<batchVars, poolVars>>

Thread(t) ==
    \/ TurnAway(t) \/ Enter(t) \/ Prepare(t) \/ Dispatch(t) \/ Single(t) \/ SingleDone(t)
    \/ BeginWave(t) \/ Submit(t) \/ EndWave(t) \/ Leave(t)

Pool == \E j \in Jobs : WorkerTakes(j[1], j[2]) \/ WorkerDone(j[1], j[2])

Next == (\E t \in Threads : Thread(t) \/ Wake(t) \/ Stop(t)) \/ Pool

(* Threads and workers are scheduled and callbacks return.  Wake-ups       *)
(* without a signal are not needed: no waiter depends on its time slice.   *)
Fairness == (\A t \in Threads : WF_vars(Thread(t))) /\ WF_vars(Pool)

Spec == Init /\ [][Next]_vars /\ Fairness

-----------------------------------------------------------------------------
Running == {j \in Jobs : call[j[1]][j[2]] = "running"}

(* Whatever batches the threads hand in, an exclusive callback never runs  *)
(* beside another callback of the same executor, and no more than          *)
(* max_workers callbacks run at once.                                      *)
CallbacksCompatible ==
    /\ Cardinality(Running) <= MaxWorkers
    /\ \A j \in Running : ~Parallel(j[1], j[2]) => Running = {j}

(* A refused batch has entered no callback.  One with malformed arguments  *)
(* has not even planned a call, and one with colliding or oversized calls  *)
(* has no call looked at, whatever the position of the offending call.     *)
RefusedBatchRanNothing ==
    \A t \in Threads : step[t] \in {"refuse", "refused", "turned_away"} =>
        /\ \A i \in 1..Count(t) : call[t][i] \in {"new", "settled", "planned"}
        /\ (\E i \in 1..Count(t) : Fate(t, i) = "malformed") =>
              \A i \in 1..Count(t) : call[t][i] # "planned"
        /\ ~WellFormed(t) => \A i \in 1..Count(t) : call[t][i] = "new"

(* When the function returns SALTS_OK every call has a result.  While the  *)
(* pool works on a job, its batch is still inside: the task array that     *)
(* execute_parallel_group frees after the wait is not in use.              *)
EveryCallAnswered ==
    /\ \A t \in Threads : step[t] = "answered" =>
          \A i \in 1..Count(t) : call[t][i] \in {"settled", "done", "cancelled"}
    /\ \A j \in queue \union busy : step[j[1]] = "wave"

(* Every batch handed in comes back: gate, waves and pool never wait for   *)
(* each other in a circle.                                                 *)
EveryBatchReturns ==
    <>(\A t \in Threads :
          step[t] \in {"answered", "turned_away", "refused", "failed", "stopped"})
=============================================================================
