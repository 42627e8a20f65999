------------------------------ MODULE Execution ------------------------------
(***************************************************************************)
(* The life of one asynchronous execution handle                           *)
(* (src/agent/src/turbo_agent_execution.c): a submitter, a worker of the   *)
(* thread pool and clients that hold references to the handle and cancel,  *)
(* wait for and take the result of it.                                     *)
(*                                                                         *)
(* A section under execution->mutex is one step; so is an atomic update of *)
(* ref_count.  The cancel source is CancelToken.tla's, whose waiters are   *)
(* threads of the operation (a retry delay, a tool).  The operation itself *)
(* is Session.tla's execution, seen here only as its outcome.              *)
(***************************************************************************)
EXTENDS CancelToken, FiniteSets

CONSTANTS
    Clients,    \* threads that may hold a handle
    Submitter,  \* the one that calls turbo_agent_execution_start
    TerminalHook    \* whether the owner of the execution has set hooks.terminal

ASSUME ExecutionConstants ==
    Submitter \in Clients /\ IsFiniteSet(Clients) /\ TerminalHook \in BOOLEAN

Terminal == {"completed", "interrupted", "cancelled", "timed_out", "failed"}

VARIABLES
    submit,     \* where turbo_agent_execution_submit is, or how it ended
    refs,       \* ref_count
    freed,      \* turbo_agent_execution_destroy has run
    status,
    result,     \* summary and state: "none", "held" or "moved"
    worker,     \* where turbo_agent_execution_worker is
    outcome,    \* what the runtime operation and the complete hook left
    hooks,      \* number of calls of hooks.terminal
    client,     \* client[c]: what c does with its handle, "absent" without
    takers      \* clients that were given the result

handle == <<refs, freed>>
shared == <<status, result, token>>
work == <<worker, outcome, hooks>>
vars == <<submit, handle, shared, work, client, takers>>

SubmitSteps == {"new", "created", "admitted", "submitted", "accepted", "rejected"}
WorkerSteps == {"none", "queued", "running", "complete", "publish", "terminal",
                "release", "done"}
ClientSteps == {"absent", "holding", "cancelling", "asleep", "awake", "dozing"}

(* The handle, its threads and its cancel source have their types. *)
TypeOK ==
    /\ TokenTypeOK
    /\ submit \in SubmitSteps
    /\ refs \in 0..(Cardinality(Clients) + 1)
    /\ freed \in BOOLEAN
    /\ status \in {"queued", "running"} \union Terminal
    /\ result \in {"none", "held", "moved"}
    /\ worker \in WorkerSteps
    /\ outcome \in Terminal \union {None}
    /\ hooks \in 0..1
    /\ client \in [Clients -> ClientSteps]
    /\ takers \subseteq Clients

Init ==
    /\ submit = "new"
    /\ refs = 0 /\ freed = FALSE
    /\ status = "queued" /\ result = "none" /\ TokenInit
    /\ worker = "none" /\ outcome = None /\ hooks = 0
    /\ client = [c \in Clients |-> "absent"]
    /\ takers = {}

(* turbo_agent_execution_release of n references. *)
Release(n) ==
    /\ refs' = refs - n
    /\ freed' = (refs = n)

Become(c, s) == client' = [client EXCEPT ![c] = s]

-----------------------------------------------------------------------------
(* submit: the handle is filled in, or a step of that fails and it is      *)
(* released; then the worker's reference is taken.                         *)
Create ==
    /\ submit = "new"
    /\ \/ submit' = "created" /\ refs' = 2 /\ UNCHANGED freed
       \/ submit' = "rejected" /\ freed' = TRUE /\ UNCHANGED refs
    /\ UNCHANGED <<shared, work, client, takers>>

(* submit, hooks.before_admit: a failure releases both references. *)
BeforeAdmit ==
    /\ submit = "created"
    /\ \/ submit' = "admitted" /\ UNCHANGED handle
       \/ submit' = "rejected" /\ Release(2)
    /\ UNCHANGED <<shared, work, client, takers>>

(* submit, cmeta_threadpool_try_submit. *)
TrySubmit ==
    /\ submit = "admitted"
    /\ \/ submit' = "submitted" /\ worker' = "queued" /\ UNCHANGED handle
       \/ submit' = "rejected" /\ Release(2) /\ UNCHANGED worker
    /\ UNCHANGED <<shared, outcome, hooks, client, takers>>

(* submit returns the handle; the worker may long have finished. *)
SubmitReturns ==
    /\ submit = "submitted"
    /\ submit' = "accepted"
    /\ Become(Submitter, "holding")
    /\ UNCHANGED <<handle, shared, work, takers>>

-----------------------------------------------------------------------------
Broadcast ==
    client' = [c \in Clients |-> IF client[c] = "asleep" THEN "awake" ELSE client[c]]

(* worker: RUNNING. *)
WorkerStart ==
    /\ worker = "queued"
    /\ status' = "running" /\ Broadcast
    /\ worker' = "running"
    /\ UNCHANGED <<submit, handle, result, token, outcome, hooks, takers>>

(* What an operation controlled by the token may end with: it may finish   *)
(* or fail before it sees the reason.                                      *)
Outcomes ==
    {"completed", "interrupted", "failed"}
        \union (IF reason \in UserReasons THEN {"cancelled"} ELSE {})
        \union (IF reason = "deadline" THEN {"timed_out"} ELSE {})

(* No thread of the operation is in turbo_cancel_token_wait. *)
NoTokenWait == \A w \in Waiters : wait[w] \notin {"loop", Asleep}

(* worker: exec_start, exec_resume or exec_fork. *)
WorkerRun ==
    /\ worker = "running" /\ NoTokenWait
    /\ outcome' \in Outcomes
    /\ worker' = "complete"
    /\ UNCHANGED <<submit, handle, shared, hooks, client, takers>>

(* worker: hooks.complete, unless the operation failed; its follow-up runs *)
(* replace the summary.                                                    *)
WorkerComplete ==
    /\ worker = "complete" /\ NoTokenWait
    /\ IF outcome = "failed" THEN UNCHANGED outcome
       ELSE IF outcome = "completed" THEN outcome' \in Outcomes
       ELSE outcome' \in {outcome, "failed"}
    /\ worker' = "publish"
    /\ UNCHANGED <<submit, handle, shared, hooks, client, takers>>

(* Faulty variant: the waiters are not woken. *)
WorkerPublishSilently ==
    /\ worker = "publish"
    /\ status' = outcome /\ result' = "held"
    /\ worker' = "terminal"
    /\ UNCHANGED <<submit, handle, token, outcome, hooks, client, takers>>

(* worker: the terminal status and the result, under the mutex. *)
WorkerPublish ==
    /\ worker = "publish"
    /\ status' = outcome /\ result' = "held" /\ Broadcast
    /\ worker' = "terminal"
    /\ UNCHANGED <<submit, handle, token, outcome, hooks, takers>>

(* worker: hooks.terminal, if there is one, is given the handle. *)
HookCalls == IF TerminalHook THEN 1 ELSE 0

WorkerTerminal ==
    /\ worker = "terminal"
    /\ hooks' = hooks + HookCalls
    /\ worker' = "release"
    /\ UNCHANGED <<submit, handle, shared, outcome, client, takers>>

WorkerRelease ==
    /\ worker = "release"
    /\ Release(1)
    /\ worker' = "done"
    /\ UNCHANGED <<submit, shared, outcome, hooks, client, takers>>

-----------------------------------------------------------------------------
(* turbo_agent_execution_retain, by c for client d. *)
Retain(c, d) ==
    /\ client[c] = "holding" /\ client[d] = "absent" /\ submit = "accepted"
    /\ refs' = refs + 1
    /\ Become(d, "holding")
    /\ UNCHANGED <<submit, freed, shared, work, takers>>

(* turbo_agent_execution_release *)
ReleaseHandle(c) ==
    /\ client[c] = "holding"
    /\ Release(1)
    /\ Become(c, "absent")
    /\ UNCHANGED <<submit, shared, work, takers>>

(* turbo_agent_execution_cancel, under the mutex: EALREADY at a terminal   *)
(* status.                                                                 *)
CancelCheck(c) ==
    /\ client[c] = "holding"
    /\ status \notin Terminal
    /\ Become(c, "cancelling")
    /\ UNCHANGED <<submit, handle, shared, work, takers>>

(* turbo_agent_execution_cancel, the source: by now the execution may be   *)
(* terminal.                                                               *)
CancelSource(c) ==
    /\ client[c] = "cancelling"
    /\ \E r \in Reasons : Cancel(r)
    /\ Become(c, "holding")
    /\ UNCHANGED <<submit, handle, status, result, work, takers>>

(* The clock, and the operation's use of its token while it runs. *)
Operation ==
    /\ \/ Tick
       \/ /\ worker \in {"running", "complete"}
          /\ \/ Check
             \/ \E w \in Waiters : EnterWait(w) \/ Loop(w) \/ WakeUp(w) \/ WakeUpEarly(w)
    /\ UNCHANGED <<submit, handle, status, result, work, client, takers>>

(* turbo_agent_execution_wait blocks. *)
Wait(c) ==
    /\ client[c] \in {"holding", "awake"} /\ status \notin Terminal
    /\ Become(c, "asleep")
    /\ UNCHANGED <<submit, handle, shared, work, takers>>

(* turbo_agent_execution_wait returns. *)
WaitReturns(c) ==
    /\ client[c] = "awake" /\ status \in Terminal
    /\ Become(c, "holding")
    /\ UNCHANGED <<submit, handle, shared, work, takers>>

(* turbo_agent_execution_wait with a timeout sleeps in slices. *)
WaitFor(c) ==
    /\ client[c] = "holding" /\ status \notin Terminal
    /\ Become(c, "dozing")
    /\ UNCHANGED <<submit, handle, shared, work, takers>>

(* ... and returns at the terminal status or at its timeout. *)
WaitForReturns(c) ==
    /\ client[c] = "dozing"
    /\ Become(c, "holding")
    /\ UNCHANGED <<submit, handle, shared, work, takers>>

(* Faulty variant: the result is not marked as taken. *)
TakeCopies(c) ==
    /\ client[c] = "holding" /\ status \in Terminal /\ result # "moved"
    /\ takers' = takers \union {c}
    /\ UNCHANGED <<submit, handle, shared, work, client>>

(* turbo_agent_execution_take_result: EBUSY before the terminal status,    *)
(* EALREADY after a take.                                                  *)
Take(c) ==
    /\ client[c] = "holding" /\ status \in Terminal /\ result # "moved"
    /\ result' = "moved"
    /\ takers' = takers \union {c}
    /\ UNCHANGED <<submit, handle, status, token, work, client>>

Submit == Create \/ BeforeAdmit \/ TrySubmit \/ SubmitReturns
Work == WorkerStart \/ WorkerRun \/ WorkerComplete \/ WorkerPublish \/ WorkerTerminal
            \/ WorkerRelease

Next ==
    \/ Submit \/ Work \/ Operation
    \/ \E c, d \in Clients : Retain(c, d)
    \/ \E c \in Clients : ReleaseHandle(c) \/ CancelCheck(c) \/ CancelSource(c)
                              \/ Wait(c) \/ WaitReturns(c) \/ WaitFor(c)
                              \/ WaitForReturns(c) \/ Take(c)

Spec == Init /\ [][Next]_vars

(* The clock runs, timers fire, the pool runs what it accepted, operations *)
(* end (a wait needs them to) and a woken thread runs.  Nobody need        *)
(* cancel, take or release.                                                *)
Fairness ==
    /\ WF_vars(Tick /\ Operation)
    /\ WF_vars(Work)
    /\ \A w \in Waiters : WF_vars(Loop(w) /\ Operation) /\ WF_vars(WakeUp(w) /\ Operation)
    /\ \A c \in Clients : WF_vars(WaitReturns(c))

FairSpec == Spec /\ Fairness

-----------------------------------------------------------------------------
Holders == {c \in Clients : client[c] # "absent"}
SubmitHolds == submit \in {"created", "admitted", "submitted"}
WorkerHolds == \/ submit \in {"created", "admitted"}
               \/ worker \notin {"none", "done"}

(* Every thread that may still touch the handle has a reference of its     *)
(* own: the handle is freed when the last of them releases it, not before  *)
(* and not never, and a rejected submission leaves nothing behind (submit's *)
(* error paths, worker, retain and release).                               *)
RefsExact ==
    /\ submit # "new" =>
          refs = Cardinality(Holders) + (IF SubmitHolds THEN 1 ELSE 0)
                                      + (IF WorkerHolds THEN 1 ELSE 0)
    /\ freed <=> submit # "new" /\ refs = 0
    /\ submit = "rejected" => freed

(* The result is moved to at most one client, and it is there until then.  *)
ResultMovedOnce ==
    /\ Cardinality(takers) <= 1
    /\ status \in Terminal /\ takers = {} => result = "held"

(* Who finds the execution cancelled or timed out finds the reason with    *)
(* it: a late cancel does not relabel a timeout.                           *)
StatusHasReason ==
    /\ status = "cancelled" => reason \in UserReasons
    /\ status = "timed_out" => reason = "deadline"

(* Every wait on an accepted execution returns with a terminal status, and *)
(* the worker of an accepted execution ends, the terminal hook called.     *)
WaitsReturn ==
    /\ \A c \in Clients : client[c] = "asleep" ~> client[c] # "asleep" /\ status \in Terminal
    /\ worker = "queued" ~> worker = "done" /\ hooks = HookCalls

(* References are exact, the result moves once and a status has its reason *)
(* (turbo_agent_execution.c).                                              *)
ExecutionSound == RefsExact /\ ResultMovedOnce /\ StatusHasReason

=============================================================================
