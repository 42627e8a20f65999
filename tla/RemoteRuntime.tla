---------------------------- MODULE RemoteRuntime ----------------------------
(***************************************************************************)
(* The remote runtime: the JSON-RPC client with its retries                *)
(* (src/agent/src/turbo_agent_runtime_remote_client.c) and the dispatcher  *)
(* it calls (src/agent/src/turbo_agent_runtime_remote.c), with a transport *)
(* between them that loses requests, loses replies after the method was    *)
(* executed, refuses and delivers a late reply.                            *)
(*                                                                         *)
(* A client function is what it puts into params and what it takes out of  *)
(* the result; a handler is what it refuses to do without and what it      *)
(* answers.  Values are left out: a present field has its type.            *)
(***************************************************************************)
EXTENDS Integers, FiniteSets, Sequences, TLC

CONSTANT IdBits     \* width of next_request_id (64 in the code)

(* One client function: method, fields always sent, fields sent when the   *)
(* caller passes them, fields extracted.                                   *)
Fn(method, sends, may, takes) ==
    [method |-> method, sends |-> sends, may |-> may, takes |-> takes]

(* One handler: fields it refuses to be without, a choice of fields of     *)
(* which it refuses to have none, fields it answers.                       *)
HandlerOf(needs, some, gives) == [needs |-> needs, some |-> some, gives |-> gives]
Handler(needs, gives) == HandlerOf(needs, {}, gives)

-----------------------------------------------------------------------------
(* The client's functions *)

RunFields == {"summary", "state"}

CStartupDiagnostics == Fn("runtime.getStartupDiagnostics", {"graph_name"}, {}, {})
CStart == Fn("runtime.start", {"graph_name"}, {"thread_id", "state", "options"}, RunFields)
CResume == Fn("runtime.resume", {"graph_name", "checkpoint_id"}, {"state", "options"}, RunFields)
CFork == Fn("runtime.fork", {"graph_name", "checkpoint_id"}, {"state", "options"}, RunFields)
CResumeThreadCommand == Fn("runtime.resumeThreadCommandJsonValueGraph",
                           {"graph_name", "thread_id", "command"}, {"options"}, RunFields)
CForkThreadCommand == Fn("runtime.forkThreadCommandJsonValueGraph",
                         {"graph_name", "thread_id", "command"}, {"options"}, RunFields)
CObservabilityIndex == Fn("runtime.getThreadObservabilityIndex", {"thread_id"}, {}, {"index"})
CTimeline == Fn("runtime.getThreadObservabilityIndex", {"thread_id"}, {},
                {"index", "index.thread_timeline"})
CBranchTree == Fn("runtime.getThreadObservabilityIndex", {"thread_id"}, {},
                  {"index", "index.branch_tree"})
CListIndexes == Fn("runtime.listObservabilityIndexesFiltered", {}, {"filters"}, {"indexes"})
CListChildRuns == Fn("runtime.listChildRuns", {"parent_agent_run_id"}, {}, {"runs"})
CThreadState == Fn("runtime.getThreadState", {"thread_id"}, {}, {"state"})
CCheckpointContext == Fn("runtime.getCheckpointContext", {"checkpoint_id"}, {}, {"context"})
CRun == Fn("runtime.getRun", {"run_id"}, {}, {"run"})
CCheckpoint == Fn("runtime.getCheckpoint", {"checkpoint_id"}, {}, {"checkpoint"})
CListCheckpoints == Fn("runtime.listCheckpoints", {"run_id"}, {}, {"checkpoints"})
CRunHistory == Fn("runtime.loadHistoryEvents", {"run_id"}, {}, {"events"})
CCheckpointHistory == Fn("runtime.loadHistoryEvents", {"checkpoint_id"}, {}, {"events"})
CHistoryOfBoth == Fn("runtime.loadHistoryEvents", {"run_id", "checkpoint_id"}, {}, {"events"})
CRunTrace == Fn("runtime.getRunTraceEvents", {"run_id"}, {}, {"events"})
CCheckpointTrace == Fn("runtime.getCheckpointTraceEvents", {"checkpoint_id"}, {}, {"events"})
CGetRecord == Fn("memory.getRecord", {"memory_namespace", "key"}, {}, {"record"})
CDeleteRecord == Fn("memory.deleteRecord", {"namespace", "key"}, {}, {"deleted"})
CPutRecord == Fn("memory.putRecord", {"record"}, {}, {"record"})
CValidateRecord == Fn("memory.validateRecord", {"record"}, {}, {"valid"})
CQueryRecords == Fn("memory.queryRecordsEx", {}, {"query"}, {"records"})
CListRecords == Fn("memory.listRecords", {}, {"namespace_prefix"}, {"records"})

(* Methods without a function of their own, called with call_json *)
DirectCalls ==
    {Fn("runtime.applyCommand", {"checkpoint_id", "command"}, {}, {"state"}),
     Fn("runtime.updateThreadState", {"thread_id", "state_patch"}, {}, {"state"}),
     Fn("runtime.resumeThreadJsonValueGraph", {"graph_name", "thread_id"}, {"state"}, RunFields),
     Fn("runtime.resumeThreadStatePatchJsonValueGraph",
        {"graph_name", "thread_id", "state_patch"}, {}, RunFields)}

(* get_supervisor_inspect, get_orchestration_inspect and get_child_inspect *)
(* with and without a checkpoint: several calls, given up at the first     *)
(* that fails (get_child_multi_agent_inspect is one after the other).      *)
SupervisorInspect == <<CThreadState>>
OrchestrationInspect == <<CThreadState, CTimeline, CListChildRuns>>
ChildInspectAt ==
    <<CRun, CListCheckpoints, CCheckpoint, CCheckpointContext, CCheckpointHistory,
      CCheckpointTrace, CTimeline>>
ChildInspect == <<CRun, CListCheckpoints, CRunHistory, CRunTrace, CBranchTree>>

Plans ==
    {<<f>> : f \in {CStartupDiagnostics, CStart, CResume, CFork, CResumeThreadCommand,
        CForkThreadCommand, CObservabilityIndex, CListIndexes, CCheckpoint, CCheckpointContext,
        CRunHistory, CCheckpointHistory, CHistoryOfBoth, CRunTrace, CCheckpointTrace, CBranchTree,
        CGetRecord, CDeleteRecord, CPutRecord, CValidateRecord, CQueryRecords, CListRecords}
        \union DirectCalls}
    \union {SupervisorInspect, OrchestrationInspect, ChildInspect, ChildInspectAt}

-----------------------------------------------------------------------------
(* The dispatcher's handlers *)

SStart == Handler({"graph_name"}, RunFields)
SStartupDiagnostics == Handler({}, {"ok", "errors"})
SResumeOrFork == Handler({"graph_name", "checkpoint_id"}, RunFields)
SThreadCommandRun == Handler({"graph_name", "thread_id", "command"}, RunFields)
SThreadStateRun == Handler({"graph_name", "thread_id"}, RunFields)
SThreadStatePatchRun == Handler({"graph_name", "thread_id", "state_patch"}, RunFields)
SApplyCommand == Handler({"checkpoint_id", "command"}, {"state"})
SUpdateThreadState == Handler({"thread_id", "state_patch"}, {"state"})
SThreadState == Handler({"thread_id"}, {"state"})
SCheckpointContext == Handler({"checkpoint_id"}, {"context"})
SRun == Handler({"run_id"}, {"run"})
SCheckpoint == Handler({"checkpoint_id"}, {"checkpoint"})
SListCheckpoints == Handler({"run_id"}, {"checkpoints"})
SLoadHistory == HandlerOf({}, {"run_id", "checkpoint_id"}, {"events"})
SRunTrace == Handler({"run_id"}, {"events"})
SCheckpointTrace == Handler({"checkpoint_id"}, {"events"})
SObservabilityIndex ==
    Handler({"thread_id"}, {"index", "index.thread_timeline", "index.branch_tree"})
SListIndexes == Handler({}, {"indexes"})
SListChildRuns == Handler({"parent_agent_run_id"}, {"runs"})
SGetRecord == Handler({"memory_namespace", "key"}, {"record"})
SDeleteRecord == Handler({"namespace", "key"}, {"deleted"})
SPutRecord == Handler({"record"}, {"record"})
SValidateRecord == Handler({"record"}, {"valid"})
SQueryRecords == Handler({}, {"records"})
SListRecords == Handler({}, {"records"})

(* turbo_agent_runtime_remote_dispatch_method *)
Handlers ==
    "runtime.start" :> SStart @@ "runtime.resume" :> SResumeOrFork
    @@ "runtime.fork" :> SResumeOrFork
    @@ "runtime.resumeThreadCommandJsonValueGraph" :> SThreadCommandRun
    @@ "runtime.forkThreadCommandJsonValueGraph" :> SThreadCommandRun
    @@ "runtime.resumeThreadJsonValueGraph" :> SThreadStateRun
    @@ "runtime.forkThreadJsonValueGraph" :> SThreadStateRun
    @@ "runtime.resumeThreadStatePatchJsonValueGraph" :> SThreadStatePatchRun
    @@ "runtime.forkThreadStatePatchJsonValueGraph" :> SThreadStatePatchRun
    @@ "runtime.applyCommand" :> SApplyCommand
    @@ "runtime.applyThreadStatePatch" :> SUpdateThreadState
    @@ "runtime.updateThreadState" :> SUpdateThreadState
    @@ "runtime.getThreadState" :> SThreadState @@ "runtime.getRun" :> SRun
    @@ "runtime.getCheckpoint" :> SCheckpoint @@ "runtime.listCheckpoints" :> SListCheckpoints
    @@ "runtime.getCheckpointContext" :> SCheckpointContext
    @@ "runtime.loadHistoryEvents" :> SLoadHistory @@ "runtime.getRunTraceEvents" :> SRunTrace
    @@ "runtime.getCheckpointTraceEvents" :> SCheckpointTrace
    @@ "runtime.getStartupDiagnostics" :> SStartupDiagnostics
    @@ "runtime.getThreadObservabilityIndex" :> SObservabilityIndex
    @@ "runtime.listObservabilityIndexesFiltered" :> SListIndexes
    @@ "runtime.listChildRuns" :> SListChildRuns @@ "memory.deleteRecord" :> SDeleteRecord
    @@ "memory.getRecord" :> SGetRecord @@ "memory.listRecords" :> SListRecords
    @@ "memory.putRecord" :> SPutRecord @@ "memory.queryRecordsEx" :> SQueryRecords
    @@ "memory.validateRecord" :> SValidateRecord

(* turbo_agent_runtime_remote_dispatch_jsonrpc: what it answers to params; *)
(* "internal" is a method that was executed and failed.                    *)
Answer(method, params, works) ==
    IF method \notin DOMAIN Handlers THEN "not_found"
    ELSE LET h == Handlers[method]
         IN IF ~(h.needs \subseteq params) \/ (h.some # {} /\ h.some \intersect params = {})
            THEN "invalid_params"
            ELSE IF ~works \/ (h.some # {} /\ h.some \subseteq params) THEN "internal"
            ELSE "result"

-----------------------------------------------------------------------------
(* The client *)

VARIABLES
    nextId,     \* next_request_id
    plan,       \* the calls that are left, the current one first
    rpc,        \* the call that runs: attempts left, sent, executions
    replies,    \* replies on their way: [id, method, answer]
    outcome     \* what the last call returned

remoteVars == <<nextId, plan, rpc, replies, outcome>>

NoRpc == [id |-> 0, method |-> "none", params |-> {}, left |-> 0, sent |-> FALSE, served |-> 0]

(* method_retryable: reads, told by the beginning of their names *)
Begins(method, p) == Len(method) >= Len(p) /\ SubSeq(method, 1, Len(p)) = p
Retryable(method) ==
    \/ \E p \in {"runtime.get", "runtime.list", "runtime.load", "runtime.replay",
                  "memory.get", "memory.list", "memory.query"} : Begins(method, p)
    \/ method = "memory.validateRecord"

MaxAttempts(method) == IF Retryable(method) THEN 3 ELSE 2

RemoteInit == nextId = 1 /\ plan = <<>> /\ rpc = NoRpc /\ replies = {} /\ outcome = "none"

(* A caller enters one of the client's functions. *)
Enter ==
    /\ rpc = NoRpc /\ plan = <<>>
    /\ plan' \in Plans /\ outcome' = "none"
    /\ UNCHANGED <<nextId, rpc, replies>>

Request(f) ==
    \E extra \in {{}, f.may} :
        rpc' = [NoRpc EXCEPT !.id = nextId, !.method = f.method,
                             !.params = f.sends \union extra, !.left = MaxAttempts(f.method)]

(* turbo_agent_runtime_remote_client_call_json takes an id; a counter that *)
(* came round to zero refuses every call.                                  *)
CallJson ==
    /\ rpc = NoRpc /\ plan # <<>>
    /\ IF nextId = 0
       THEN plan' = <<>> /\ outcome' = "refused" /\ UNCHANGED <<nextId, rpc>>
       ELSE /\ Request(plan[1]) /\ nextId' = (nextId + 1) % 2^IdBits
            /\ UNCHANGED <<plan, outcome>>
    /\ UNCHANGED replies

(* The request reaches the dispatcher, which executes it; of the replies   *)
(* that are on their way the transport may hold one result back.           *)
Serve ==
    /\ rpc # NoRpc /\ ~rpc.sent
    /\ rpc' = [rpc EXCEPT !.sent = TRUE, !.served = @ + 1]
    /\ \E works \in BOOLEAN,
           late \in {{}} \union {{r} : r \in {q \in replies : q.answer = "result"}} :
          replies' = late \union {[id |-> rpc.id, method |-> rpc.method,
                                   answer |-> Answer(rpc.method, rpc.params, works)]}
    /\ UNCHANGED <<nextId, plan, outcome>>

(* The call ends: the rest of the plan goes on after a result only. *)
FinishCall(result) ==
    /\ outcome' = result /\ rpc' = NoRpc
    /\ plan' = IF result = "ok" THEN Tail(plan) ELSE <<>>
    /\ UNCHANGED nextId

(* chttp_post failed, before or after the request was executed: try again  *)
(* under the same id while attempts are left.  The reply may still come.   *)
TransportFails ==
    /\ rpc # NoRpc
    /\ IF rpc.left > 1
       THEN /\ rpc' = [rpc EXCEPT !.left = @ - 1, !.sent = FALSE]
            /\ UNCHANGED <<nextId, plan, outcome>>
       ELSE FinishCall("transport")
    /\ UNCHANGED replies

(* An HTTP status outside 200..299, or no body *)
HttpRefused == rpc # NoRpc /\ FinishCall("http") /\ UNCHANGED replies

(* Variant: the id of a response is not compared. *)
ReceiveUnchecked(r) ==
    /\ rpc.sent /\ replies' = replies \ {r}
    /\ FinishCall(IF r.answer # "result" THEN r.answer
              ELSE IF plan[1].takes \subseteq Handlers[rpc.method].gives THEN "ok"
              ELSE "malformed")

(* The response: parsed, its id compared (response_id), an error object    *)
(* told apart from a result, the fields extracted.                         *)
Receive(r) ==
    /\ rpc.sent /\ replies' = replies \ {r}
    /\ FinishCall(IF r.id # rpc.id THEN "mismatch"
              ELSE IF r.answer # "result" THEN r.answer
              ELSE IF plan[1].takes \subseteq Handlers[rpc.method].gives THEN "ok"
              ELSE "malformed")

RemoteNext ==
    \/ Enter \/ CallJson \/ Serve \/ TransportFails \/ HttpRefused
    \/ \E r \in replies : Receive(r)

RemoteSpec == RemoteInit /\ [][RemoteNext]_remoteVars

-----------------------------------------------------------------------------
(* Every client function and the handler it reaches agree: whatever        *)
(* optional fields a caller passes, the dispatcher knows the method, finds *)
(* the fields it needs under the names the client uses, and answers the    *)
(* fields the client extracts (each dispatch_* against its wrapper).       *)
CallsServed == outcome \notin {"not_found", "invalid_params", "malformed"}

(* However often a request is repeated, lost or answered late, a call that *)
(* returns a result returns one computed for it, and its method was        *)
(* executed at least once and no oftener than attempts were made: three    *)
(* times for a method that only reads, twice for one that changes state    *)
(* (turbo_agent_runtime_remote_client_call_json).  Ids never come round.   *)
ResultIsOwnStep ==
       /\ outcome' = "ok" /\ rpc # NoRpc /\ rpc' = NoRpc =>
            rpc.served > 0 /\ \E r \in replies \ replies' : r.method = rpc.method /\ r.id = rpc.id
       /\ rpc.served <= MaxAttempts(rpc.method) - rpc.left + 1
ResultIsOwn == [][ResultIsOwnStep]_remoteVars
=============================================================================
