---------------------------- MODULE JobExecution ----------------------------
(***************************************************************************)
(* Executing, reviewing and delivering the Inspect attempt bound to a Job  *)
(* (src/harness/src/turbo_agent_harness.c and turbo_agent_job_*.c).        *)
(*                                                                         *)
(* Several Harnesses, each in a process of its own that may die at any     *)
(* moment, share one Runtime Store.  A Harness runs one operation at a     *)
(* time (begin_submit/end_submit); op[h] is that operation, with its       *)
(* program counter and its cancellation token.  Each write to the store is *)
(* a step of its own, which may fail, or take effect and report an error,  *)
(* and so is each read of what another call may still change.  A read of   *)
(* records that never change once written, and the read of an attempt or a *)
(* journal that only this call changes, is part of the write it precedes.  *)
(* The result of a tool callback is named by the call that ran it, so two  *)
(* runs of one callback would have different results.                      *)
(***************************************************************************)
EXTENDS Job, FiniteSets

CONSTANTS
    Harnesses,
    Ids,            \* admission ids, which are also the observation ids
    Deliveries,     \* delivery ids
    Kinds,          \* the kinds of operation the Host starts
    MaxCalls,       \* operations started on all Harnesses
    MaxFaults,      \* writes that report an error, and crashes
    MaxPolicies     \* changes of a Host's tool policy

Calls == 1..MaxCalls
Generations == 1..(MaxPolicies + 1)
Background == {"volatile", "recorded", "admitted", "receipted"}

AttemptRecords ==
    [phase : {"started", "committed", "outcome_unknown"}, plan : Sources, gen : Nat,
     exec : Nat, result : Nat \cup {None}]

ASSUME ExecutionConstants ==
    /\ {MaxCalls, MaxFaults, MaxPolicies} \subseteq Nat
    /\ None \notin AttemptRecords
    /\ Kinds \subseteq Background \cup {"direct", "job", "review"}

(* None is told apart from the values that stand beside it. *)
ASSUME NoneIsApart ==
    /\ None \notin Requests /\ None \notin {"user", "deadline", "shutdown"}
    /\ None \notin [rev : Nat, request : Requests]
    /\ None \notin [attempt : Attempts, call : Nat, plan : Sources, gen : Nat]
    /\ None \notin [phase : {"started", "committed", "outcome_unknown"}, attempt : Attempts,
                    plan : Sources, gen : Nat]
    /\ None \notin [supervisor : Nat, selection : {"run", "rejected", "pool_cancelled"}]

VARIABLES
    attempts,       \* compiled_inspect_attempts, by attempt
    journals,       \* the compiled execution journal, by call
    runs,           \* the calls whose Runtime Run is stored as completed
    admissions,     \* admission intents: the supervising call, by id
    receipts,       \* queue receipts, by id
    observations,   \* terminal observations, by id
    acceptance,     \* the acceptance record of the Job, or None
    intent,         \* the delivery intent of the Job, or None
    delivery,       \* the delivery receipt of the Job, or None
    authority,      \* authority[h]: generation of the Host tool policy
    op,             \* op[h]: the operation holding Harness h, or None
    bounds,         \* how much of each bound is used
    entered,        \* history: callbacks entered
    got,            \* history: results handed to the Host
    lateCalls       \* history: Job calls begun after the Job was cancelled

records == <<admissions, receipts, observations>>
reviews == <<acceptance, intent, delivery>>
executionStore == <<attempts, journals, runs, records, reviews>>
history == <<entered, got, lateCalls>>
vars == <<jobVars, executionStore, authority, op, bounds, history>>

Init ==
    /\ JobInit
    /\ attempts = [a \in Attempts |-> None]
    /\ journals = [c \in Calls |-> None]
    /\ runs = {}
    /\ admissions = [i \in Ids |-> None]
    /\ receipts = [i \in Ids |-> None]
    /\ observations = [i \in Ids |-> None]
    /\ acceptance = None /\ intent = None /\ delivery = None
    /\ authority = [h \in Harnesses |-> 1]
    /\ op = [h \in Harnesses |-> None]
    /\ bounds = [calls |-> 0, faults |-> 0, policies |-> 0]
    /\ entered = {} /\ got = {} /\ lateCalls = {}

-----------------------------------------------------------------------------
(* Codes, and the store's answer to a write.                               *)

At(h, pc) == op[h] # None /\ op[h].pc = pc
Goto(h, r) == op' = [op EXCEPT ![h] = r]
StepTo(h, pc) == Goto(h, [op[h] EXCEPT !.pc = pc])
IsJob(h) == op[h].kind # "direct"
IsBackground(h) == op[h].kind \in Background

(* A write with outcome o other than "ok" uses up one fault. *)
Fault == bounds.faults < MaxFaults /\ bounds' = [bounds EXCEPT !.faults = @ + 1]
Store(o) == IF o = "ok" THEN UNCHANGED bounds ELSE Fault

Overwritten(old, new, o) == IF o = "fail" THEN old ELSE new

(* turbo_cancel_token_check: the first reason to arrive wins. *)
TokenStatus(t) ==
    CASE t = None -> "ok" [] t = "deadline" -> "timed_out" [] OTHER -> "cancelled"
Signalled(t, reason) == IF t = None THEN reason ELSE t

(* turbo_agent_harness_require_job_active: a request recorded for another  *)
(* revision is unreadable control evidence.                                *)
ActiveStatus ==
    CASE cancellation = None -> "ok"
      [] cancellation # None /\ cancellation.rev = Revision -> "cancelled"
      [] OTHER -> "error"

(* The first code of a chain of checks that is not "ok". *)
First(a, b) == IF a # "ok" THEN a ELSE b

AuthorityStatus(h) == IF authority[h] = op[h].gen THEN "ok" ELSE "error"
BoundStatus(rev) == IF HeadReadable /\ IsBound /\ Revision = rev THEN "ok" ELSE "error"

ToolFor(rc, tool) ==
    CASE rc = "cancelled" -> "cancelled" [] rc = "timed_out" -> "deadline" [] OTHER -> tool

-----------------------------------------------------------------------------
(* Starting an operation.                                                  *)

Operation(kind, pc) ==
    [kind |-> kind, pc |-> pc, call |-> bounds.calls + 1, rev |-> Revision,
     id |-> None, attempt |-> None, plan |-> None, gen |-> 0,
     token |-> None, request |-> None, closed |-> FALSE, held |-> TRUE,
     dispatched |-> TRUE, receipt |-> None, rc |-> None, tool |-> "error",
     ref |-> None, result |-> None, obs |-> None, recorded |-> None]

(* begin_submit: an operation in progress refuses another. *)
BeginSubmit(h, r) ==
    /\ op[h] = None /\ bounds.calls < MaxCalls
    /\ Goto(h, r)
    /\ bounds' = [bounds EXCEPT !.calls = @ + 1]
    /\ lateCalls' = IF cancellation # None /\ r.kind # "direct"
                    THEN lateCalls \cup {r.call} ELSE lateCalls
    /\ UNCHANGED <<jobVars, executionStore, authority, entered, got>>

(* execute_compiled_inspect_attempt_json: the Host names plan and attempt. *)
ExecuteAttempt(h, a, p) ==
    /\ "direct" \in Kinds
    /\ BeginSubmit(h, [Operation("direct", "admit") EXCEPT !.attempt = a, !.plan = p])

(* execute_job_inspect_json *)
ExecuteJob(h) == "job" \in Kinds /\ BeginSubmit(h, Operation("job", "admit"))

(* submit: a supervised execution on the thread pool. *)
Submit(h, kind, i) ==
    /\ kind \in Kinds \cap Background
    /\ (kind = "volatile") <=> (i = None)
    /\ BeginSubmit(h, [Operation(kind, IF kind \in {"admitted", "receipted"}
                                       THEN "intent" ELSE "enqueue") EXCEPT !.id = i])

(* Faulty variant: the cancellation record is not consulted. *)
AdmissionCheckUnfenced(h) ==
    /\ At(h, "intent")
    /\ IF BoundStatus(op[h].rev) = "ok" THEN StepTo(h, "admission") ELSE Goto(h, None)
    /\ UNCHANGED <<jobVars, executionStore, authority, bounds, history>>

(* admission_write reads the Job and its cancellation record: the Job may  *)
(* be cancelled between this and the write of the intent.                  *)
AdmissionCheck(h) ==
    /\ At(h, "intent")
    /\ IF First(BoundStatus(op[h].rev), ActiveStatus) = "ok"
       THEN StepTo(h, "admission") ELSE Goto(h, None)
    /\ UNCHANGED <<jobVars, executionStore, authority, bounds, history>>

(* The conditional insert of admission_write, then out with end_submit     *)
(* unless it was acknowledged.                                             *)
AdmissionWrite(h, o) ==
    /\ At(h, "admission") /\ Store(o)
    /\ LET i == op[h].id
       IN  /\ admissions' = [admissions EXCEPT ![i] = Inserted(@, op[h].call, o)]
           /\ IF Acknowledged(admissions[i], o) THEN StepTo(h, "enqueue") ELSE Goto(h, None)
    /\ UNCHANGED <<jobVars, attempts, journals, runs, receipts, observations,
                   reviews, authority, history>>

(* cmeta_threadpool_try_submit_task. *)
Enqueue(h, accepted) ==
    /\ At(h, "enqueue")
    /\ IF accepted THEN StepTo(h, "queued")
       ELSE IF op[h].kind = "receipted" THEN StepTo(h, "rejected") ELSE Goto(h, None)
    /\ UNCHANGED <<jobVars, executionStore, authority, bounds, history>>

(* queue_receipt_write: only the supervisor that holds the intent writes.  *)
ReceiptStatus(h, o) ==
    IF BoundStatus(op[h].rev) = "ok" /\ admissions[op[h].id] = op[h].call
          /\ Acknowledged(receipts[op[h].id], o)
    THEN "ok" ELSE "error"
WriteReceipt(h, selection, o) ==
    /\ Store(o)
    /\ receipts' =
          IF BoundStatus(op[h].rev) = "ok" /\ admissions[op[h].id] = op[h].call
          THEN [receipts EXCEPT ![op[h].id] =
                   Inserted(@, [supervisor |-> op[h].call, selection |-> selection], o)]
          ELSE receipts
    /\ UNCHANGED <<jobVars, attempts, journals, runs, admissions, observations,
                   reviews, authority, history>>

RejectionReceipt(h, o) ==
    /\ At(h, "rejected") /\ WriteReceipt(h, "rejected", o) /\ Goto(h, None)

(* settle, after its receipt: run Inspect, or cancel what never ran. *)
Dispatched(r) ==
    IF r.dispatched THEN [r EXCEPT !.pc = "admit"]
    ELSE [r EXCEPT !.pc = "close", !.token = Signalled(@, "shutdown"),
                   !.rc = "cancelled", !.tool = "cancelled"]

(* The pool runs the task, or drops it when it shuts down. *)
Select(h, run) ==
    /\ At(h, "queued")
    /\ LET r == [op[h] EXCEPT !.dispatched = run]
       IN  Goto(h, IF r.kind = "receipted" THEN [r EXCEPT !.pc = "receipt"] ELSE Dispatched(r))
    /\ UNCHANGED <<jobVars, executionStore, authority, bounds, history>>

QueueReceipt(h, o) ==
    /\ At(h, "receipt")
    /\ WriteReceipt(h, IF op[h].dispatched THEN "run" ELSE "pool_cancelled", o)
    /\ LET r == [op[h] EXCEPT !.receipt = ReceiptStatus(h, o)]
       IN  Goto(h, IF r.receipt = "ok" THEN Dispatched(r)
                   ELSE [r EXCEPT !.pc = "close", !.rc = "error"])

-----------------------------------------------------------------------------
(* One Inspect (execute_compiled_inspect_attempt_impl and its graph).      *)

(* Inspect returns rc: a synchronous caller has its answer and the         *)
(* reservation ends; a supervised execution goes on to settle.             *)
Ended(h, rc, tool) ==
    Goto(h, IF IsBackground(h)
            THEN [op[h] EXCEPT !.pc = "close", !.rc = rc, !.tool = ToolFor(rc, tool)]
            ELSE None)

(* Admission: the Job is bound at the expected revision and not cancelled, *)
(* the source verifies and compiles, the token is not cancelled.           *)
Admit(h) ==
    /\ At(h, "admit")
    /\ LET rc == First(IF IsJob(h) THEN First(BoundStatus(op[h].rev), ActiveStatus) ELSE "ok",
                       TokenStatus(op[h].token))
       IN  IF rc # "ok" THEN Ended(h, rc, "error")
           ELSE Goto(h, [op[h] EXCEPT !.pc = "lookup", !.gen = authority[h],
                            !.attempt = IF IsJob(h) THEN BoundAttempt ELSE @,
                            !.plan = IF IsJob(h) THEN BoundSource ELSE @])
    /\ UNCHANGED <<jobVars, executionStore, authority, bounds, history>>

(* The Host's verifier, the compiler, an allocation or a read of the store *)
(* fails; a verifier's own status is returned as it is.                    *)
Refuse(h, rc) ==
    /\ At(h, "admit") \/ At(h, "lookup") \/ (At(h, "deliver") /\ IsJob(h))
    /\ rc # "error" => IsJob(h) /\ ~At(h, "lookup")
    /\ Ended(h, rc, "error")
    /\ UNCHANGED <<jobVars, executionStore, authority, bounds, history>>

SameContract(r, h) == r.plan = op[h].plan /\ r.gen = op[h].gen

(* The admit and start nodes and the gates of the execute node, then the   *)
(* lookup of the attempt: absent may be claimed, committed is replayed,    *)
(* and a started or unknown one is never dispatched again.                 *)
Lookup(h) ==
    /\ At(h, "lookup")
    /\ LET a == attempts[op[h].attempt]
           token == TokenStatus(op[h].token)
           gate == First(AuthorityStatus(h),
                     First(IF IsJob(h) \/ token = "ok" THEN token ELSE "error",
                           IF IsJob(h) THEN ActiveStatus ELSE "ok"))
       IN  CASE gate # "ok" -> Ended(h, gate, "error")
             [] gate = "ok" /\ a = None -> StepTo(h, "claim")
             [] gate = "ok" /\ a # None /\ ~SameContract(a, h) -> Ended(h, "error", "error")
             [] gate = "ok" /\ a # None /\ SameContract(a, h) /\ a.phase = "committed" ->
                   Goto(h, [op[h] EXCEPT !.pc = "replay", !.result = a.result])
             [] OTHER -> StepTo(h, "uncertain")
    /\ UNCHANGED <<jobVars, executionStore, authority, bounds, history>>

AttemptRecord(h, phase, result) ==
    [phase |-> phase, plan |-> op[h].plan, gen |-> op[h].gen, exec |-> op[h].call, result |-> result]
Journal(h, phase) ==
    [phase |-> phase, attempt |-> op[h].attempt, plan |-> op[h].plan, gen |-> op[h].gen]

JournalWrite(h, phase, o) ==
    journals' = [journals EXCEPT ![op[h].call] = Overwritten(@, Journal(h, phase), o)]

(* A step that writes the journal, and goes on only if that is acknowledged. *)
JournalStep(h, from, phase, o, to) ==
    /\ At(h, from) /\ Store(o) /\ JournalWrite(h, phase, o)
    /\ IF o = "ok" THEN StepTo(h, to) ELSE Ended(h, "error", "error")
    /\ UNCHANGED <<jobVars, attempts, runs, records, reviews, authority, history>>

Replay(h, o) == JournalStep(h, "replay", "started", o, "journal_commit")
JournalCommit(h, o) == JournalStep(h, "journal_commit", "committed", o, "finalize")

(* The journal of a claimed attempt.  Nothing is checked between its       *)
(* acknowledgement and the callback, so the same step enters it.           *)
JournalStart(h, o) ==
    /\ At(h, "journal") /\ Store(o) /\ JournalWrite(h, "started", o)
    /\ IF o = "ok"
       THEN /\ StepTo(h, "inside")
            /\ entered' = entered \cup
                  {[attempt |-> op[h].attempt, call |-> op[h].call,
                    id |-> IF op[h].kind = "receipted" THEN op[h].id ELSE None]}
       ELSE Ended(h, "error", "error") /\ UNCHANGED entered
    /\ UNCHANGED <<jobVars, attempts, runs, records, reviews, authority, got, lateCalls>>

(* An uncertain attempt: this Run journals that it does not know either. *)
Uncertain(h, o) ==
    /\ At(h, "uncertain") /\ Store(o)
    /\ JournalWrite(h, IF o = "ok" THEN "outcome_unknown" ELSE "started", o)
    /\ Ended(h, "error", "error")
    /\ UNCHANGED <<jobVars, attempts, runs, records, reviews, authority, history>>

(* Faulty variant: the claim is the earlier read, followed by a put. *)
ClaimByPut(h, o) ==
    /\ At(h, "claim") /\ Store(o)
    /\ attempts' = [attempts EXCEPT ![op[h].attempt] =
                       Overwritten(@, AttemptRecord(h, "started", None), o)]
    /\ IF o = "ok" THEN StepTo(h, "journal") ELSE Ended(h, "error", "error")
    /\ UNCHANGED <<jobVars, journals, runs, records, reviews, authority, history>>

(* attempt_write(started): the conditional insert is the claim. *)
Claim(h, o) ==
    /\ At(h, "claim") /\ Store(o)
    /\ LET a == op[h].attempt
       IN  /\ attempts' = [attempts EXCEPT ![a] = Inserted(@, AttemptRecord(h, "started", None), o)]
           /\ IF Acknowledged(attempts[a], o) THEN StepTo(h, "journal") ELSE Ended(h, "error", "error")
    /\ UNCHANGED <<jobVars, journals, runs, records, reviews, authority, history>>

(* The callback succeeds with a valid result under an unchanged authority, *)
(* or its outcome is unknown.                                              *)
ReturnCallback(h, good) ==
    /\ At(h, "inside")
    /\ IF good /\ AuthorityStatus(h) = "ok"
       THEN Goto(h, [op[h] EXCEPT !.pc = "commit", !.result = op[h].call])
       ELSE StepTo(h, "unknown")
    /\ UNCHANGED <<jobVars, executionStore, authority, bounds, history>>

(* attempt_write of a later phase: only over a started attempt with the    *)
(* same contract.  Since only the call that claimed an attempt gets here,  *)
(* nobody changes it between that read and the put.                        *)
MayAdvance(h) ==
    LET a == attempts[op[h].attempt]
    IN  a # None /\ a.phase = "started" /\ SameContract(a, h)

CommitAttempt(h, o) ==
    /\ At(h, "commit") /\ Store(o)
    /\ attempts' = IF MayAdvance(h)
                   THEN [attempts EXCEPT ![op[h].attempt] =
                            Overwritten(@, AttemptRecord(h, "committed", op[h].result), o)]
                   ELSE attempts
    /\ StepTo(h, IF MayAdvance(h) /\ o = "ok" THEN "journal_commit" ELSE "unknown")
    /\ UNCHANGED <<jobVars, journals, runs, records, reviews, authority, history>>

(* mark_unknown: the attempt first; its journal only if that succeeded. *)
MarkUnknown(h, o) ==
    /\ At(h, "unknown") /\ Store(o)
    /\ attempts' = IF MayAdvance(h)
                   THEN [attempts EXCEPT ![op[h].attempt] =
                            Overwritten(@, AttemptRecord(h, "outcome_unknown", None), o)]
                   ELSE attempts
    /\ IF MayAdvance(h) /\ o = "ok" THEN StepTo(h, "unknown_journal")
       ELSE Ended(h, "error", "error")
    /\ UNCHANGED <<jobVars, journals, runs, records, reviews, authority, history>>

JournalUnknown(h, o) ==
    /\ At(h, "unknown_journal") /\ Store(o)
    /\ JournalWrite(h, "outcome_unknown", o)
    /\ Ended(h, "error", "error")
    /\ UNCHANGED <<jobVars, attempts, runs, records, reviews, authority, history>>

(* turbo_agent_session_start_graph stores the completed Run. *)
Finalize(h, o) ==
    /\ At(h, "finalize") /\ Store(o)
    /\ runs' = IF o = "fail" THEN runs ELSE runs \cup {op[h].call}
    /\ IF o = "ok" THEN StepTo(h, "deliver") ELSE Ended(h, "error", "ok")
    /\ UNCHANGED <<jobVars, attempts, journals, records, reviews, authority, history>>

Reference(h) == [attempt |-> op[h].attempt, call |-> op[h].call,
                 plan |-> op[h].plan, gen |-> op[h].gen]
Handed(h, result) == [call |-> op[h].call, attempt |-> op[h].attempt, result |-> result,
                      cancelled |-> op[h].request # None]

(* The delivery boundary.  A supervised execution keeps the reference and  *)
(* drops the result; any other caller receives it here.                    *)
Deliver(h) ==
    /\ At(h, "deliver")
    /\ LET rc == First(AuthorityStatus(h),
                   IF IsJob(h) THEN First(ActiveStatus, TokenStatus(op[h].token)) ELSE "ok")
       IN  IF rc # "ok" THEN Ended(h, rc, "error") /\ UNCHANGED got
           ELSE IF IsBackground(h)
           THEN /\ Goto(h, [op[h] EXCEPT !.pc = "close", !.rc = "ok", !.tool = "ok",
                                         !.ref = Reference(h), !.result = None])
                /\ UNCHANGED got
           ELSE Goto(h, None) /\ got' = got \cup {Handed(h, op[h].result)}
    /\ UNCHANGED <<jobVars, executionStore, authority, bounds, entered, lateCalls>>

-----------------------------------------------------------------------------
(* Settling a supervised execution (settle, cancel, take_result, release).  *)

(* turbo_agent_job_execution_cancel: the first request before the worker   *)
(* closes is kept, even when a deadline has already won the token.         *)
CancelExecution(h, req) ==
    /\ op[h] # None /\ IsBackground(h) /\ op[h].held
    /\ op[h].pc \notin {"intent", "admission", "enqueue", "rejected"}
    /\ ~op[h].closed /\ op[h].request = None
    /\ Goto(h, [op[h] EXCEPT !.request = req, !.token = Signalled(@, "user")])
    /\ UNCHANGED <<jobVars, executionStore, authority, bounds, history>>

(* The Host cancels the token it passed to a synchronous call, or a        *)
(* deadline passes.                                                        *)
SignalToken(h, reason) ==
    /\ op[h] # None /\ op[h].kind \in Background \cup {"job", "direct"}
    /\ op[h].token = None
    /\ reason = "user" => ~IsBackground(h)
    /\ Goto(h, [op[h] EXCEPT !.token = reason])
    /\ UNCHANGED <<jobVars, executionStore, authority, bounds, history>>

Close(h) ==
    /\ At(h, "close") /\ Goto(h, [op[h] EXCEPT !.pc = "publish_cancel", !.closed = TRUE])
    /\ UNCHANGED <<jobVars, executionStore, authority, bounds, history>>

(* Faulty variant: the state follows from the operation alone. *)
ObservationOfOperation(h, cancelStatus) ==
    LET r == op[h]
    IN  [dispatched |-> r.dispatched, operation |-> r.rc, tool |-> r.tool,
         request |-> r.request, cancelStatus |-> cancelStatus, ref |-> r.ref,
         state |-> CASE r.rc = "ok" -> "completed"
                     [] r.rc \in {"cancelled", "timed_out"} -> r.rc
                     [] OTHER -> "failed"]

(* What the worker observed, from the code of the operation, its token and *)
(* the answer to its own cancellation request.                             *)
Observation(h, cancelStatus) ==
    LET r == op[h]
        delivered == IF r.rc = "ok" THEN TokenStatus(r.token) ELSE r.rc
    IN  [dispatched |-> r.dispatched, operation |-> r.rc, tool |-> r.tool,
         request |-> r.request, cancelStatus |-> cancelStatus, ref |-> r.ref,
         state |-> CASE delivered = "ok" -> "completed"
                     [] delivered \in {"cancelled", "timed_out"} -> delivered
                     [] OTHER -> "failed"]

(* turbo_agent_job_open and request_cancel with the accepted request.      *)
CancelStatus(h, o) ==
    IF op[h].request = None THEN "absent"
    ELSE IF HeadReadable /\ Revision = op[h].rev /\ Acknowledged(cancellation, o) THEN "ok"
    ELSE "error"

PublishCancel(h, o) ==
    /\ At(h, "publish_cancel") /\ Store(o)
    /\ op[h].request = None => o = "ok"
    /\ cancellation' = IF op[h].request # None /\ HeadReadable /\ Revision = op[h].rev
                       THEN Inserted(cancellation, Cancellation(Revision, op[h].request), o)
                       ELSE cancellation
    /\ Goto(h, [op[h] EXCEPT !.pc = "record", !.obs = Observation(h, CancelStatus(h, o))])
    /\ UNCHANGED <<created, revs, client, executionStore, authority, history>>

(* record_valid of turbo_agent_job_observation.c.                          *)
RecordValid(r) ==
    /\ r.request = None => r.cancelStatus = "absent"
    /\ (r.operation = "ok") <=> (r.ref # None)
    /\ ~r.dispatched => r.operation = "cancelled" /\ r.tool = "cancelled"
    /\ CASE r.operation = "ok" ->
              /\ r.tool = "ok" /\ r.state \in {"completed", "cancelled", "timed_out"}
              /\ r.state = "completed" => r.request = None
              /\ r.state = "cancelled" => r.request # None
         [] r.operation = "cancelled" -> r.state = "cancelled" /\ r.tool = "cancelled"
         [] r.operation = "timed_out" -> r.state = "timed_out" /\ r.tool = "deadline"
         [] OTHER -> r.state = "failed"
    /\ r.ref # None => r.ref.attempt = BoundAttempt

(* observation_write and the terminal status.  The worker then drops its   *)
(* reference, and with it the reservation if the Host has released its own. *)
Recording(h) == op[h].id # None /\ (op[h].kind = "receipted" => op[h].receipt = "ok")

Record(h, o) ==
    /\ At(h, "record") /\ Store(o)
    /\ ~Recording(h) => o = "ok"
    /\ LET r == op[h]
           writes == /\ Recording(h) /\ BoundStatus(r.rev) = "ok" /\ RecordValid(r.obs)
           status == CASE ~Recording(h) -> None
                       [] Recording(h) /\ writes /\ Acknowledged(observations[r.id], o) -> "ok"
                       [] OTHER -> "error"
       IN  /\ observations' = IF writes THEN [observations EXCEPT ![r.id] = Inserted(@, r.obs, o)]
                              ELSE observations
           /\ Goto(h, IF ~r.held THEN None
                      ELSE [r EXCEPT !.pc = "terminal", !.recorded = status,
                               !.ref = IF r.obs.state = "completed" THEN @ ELSE None])
    /\ UNCHANGED <<jobVars, attempts, journals, runs, admissions, receipts, reviews,
                   authority, history>>

(* The Host releases its handle, or a take fails. *)
ReleaseHandle(h) ==
    /\ op[h] # None /\ IsBackground(h) /\ op[h].held
    /\ op[h].pc \notin {"intent", "admission", "enqueue", "rejected"}
    /\ Goto(h, IF op[h].pc = "terminal" THEN None ELSE [op[h] EXCEPT !.held = FALSE])
    /\ UNCHANGED <<jobVars, executionStore, authority, bounds, history>>

(* validate_reference_impl, for a proof built under generation g. *)
Validated(ref, g) ==
    /\ ref # None
    /\ ref.attempt = BoundAttempt /\ ref.plan = BoundSource /\ ref.gen = g
    /\ LET a == attempts[ref.attempt]
           j == journals[ref.call]
       IN  /\ a # None /\ a.phase = "committed" /\ a.plan = BoundSource /\ a.gen = g
           /\ j # None /\ j.phase = "committed"
           /\ j.attempt = ref.attempt /\ j.plan = BoundSource /\ j.gen = g
    /\ ref.call \in runs

(* take_result that passes all its checks, up to the retired reservation.  *)
TakeResult(h) ==
    /\ At(h, "terminal") /\ op[h].held
    /\ op[h].kind = "receipted" => op[h].receipt = "ok"
    /\ op[h].rc = "ok"
    /\ op[h].id # None => op[h].recorded = "ok"
    /\ TokenStatus(op[h].token) = "ok"
    /\ BoundStatus(op[h].rev) = "ok" /\ Active
    /\ Validated(op[h].ref, authority[h])
    /\ Goto(h, None)
    /\ got' = got \cup {Handed(h, attempts[op[h].attempt].result)}
    /\ UNCHANGED <<jobVars, executionStore, authority, bounds, entered, lateCalls>>

-----------------------------------------------------------------------------
(* Review and delivery: checks, then one create-if-absent, then out.       *)

Proof(active) == BoundStatus(Revision) = "ok" /\ (active => Active)

Review(h, kind, record) ==
    /\ "review" \in Kinds
    /\ BeginSubmit(h, [Operation(kind, "publish") EXCEPT !.result = record])

(* record_job_acceptance_json, for any reference the Host presents. *)
Accept(h, ref, decision) ==
    /\ Review(h, "accept", [ref |-> ref, decision |-> decision])
    /\ Proof(TRUE) /\ Validated(ref, authority[h])

(* Faulty variant: the decision is not looked at. *)
AcceptedEither(h) == acceptance # None /\ Validated(acceptance.ref, authority[h])

(* load_job_acceptance: the stored acceptance still validates.             *)
Accepted(h) ==
    /\ acceptance # None /\ Validated(acceptance.ref, authority[h])
    /\ acceptance.decision = "accepted"

(* operate(PREPARE) and operate(RECEIPT). *)
PrepareDelivery(h, d) ==
    /\ Review(h, "prepare", d)
    /\ Proof(TRUE) /\ Accepted(h) /\ intent = None /\ delivery = None
RecordDelivery(h, d) ==
    /\ Review(h, "confirm", d)
    /\ Proof(FALSE) /\ Accepted(h) /\ intent = d /\ delivery = None

PublishReview(h, o) ==
    /\ At(h, "publish") /\ Store(o)
    /\ LET kind == op[h].kind
           Write(old, for) == IF kind = for THEN Inserted(old, op[h].result, o) ELSE old
       IN  /\ acceptance' = Write(acceptance, "accept")
           /\ intent' = Write(intent, "prepare")
           /\ delivery' = Write(delivery, "confirm")
    /\ Goto(h, None)
    /\ UNCHANGED <<jobVars, attempts, journals, runs, records, authority, history>>

-----------------------------------------------------------------------------
(* The environment.                                                        *)

(* The Host changes its tool policy. *)
ChangePolicy(h) ==
    /\ bounds.policies < MaxPolicies
    /\ bounds' = [bounds EXCEPT !.policies = @ + 1]
    /\ authority' = [authority EXCEPT ![h] = @ + 1]
    /\ UNCHANGED <<jobVars, executionStore, op, history>>

(* The process dies and is started again: the store is all that is left,   *)
(* and the policy's generation counts from its start again.                *)
Crash(h) ==
    /\ op[h] # None /\ Fault
    /\ Goto(h, None)
    /\ authority' = [authority EXCEPT ![h] = 1]
    /\ UNCHANGED <<jobVars, executionStore, history>>

(* A call of the Job API, in a process of its own. *)
JobCall ==
    /\ JobNext
    /\ UNCHANGED <<executionStore, authority, op, bounds, history>>

References == [attempt : Attempts, call : Calls, plan : Sources, gen : Generations]

Start(h) ==
    \/ ExecuteJob(h)
    \/ \E a \in Attempts, p \in Sources : ExecuteAttempt(h, a, p)
    \/ \E k \in Background, i \in Ids \cup {None} : Submit(h, k, i)
    \/ \E r \in References, d \in {"accepted", "rejected"} : Accept(h, r, d)
    \/ \E d \in Deliveries : PrepareDelivery(h, d) \/ RecordDelivery(h, d)

StoreStep(h, o) ==
    \/ AdmissionWrite(h, o) \/ RejectionReceipt(h, o) \/ QueueReceipt(h, o)
    \/ Replay(h, o) \/ Uncertain(h, o) \/ Claim(h, o) \/ JournalStart(h, o)
    \/ CommitAttempt(h, o) \/ JournalUnknown(h, o) \/ MarkUnknown(h, o) \/ JournalCommit(h, o) \/ Finalize(h, o)
    \/ PublishCancel(h, o) \/ Record(h, o) \/ PublishReview(h, o)

LocalStep(h) ==
    \/ \E b \in BOOLEAN : Enqueue(h, b) \/ Select(h, b) \/ ReturnCallback(h, b)
    \/ \E rc \in {"error", "cancelled", "timed_out"} : Refuse(h, rc)
    \/ AdmissionCheck(h) \/ Admit(h) \/ Lookup(h) \/ Deliver(h) \/ Close(h)

HostStep(h) ==
    \/ \E req \in Requests : CancelExecution(h, req)
    \/ \E reason \in {"user", "deadline"} : SignalToken(h, reason)
    \/ ReleaseHandle(h) \/ TakeResult(h) \/ ChangePolicy(h) \/ Crash(h)

Next ==
    \/ JobCall
    \/ \E h \in Harnesses :
          \/ Start(h) \/ LocalStep(h) \/ HostStep(h)
          \/ \E o \in Outcomes : StoreStep(h, o)

Spec == Init /\ [][Next]_vars

-----------------------------------------------------------------------------
(* The callback of an attempt is entered at most once, over all Harnesses, *)
(* kinds of call, retries, lost acknowledgements and crashes: the claim of *)
(* execute_node is arbitrated by the store alone.                          *)
CallbackOnce == \A x, y \in entered : x.attempt = y.attempt => x = y

(* Every result the Host was ever handed for an attempt, by the call that  *)
(* ran it, by a replay in another process or by a later take_result, is    *)
(* the one committed result of that attempt, and stays so: no mark_unknown *)
(* or late commit replaces it.                                             *)
OneResult ==
    \A g \in got : /\ attempts[g.attempt] # None
                   /\ attempts[g.attempt].phase = "committed"
                   /\ attempts[g.attempt].result = g.result

(* The cancellation record is a fence: a Job call that begins after it was *)
(* stored claims no attempt, enters no callback, leaves no admission and   *)
(* hands over no result.                                                   *)
FenceHolds ==
    \A c \in lateCalls :
       /\ \A i \in Ids : admissions[i] # c
       /\ \A a \in Attempts : attempts[a] # None => attempts[a].exec # c
       /\ \A x \in entered : x.call # c
       /\ \A g \in got : g.call # c

(* An accepted cancel is honoured, whatever it races with: no result of    *)
(* that execution is ever handed over, it never ends completed, and when   *)
(* its terminal status says the request was published, the Job's one       *)
(* cancellation record is that request and not someone else's.             *)
CancelHonoured ==
    /\ \A g \in got : ~g.cancelled
    /\ \A h \in Harnesses :
          At(h, "terminal") /\ op[h].request # None =>
             /\ op[h].obs.state # "completed"
             /\ op[h].obs.cancelStatus = "ok" =>
                   cancellation = Cancellation(op[h].rev, op[h].request)

(* The worker never builds an observation that its own record_valid would  *)
(* refuse, so that every terminal outcome of a race between completion,    *)
(* deadline, cancel and pool shutdown can be recorded.  (An execution      *)
(* whose queue receipt failed records nothing.)                            *)
ObservationValid ==
    \A h \in Harnesses : At(h, "record") /\ Recording(h) => RecordValid(op[h].obs)

(* Every durable fact rests on the one before it: a delivery receipt on an *)
(* intent for the same delivery, an intent on a positive acceptance, an    *)
(* acceptance on a committed attempt of the binding with a committed       *)
(* journal and a completed Run, a completed observation likewise, and a    *)
(* callback run for a queue receipt on the stored receipt of that very     *)
(* supervisor.                                                             *)
Backed(ref) ==
    /\ IsBound /\ ref.attempt = BoundAttempt /\ ref.plan = BoundSource
    /\ attempts[ref.attempt] # None /\ attempts[ref.attempt].phase = "committed"
    /\ journals[ref.call] # None /\ journals[ref.call].phase = "committed"
    /\ ref.call \in runs
EvidenceChain ==
    /\ delivery # None => intent = delivery
    /\ intent # None => acceptance # None /\ acceptance.decision = "accepted"
    /\ acceptance # None => Backed(acceptance.ref)
    /\ \A i \in Ids : observations[i] # None /\ observations[i].ref # None =>
          Backed(observations[i].ref)
    /\ \A x \in entered : x.id # None =>
          receipts[x.id] = [supervisor |-> x.call, selection |-> "run"]

\* A Job's callback runs at most once and its history has one result (turbo_agent_job_execution.c).
ExecutesOnce == CallbackOnce /\ OneResult

\* A cancellation that was stored is honoured, and what a caller is told holds of the Job
\* (turbo_agent_job_execution.c).
OutcomeHonest == CancelHonoured /\ ObservationValid
=============================================================================
