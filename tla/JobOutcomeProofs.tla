-------------------------- MODULE JobOutcomeProofs --------------------------
(***************************************************************************)
(* Proofs about what JobExecution leaves behind, for any number of         *)
(* Harnesses, calls, faults and policy changes: an accepted cancel is      *)
(* honoured, every outcome can be recorded, and every record of a review   *)
(* or a delivery rests on the one before it.                               *)
(***************************************************************************)
EXTENDS JobExecutionProofs

Fields == {"kind", "pc", "call", "rev", "id", "attempt", "plan", "gen", "token", "request",
           "closed", "held", "dispatched", "receipt", "rc", "tool", "ref", "result", "obs",
           "recorded"}
Codes == {"ok", "error", "cancelled", "timed_out"}

(* Whether the record of an execution says that it writes an observation. *)
Records(r) == r.id # None /\ (r.kind = "receipted" => r.receipt = "ok")

(* The token of an execution: the first reason to stop it, which is a      *)
(* user's only if a request was kept and the pool's only if it never ran.  *)
TokenOK(r) ==
    /\ r.request # None => r.kind \in Background /\ r.token # None
    /\ r.token \in {None, "user", "deadline", "shutdown"}
    /\ r.kind \in Background /\ r.token = "user" => r.request # None
    /\ r.token = "shutdown" => r.pc \in Settling
    /\ ~r.dispatched => r.pc \in Settling \cup {"receipt"}

(* The codes an Inspect ends with fit each other and the reference. *)
CodesOK(r) ==
    /\ r.kind \in Background
    /\ r.rc \in Codes
    /\ (r.rc = "ok") <=> (r.ref # None)
    /\ r.rc = "ok" => r.tool = "ok"
    /\ r.rc = "cancelled" => r.tool = "cancelled"
    /\ r.rc = "timed_out" => r.tool = "deadline"
    /\ ~r.dispatched /\ (r.kind = "receipted" => r.receipt = "ok") => r.rc = "cancelled"
    /\ r.token = "shutdown" => r.rc = "cancelled"

(* What the worker observed agrees with the request it kept, and with the  *)
(* Job's cancellation if it published it.                                  *)
ObservedOK(r) ==
    /\ r.obs.state = "completed" => r.request = None
    /\ r.request # None /\ r.obs.cancelStatus = "ok" =>
          cancellation # None /\ cancellation = Cancellation(r.rev, r.request)

OutcomeOK(r) ==
    /\ Fields \subseteq DOMAIN r
    /\ r.rev \in Nat /\ r.request \in Requests \cup {None}
    /\ TokenOK(r)
    /\ r.pc \in {"intent", "admission", "enqueue", "queued", "rejected"} \cup Settling => r.kind \in Background
    /\ r.pc = "receipt" => r.kind = "receipted"
    /\ r.pc \in {"publish_cancel", "record", "terminal"} => r.closed
    /\ r.pc \in Admitted /\ r.kind # "direct" => IsBound /\ r.attempt = BoundAttempt
    /\ r.ref # None => IsBound /\ r.ref.attempt = BoundAttempt
    /\ r.pc \in {"close", "publish_cancel"} => CodesOK(r)
    /\ r.pc = "record" => r.obs.ref = r.ref /\ (Records(r) => RecordValid(r.obs))
    /\ r.pc \in {"record", "terminal"} => ObservedOK(r)

(* The inductive invariant behind OutcomeHonest. *)
OutcomeInv ==
    /\ \A h \in Harnesses : op[h] # None => OutcomeOK(op[h])
    /\ \A g \in got : ~g.cancelled

-----------------------------------------------------------------------------
(* What stays.                                                             *)

(* A binding ends the history: no write still to come finds room after it. *)
LEMMA BoundStays ==
    ASSUME JobInv, IsBound, JobNext
    PROVE  \A i \in Revisions : revs'[i] = revs[i]
<1>1. /\ Revision \in Revisions /\ revs[Revision] # None
      /\ revs[Revision].kind = "attempt_bound"
  BY Zenon, RevisionIsLast DEF IsBound, Kind
<1>2. \A j \in 1..(Revision - 1) : revs[j] # None
  BY Zenon, <1>1 DEF JobInv, FitsAt
<1>3. ASSUME NEW c \in Clients, NEW o \in Outcomes, Publish(c, o), client[c].to = "revision"
      PROVE  \A i \in Revisions : revs'[i] = revs[i]
  <2>1. client[c] # None
    BY Zenon, <1>3 DEF Publish
  <2> DEFINE k == client[c].key
  <2>2. k \in Revisions /\ \A j \in 1..(k - 1) : revs[j].kind # "attempt_bound"
    BY Zenon, <1>3, <2>1 DEF JobInv, FitsAt
  <2>3. Revision \notin 1..(k - 1)
    BY Zenon, <1>1, <2>2
  <2>4. k = Revision \/ k \in 1..(Revision - 1)
    BY <1>1, <2>2, <2>3, JobConstants DEF Revisions
  <2>5. revs[k] # None
    BY Zenon, <1>1, <1>2, <2>4
  <2>6. revs' = [revs EXCEPT ![k] = Inserted(revs[k], client[c].record, o)]
    BY Zenon, <1>3 DEF Publish
  <2>7. Inserted(revs[k], client[c].record, o) = revs[k]
    BY Zenon, <2>5 DEF Inserted
  <2> QED
    BY Zenon, <2>6, <2>7 DEF JobInv
<1>4. ASSUME NEW c \in Clients, NEW o \in Outcomes, Publish(c, o), client[c].to # "revision"
      PROVE  revs' = revs
  BY Zenon, <1>4 DEF Publish
<1>5. ASSUME ~\E c \in Clients, o \in Outcomes : Publish(c, o)
      PROVE  revs' = revs
  BY Zenon, <1>5 DEF JobNext, Create, Propose, BindCompiledInspect, RequestCancel, Call, jobStore
<1> QED
  BY Zenon, <1>3, <1>4, <1>5

(* The binding and the first cancellation record are final. *)
Final ==
    /\ IsBound => IsBound' /\ BoundAttempt' = BoundAttempt /\ BoundSource' = BoundSource
    /\ cancellation # None => cancellation' = cancellation

LEMMA SameHistory ==
    ASSUME revs' = revs, cancellation # None => cancellation' = cancellation
    PROVE  Final
<1>1. Revision' = Revision
  BY DEF Revision
<1>2. IsBound' = IsBound
  BY Zenon, <1>1 DEF IsBound, Kind
<1>3. BoundAttempt' = BoundAttempt /\ BoundSource' = BoundSource
  BY Zenon, <1>1 DEF BoundAttempt, BoundSource
<1> QED
  BY Zenon, <1>2, <1>3 DEF Final

(* RevisionIsLast, as a fact about a state. *)
LastRevision ==
    \/ Revision = 0 /\ \A i \in Revisions : revs[i] = None
    \/ /\ Revision \in Revisions /\ revs[Revision] # None
       /\ \A j \in Revisions : revs[j] # None => j <= Revision

LEMMA RevisionLast == JobInv => LastRevision
  BY Zenon, RevisionIsLast DEF LastRevision

LEMMA JobCallFinal ==
    ASSUME JobInv, JobNext
    PROVE  Final
<1>1. cancellation # None => cancellation' = cancellation
  BY ZenonT(30) DEF JobNext, Create, Propose, BindCompiledInspect, RequestCancel, Call, jobStore,
     Publish, Inserted
<1>2. ASSUME IsBound
      PROVE  IsBound' /\ BoundAttempt' = BoundAttempt /\ BoundSource' = BoundSource
  <2>1. \A i \in Revisions : revs'[i] = revs[i]
    BY Zenon, <1>2, BoundStays
  <2>2. JobInv'
    BY Zenon, NextJobInv
  <2>3. /\ Revision \in Revisions /\ revs[Revision] # None
        /\ revs[Revision].kind = "attempt_bound"
        /\ \A j \in Revisions : revs[j] # None => j <= Revision
    BY Zenon, <1>2, RevisionIsLast DEF IsBound, Kind
  <2>4. \/ Revision' = 0 /\ \A i \in Revisions : revs'[i] = None
        \/ /\ Revision' \in Revisions /\ revs'[Revision'] # None
           /\ \A j \in Revisions : revs'[j] # None => j <= Revision'
    <3>1. LastRevision'
      BY <2>2, RevisionLast, PTL
    <3> QED
      BY Zenon, <3>1 DEF LastRevision
  <2>5. /\ Revision' \in Revisions /\ revs[Revision'] # None
        /\ \A j \in Revisions : revs[j] # None => j <= Revision'
    BY Zenon, <2>1, <2>3, <2>4
  <2>6. Revision' <= Revision /\ Revision <= Revision'
    BY Zenon, <2>3, <2>5
  <2>7. Revision' = Revision
    BY <2>3, <2>5, <2>6, JobConstants DEF Revisions
  <2>8. revs'[Revision'] = revs[Revision] /\ IsBound' /\ BoundAttempt' = BoundAttempt
    BY Zenon, <1>2, <2>1, <2>3, <2>7 DEF IsBound, Kind, BoundAttempt
  <2>9. revs[Revision].version \in Revisions
    BY Zenon, <2>3 DEF JobInv, FitsAt, Proposals, Bindings
  <2> QED
    BY Zenon, <2>1, <2>8, <2>9 DEF BoundSource
<1> QED
  BY Zenon, <1>1, <1>2 DEF Final

(* What an operation knows about its outcome survives the steps of others. *)
LEMMA OutcomeStays ==
    ASSUME Final, NEW q, OutcomeOK(q)
    PROVE  OutcomeOK(q)'
<1>1. q.ref # None => IsBound' /\ q.ref.attempt = BoundAttempt'
  BY Zenon DEF Final, OutcomeOK
<1>2. q.pc \in Admitted /\ q.kind # "direct" => IsBound' /\ q.attempt = BoundAttempt'
  BY Zenon DEF Final, OutcomeOK
<1>3. q.pc = "record" => q.obs.ref = q.ref /\ (Records(q) => RecordValid(q.obs)')
  BY Zenon, <1>1 DEF OutcomeOK, RecordValid
<1>4. ObservedOK(q) => ObservedOK(q)'
  BY Zenon DEF Final, ObservedOK
<1> QED
  BY Zenon, <1>1, <1>2, <1>3, <1>4 DEF OutcomeOK, TokenOK, CodesOK, Records

(* A step of one Harness keeps the invariant if its own operation stays in *)
(* order.                                                                  *)
LEMMA OutcomeMove ==
    ASSUME OutcomeInv, DOMAIN op = Harnesses, NEW h \in Harnesses, NEW s,
           op' = [op EXCEPT ![h] = s], s # None => OutcomeOK(s)', Final, got' = got
    PROVE  OutcomeInv'
<1>1. \A q : OutcomeOK(q) => OutcomeOK(q)'
  BY Zenon, OutcomeStays
<1>2. \A k \in Harnesses : op'[k] # None => OutcomeOK(op[k])'
  BY Zenon, <1>1 DEF OutcomeInv
<1> QED
  BY Zenon, <1>2 DEF OutcomeInv

(* The same for a step that leaves the Job alone. *)
LEMMA OutcomeGoes ==
    ASSUME ExecInv, OutcomeInv, NEW h \in Harnesses, NEW s, op' = [op EXCEPT ![h] = s],
           s # None => OutcomeOK(s), UNCHANGED jobVars, got' = got
    PROVE  OutcomeInv'
<1>1. Final
  BY Zenon, SameHistory DEF jobVars, jobStore
<1>2. s # None => OutcomeOK(s)'
  BY Zenon, <1>1, OutcomeStays
<1> QED
  BY Zenon, <1>1, <1>2, OutcomeMove DEF ExecInv, TypeInv

LEMMA OutcomeEnds ==
    ASSUME ExecInv, OutcomeInv, NEW h \in Harnesses, op' = [op EXCEPT ![h] = None],
           UNCHANGED jobVars, got' = got
    PROVE  OutcomeInv'
  BY Zenon, OutcomeGoes

(* Within an Inspect nothing that the outcome rests on changes. *)
LEMMA InspectGoesOn ==
    ASSUME NEW r, NEW s, OutcomeOK(r), r.pc \in Admitted, Fields \subseteq DOMAIN s,
           s.pc \in Admitted, s.kind = r.kind, s.rev = r.rev, s.attempt = r.attempt,
           s.token = r.token, s.request = r.request, s.dispatched = r.dispatched, s.ref = r.ref
    PROVE  OutcomeOK(s)
<1>1. /\ s.pc \notin Settling \cup {"receipt", "intent", "admission", "enqueue", "queued", "rejected"}
      /\ r.pc \notin Settling \cup {"receipt"}
  BY Zenon DEF Admitted, Owning, Resting, Settling
<1>2. TokenOK(s)
  BY Zenon, <1>1 DEF OutcomeOK, TokenOK
<1> QED
  BY Zenon, <1>1, <1>2 DEF OutcomeOK, Settling

LEMMA InspectSteps ==
    ASSUME ExecInv, OutcomeInv, NEW h \in Harnesses, op[h] # None, op[h].pc \in Admitted,
           NEW p \in Admitted, StepTo(h, p), UNCHANGED jobVars, got' = got
    PROVE  OutcomeInv'
<1>1. PICK s : s = [op[h] EXCEPT !.pc = p]
  BY Zenon
<1>2. OutcomeOK(op[h])
  BY Zenon DEF OutcomeInv
<1>3. /\ Fields \subseteq DOMAIN s /\ s.pc = p /\ s.kind = op[h].kind /\ s.rev = op[h].rev
      /\ s.attempt = op[h].attempt /\ s.token = op[h].token /\ s.request = op[h].request
      /\ s.dispatched = op[h].dispatched /\ s.ref = op[h].ref
  BY Zenon, <1>1, <1>2 DEF OutcomeOK, Fields
<1>4. OutcomeOK(s)
  BY Zenon, <1>2, <1>3, InspectGoesOn
<1> QED
  BY Zenon, <1>1, <1>4, OutcomeGoes DEF StepTo, Goto

(* An Inspect that ends, with any code but "ok". *)
LEMMA InspectEnds ==
    ASSUME ExecInv, OutcomeInv, NEW h \in Harnesses, op[h] # None,
           op[h].pc \in Admitted \cup {"admit"},
           NEW rc \in Codes \ {"ok"}, NEW tool, Ended(h, rc, tool),
           UNCHANGED jobVars, got' = got
    PROVE  OutcomeInv'
<1>1. CASE ~IsBackground(h)
  BY Zenon, <1>1, OutcomeEnds DEF Ended, Goto
<1>2. CASE IsBackground(h)
  <2>1. PICK s : s = [op[h] EXCEPT !.pc = "close", !.rc = rc, !.tool = ToolFor(rc, tool)]
    BY Zenon
  <2>2. OutcomeOK(op[h]) /\ RecordOK(op[h])
    BY Zenon DEF OutcomeInv, ExecInv
  <2>3. op[h].pc \notin Settling \cup {"receipt"}
    BY Zenon DEF Admitted, Owning, Resting, Settling
  <2>4. op[h].ref = None /\ op[h].dispatched /\ op[h].token # "shutdown"
    BY Zenon, <2>2, <2>3 DEF OutcomeOK, RecordOK, TokenOK
  <2>5. /\ Fields \subseteq DOMAIN s /\ s.pc = "close" /\ s.kind = op[h].kind /\ s.rev = op[h].rev
        /\ s.token = op[h].token /\ s.request = op[h].request
        /\ s.dispatched = op[h].dispatched /\ s.ref = None
        /\ s.rc = rc /\ s.tool = ToolFor(rc, tool)
    BY Zenon, <2>1, <2>2, <2>4 DEF OutcomeOK, Fields
  <2>6. /\ rc = "cancelled" => s.tool = "cancelled"
        /\ rc = "timed_out" => s.tool = "deadline"
    BY Zenon, <2>5 DEF ToolFor
  <2>7. CodesOK(s)
    BY Zenon, <1>2, <2>4, <2>5, <2>6 DEF CodesOK, IsBackground, Codes
  <2>8. TokenOK(s)
    BY Zenon, <2>2, <2>4, <2>5 DEF OutcomeOK, TokenOK, Settling
  <2>9. OutcomeOK(s)
    BY Zenon, <1>2, <2>2, <2>5, <2>7, <2>8 DEF OutcomeOK, IsBackground, Admitted, Owning, Resting
  <2> QED
    BY Zenon, <1>2, <2>1, <2>9, OutcomeGoes DEF Ended, Goto
<1> QED
  BY Zenon, <1>1, <1>2

-----------------------------------------------------------------------------
(* The steps of an execution and its outcome.                              *)

LEMMA OutcomeBegins ==
    ASSUME ExecInv, OutcomeInv, NEW h \in Harnesses, NEW s, BeginSubmit(h, s),
           Fields \subseteq DOMAIN s, s.rev = Revision, s.request = None, s.token = None,
           s.dispatched = TRUE, s.ref = None,
           \/ s.pc \in {"admit", "publish"}
           \/ s.pc \in {"intent", "enqueue"} /\ s.kind \in Background
    PROVE  OutcomeInv'
<1>1. Revision \in Nat
  BY RevisionIsLast, JobConstants DEF ExecInv, Revisions
<1>2. s.pc \notin Settling \cup Admitted \cup {"receipt", "queued", "rejected"}
  BY Zenon DEF Settling, Admitted, Owning, Resting
<1>3. TokenOK(s)
  BY Zenon, <1>2, NoneIsApart DEF TokenOK
<1>4. OutcomeOK(s)
  BY Zenon, <1>1, <1>2, <1>3 DEF OutcomeOK, Settling
<1> QED
  BY Zenon, <1>4, OutcomeGoes DEF BeginSubmit, Goto

LEMMA StartOutcome ==
    ASSUME ExecInv, OutcomeInv, NEW h \in Harnesses, Start(h)
    PROVE  OutcomeInv'
<1>1. CASE ExecuteJob(h)
  BY Zenon, <1>1, OutcomeBegins DEF ExecuteJob, Operation, Fields
<1>2. ASSUME NEW a \in Attempts, NEW p \in Sources, ExecuteAttempt(h, a, p)
      PROVE  OutcomeInv'
  BY Zenon, <1>2, OutcomeBegins DEF ExecuteAttempt, Operation, Fields
<1>3. ASSUME NEW k \in Background, NEW i \in Ids \cup {None}, Submit(h, k, i)
      PROVE  OutcomeInv'
  BY Zenon, <1>3, OutcomeBegins DEF Submit, Operation, Fields
<1>4. ASSUME NEW kind \in {"accept", "prepare", "confirm"}, NEW record, Review(h, kind, record)
      PROVE  OutcomeInv'
  BY Zenon, <1>4, OutcomeBegins DEF Review, Operation, Fields
<1> QED
  BY Zenon, <1>1, <1>2, <1>3, <1>4 DEF Start, Accept, PrepareDelivery, RecordDelivery

(* The steps before the pool takes an execution. *)
LEMMA SubmissionOutcome ==
    ASSUME ExecInv, OutcomeInv, NEW h \in Harnesses,
           \/ AdmissionCheck(h)
           \/ \E o \in Outcomes : AdmissionWrite(h, o) \/ RejectionReceipt(h, o)
           \/ \E b \in BOOLEAN : Enqueue(h, b)
    PROVE  OutcomeInv'
<1>1. /\ UNCHANGED jobVars /\ got' = got /\ op[h] # None
      /\ op[h].pc \in {"intent", "admission", "enqueue", "rejected"}
      /\ \/ op' = [op EXCEPT ![h] = None]
         \/ \E p \in {"admission", "enqueue", "queued", "rejected"} :
               op' = [op EXCEPT ![h] = [op[h] EXCEPT !.pc = p]]
  BY Zenon DEF AdmissionCheck, AdmissionWrite, RejectionReceipt, WriteReceipt, Enqueue, StepTo, Goto, At, history
<1>2. ASSUME NEW p \in {"admission", "enqueue", "queued", "rejected"},
             op' = [op EXCEPT ![h] = [op[h] EXCEPT !.pc = p]]
      PROVE  OutcomeInv'
  <2>1. PICK s : s = [op[h] EXCEPT !.pc = p]
    BY Zenon
  <2>2. OutcomeOK(op[h]) /\ RecordOK(op[h])
    BY Zenon, <1>1 DEF OutcomeInv, ExecInv
  <2>3. op[h].pc \notin Settling \cup {"receipt"} /\ s.pc = p
        /\ p \notin Settling \cup Admitted \cup {"receipt"}
    BY Zenon, <1>1, <2>1, <2>2 DEF Settling, Admitted, Owning, Resting, OutcomeOK, Fields
  <2>4. /\ Fields \subseteq DOMAIN s /\ s.kind = op[h].kind /\ s.rev = op[h].rev
        /\ s.token = op[h].token /\ s.request = op[h].request
        /\ s.dispatched = op[h].dispatched /\ s.ref = None
    BY Zenon, <2>1, <2>2, <2>3 DEF OutcomeOK, Fields, RecordOK
  <2>5. TokenOK(s)
    BY Zenon, <2>2, <2>3, <2>4 DEF OutcomeOK, TokenOK
  <2>6. OutcomeOK(s)
    BY Zenon, <1>1, <2>2, <2>3, <2>4, <2>5 DEF OutcomeOK, Settling
  <2> QED
    BY Zenon, <1>1, <1>2, <2>1, <2>6, OutcomeGoes
<1> QED
  BY Zenon, <1>1, <1>2, OutcomeEnds

(* settle, after its receipt: what never ran is cancelled. *)
LEMMA ShutOut ==
    ASSUME NEW q, OutcomeOK(q), NEW r, Fields \subseteq DOMAIN r, r.kind = q.kind, r.rev = q.rev,
           r.token = q.token, r.request = q.request, r.ref = None,
           q.kind \in Background, q.token # "shutdown",
           NEW s, s = [r EXCEPT !.pc = "close", !.token = Signalled(r.token, "shutdown"),
                                !.rc = "cancelled", !.tool = "cancelled"]
    PROVE  OutcomeOK(s)
<1>1. /\ Fields \subseteq DOMAIN s /\ s.pc = "close" /\ s.kind = r.kind /\ s.rev = r.rev
      /\ s.token = Signalled(r.token, "shutdown") /\ s.request = r.request
      /\ s.rc = "cancelled" /\ s.tool = "cancelled" /\ s.ref = None
  BY Zenon DEF Fields
<1>2. TokenOK(s)
  <2>1. /\ q.token \in {None, "user", "deadline"} /\ (q.request # None => q.token # None)
        /\ (q.token = "user" => q.request # None) /\ "close" \in Settling
    BY Zenon DEF OutcomeOK, TokenOK, Settling
  <2>2. CASE q.token = None
    <3>1. s.token = "shutdown" /\ s.request = None
      BY Zenon, <1>1, <2>1, <2>2 DEF Signalled
    <3> QED
      BY Zenon, <1>1, <2>1, <3>1 DEF TokenOK
  <2>3. CASE q.token # None
    BY Zenon, <1>1, <2>1, <2>3 DEF TokenOK, Signalled
  <2> QED
    BY Zenon, <2>2, <2>3
<1>3. CodesOK(s)
  BY Zenon, <1>1 DEF CodesOK, Codes
<1>4. "close" \notin Admitted
  BY Zenon DEF Admitted, Owning, Resting
<1> QED
  BY Zenon, <1>1, <1>2, <1>3, <1>4 DEF OutcomeOK

LEMMA DispatchedOutcome ==
    ASSUME NEW r, OutcomeOK(r), r.pc = "receipt", r.kind \in Background, r.ref = None,
           r.token # "shutdown"
    PROVE  OutcomeOK(Dispatched(r))
<1>1. CASE r.dispatched
  <2>1. PICK s : s = [r EXCEPT !.pc = "admit"]
    BY Zenon
  <2>2. /\ Fields \subseteq DOMAIN s /\ s.pc = "admit" /\ s.kind = r.kind /\ s.rev = r.rev
        /\ s.token = r.token /\ s.request = r.request
        /\ s.dispatched = r.dispatched /\ s.ref = None
    BY Zenon, <2>1 DEF OutcomeOK, Fields
  <2>3. TokenOK(s)
    BY Zenon, <1>1, <2>2 DEF OutcomeOK, TokenOK
  <2>4. "admit" \notin Settling \cup Admitted
    BY Zenon DEF Settling, Admitted, Owning, Resting
  <2>5. OutcomeOK(s)
    BY Zenon, <2>2, <2>3, <2>4 DEF OutcomeOK
  <2> QED
    BY Zenon, <1>1, <2>1, <2>5 DEF Dispatched
<1>2. CASE ~r.dispatched
  <2>1. PICK s : s = [r EXCEPT !.pc = "close", !.token = Signalled(r.token, "shutdown"),
                               !.rc = "cancelled", !.tool = "cancelled"]
    BY Zenon
  <2>2. Fields \subseteq DOMAIN r
    BY Zenon DEF OutcomeOK
  <2>3. OutcomeOK(s)
    BY Zenon, <2>1, <2>2, ShutOut
  <2> QED
    BY Zenon, <1>2, <2>1, <2>3 DEF Dispatched
<1> QED
  BY Zenon, <1>1, <1>2

LEMMA SelectOutcome ==
    ASSUME ExecInv, OutcomeInv, NEW h \in Harnesses, NEW b \in BOOLEAN, Select(h, b)
    PROVE  OutcomeInv'
<1>1. /\ UNCHANGED jobVars /\ got' = got /\ op[h] # None /\ op[h].pc = "queued"
      /\ OutcomeOK(op[h]) /\ RecordOK(op[h])
  BY Zenon DEF Select, At, history, OutcomeInv, ExecInv
<1>2. op[h].token # "shutdown" /\ op[h].ref = None /\ op[h].kind \in Background
  BY Zenon, <1>1 DEF OutcomeOK, TokenOK, RecordOK, Settling
<1>3. CASE op[h].kind = "receipted"
  <2>1. PICK s : s = [[op[h] EXCEPT !.dispatched = b] EXCEPT !.pc = "receipt"]
    BY Zenon
  <2>2. /\ Fields \subseteq DOMAIN s /\ s.pc = "receipt" /\ s.kind = op[h].kind
        /\ s.rev = op[h].rev /\ s.token = op[h].token /\ s.request = op[h].request /\ s.ref = None
    BY Zenon, <1>1, <1>2, <2>1 DEF OutcomeOK, Fields
  <2>3. TokenOK(s)
    BY Zenon, <1>1, <1>2, <2>2 DEF OutcomeOK, TokenOK
  <2>4. "receipt" \notin Settling \cup Admitted
    BY Zenon DEF Settling, Admitted, Owning, Resting
  <2>5. OutcomeOK(s)
    BY Zenon, <1>1, <1>3, <2>2, <2>3, <2>4 DEF OutcomeOK
  <2>6. op' = [op EXCEPT ![h] = s]
    BY Zenon, <1>1, <1>3, <2>1 DEF Select, Goto, OutcomeOK, Fields
  <2> QED
    BY Zenon, <1>1, <2>5, <2>6, OutcomeGoes
<1>4. CASE op[h].kind # "receipted"
  <2>1. PICK r : r = [op[h] EXCEPT !.dispatched = b]
    BY Zenon
  <2>2. /\ Fields \subseteq DOMAIN r /\ r.pc = "queued" /\ r.kind = op[h].kind
        /\ r.rev = op[h].rev /\ r.token = op[h].token /\ r.request = op[h].request /\ r.ref = None
        /\ r.dispatched = b
    BY Zenon, <1>1, <1>2, <2>1 DEF OutcomeOK, Fields
  <2>3. op' = [op EXCEPT ![h] = Dispatched(r)]
    BY Zenon, <1>4, <2>1, <2>2 DEF Select, Goto
  <2>4. CASE b
    <3>1. PICK s : s = [r EXCEPT !.pc = "admit"]
      BY Zenon
    <3>2. /\ Fields \subseteq DOMAIN s /\ s.pc = "admit" /\ s.kind = r.kind /\ s.rev = r.rev
          /\ s.token = r.token /\ s.request = r.request
          /\ s.dispatched = r.dispatched /\ s.ref = None
      BY Zenon, <2>2, <3>1 DEF Fields
    <3>3. TokenOK(s)
      BY Zenon, <1>1, <1>2, <2>2, <2>4, <3>2 DEF OutcomeOK, TokenOK
    <3>4. "admit" \notin Settling \cup Admitted
      BY Zenon DEF Settling, Admitted, Owning, Resting
    <3>5. OutcomeOK(s)
      BY Zenon, <1>1, <2>2, <3>2, <3>3, <3>4 DEF OutcomeOK
    <3> QED
      BY Zenon, <1>1, <2>2, <2>3, <2>4, <3>1, <3>5, OutcomeGoes DEF Dispatched
  <2>5. CASE ~b
    <3>1. PICK s : s = [r EXCEPT !.pc = "close", !.token = Signalled(r.token, "shutdown"),
                                 !.rc = "cancelled", !.tool = "cancelled"]
      BY Zenon
    <3>2. OutcomeOK(s)
      BY Zenon, <1>1, <1>2, <2>2, <3>1, ShutOut
    <3> QED
      BY Zenon, <1>1, <2>2, <2>3, <2>5, <3>1, <3>2, OutcomeGoes DEF Dispatched
  <2> QED
    BY Zenon, <2>4, <2>5
<1> QED
  BY Zenon, <1>3, <1>4

LEMMA QueueReceiptOutcome ==
    ASSUME ExecInv, OutcomeInv, NEW h \in Harnesses, NEW o \in Outcomes, QueueReceipt(h, o)
    PROVE  OutcomeInv'
<1>1. /\ UNCHANGED jobVars /\ got' = got /\ op[h] # None /\ op[h].pc = "receipt"
      /\ OutcomeOK(op[h]) /\ RecordOK(op[h])
  BY Zenon DEF QueueReceipt, WriteReceipt, At, history, OutcomeInv, ExecInv
<1>2. /\ op[h].token # "shutdown" /\ op[h].ref = None /\ op[h].kind = "receipted"
      /\ op[h].kind \in Background
  BY Zenon, <1>1 DEF OutcomeOK, TokenOK, RecordOK, Settling, Background
<1>3. PICK r : r = [op[h] EXCEPT !.receipt = ReceiptStatus(h, o)]
  BY Zenon
<1>4. /\ Fields \subseteq DOMAIN r /\ r.pc = "receipt" /\ r.kind = op[h].kind
      /\ r.rev = op[h].rev /\ r.token = op[h].token /\ r.request = op[h].request /\ r.ref = None
      /\ r.dispatched = op[h].dispatched
  BY Zenon, <1>1, <1>2, <1>3 DEF OutcomeOK, Fields
<1>5. OutcomeOK(r)
  <2>1. TokenOK(r)
    BY Zenon, <1>1, <1>4 DEF OutcomeOK, TokenOK
  <2>2. "receipt" \notin Settling \cup Admitted
    BY Zenon DEF Settling, Admitted, Owning, Resting
  <2> QED
    BY Zenon, <1>1, <1>2, <1>4, <2>1, <2>2 DEF OutcomeOK
<1>6. CASE r.receipt = "ok"
  <2>1. op' = [op EXCEPT ![h] = Dispatched(r)]
    BY Zenon, <1>3, <1>6 DEF QueueReceipt, Goto
  <2>2. OutcomeOK(Dispatched(r))
    BY Zenon, <1>2, <1>4, <1>5, DispatchedOutcome
  <2> QED
    BY Zenon, <1>1, <2>1, <2>2, OutcomeGoes
<1>7. CASE r.receipt # "ok"
  <2>1. PICK s : s = [r EXCEPT !.pc = "close", !.rc = "error"]
    BY Zenon
  <2>2. /\ Fields \subseteq DOMAIN s /\ s.pc = "close" /\ s.kind = r.kind /\ s.rev = r.rev
        /\ s.token = r.token /\ s.request = r.request /\ s.receipt = r.receipt
        /\ s.dispatched = r.dispatched /\ s.ref = None /\ s.rc = "error"
    BY Zenon, <1>4, <2>1 DEF Fields
  <2>3. TokenOK(s)
    BY Zenon, <1>5, <2>2 DEF OutcomeOK, TokenOK, Settling
  <2>4. CodesOK(s)
    BY Zenon, <1>2, <1>4, <1>7, <2>2 DEF CodesOK, Codes
  <2>5. "close" \notin Admitted
    BY Zenon DEF Admitted, Owning, Resting
  <2>6. OutcomeOK(s)
    BY Zenon, <1>2, <1>4, <1>5, <2>2, <2>3, <2>4, <2>5 DEF OutcomeOK
  <2>7. op' = [op EXCEPT ![h] = s]
    BY Zenon, <1>3, <1>7, <2>1 DEF QueueReceipt, Goto
  <2> QED
    BY Zenon, <1>1, <2>6, <2>7, OutcomeGoes
<1> QED
  BY Zenon, <1>6, <1>7

(* The steps of an Inspect that only write records or move on. *)
LEMMA InspectStoreOutcome ==
    ASSUME ExecInv, OutcomeInv, NEW h \in Harnesses, NEW o \in Outcomes,
           \/ Replay(h, o) \/ Uncertain(h, o) \/ Claim(h, o) \/ JournalStart(h, o)
           \/ CommitAttempt(h, o) \/ MarkUnknown(h, o) \/ JournalUnknown(h, o) \/ JournalCommit(h, o)
           \/ Finalize(h, o)
    PROVE  OutcomeInv'
<1>1. UNCHANGED jobVars /\ got' = got
  BY Zenon DEF Replay, Uncertain, Claim, JournalStart, CommitAttempt, MarkUnknown,
     JournalUnknown, JournalCommit,
     Finalize, JournalStep, history
<1>2. op[h] # None /\ op[h].pc \in Admitted
  BY Zenon DEF Replay, Uncertain, Claim, JournalStart, CommitAttempt, MarkUnknown,
     JournalUnknown, JournalCommit,
     Finalize, JournalStep, At, Admitted, Owning, Resting
<1>3. \/ \E p \in {"journal_commit", "finalize", "inside", "journal", "unknown", "unknown_journal",
                 "deliver"} : StepTo(h, p)
      \/ \E tool \in {"error", "ok"} : Ended(h, "error", tool)
  BY Zenon DEF Replay, Uncertain, Claim, JournalStart, CommitAttempt, MarkUnknown,
     JournalUnknown, JournalCommit,
     Finalize, JournalStep
<1>4. {"journal_commit", "finalize", "inside", "journal", "unknown", "unknown_journal", "deliver"}
        \subseteq Admitted
  BY Zenon DEF Admitted, Owning, Resting
<1>5. "error" \in Codes \ {"ok"}
  BY Zenon DEF Codes
<1> QED
  BY Zenon, <1>1, <1>2, <1>3, <1>4, <1>5, InspectSteps, InspectEnds

LEMMA ReturnCallbackOutcome ==
    ASSUME ExecInv, OutcomeInv, NEW h \in Harnesses, NEW b \in BOOLEAN, ReturnCallback(h, b)
    PROVE  OutcomeInv'
<1>1. /\ UNCHANGED jobVars /\ got' = got /\ op[h] # None /\ op[h].pc = "inside"
      /\ OutcomeOK(op[h])
  BY Zenon DEF ReturnCallback, At, history, OutcomeInv
<1>2. {"inside", "commit", "unknown"} \subseteq Admitted
  BY Zenon DEF Admitted, Owning
<1>3. CASE StepTo(h, "unknown")
  BY Zenon, <1>1, <1>2, <1>3, InspectSteps
<1>4. CASE Goto(h, [op[h] EXCEPT !.pc = "commit", !.result = op[h].call])
  <2>1. PICK s : s = [op[h] EXCEPT !.pc = "commit", !.result = op[h].call]
    BY Zenon
  <2>2. /\ Fields \subseteq DOMAIN s /\ s.pc = "commit" /\ s.kind = op[h].kind /\ s.rev = op[h].rev
        /\ s.attempt = op[h].attempt /\ s.token = op[h].token /\ s.request = op[h].request
        /\ s.dispatched = op[h].dispatched /\ s.ref = op[h].ref
    BY Zenon, <1>1, <2>1 DEF OutcomeOK, Fields
  <2>3. OutcomeOK(s)
    BY Zenon, <1>1, <1>2, <2>2, InspectGoesOn
  <2> QED
    BY Zenon, <1>1, <1>4, <2>1, <2>3, OutcomeGoes DEF Goto
<1> QED
  BY Zenon, <1>3, <1>4 DEF ReturnCallback

(* The codes that the gates of an Inspect end it with. *)
LEMMA StatusCodes ==
    /\ \A t : TokenStatus(t) \in Codes /\ (TokenStatus(t) = "ok" => t = None)
    /\ ActiveStatus \in Codes
    /\ \A rev : BoundStatus(rev) \in Codes /\ (BoundStatus(rev) = "ok" => IsBound)
    /\ \A h : AuthorityStatus(h) \in Codes
    /\ \A a, b \in Codes : /\ First(a, b) \in Codes
                           /\ First(a, b) = "ok" => a = "ok" /\ b = "ok"
<1>1. \A t : TokenStatus(t) \in Codes /\ (TokenStatus(t) = "ok" => t = None)
  BY Zenon DEF TokenStatus, Codes
<1>2. ActiveStatus \in Codes
  BY Zenon DEF ActiveStatus, Codes
<1>3. \A rev : BoundStatus(rev) \in Codes /\ (BoundStatus(rev) = "ok" => IsBound)
  BY Zenon DEF BoundStatus, Codes
<1>4. \A h : AuthorityStatus(h) \in Codes
  BY Zenon DEF AuthorityStatus, Codes
<1>5. \A a, b \in Codes : First(a, b) \in Codes /\ (First(a, b) = "ok" => a = "ok" /\ b = "ok")
  BY Zenon DEF First
<1> QED
  BY Zenon, <1>1, <1>2, <1>3, <1>4, <1>5

LEMMA LookupOutcome ==
    ASSUME ExecInv, OutcomeInv, NEW h \in Harnesses, Lookup(h)
    PROVE  OutcomeInv'
<1>1. /\ UNCHANGED jobVars /\ got' = got /\ op[h] # None /\ op[h].pc = "lookup"
      /\ OutcomeOK(op[h])
  BY Zenon DEF Lookup, At, history, OutcomeInv
<1>2. {"lookup", "claim", "uncertain", "replay"} \subseteq Admitted
  BY Zenon DEF Admitted, Resting
<1>3. "error" \in Codes \ {"ok"} /\ "ok" \in Codes
  BY Zenon DEF Codes
<1> DEFINE token == TokenStatus(op[h].token)
           active == IF IsJob(h) THEN ActiveStatus ELSE "ok"
           stop == IF IsJob(h) \/ token = "ok" THEN token ELSE "error"
           gate == First(AuthorityStatus(h), First(stop, active))
<1>4. gate \in Codes
  <2>1. stop \in Codes /\ active \in Codes
    BY Zenon, <1>3, StatusCodes
  <2>2. First(stop, active) \in Codes
    BY Zenon, <2>1, StatusCodes
  <2> QED
    BY Zenon, <2>2, StatusCodes
<1>5. \/ gate # "ok" /\ Ended(h, gate, "error")
      \/ Ended(h, "error", "error")
      \/ \E p \in {"claim", "uncertain"} : StepTo(h, p)
      \/ Goto(h, [op[h] EXCEPT !.pc = "replay", !.result = attempts[op[h].attempt].result])
  BY Zenon DEF Lookup
<1> HIDE DEF gate
<1>6. CASE Goto(h, [op[h] EXCEPT !.pc = "replay", !.result = attempts[op[h].attempt].result])
  <2>1. PICK s : s = [op[h] EXCEPT !.pc = "replay", !.result = attempts[op[h].attempt].result]
    BY Zenon
  <2>2. /\ Fields \subseteq DOMAIN s /\ s.pc = "replay" /\ s.kind = op[h].kind /\ s.rev = op[h].rev
        /\ s.attempt = op[h].attempt /\ s.token = op[h].token /\ s.request = op[h].request
        /\ s.dispatched = op[h].dispatched /\ s.ref = op[h].ref
    BY Zenon, <1>1, <2>1 DEF OutcomeOK, Fields
  <2>3. OutcomeOK(s)
    BY Zenon, <1>1, <1>2, <2>2, InspectGoesOn
  <2> QED
    BY Zenon, <1>1, <1>6, <2>1, <2>3, OutcomeGoes DEF Goto
<1> QED
  BY Zenon, <1>1, <1>2, <1>3, <1>4, <1>5, <1>6, InspectSteps, InspectEnds

LEMMA AdmitOutcome ==
    ASSUME ExecInv, OutcomeInv, NEW h \in Harnesses, Admit(h)
    PROVE  OutcomeInv'
<1>1. /\ UNCHANGED jobVars /\ got' = got /\ op[h] # None /\ op[h].pc = "admit"
      /\ OutcomeOK(op[h]) /\ RecordOK(op[h])
  BY Zenon DEF Admit, At, history, OutcomeInv, ExecInv
<1> DEFINE bound == First(BoundStatus(op[h].rev), ActiveStatus)
           job == IF IsJob(h) THEN bound ELSE "ok"
           rc == First(job, TokenStatus(op[h].token))
<1>2. /\ rc \in Codes /\ (rc = "ok" => job = "ok" /\ op[h].token = None)
      /\ (bound = "ok" => IsBound)
  <2>0. "ok" \in Codes /\ BoundStatus(op[h].rev) \in Codes /\ ActiveStatus \in Codes
    <3>1. "ok" \in Codes
      BY Zenon DEF Codes
    <3> QED
      BY Zenon, <3>1, StatusCodes
  <2>1. "ok" \in Codes /\ bound \in Codes /\ (bound = "ok" => BoundStatus(op[h].rev) = "ok")
    BY Zenon, <2>0, StatusCodes
  <2>2. job \in Codes
    BY Zenon, <2>1
  <2> HIDE DEF job
  <2>3. rc \in Codes /\ (rc = "ok" => job = "ok" /\ TokenStatus(op[h].token) = "ok")
    BY Zenon, <2>2, StatusCodes
  <2> QED
    BY Zenon, <2>1, <2>3, StatusCodes
<1>3. CASE rc # "ok"
  <2>1. Ended(h, rc, "error")
    BY Zenon, <1>3 DEF Admit
  <2> HIDE DEF rc
  <2> QED
    BY Zenon, <1>1, <1>2, <1>3, <2>1, InspectEnds
<1>4. CASE rc = "ok"
  <2>1. PICK s : s = [op[h] EXCEPT !.pc = "lookup", !.gen = authority[h],
                            !.attempt = IF IsJob(h) THEN BoundAttempt ELSE op[h].attempt,
                            !.plan = IF IsJob(h) THEN BoundSource ELSE op[h].plan]
    BY Zenon
  <2>2. op' = [op EXCEPT ![h] = s]
    BY Zenon, <1>4, <2>1 DEF Admit, Goto
  <2>3. /\ Fields \subseteq DOMAIN s /\ s.pc = "lookup" /\ s.kind = op[h].kind /\ s.rev = op[h].rev
        /\ s.token = op[h].token /\ s.request = op[h].request
        /\ s.dispatched = op[h].dispatched /\ s.ref = op[h].ref
        /\ s.attempt = IF IsJob(h) THEN BoundAttempt ELSE op[h].attempt
    BY Zenon, <1>1, <2>1 DEF OutcomeOK, Fields
  <2>4. IsJob(h) => IsBound /\ s.attempt = BoundAttempt
    BY Zenon, <1>2, <1>4, <2>3
  <2>5. "lookup" \notin Settling /\ "admit" \notin Settling
    BY Zenon DEF Settling
  <2>6. TokenOK(s)
    BY Zenon, <1>1, <2>3, <2>5 DEF OutcomeOK, TokenOK
  <2>7. OutcomeOK(s)
    BY Zenon, <1>1, <2>3, <2>4, <2>5, <2>6 DEF OutcomeOK, RecordOK, IsJob
  <2> QED
    BY Zenon, <1>1, <2>2, <2>7, OutcomeGoes
<1> QED
  BY Zenon, <1>3, <1>4

LEMMA RefuseOutcome ==
    ASSUME ExecInv, OutcomeInv, NEW h \in Harnesses,
           NEW rc \in {"error", "cancelled", "timed_out"}, Refuse(h, rc)
    PROVE  OutcomeInv'
<1>1. /\ UNCHANGED jobVars /\ got' = got /\ op[h] # None /\ Ended(h, rc, "error")
      /\ op[h].pc \in {"admit", "lookup", "deliver"}
  BY Zenon DEF Refuse, At, history
<1>2. op[h].pc \in Admitted \cup {"admit"} /\ rc \in Codes \ {"ok"}
  BY Zenon, <1>1 DEF Admitted, Resting, Codes
<1> QED
  BY Zenon, <1>1, <1>2, InspectEnds

(* A result handed over was not cancelled. *)
LEMMA HandOverOutcome ==
    ASSUME ExecInv, OutcomeInv, NEW h \in Harnesses, op' = [op EXCEPT ![h] = None],
           op[h].request = None, NEW result, got' = got \cup {Handed(h, result)}, UNCHANGED jobVars
    PROVE  OutcomeInv'
<1>1. Final
  BY Zenon, SameHistory DEF jobVars, jobStore
<1>2. \A q : OutcomeOK(q) => OutcomeOK(q)'
  BY Zenon, <1>1, OutcomeStays
<1>3. DOMAIN op = Harnesses
  BY Zenon DEF ExecInv, TypeInv
<1>4. \A k \in Harnesses : op'[k] # None => OutcomeOK(op[k])'
  BY Zenon, <1>2, <1>3 DEF OutcomeInv
<1>5. \A g \in got' : ~g.cancelled
  <2>1. Handed(h, result).cancelled = (op[h].request # None)
    BY DEF Handed
  <2> QED
    BY Zenon, <2>1 DEF OutcomeInv
<1> QED
  BY Zenon, <1>4, <1>5 DEF OutcomeInv

LEMMA DeliverOutcome ==
    ASSUME ExecInv, OutcomeInv, NEW h \in Harnesses, Deliver(h)
    PROVE  OutcomeInv'
<1>1. /\ UNCHANGED jobVars /\ op[h] # None /\ op[h].pc = "deliver"
      /\ OutcomeOK(op[h]) /\ RecordOK(op[h])
  BY Zenon DEF Deliver, At, OutcomeInv, ExecInv
<1>2. "deliver" \in Admitted /\ "deliver" \notin Settling \cup {"receipt"}
  BY Zenon DEF Admitted, Resting, Settling
<1> DEFINE job == IF IsJob(h) THEN First(ActiveStatus, TokenStatus(op[h].token)) ELSE "ok"
           rc == First(AuthorityStatus(h), job)
<1>3. rc \in Codes
  <2>1. "ok" \in Codes
    BY Zenon DEF Codes
  <2>2. job \in Codes
    BY Zenon, <2>1, StatusCodes
  <2> HIDE DEF job
  <2> QED
    BY Zenon, <2>2, StatusCodes
<1>4. CASE rc # "ok"
  <2>1. Ended(h, rc, "error") /\ got' = got
    BY Zenon, <1>4 DEF Deliver
  <2> HIDE DEF rc
  <2> QED
    BY Zenon, <1>1, <1>2, <1>3, <1>4, <2>1, InspectEnds
<1>5. CASE rc = "ok" /\ ~IsBackground(h)
  <2>1. op' = [op EXCEPT ![h] = None] /\ got' = got \cup {Handed(h, op[h].result)}
    BY Zenon, <1>5 DEF Deliver, Goto
  <2>2. op[h].request = None
    BY Zenon, <1>1, <1>5 DEF OutcomeOK, TokenOK, IsBackground
  <2> QED
    BY Zenon, <1>1, <2>1, <2>2, HandOverOutcome
<1>6. CASE rc = "ok" /\ IsBackground(h)
  <2>1. PICK s : s = [op[h] EXCEPT !.pc = "close", !.rc = "ok", !.tool = "ok",
                                   !.ref = Reference(h), !.result = None]
    BY Zenon
  <2>2. op' = [op EXCEPT ![h] = s] /\ got' = got
    BY Zenon, <1>6, <2>1 DEF Deliver, Goto
  <2>3. /\ Fields \subseteq DOMAIN s /\ s.pc = "close" /\ s.kind = op[h].kind /\ s.rev = op[h].rev
        /\ s.token = op[h].token /\ s.request = op[h].request
        /\ s.dispatched = op[h].dispatched /\ s.ref = Reference(h) /\ s.rc = "ok" /\ s.tool = "ok"
    BY Zenon, <1>1, <2>1 DEF OutcomeOK, Fields
  <2>4. /\ op[h].attempt \in Attempts /\ op[h].plan \in Sources /\ op[h].gen \in Nat
        /\ op[h].call \in 1..bounds.calls /\ bounds.calls \in Nat
    BY Zenon, <1>1, <1>2 DEF RecordOK, ExecInv, TypeInv
  <2>5. op[h].call \in Nat
    BY <2>4
  <2>6. Reference(h) # None /\ Reference(h).attempt = op[h].attempt
    <3>1. Reference(h) \in [attempt : Attempts, call : Nat, plan : Sources, gen : Nat]
      BY Zenon, <2>4, <2>5 DEF Reference
    <3> QED
      BY Zenon, <3>1, NoneIsApart DEF Reference
  <2>7. op[h].kind # "direct" /\ op[h].kind \in Background
    BY Zenon, <1>6 DEF IsBackground, Background
  <2>8. IsBound /\ op[h].attempt = BoundAttempt
    BY Zenon, <1>1, <1>2, <2>7 DEF OutcomeOK
  <2>9. op[h].dispatched /\ op[h].token # "shutdown"
    BY Zenon, <1>1, <1>2 DEF OutcomeOK, TokenOK
  <2>10. CodesOK(s)
    BY Zenon, <2>3, <2>6, <2>7, <2>9 DEF CodesOK, Codes
  <2>11. TokenOK(s)
    BY Zenon, <1>1, <2>3, <2>9 DEF OutcomeOK, TokenOK
  <2>12. "close" \notin Admitted
    BY Zenon DEF Admitted, Owning, Resting
  <2>13. OutcomeOK(s)
    BY Zenon, <1>1, <2>3, <2>6, <2>7, <2>8, <2>10, <2>11, <2>12 DEF OutcomeOK
  <2> QED
    BY Zenon, <1>1, <2>2, <2>13, OutcomeGoes
<1> QED
  BY Zenon, <1>4, <1>5, <1>6

LEMMA TakeResultOutcome ==
    ASSUME ExecInv, OutcomeInv, NEW h \in Harnesses, TakeResult(h)
    PROVE  OutcomeInv'
<1>1. /\ UNCHANGED jobVars /\ op[h] # None /\ OutcomeOK(op[h])
      /\ op' = [op EXCEPT ![h] = None]
      /\ got' = got \cup {Handed(h, attempts[op[h].attempt].result)}
      /\ TokenStatus(op[h].token) = "ok"
  BY Zenon DEF TakeResult, Goto, At, OutcomeInv
<1>2. op[h].request = None
  BY Zenon, <1>1, StatusCodes DEF OutcomeOK, TokenOK
<1> QED
  BY Zenon, <1>1, <1>2, HandOverOutcome

(* A change of token, request or handle: what was observed stays. *)
LEMMA SameOutcome ==
    ASSUME NEW r, OutcomeOK(r), NEW s, Fields \subseteq DOMAIN s, TokenOK(s),
           s.kind = r.kind, s.pc = r.pc, s.rev = r.rev, s.attempt = r.attempt, s.ref = r.ref,
           s.id = r.id, s.receipt = r.receipt, s.rc = r.rc, s.tool = r.tool, s.obs = r.obs,
           s.closed = r.closed, s.dispatched = r.dispatched,
           s.request = r.request \/ (s.request \in Requests /\ ~r.closed),
           s.token = "shutdown" => r.token = "shutdown"
    PROVE  OutcomeOK(s)
<1>1. CodesOK(r) => CodesOK(s)
  BY Zenon DEF CodesOK
<1>2. Records(s) <=> Records(r)
  BY Zenon DEF Records
<1>3. r.pc \in {"record", "terminal"} => ObservedOK(s)
  BY Zenon DEF OutcomeOK, ObservedOK
<1> QED
  BY ZenonT(40), <1>1, <1>2, <1>3 DEF OutcomeOK

LEMMA CancelExecutionOutcome ==
    ASSUME ExecInv, OutcomeInv, NEW h \in Harnesses, NEW req \in Requests, CancelExecution(h, req)
    PROVE  OutcomeInv'
<1>1. /\ UNCHANGED jobVars /\ got' = got /\ op[h] # None /\ OutcomeOK(op[h])
      /\ op[h].kind \in Background /\ ~op[h].closed /\ op[h].request = None
  BY Zenon DEF CancelExecution, IsBackground, history, OutcomeInv
<1>2. PICK s : s = [op[h] EXCEPT !.request = req, !.token = Signalled(op[h].token, "user")]
  BY Zenon
<1>3. op' = [op EXCEPT ![h] = s]
  BY Zenon, <1>2 DEF CancelExecution, Goto
<1>4. /\ Fields \subseteq DOMAIN s /\ s.request = req /\ s.token = Signalled(op[h].token, "user")
      /\ s.kind = op[h].kind /\ s.pc = op[h].pc /\ s.rev = op[h].rev
      /\ s.attempt = op[h].attempt /\ s.ref = op[h].ref /\ s.id = op[h].id
      /\ s.receipt = op[h].receipt /\ s.rc = op[h].rc /\ s.tool = op[h].tool
      /\ s.obs = op[h].obs /\ s.closed = op[h].closed /\ s.dispatched = op[h].dispatched
  BY Zenon, <1>1, <1>2 DEF OutcomeOK, Fields
<1>5. /\ s.token \in {"user", "deadline", "shutdown"} /\ s.token # None /\ req # None
      /\ (s.token = "shutdown" => op[h].token = "shutdown")
  <2>1. op[h].token \in {None, "user", "deadline", "shutdown"}
    BY Zenon, <1>1 DEF OutcomeOK, TokenOK
  <2>2. s.token = IF op[h].token = None THEN "user" ELSE op[h].token
    BY Zenon, <1>4 DEF Signalled
  <2>3. s.token \in {"user", "deadline", "shutdown"}
    BY Zenon, <2>1, <2>2
  <2> QED
    BY Zenon, <2>2, <2>3, NoneIsApart
<1>6. TokenOK(s)
  BY Zenon, <1>1, <1>4, <1>5 DEF OutcomeOK, TokenOK
<1>7. OutcomeOK(s)
  BY Zenon, <1>1, <1>4, <1>5, <1>6, SameOutcome
<1> QED
  BY Zenon, <1>1, <1>3, <1>7, OutcomeGoes

LEMMA SignalTokenOutcome ==
    ASSUME ExecInv, OutcomeInv, NEW h \in Harnesses, NEW reason \in {"user", "deadline"},
           SignalToken(h, reason)
    PROVE  OutcomeInv'
<1>1. /\ UNCHANGED jobVars /\ got' = got /\ op[h] # None /\ OutcomeOK(op[h])
      /\ op[h].token = None /\ (reason = "user" => op[h].kind \notin Background)
  BY Zenon DEF SignalToken, IsBackground, history, OutcomeInv
<1>2. PICK s : s = [op[h] EXCEPT !.token = reason]
  BY Zenon
<1>3. op' = [op EXCEPT ![h] = s]
  BY Zenon, <1>2 DEF SignalToken, Goto
<1>4. /\ Fields \subseteq DOMAIN s /\ s.request = op[h].request /\ s.token = reason
      /\ s.kind = op[h].kind /\ s.pc = op[h].pc /\ s.rev = op[h].rev
      /\ s.attempt = op[h].attempt /\ s.ref = op[h].ref /\ s.id = op[h].id
      /\ s.receipt = op[h].receipt /\ s.rc = op[h].rc /\ s.tool = op[h].tool
      /\ s.obs = op[h].obs /\ s.closed = op[h].closed /\ s.dispatched = op[h].dispatched
  BY Zenon, <1>1, <1>2 DEF OutcomeOK, Fields
<1>5. TokenOK(s)
  BY Zenon, <1>1, <1>4 DEF OutcomeOK, TokenOK
<1>6. OutcomeOK(s)
  BY Zenon, <1>1, <1>4, <1>5, SameOutcome
<1> QED
  BY Zenon, <1>1, <1>3, <1>6, OutcomeGoes

LEMMA ReleaseHandleOutcome ==
    ASSUME ExecInv, OutcomeInv, NEW h \in Harnesses, ReleaseHandle(h)
    PROVE  OutcomeInv'
<1>1. /\ UNCHANGED jobVars /\ got' = got /\ op[h] # None /\ OutcomeOK(op[h])
  BY Zenon DEF ReleaseHandle, history, OutcomeInv
<1>2. PICK s : s = [op[h] EXCEPT !.held = FALSE]
  BY Zenon
<1>3. op' = [op EXCEPT ![h] = s] \/ op' = [op EXCEPT ![h] = None]
  BY Zenon, <1>2 DEF ReleaseHandle, Goto
<1>4. /\ Fields \subseteq DOMAIN s /\ s.request = op[h].request /\ s.token = op[h].token
      /\ s.kind = op[h].kind /\ s.pc = op[h].pc /\ s.rev = op[h].rev
      /\ s.attempt = op[h].attempt /\ s.ref = op[h].ref /\ s.id = op[h].id
      /\ s.receipt = op[h].receipt /\ s.rc = op[h].rc /\ s.tool = op[h].tool
      /\ s.obs = op[h].obs /\ s.closed = op[h].closed /\ s.dispatched = op[h].dispatched
  BY Zenon, <1>1, <1>2 DEF OutcomeOK, Fields
<1>5. TokenOK(s)
  BY Zenon, <1>1, <1>4 DEF OutcomeOK, TokenOK
<1>6. OutcomeOK(s)
  BY Zenon, <1>1, <1>4, <1>5, SameOutcome
<1> QED
  BY Zenon, <1>1, <1>3, <1>6, OutcomeGoes, OutcomeEnds

LEMMA CloseOutcome ==
    ASSUME ExecInv, OutcomeInv, NEW h \in Harnesses, Close(h)
    PROVE  OutcomeInv'
<1>1. /\ UNCHANGED jobVars /\ got' = got /\ op[h] # None /\ OutcomeOK(op[h]) /\ op[h].pc = "close"
  BY Zenon DEF Close, At, history, OutcomeInv
<1>2. PICK s : s = [op[h] EXCEPT !.pc = "publish_cancel", !.closed = TRUE]
  BY Zenon
<1>3. op' = [op EXCEPT ![h] = s]
  BY Zenon, <1>2 DEF Close, Goto
<1>4. /\ Fields \subseteq DOMAIN s /\ s.request = op[h].request /\ s.token = op[h].token
      /\ s.kind = op[h].kind /\ s.pc = "publish_cancel" /\ s.rev = op[h].rev
      /\ s.ref = op[h].ref /\ s.receipt = op[h].receipt /\ s.rc = op[h].rc /\ s.tool = op[h].tool
      /\ s.closed = TRUE /\ s.dispatched = op[h].dispatched
  BY Zenon, <1>1, <1>2 DEF OutcomeOK, Fields
<1>5. "close" \in Settling /\ "publish_cancel" \in Settling /\ "publish_cancel" \notin Admitted
  BY Zenon DEF Settling, Admitted, Owning, Resting
<1>6. TokenOK(s) /\ CodesOK(s)
  BY ZenonT(40), <1>1, <1>4, <1>5 DEF OutcomeOK, TokenOK, CodesOK
<1>7. OutcomeOK(s)
  BY Zenon, <1>1, <1>4, <1>5, <1>6 DEF OutcomeOK
<1> QED
  BY Zenon, <1>1, <1>3, <1>7, OutcomeGoes

(* What the worker observes agrees with itself. *)
LEMMA ObservationFits ==
    ASSUME NEW h \in Harnesses, OutcomeOK(op[h]), op[h].pc = "publish_cancel", NEW c,
           op[h].request = None => c = "absent", NEW x, x = Observation(h, c)
    PROVE  /\ x.ref = op[h].ref /\ x.cancelStatus = c
           /\ x.state = "completed" => op[h].request = None
           /\ Records(op[h]) => RecordValid(x)
<1> DEFINE r == op[h]
           delivered == IF r.rc = "ok" THEN TokenStatus(r.token) ELSE r.rc
<1>1. /\ x.dispatched = r.dispatched /\ x.operation = r.rc /\ x.tool = r.tool
      /\ x.request = r.request /\ x.cancelStatus = c /\ x.ref = r.ref
      /\ x.state = CASE delivered = "ok" -> "completed"
                     [] delivered \in {"cancelled", "timed_out"} -> delivered
                     [] OTHER -> "failed"
  BY Zenon DEF Observation
<1>2. CodesOK(r) /\ TokenOK(r) /\ (r.ref # None => r.ref.attempt = BoundAttempt)
  BY Zenon DEF OutcomeOK
<1>3. r.rc \in {"ok", "error", "cancelled", "timed_out"} /\ (r.rc = "ok" <=> r.ref # None)
  BY Zenon, <1>2 DEF CodesOK, Codes
<1> HIDE DEF r
<1>4. CASE r.rc = "error"
  <2>1. x.state = "failed"
    BY Zenon, <1>1, <1>4
  <2>2. Records(r) => r.dispatched
    BY Zenon, <1>2, <1>4 DEF CodesOK, Records
  <2> QED
    BY Zenon, <1>1, <1>2, <1>3, <1>4, <2>1, <2>2 DEF RecordValid, r
<1>5. CASE r.rc = "cancelled"
  <2>1. x.state = "cancelled" /\ r.tool = "cancelled"
    BY Zenon, <1>1, <1>2, <1>5 DEF CodesOK
  <2> QED
    BY Zenon, <1>1, <1>2, <1>3, <1>5, <2>1 DEF RecordValid, r
<1>6. CASE r.rc = "timed_out"
  <2>1. x.state = "timed_out" /\ r.tool = "deadline"
    BY Zenon, <1>1, <1>2, <1>6 DEF CodesOK
  <2>2. Records(r) => r.dispatched
    BY Zenon, <1>2, <1>6 DEF CodesOK, Records
  <2> QED
    BY Zenon, <1>1, <1>2, <1>3, <1>6, <2>1, <2>2 DEF RecordValid, r
<1>7. CASE r.rc = "ok"
  <2>1. r.tool = "ok" /\ r.token \in {None, "user", "deadline"} /\ r.kind \in Background
    BY Zenon, <1>2, <1>7 DEF CodesOK, TokenOK
  <2>2. Records(r) => r.dispatched
    BY Zenon, <1>2, <1>7 DEF CodesOK, Records
  <2>3. /\ x.state \in {"completed", "cancelled", "timed_out"}
        /\ x.state = "completed" => r.token = None
        /\ x.state = "cancelled" => r.token = "user"
    <3>1. CASE r.token = None
      <4>1. TokenStatus(r.token) = "ok"
        BY Zenon, <3>1, NoneIsApart DEF TokenStatus
      <4>2. x.state = "completed"
        BY Zenon, <1>1, <1>7, <4>1
      <4> QED
        BY Zenon, <3>1, <4>2
    <3>2. CASE r.token # None /\ r.token = "deadline"
      BY Zenon, <1>1, <1>7, <3>2 DEF TokenStatus
    <3>3. CASE r.token # None /\ r.token = "user"
      BY Zenon, <1>1, <1>7, <3>3 DEF TokenStatus
    <3> QED
      BY Zenon, <2>1, <3>1, <3>2, <3>3
  <2>4. /\ x.state = "completed" => r.request = None
        /\ x.state = "cancelled" => r.request # None
    BY Zenon, <1>2, <2>1, <2>3 DEF TokenOK
  <2> QED
    BY Zenon, <1>1, <1>2, <1>3, <1>7, <2>1, <2>2, <2>3, <2>4 DEF RecordValid, r
<1> QED
  BY Zenon, <1>3, <1>4, <1>5, <1>6, <1>7

(* A valid record stays valid while its attempt is the bound one. *)
LEMMA ValidStays ==
    ASSUME NEW y, RecordValid(y), y.ref # None => y.ref.attempt = BoundAttempt'
    PROVE  RecordValid(y)'
BY SMT DEF RecordValid

LEMMA PublishCancelOutcome ==
    ASSUME ExecInv, OutcomeInv, NEW h \in Harnesses, NEW o \in Outcomes, PublishCancel(h, o)
    PROVE  OutcomeInv'
<1>1. /\ revs' = revs /\ got' = got /\ op[h] # None /\ OutcomeOK(op[h])
      /\ op[h].pc = "publish_cancel" /\ DOMAIN op = Harnesses
  BY Zenon DEF PublishCancel, At, history, OutcomeInv, ExecInv, TypeInv
<1>2. Final
  BY Zenon, <1>1, SameHistory DEF PublishCancel, Inserted
<1>0. PICK c : c = CancelStatus(h, o)
  BY Zenon
<1>3. PICK x : x = Observation(h, c)
  BY Zenon
<1>4. PICK s : s = [op[h] EXCEPT !.pc = "record", !.obs = x]
  BY Zenon
<1>5. op' = [op EXCEPT ![h] = s]
  BY Zenon, <1>0, <1>3, <1>4 DEF PublishCancel, Goto
<1>6. op[h].request = None => c = "absent"
  BY Zenon, <1>0 DEF CancelStatus
<1>7. /\ x.ref = op[h].ref /\ x.cancelStatus = c
      /\ (x.state = "completed" => op[h].request = None)
      /\ (Records(op[h]) => RecordValid(x))
  BY SMT, <1>1, <1>3, <1>6, ObservationFits
<1>8. op[h].request # None /\ c = "ok" =>
         cancellation' # None /\ cancellation' = Cancellation(op[h].rev, op[h].request)
  <2> SUFFICES ASSUME op[h].request # None, c = "ok"
               PROVE  cancellation' # None /\ cancellation' = Cancellation(op[h].rev, op[h].request)
    BY Zenon
  <2>1. HeadReadable /\ Revision = op[h].rev /\ cancellation = None /\ o = "ok"
    BY Zenon, <1>0 DEF CancelStatus, Acknowledged
  <2>2. cancellation' = Cancellation(op[h].rev, op[h].request)
    BY Zenon, <2>1 DEF PublishCancel, Inserted
  <2>3. op[h].rev \in Nat /\ op[h].request \in Requests
    BY Zenon, <1>1 DEF OutcomeOK
  <2>4. Cancellation(op[h].rev, op[h].request) \in [rev : Nat, request : Requests]
    BY Zenon, <2>3 DEF Cancellation
  <2> QED
    BY Zenon, <2>2, <2>4, NoneIsApart
<1>9. /\ Fields \subseteq DOMAIN s /\ s.request = op[h].request /\ s.token = op[h].token
      /\ s.kind = op[h].kind /\ s.pc = "record" /\ s.rev = op[h].rev /\ s.obs = x
      /\ s.ref = op[h].ref /\ s.receipt = op[h].receipt /\ s.id = op[h].id
      /\ s.closed = op[h].closed /\ s.dispatched = op[h].dispatched
  BY Zenon, <1>1, <1>4 DEF OutcomeOK, Fields
<1>10. "record" \in Settling /\ "publish_cancel" \in Settling /\ "record" \notin Admitted
  BY Zenon DEF Settling, Admitted, Owning, Resting
<1>11. TokenOK(s)
  BY Zenon, <1>1, <1>9, <1>10 DEF OutcomeOK, TokenOK
<1>12. ObservedOK(s)'
  BY Zenon, <1>7, <1>8, <1>9 DEF ObservedOK
<1>13. s.ref # None => IsBound' /\ s.ref.attempt = BoundAttempt'
  BY Zenon, <1>1, <1>2, <1>9 DEF OutcomeOK, Final
<1>14. Records(s) => RecordValid(s.obs)'
  <2>1. Records(s) => RecordValid(x)
    BY Zenon, <1>7, <1>9 DEF Records
  <2> QED
    BY Zenon, <1>7, <1>9, <1>13, <2>1, ValidStays
<1>15. OutcomeOK(s)'
  <2>1. TokenOK(s)' /\ (Records(s)' <=> Records(s))
    BY Zenon, <1>11 DEF TokenOK, Records
  <2> QED
    BY Zenon, <1>1, <1>7, <1>9, <1>10, <1>12, <1>13, <1>14, <2>1 DEF OutcomeOK
<1> QED
  BY Zenon, <1>1, <1>2, <1>5, <1>15, OutcomeMove

LEMMA RecordOutcome ==
    ASSUME ExecInv, OutcomeInv, NEW h \in Harnesses, NEW o \in Outcomes, Record(h, o)
    PROVE  OutcomeInv'
<1>1. /\ UNCHANGED jobVars /\ got' = got /\ op[h] # None /\ OutcomeOK(op[h]) /\ op[h].pc = "record"
  BY Zenon DEF Record, At, history, OutcomeInv
<1>2. CASE op' = [op EXCEPT ![h] = None]
  BY Zenon, <1>1, <1>2, OutcomeEnds
<1>3. ASSUME NEW status, NEW ref, ref \in {op[h].ref, None},
             op' = [op EXCEPT ![h] = [op[h] EXCEPT !.pc = "terminal", !.recorded = status, !.ref = ref]]
      PROVE  OutcomeInv'
  <2>1. PICK s : s = [op[h] EXCEPT !.pc = "terminal", !.recorded = status, !.ref = ref]
    BY Zenon
  <2>2. /\ Fields \subseteq DOMAIN s /\ s.request = op[h].request /\ s.token = op[h].token
        /\ s.kind = op[h].kind /\ s.pc = "terminal" /\ s.rev = op[h].rev /\ s.obs = op[h].obs
        /\ s.ref = ref /\ s.closed = op[h].closed /\ s.dispatched = op[h].dispatched
    BY Zenon, <1>1, <2>1 DEF OutcomeOK, Fields
  <2>3. "record" \in Settling /\ "terminal" \in Settling /\ "terminal" \notin Admitted
    BY Zenon DEF Settling, Admitted, Owning, Resting
  <2>4. TokenOK(s) /\ ObservedOK(s)
    BY Zenon, <1>1, <2>2, <2>3 DEF OutcomeOK, TokenOK, ObservedOK
  <2>5. OutcomeOK(s)
    BY Zenon, <1>1, <1>3, <2>2, <2>3, <2>4 DEF OutcomeOK
  <2> QED
    BY Zenon, <1>1, <1>3, <2>1, <2>5, OutcomeGoes
<1>4. \/ op' = [op EXCEPT ![h] = None]
      \/ \E status, ref : /\ ref \in {op[h].ref, None}
                          /\ op' = [op EXCEPT ![h] = [op[h] EXCEPT !.pc = "terminal",
                                                        !.recorded = status, !.ref = ref]]
  BY Zenon DEF Record, Goto
<1> QED
  BY Zenon, <1>2, <1>3, <1>4

(* Steps that end an operation, and a change of policy. *)
LEMMA OtherOutcome ==
    ASSUME ExecInv, OutcomeInv, NEW h \in Harnesses,
           ChangePolicy(h) \/ Crash(h) \/ \E o \in Outcomes : PublishReview(h, o)
    PROVE  OutcomeInv'
<1>1. CASE Crash(h) \/ \E o \in Outcomes : PublishReview(h, o)
  BY Zenon, <1>1, OutcomeEnds DEF Crash, PublishReview, Goto, history
<1>2. CASE ChangePolicy(h)
  <2>1. op' = op /\ got' = got
    BY Zenon, <1>2 DEF ChangePolicy, history
  <2>2. Final
    BY Zenon, <1>2, SameHistory DEF ChangePolicy, jobVars, jobStore
  <2>3. \A q : OutcomeOK(q) => OutcomeOK(q)'
    BY Zenon, <2>2, OutcomeStays
  <2> QED
    BY Zenon, <2>1, <2>3 DEF OutcomeInv
<1> QED
  BY Zenon, <1>1, <1>2

LEMMA InitOutcomeInv == Init => OutcomeInv
  BY Zenon DEF Init, OutcomeInv

(* Every step keeps what operations know about their outcome. *)
LEMMA NextOutcomeInv == ExecInv /\ OutcomeInv /\ [Next]_vars => OutcomeInv'
<1> SUFFICES ASSUME ExecInv, OutcomeInv, [Next]_vars PROVE OutcomeInv'
  BY Zenon
<1>1. CASE UNCHANGED vars
  <2>1. op' = op /\ got' = got
    BY Zenon, <1>1 DEF vars, history
  <2>2. Final
    BY Zenon, <1>1, SameHistory DEF vars, jobVars, jobStore
  <2>3. \A q : OutcomeOK(q) => OutcomeOK(q)'
    BY Zenon, <2>2, OutcomeStays
  <2> QED
    BY Zenon, <2>1, <2>3 DEF OutcomeInv
<1>2. CASE JobCall
  <2>1. op' = op /\ got' = got
    BY Zenon, <1>2 DEF JobCall, history
  <2>2. \A q : OutcomeOK(q) => OutcomeOK(q)'
    BY Zenon, <1>2, JobCallFinal, OutcomeStays DEF JobCall, ExecInv
  <2> QED
    BY Zenon, <2>1, <2>2 DEF OutcomeInv
<1>3. ASSUME NEW h \in Harnesses, Start(h)
      PROVE  OutcomeInv'
  BY Zenon, <1>3, StartOutcome
<1>4. ASSUME NEW h \in Harnesses, LocalStep(h)
      PROVE  OutcomeInv'
  BY Zenon, <1>4, SubmissionOutcome, SelectOutcome, ReturnCallbackOutcome, RefuseOutcome,
     AdmitOutcome, LookupOutcome, DeliverOutcome, CloseOutcome DEF LocalStep
<1>5. ASSUME NEW h \in Harnesses, HostStep(h)
      PROVE  OutcomeInv'
  BY Zenon, <1>5, CancelExecutionOutcome, SignalTokenOutcome, ReleaseHandleOutcome,
     TakeResultOutcome, OtherOutcome DEF HostStep
<1>6. ASSUME NEW h \in Harnesses, NEW o \in Outcomes, StoreStep(h, o)
      PROVE  OutcomeInv'
  BY Zenon, <1>6, SubmissionOutcome, QueueReceiptOutcome, InspectStoreOutcome,
     PublishCancelOutcome, RecordOutcome, OtherOutcome DEF StoreStep
<1> QED
  BY Zenon, <1>1, <1>2, <1>3, <1>4, <1>5, <1>6 DEF Next

LEMMA OutcomeInvHonest == ExecInv /\ OutcomeInv => OutcomeHonest
<1> SUFFICES ASSUME OutcomeInv PROVE OutcomeHonest
  BY Zenon
<1>1. CancelHonoured
  BY Zenon DEF OutcomeInv, OutcomeOK, ObservedOK, CancelHonoured, At
<1>2. ObservationValid
  BY Zenon DEF OutcomeInv, OutcomeOK, ObservationValid, At, Recording, Records
<1> QED
  BY Zenon, <1>1, <1>2 DEF OutcomeHonest

(* An accepted cancel is honoured whatever it races with, and the worker   *)
(* never builds an observation that record_valid would refuse              *)
(* (turbo_agent_job_execution.c, turbo_agent_job_observation.c).           *)
THEOREM OutcomesAreHonest == Spec => []OutcomeHonest
<1>1. Spec => []OutcomeInv
  BY InitOutcomeInv, NextOutcomeInv, ExecInvHolds, PTL DEF Spec
<1> QED
  BY <1>1, ExecInvHolds, OutcomeInvHonest, PTL

-----------------------------------------------------------------------------
(* The chain of records.                                                   *)

(* What an operation adds to the chain, or rests on. *)
EvidenceOK(r) ==
    /\ r.call \in Calls
    /\ r.pc \in Admitted /\ r.kind # "direct" => IsBound /\ r.plan = BoundSource
    /\ r.pc \in {"finalize", "deliver"} =>
          journals[r.call] # None /\ journals[r.call].phase = "committed"
    /\ r.pc = "deliver" => r.call \in runs
    /\ r.call \in runs => r.pc \in Settling \cup {"deliver"}
    /\ r.ref # None => Backed(r.ref)
    /\ r.kind = "receipted" => r.id \in Ids
    /\ r.kind = "receipted" /\ r.pc \in Admitted \cup {"admit"} =>
          receipts[r.id] = [supervisor |-> r.call, selection |-> "run"]
    /\ r.pc = "publish" /\ r.kind = "accept" => Backed(r.result.ref)
    /\ r.pc = "publish" /\ r.kind = "prepare" =>
          acceptance # None /\ acceptance.decision = "accepted"
    /\ r.pc = "publish" /\ r.kind = "confirm" /\ r.result # None => intent = r.result

(* The inductive invariant behind EvidenceChain.  The chain alone is not   *)
(* inductive: a journal that an acceptance rests on could be written again *)
(* if its call were still inside its Inspect.  It is not, because its Run  *)
(* was stored, which is the last thing an Inspect does.                    *)
EvidenceInv ==
    /\ bounds.calls <= MaxCalls /\ DOMAIN journals = Calls
    /\ DOMAIN receipts = Ids /\ DOMAIN observations = Ids
    /\ \A c \in runs : /\ c \in 1..bounds.calls
                       /\ journals[c] # None /\ journals[c].phase = "committed"
    /\ \A x \in entered : x.id \in Ids \cup {None}
    /\ \A h \in Harnesses : op[h] # None => EvidenceOK(op[h])
    /\ EvidenceChain

(* No attempt that was committed is written again. *)
CommittedStay ==
    \A a \in Attempts : attempts[a] # None /\ attempts[a].phase = "committed" =>
       attempts'[a] # None /\ attempts'[a].phase = "committed"

(* What a step of call c may do to the records others rest on. *)
EvidenceStep(c) ==
    /\ Final
    /\ runs \subseteq runs' /\ runs' \subseteq runs \cup {c}
    /\ \A d \in Calls : d # c \/ d \in runs => journals'[d] = journals[d]
    /\ CommittedStay
    /\ \A i \in Ids : receipts[i] # None => receipts'[i] = receipts[i]
    /\ acceptance # None => acceptance' = acceptance
    /\ intent # None => intent' = intent

(* A binding names an attempt. *)
LEMMA BoundIsAttempt ==
    ASSUME JobInv, IsBound
    PROVE  BoundAttempt \in Attempts
<1>1. Revision \in Revisions /\ revs[Revision] # None
  BY Zenon, RevisionIsLast DEF IsBound, Kind
<1>2. HeadReadable
  BY Zenon, <1>1 DEF JobInv, FitsAt, HeadReadable
<1> QED
  BY Zenon, <1>2, BoundTypes

LEMMA BackedStays ==
    ASSUME ExecInv, EvidenceInv, NEW c, EvidenceStep(c), NEW ref, Backed(ref)
    PROVE  Backed(ref)'
<1>1. ref.attempt \in Attempts
  BY Zenon, BoundIsAttempt DEF Backed, ExecInv
<1>2. ref.call \in runs /\ ref.call \in Calls
  <2>1. ref.call \in runs /\ ref.call \in 1..bounds.calls
    BY Zenon DEF Backed, EvidenceInv
  <2>2. bounds.calls \in Nat /\ bounds.calls <= MaxCalls /\ MaxCalls \in Nat
    BY Zenon, ExecutionConstants DEF ExecInv, TypeInv, EvidenceInv
  <2> QED
    BY <2>1, <2>2 DEF Calls
<1>3. IsBound' /\ ref.attempt = BoundAttempt' /\ ref.plan = BoundSource'
  BY Zenon DEF Backed, EvidenceStep, Final
<1>4. attempts'[ref.attempt] # None /\ attempts'[ref.attempt].phase = "committed"
  BY Zenon, <1>1 DEF Backed, EvidenceStep, CommittedStay
<1>5. /\ journals'[ref.call] # None /\ journals'[ref.call].phase = "committed"
      /\ ref.call \in runs'
  BY Zenon, <1>2 DEF Backed, EvidenceStep
<1> QED
  BY Zenon, <1>3, <1>4, <1>5 DEF Backed

(* Records of receipts are not taken for absent ones. *)
LEMMA ReceiptIsRecord ==
    ASSUME NEW c \in Calls
    PROVE  [supervisor |-> c, selection |-> "run"] # None
<1>1. c \in Nat
  BY ExecutionConstants DEF Calls
<1>2. [supervisor |-> c, selection |-> "run"] \in
         [supervisor : Nat, selection : {"run", "rejected", "pool_cancelled"}]
  BY <1>1
<1> QED
  BY Zenon, <1>2, NoneIsApart

(* What an operation rests on survives a step of another Harness, and a    *)
(* step of its own that leaves the journals and Runs it needs alone.       *)
LEMMA EvidenceStays ==
    ASSUME ExecInv, EvidenceInv, NEW c, EvidenceStep(c), NEW q, EvidenceOK(q),
           q.call # c \/ (runs' = runs /\ q.pc \notin {"finalize", "deliver"})
                               \/ (runs' = runs /\ journals' = journals)
    PROVE  EvidenceOK(q)'
<1>1. q.call \in Calls /\ (q.pc \in Admitted /\ q.kind # "direct" => IsBound' /\ q.plan = BoundSource')
  BY Zenon DEF EvidenceOK, EvidenceStep, Final
<1>2. q.pc \in {"finalize", "deliver"} =>
         journals'[q.call] # None /\ journals'[q.call].phase = "committed"
  BY Zenon DEF EvidenceOK, EvidenceStep
<1>3. /\ q.pc = "deliver" => q.call \in runs'
      /\ q.call \in runs' => q.pc \in Settling \cup {"deliver"}
  BY Zenon DEF EvidenceOK, EvidenceStep
<1>4. /\ q.ref # None => Backed(q.ref)'
      /\ q.pc = "publish" /\ q.kind = "accept" => Backed(q.result.ref)'
  BY Zenon, BackedStays DEF EvidenceOK
<1>5. /\ q.kind = "receipted" => q.id \in Ids
      /\ q.kind = "receipted" /\ q.pc \in Admitted \cup {"admit"} =>
            receipts'[q.id] = [supervisor |-> q.call, selection |-> "run"]
  BY Zenon, ReceiptIsRecord DEF EvidenceOK, EvidenceStep
<1>6. /\ q.pc = "publish" /\ q.kind = "prepare" =>
            acceptance' # None /\ acceptance'.decision = "accepted"
      /\ q.pc = "publish" /\ q.kind = "confirm" /\ q.result # None => intent' = q.result
  BY Zenon DEF EvidenceOK, EvidenceStep
<1> QED
  BY Zenon, <1>1, <1>2, <1>3, <1>4, <1>5, <1>6 DEF EvidenceOK

(* Callbacks newly entered for a queue receipt have it. *)
EnteredFits ==
    \A x \in entered' : \/ x \in entered
                        \/ /\ x.id \in Ids \cup {None}
                           /\ x.id # None =>
                                 receipts'[x.id] = [supervisor |-> x.call, selection |-> "run"]

(* A step that leaves reviews and observations alone keeps the chain. *)
LEMMA ChainStays ==
    ASSUME ExecInv, EvidenceInv, NEW c, EvidenceStep(c), UNCHANGED reviews,
           observations' = observations, EnteredFits
    PROVE  EvidenceChain' /\ \A x \in entered' : x.id \in Ids \cup {None}
<1>1. \A ref : Backed(ref) => Backed(ref)'
  BY Zenon, BackedStays
<1>2. ASSUME NEW x \in entered, x.id # None
      PROVE  receipts'[x.id] = [supervisor |-> x.call, selection |-> "run"]
  <2>1. x.id \in Ids /\ receipts[x.id] = [supervisor |-> x.call, selection |-> "run"]
    BY Zenon, <1>2 DEF EvidenceInv, EvidenceChain
  <2>2. x.call \in 1..bounds.calls
    BY Zenon DEF ExecInv, EnteredOK
  <2>3. bounds.calls \in Nat /\ bounds.calls <= MaxCalls /\ MaxCalls \in Nat
    BY Zenon, ExecutionConstants DEF ExecInv, TypeInv, EvidenceInv
  <2>4. x.call \in Calls
    BY <2>2, <2>3 DEF Calls
  <2> QED
    BY Zenon, <2>1, <2>4, ReceiptIsRecord DEF EvidenceStep
<1>3. acceptance' = acceptance /\ intent' = intent /\ delivery' = delivery
  BY Zenon DEF reviews
<1>4. /\ \A x \in entered' : x.id # None =>
            receipts'[x.id] = [supervisor |-> x.call, selection |-> "run"]
      /\ \A x \in entered' : x.id \in Ids \cup {None}
  BY Zenon, <1>2 DEF EnteredFits, EvidenceInv
<1> QED
  BY Zenon, <1>1, <1>3, <1>4 DEF EvidenceInv, EvidenceChain

(* A step of one Harness keeps the invariant if its own operation and the  *)
(* records it writes stay in order.                                        *)
LEMMA EvidenceMove ==
    ASSUME ExecInv, EvidenceInv, NEW h \in Harnesses, NEW s,
           op' = [op EXCEPT ![h] = s], s # None => EvidenceOK(s)',
           NEW c, EvidenceStep(c),
           (op[h] # None /\ c = op[h].call) \/ (journals' = journals /\ runs' = runs),
           bounds'.calls <= MaxCalls, bounds'.calls \in Nat, bounds.calls <= bounds'.calls,
           DOMAIN journals' = Calls, DOMAIN receipts' = Ids, DOMAIN observations' = Ids,
           \A d \in runs' : /\ d \in 1..bounds'.calls
                            /\ journals'[d] # None /\ journals'[d].phase = "committed",
           \A x \in entered' : x.id \in Ids \cup {None},
           EvidenceChain'
    PROVE  EvidenceInv'
<1>1. DOMAIN op = Harnesses
  BY Zenon DEF ExecInv, TypeInv
<1>2. ASSUME NEW k \in Harnesses, k # h, op[k] # None
      PROVE  EvidenceOK(op[k])'
  <2>1. EvidenceOK(op[k])
    BY Zenon, <1>2 DEF EvidenceInv
  <2>2. op[k].call # c \/ (journals' = journals /\ runs' = runs)
    BY Zenon, <1>2 DEF ExecInv, CallsDiffer
  <2>3. PICK q : q = op[k]
    BY Zenon
  <2>4. EvidenceOK(q)'
    BY Zenon, <2>1, <2>2, <2>3, EvidenceStays
  <2>5. op'[k] = op[k]
    BY Zenon, <1>1, <1>2
  <2> QED
    BY Zenon, <2>3, <2>4, <2>5
<1>3. op'[h] = s
  BY Zenon, <1>1
<1>4. \A k \in Harnesses : op'[k] # None => EvidenceOK(op[k])'
  <2> SUFFICES ASSUME NEW k \in Harnesses, op'[k] # None PROVE EvidenceOK(op[k])'
    BY Zenon
  <2>1. CASE k = h
    BY Zenon, <1>3, <2>1
  <2>2. CASE k # h
    BY Zenon, <1>1, <1>2, <2>2
  <2> QED
    BY Zenon, <2>1, <2>2
<1> QED
  BY Zenon, <1>4 DEF EvidenceInv

(* Steps that write none of the records. *)
EvidenceSame == UNCHANGED <<attempts, journals, runs, receipts, observations, reviews, entered>>

LEMMA SameIsStep ==
    ASSUME EvidenceSame, Final
    PROVE  \A c : EvidenceStep(c)
  BY Zenon DEF EvidenceSame, EvidenceStep, CommittedStay, reviews

LEMMA EvidenceCalm ==
    ASSUME ExecInv, EvidenceInv, NEW h \in Harnesses, NEW s,
           op' = [op EXCEPT ![h] = s], s # None => EvidenceOK(s)',
           EvidenceSame, Final,
           bounds'.calls <= MaxCalls, bounds'.calls \in Nat, bounds.calls <= bounds'.calls
    PROVE  EvidenceInv'
<1>1. EvidenceStep(0)
  BY Zenon, SameIsStep
<1>2. EvidenceChain'
  BY Zenon, <1>1, ChainStays DEF EvidenceSame, EnteredFits
<1>3. \A d \in runs' : d \in 1..bounds'.calls
  <2>1. \A d \in runs' : d \in 1..bounds.calls
    BY Zenon DEF EvidenceSame, EvidenceInv
  <2>2. bounds.calls \in Nat
    BY Zenon DEF ExecInv, TypeInv
  <2> QED
    BY <2>1, <2>2
<1>4. journals' = journals /\ runs' = runs /\ receipts' = receipts
      /\ observations' = observations /\ entered' = entered
  BY Zenon DEF EvidenceSame
<1>5. \A d \in runs' : journals'[d] # None /\ journals'[d].phase = "committed"
  BY Zenon, <1>4 DEF EvidenceInv
<1>6. DOMAIN journals' = Calls /\ DOMAIN receipts' = Ids /\ DOMAIN observations' = Ids
      /\ \A x \in entered' : x.id \in Ids \cup {None}
  BY Zenon, <1>4 DEF EvidenceInv
<1> QED
  BY Zenon, <1>1, <1>2, <1>3, <1>4, <1>5, <1>6, EvidenceMove

(* The same for a step that starts no call and whose operation is in order *)
(* before it.                                                              *)
LEMMA EvidenceGoes ==
    ASSUME ExecInv, EvidenceInv, NEW h \in Harnesses, NEW s,
           op' = [op EXCEPT ![h] = s], s # None => EvidenceOK(s),
           EvidenceSame, Final, bounds'.calls = bounds.calls
    PROVE  EvidenceInv'
<1>1. EvidenceStep(0) /\ runs' = runs /\ journals' = journals
  BY Zenon, SameIsStep DEF EvidenceSame
<1>2. s # None => EvidenceOK(s)'
  BY Zenon, <1>1, EvidenceStays
<1>3. bounds'.calls <= MaxCalls /\ bounds'.calls \in Nat
  BY Zenon DEF EvidenceInv, ExecInv, TypeInv
<1>4. bounds.calls <= bounds'.calls
  BY <1>3
<1> QED
  BY Zenon, <1>2, <1>3, <1>4, EvidenceCalm

(* An operation that goes on with the same call, plan and reference. *)
LEMMA EvidenceKept ==
    ASSUME NEW r, NEW s, EvidenceOK(r),
           s.call = r.call, s.kind = r.kind, s.id = r.id, s.ref \in {r.ref, None},
           s.pc \in Admitted /\ s.kind # "direct" => s.plan = r.plan /\ r.pc \in Admitted,
           s.pc \notin {"finalize", "deliver", "publish"} \/ (s.pc = r.pc /\ s.result = r.result),
           r.call \in runs => s.pc \in Settling \cup {"deliver"},
           s.pc \in Admitted \cup {"admit"} =>
              r.pc \in Admitted \cup {"admit"} \/ r.kind # "receipted"
    PROVE  EvidenceOK(s)
<1>1. s.call \in Calls /\ (s.pc \in Admitted /\ s.kind # "direct" => IsBound /\ s.plan = BoundSource)
  BY Zenon DEF EvidenceOK
<1>2. /\ s.pc \in {"finalize", "deliver"} =>
            journals[s.call] # None /\ journals[s.call].phase = "committed"
      /\ s.pc = "deliver" => s.call \in runs
  BY Zenon DEF EvidenceOK
<1>3. s.call \in runs => s.pc \in Settling \cup {"deliver"}
  BY Zenon
<1>4. s.ref # None => Backed(s.ref)
  BY Zenon DEF EvidenceOK
<1>5. /\ s.kind = "receipted" => s.id \in Ids
      /\ s.kind = "receipted" /\ s.pc \in Admitted \cup {"admit"} =>
            receipts[s.id] = [supervisor |-> s.call, selection |-> "run"]
  BY Zenon DEF EvidenceOK
<1>6. /\ s.pc = "publish" /\ s.kind = "accept" => Backed(s.result.ref)
      /\ s.pc = "publish" /\ s.kind = "prepare" =>
            acceptance # None /\ acceptance.decision = "accepted"
      /\ s.pc = "publish" /\ s.kind = "confirm" /\ s.result # None => intent = s.result
  BY Zenon DEF EvidenceOK
<1> QED
  BY Zenon, <1>1, <1>2, <1>3, <1>4, <1>5, <1>6 DEF EvidenceOK

(* The operation of a step that moves on with the same call. *)
Kin(r, s) ==
    /\ s.call = r.call /\ s.kind = r.kind /\ s.id = r.id /\ s.plan = r.plan /\ s.ref = r.ref
    /\ \/ s.pc = r.pc /\ s.result = r.result
       \/ s.pc \in Admitted \ {"finalize", "deliver"} /\ r.pc \in Admitted \ {"deliver"}
       \/ s.pc \in Settling
       \/ s.pc \in {"receipt", "queued", "rejected", "admission", "enqueue"} /\ r.pc \notin Settling \cup {"deliver"}
       \/ s.pc = "admit" /\ r.kind # "receipted" /\ r.pc \notin Settling \cup {"deliver"}

LEMMA KinKept ==
    ASSUME NEW r, NEW s, EvidenceOK(r), Kin(r, s)
    PROVE  EvidenceOK(s)
<1>1. r.call \in runs => r.pc \in Settling \cup {"deliver"}
  BY Zenon DEF EvidenceOK
<1>2. \A p \in Settling \cup {"receipt", "queued", "rejected", "admission", "enqueue", "admit"} :
         p \notin Admitted /\ p \notin {"finalize", "deliver", "publish"}
  BY Zenon DEF Settling, Admitted, Owning, Resting
<1>3. \A p \in Admitted : p # "publish" /\ p \notin Settling
  BY Zenon DEF Settling, Admitted, Owning, Resting
<1>4. CASE s.pc = r.pc /\ s.result = r.result
  BY Zenon, <1>1, <1>4, EvidenceKept DEF Kin
<1>5. CASE s.pc \in Admitted \ {"finalize", "deliver"} /\ r.pc \in Admitted \ {"deliver"}
  BY Zenon, <1>1, <1>3, <1>5, EvidenceKept DEF Kin
<1>6. CASE s.pc \in Settling
  BY Zenon, <1>1, <1>2, <1>6, EvidenceKept DEF Kin, Settling
<1>7. CASE s.pc \in {"receipt", "queued", "rejected", "admission", "enqueue"} /\ r.pc \notin Settling \cup {"deliver"}
  BY Zenon, <1>1, <1>2, <1>7, EvidenceKept DEF Kin
<1>8. CASE s.pc = "admit" /\ r.kind # "receipted" /\ r.pc \notin Settling \cup {"deliver"}
  BY Zenon, <1>1, <1>2, <1>8, EvidenceKept DEF Kin
<1> QED
  BY Zenon, <1>4, <1>5, <1>6, <1>7, <1>8 DEF Kin

LEMMA EvidenceGoesOn ==
    ASSUME ExecInv, EvidenceInv, NEW h \in Harnesses, op[h] # None, NEW s,
           op' = [op EXCEPT ![h] = s], s # None => Kin(op[h], s),
           EvidenceSame, Final, bounds'.calls = bounds.calls
    PROVE  EvidenceInv'
<1>1. EvidenceOK(op[h])
  BY Zenon DEF EvidenceInv
<1>2. s # None => EvidenceOK(s)
  BY Zenon, <1>1, KinKept
<1> QED
  BY Zenon, <1>2, EvidenceGoes

LEMMA Untouched ==
    ASSUME UNCHANGED <<jobVars, executionStore, entered>>
    PROVE  EvidenceSame /\ Final
<1>1. EvidenceSame
  BY Zenon DEF EvidenceSame, executionStore, records, reviews
<1>2. Final
  BY Zenon, SameHistory DEF jobVars, jobStore
<1> QED
  BY Zenon, <1>1, <1>2

(* An Inspect that ends, and an operation that only moves on. *)
LEMMA EndedKin ==
    ASSUME NEW r, Fields \subseteq DOMAIN r, NEW rc, NEW tool, NEW s,
           s = [r EXCEPT !.pc = "close", !.rc = rc, !.tool = tool]
    PROVE  Kin(r, s)
<1>1. /\ s.call = r.call /\ s.kind = r.kind /\ s.id = r.id /\ s.plan = r.plan /\ s.ref = r.ref
      /\ s.pc = "close"
  BY Zenon DEF Fields
<1> QED
  BY Zenon, <1>1 DEF Kin, Settling

LEMMA MovedKin ==
    ASSUME NEW r, Fields \subseteq DOMAIN r, NEW p, NEW s, s = [r EXCEPT !.pc = p],
           \/ p \in Admitted \ {"finalize", "deliver"} /\ r.pc \in Admitted \ {"deliver"}
           \/ p \in Settling
           \/ p \in {"receipt", "queued", "rejected", "admission", "enqueue"} /\ r.pc \notin Settling \cup {"deliver"}
           \/ p = "admit" /\ r.kind # "receipted" /\ r.pc \notin Settling \cup {"deliver"}
    PROVE  Kin(r, s)
<1>1. /\ s.call = r.call /\ s.kind = r.kind /\ s.id = r.id /\ s.plan = r.plan /\ s.ref = r.ref
      /\ s.pc = p
  BY Zenon DEF Fields
<1> QED
  BY Zenon, <1>1 DEF Kin

LEMMA EndedEvidence ==
    ASSUME ExecInv, OutcomeInv, EvidenceInv, NEW h \in Harnesses, op[h] # None,
           NEW rc, NEW tool, Ended(h, rc, tool),
           UNCHANGED <<jobVars, executionStore, entered>>, bounds'.calls = bounds.calls
    PROVE  EvidenceInv'
<1>1. EvidenceSame /\ Final
  BY Zenon, Untouched
<1>2. Fields \subseteq DOMAIN op[h]
  BY Zenon DEF OutcomeInv, OutcomeOK
<1>3. PICK t : t = ToolFor(rc, tool)
  BY Zenon
<1>4. PICK s : s = [op[h] EXCEPT !.pc = "close", !.rc = rc, !.tool = t]
  BY Zenon
<1>5. Kin(op[h], s)
  BY Zenon, <1>2, <1>4, EndedKin
<1>6. op' = [op EXCEPT ![h] = s] \/ op' = [op EXCEPT ![h] = None]
  BY Zenon, <1>3, <1>4 DEF Ended, Goto
<1> QED
  BY Zenon, <1>1, <1>5, <1>6, EvidenceGoesOn

LEMMA MovedEvidence ==
    ASSUME ExecInv, OutcomeInv, EvidenceInv, NEW h \in Harnesses, op[h] # None,
           NEW p, StepTo(h, p),
           \/ p \in Admitted \ {"finalize", "deliver"} /\ op[h].pc \in Admitted \ {"deliver"}
           \/ p \in Settling
           \/ /\ p \in {"receipt", "queued", "rejected", "admission", "enqueue"}
              /\ op[h].pc \notin Settling \cup {"deliver"},
           EvidenceSame, Final, bounds'.calls = bounds.calls
    PROVE  EvidenceInv'
<1>1. Fields \subseteq DOMAIN op[h]
  BY Zenon DEF OutcomeInv, OutcomeOK
<1>2. PICK s : s = [op[h] EXCEPT !.pc = p]
  BY Zenon
<1>3. Kin(op[h], s)
  BY Zenon, <1>1, <1>2, MovedKin
<1> QED
  BY Zenon, <1>2, <1>3, EvidenceGoesOn DEF StepTo, Goto

(* The steps before the pool takes an execution. *)
LEMMA SubmissionEvidence ==
    ASSUME ExecInv, OutcomeInv, EvidenceInv, NEW h \in Harnesses,
           \/ AdmissionCheck(h)
           \/ \E o \in Outcomes : AdmissionWrite(h, o)
           \/ \E b \in BOOLEAN : Enqueue(h, b)
    PROVE  EvidenceInv'
<1>1. /\ EvidenceSame /\ Final /\ op[h] # None /\ op[h].pc \in {"intent", "admission", "enqueue"}
  <2>1. revs' = revs /\ cancellation' = cancellation
    BY Zenon DEF AdmissionCheck, AdmissionWrite, Enqueue, jobVars, jobStore
  <2> QED
    BY Zenon, <2>1, SameHistory DEF AdmissionCheck, AdmissionWrite, Enqueue, At, EvidenceSame, history, executionStore,
       records, reviews
<1>2. bounds'.calls = bounds.calls
  BY Zenon, StoreKeepsBounds DEF AdmissionCheck, AdmissionWrite, Enqueue, ExecInv
<1>3. \/ op' = [op EXCEPT ![h] = None]
      \/ \E p \in {"admission", "enqueue", "queued", "rejected"} : StepTo(h, p)
  BY Zenon DEF AdmissionCheck, AdmissionWrite, Enqueue, Goto
<1>4. op[h].pc \notin Settling \cup {"deliver"}
  BY Zenon, <1>1 DEF Settling
<1> QED
  BY Zenon, <1>1, <1>2, <1>3, <1>4, MovedEvidence, EvidenceGoesOn

(* Steps of the worker that write nothing and go on with the same plan. *)
LEMMA WorkerEvidence ==
    ASSUME ExecInv, OutcomeInv, EvidenceInv, NEW h \in Harnesses,
           \/ \E b \in BOOLEAN : ReturnCallback(h, b)
           \/ \E rc \in {"error", "cancelled", "timed_out"} : Refuse(h, rc)
           \/ Lookup(h)
    PROVE  EvidenceInv'
<1>1. /\ UNCHANGED <<jobVars, executionStore, entered>> /\ bounds'.calls = bounds.calls
      /\ op[h] # None /\ Fields \subseteq DOMAIN op[h]
  BY Zenon DEF ReturnCallback, Refuse, Lookup, At, history, OutcomeInv, OutcomeOK
<1>2. EvidenceSame /\ Final
  BY Zenon, <1>1, Untouched
<1>3. {"lookup", "inside", "claim", "uncertain", "unknown", "commit", "replay"} \subseteq Admitted
  BY Zenon DEF Admitted, Owning, Resting
<1>4. \/ \E rc, tool : Ended(h, rc, tool)
      \/ /\ op[h].pc \in {"lookup", "inside"}
         /\ \/ \E p \in {"claim", "uncertain", "unknown"} : StepTo(h, p)
            \/ \E x : \E p \in {"replay", "commit"} : Goto(h, [op[h] EXCEPT !.pc = p, !.result = x])
  BY Zenon DEF ReturnCallback, Refuse, Lookup, At
<1>5. ASSUME NEW p \in {"replay", "commit"}, NEW x, Goto(h, [op[h] EXCEPT !.pc = p, !.result = x]),
             op[h].pc \in {"lookup", "inside"}
      PROVE  EvidenceInv'
  <2>1. PICK s : s = [op[h] EXCEPT !.pc = p, !.result = x]
    BY Zenon
  <2>2. /\ s.call = op[h].call /\ s.kind = op[h].kind /\ s.id = op[h].id /\ s.plan = op[h].plan
        /\ s.ref = op[h].ref /\ s.pc = p
    BY Zenon, <1>1, <2>1 DEF Fields
  <2>3. Kin(op[h], s)
    BY Zenon, <1>3, <1>5, <2>2 DEF Kin
  <2> QED
    BY Zenon, <1>1, <1>2, <1>5, <2>1, <2>3, EvidenceGoesOn DEF Goto
<1>6. ASSUME NEW p \in {"claim", "uncertain", "unknown"}, StepTo(h, p), op[h].pc \in {"lookup", "inside"}
      PROVE  EvidenceInv'
  BY Zenon, <1>1, <1>2, <1>3, <1>6, MovedEvidence
<1>7. ASSUME NEW rc, NEW tool, Ended(h, rc, tool)
      PROVE  EvidenceInv'
  BY Zenon, <1>1, <1>7, EndedEvidence
<1> QED
  BY Zenon, <1>4, <1>5, <1>6, <1>7

(* Steps of the Host on a held execution, and those that end an operation. *)
LEMMA HostEvidence ==
    ASSUME ExecInv, OutcomeInv, EvidenceInv, NEW h \in Harnesses,
           \/ \E req \in Requests : CancelExecution(h, req)
           \/ \E reason \in {"user", "deadline"} : SignalToken(h, reason)
           \/ ReleaseHandle(h) \/ TakeResult(h) \/ Crash(h) \/ Close(h)
    PROVE  EvidenceInv'
<1>1. /\ UNCHANGED <<jobVars, executionStore, entered>> /\ op[h] # None
      /\ Fields \subseteq DOMAIN op[h]
  BY Zenon DEF CancelExecution, SignalToken, ReleaseHandle, TakeResult, Crash, Close, At, history,
     OutcomeInv, OutcomeOK
<1>2. EvidenceSame /\ Final
  BY Zenon, <1>1, Untouched
<1>3. bounds'.calls = bounds.calls
  <2>1. CASE Crash(h)
    BY Zenon, <2>1 DEF Crash, Fault, ExecInv, TypeInv
  <2>2. CASE ~Crash(h)
    BY Zenon, <2>2 DEF CancelExecution, SignalToken, ReleaseHandle, TakeResult, Close
  <2> QED
    BY Zenon, <2>1, <2>2
<1>4. \/ op' = [op EXCEPT ![h] = None]
      \/ \E req, t : op' = [op EXCEPT ![h] = [op[h] EXCEPT !.request = req, !.token = t]]
      \/ \E t : op' = [op EXCEPT ![h] = [op[h] EXCEPT !.token = t]]
      \/ op' = [op EXCEPT ![h] = [op[h] EXCEPT !.held = FALSE]]
      \/ op' = [op EXCEPT ![h] = [op[h] EXCEPT !.pc = "publish_cancel", !.closed = TRUE]]
  BY Zenon DEF CancelExecution, SignalToken, ReleaseHandle, TakeResult, Crash, Close, Goto
<1>5. \A req, t : Kin(op[h], [op[h] EXCEPT !.request = req, !.token = t])
  BY Zenon, <1>1 DEF Fields, Kin
<1>6. \A t : Kin(op[h], [op[h] EXCEPT !.token = t])
  BY Zenon, <1>1 DEF Fields, Kin
<1>7. Kin(op[h], [op[h] EXCEPT !.held = FALSE])
  BY Zenon, <1>1 DEF Fields, Kin
<1>8. Kin(op[h], [op[h] EXCEPT !.pc = "publish_cancel", !.closed = TRUE])
  BY Zenon, <1>1 DEF Fields, Kin, Settling
<1>9. \E s : op' = [op EXCEPT ![h] = s] /\ (s # None => Kin(op[h], s))
  BY Zenon, <1>4, <1>5, <1>6, <1>7, <1>8
<1> QED
  BY Zenon, <1>1, <1>2, <1>3, <1>9, EvidenceGoesOn

(* The pool takes or drops an execution. *)
LEMMA DispatchedKin ==
    ASSUME NEW r, Fields \subseteq DOMAIN r, NEW s, s = Dispatched(r)
    PROVE  /\ s.call = r.call /\ s.kind = r.kind /\ s.id = r.id /\ s.plan = r.plan /\ s.ref = r.ref
           /\ s.pc = IF r.dispatched THEN "admit" ELSE "close"
<1>1. CASE r.dispatched
  BY Zenon, <1>1 DEF Dispatched, Fields
<1>2. CASE ~r.dispatched
  <2>1. PICK t : t = Signalled(r.token, "shutdown")
    BY Zenon
  <2>2. s = [r EXCEPT !.pc = "close", !.token = t, !.rc = "cancelled", !.tool = "cancelled"]
    BY Zenon, <1>2, <2>1 DEF Dispatched
  <2> QED
    BY ZenonT(40), <1>2, <2>2 DEF Fields
<1> QED
  BY Zenon, <1>1, <1>2

LEMMA SelectEvidence ==
    ASSUME ExecInv, OutcomeInv, EvidenceInv, NEW h \in Harnesses, NEW b \in BOOLEAN, Select(h, b)
    PROVE  EvidenceInv'
<1>1. /\ UNCHANGED <<jobVars, executionStore, entered>> /\ bounds'.calls = bounds.calls
      /\ op[h] # None /\ op[h].pc = "queued" /\ Fields \subseteq DOMAIN op[h]
  BY Zenon DEF Select, At, history, OutcomeInv, OutcomeOK
<1>2. EvidenceSame /\ Final
  BY Zenon, <1>1, Untouched
<1>3. PICK r : r = [op[h] EXCEPT !.dispatched = b]
  BY Zenon
<1>4. /\ Fields \subseteq DOMAIN r /\ r.call = op[h].call /\ r.kind = op[h].kind /\ r.id = op[h].id
      /\ r.plan = op[h].plan /\ r.ref = op[h].ref /\ r.pc = "queued"
  BY Zenon, <1>1, <1>3 DEF Fields
<1>5. "queued" \notin Settling \cup {"deliver"} /\ "close" \in Settling
  BY Zenon DEF Settling
<1>6. CASE r.kind = "receipted"
  <2>1. PICK s : s = [r EXCEPT !.pc = "receipt"]
    BY Zenon
  <2>2. /\ s.call = r.call /\ s.kind = r.kind /\ s.id = r.id /\ s.plan = r.plan /\ s.ref = r.ref
        /\ s.pc = "receipt"
    BY Zenon, <1>4, <2>1 DEF Fields
  <2>3. Kin(op[h], s)
    BY Zenon, <1>1, <1>4, <1>5, <2>2 DEF Kin
  <2>4. op' = [op EXCEPT ![h] = s]
    BY Zenon, <1>3, <1>6, <2>1 DEF Select, Goto
  <2> QED
    BY Zenon, <1>1, <1>2, <2>3, <2>4, EvidenceGoesOn
<1>7. CASE r.kind # "receipted"
  <2>1. PICK s : s = Dispatched(r)
    BY Zenon
  <2>2. /\ s.call = r.call /\ s.kind = r.kind /\ s.id = r.id /\ s.plan = r.plan /\ s.ref = r.ref
        /\ s.pc = "admit" \/ s.pc = "close"
    BY ZenonT(40), <1>4, <2>1, DispatchedKin
  <2>3. Kin(op[h], s)
    BY Zenon, <1>1, <1>4, <1>5, <1>7, <2>2 DEF Kin
  <2>4. op' = [op EXCEPT ![h] = s]
    BY Zenon, <1>3, <1>7, <2>1 DEF Select, Goto
  <2> QED
    BY Zenon, <1>1, <1>2, <2>3, <2>4, EvidenceGoesOn
<1> QED
  BY Zenon, <1>6, <1>7

(* Admission takes the plan from the binding. *)
LEMMA AdmitEvidence ==
    ASSUME ExecInv, OutcomeInv, EvidenceInv, NEW h \in Harnesses, Admit(h)
    PROVE  EvidenceInv'
<1>1. /\ UNCHANGED <<jobVars, executionStore, entered>> /\ bounds'.calls = bounds.calls
      /\ op[h] # None /\ op[h].pc = "admit" /\ Fields \subseteq DOMAIN op[h] /\ EvidenceOK(op[h])
  BY Zenon DEF Admit, At, history, OutcomeInv, OutcomeOK, EvidenceInv
<1>2. EvidenceSame /\ Final
  BY Zenon, <1>1, Untouched
<1> DEFINE job == IF IsJob(h) THEN First(BoundStatus(op[h].rev), ActiveStatus) ELSE "ok"
           rc == First(job, TokenStatus(op[h].token))
<1>3. CASE rc # "ok"
  <2>1. Ended(h, rc, "error")
    BY Zenon, <1>3 DEF Admit
  <2> HIDE DEF rc
  <2> QED
    BY Zenon, <1>1, <2>1, EndedEvidence
<1>4. CASE rc = "ok"
  <2>1. IsJob(h) => IsBound
    BY Zenon, <1>4 DEF First, BoundStatus
  <2>2. PICK a : a = IF IsJob(h) THEN BoundAttempt ELSE op[h].attempt
    BY Zenon
  <2>3. PICK p : p = IF IsJob(h) THEN BoundSource ELSE op[h].plan
    BY Zenon
  <2>4. PICK s : s = [op[h] EXCEPT !.pc = "lookup", !.gen = authority[h], !.attempt = a, !.plan = p]
    BY Zenon
  <2>5. op' = [op EXCEPT ![h] = s]
    BY Zenon, <1>4, <2>2, <2>3, <2>4 DEF Admit, Goto
  <2>6. /\ s.call = op[h].call /\ s.kind = op[h].kind /\ s.id = op[h].id /\ s.plan = p
        /\ s.ref = op[h].ref /\ s.pc = "lookup"
    BY Zenon, <1>1, <2>4 DEF Fields
  <2>7. "lookup" \in Admitted /\ "admit" \notin Settling \cup {"deliver"}
    BY Zenon DEF Admitted, Settling
  <2>8. op[h].call \notin runs
    BY Zenon, <1>1, <2>7 DEF EvidenceOK
  <2>9. s.kind # "direct" => IsBound /\ s.plan = BoundSource
    BY Zenon, <2>1, <2>3, <2>6 DEF IsJob
  <2>10. EvidenceOK(s)
    BY Zenon, <1>1, <2>6, <2>7, <2>8, <2>9 DEF EvidenceOK
  <2> QED
    BY Zenon, <1>1, <1>2, <2>5, <2>10, EvidenceGoes
<1> QED
  BY Zenon, <1>3, <1>4

(* Past the delivery boundary the reference names records that are all     *)
(* stored.                                                                 *)
LEMMA DeliverEvidence ==
    ASSUME ExecInv, OutcomeInv, EvidenceInv, NEW h \in Harnesses, Deliver(h)
    PROVE  EvidenceInv'
<1>1. /\ UNCHANGED <<jobVars, executionStore, entered>> /\ bounds'.calls = bounds.calls
      /\ op[h] # None /\ op[h].pc = "deliver" /\ Fields \subseteq DOMAIN op[h] /\ EvidenceOK(op[h])
      /\ OutcomeOK(op[h]) /\ RecordOK(op[h])
  BY Zenon DEF Deliver, At, OutcomeInv, OutcomeOK, EvidenceInv, ExecInv
<1>2. EvidenceSame /\ Final
  BY Zenon, <1>1, Untouched
<1>3. \/ op' = [op EXCEPT ![h] = None]
      \/ \E rc, tool : Ended(h, rc, tool)
      \/ /\ IsBackground(h)
         /\ Goto(h, [op[h] EXCEPT !.pc = "close", !.rc = "ok", !.tool = "ok",
                                  !.ref = Reference(h), !.result = None])
  BY Zenon DEF Deliver, Goto
<1>4. ASSUME IsBackground(h),
             Goto(h, [op[h] EXCEPT !.pc = "close", !.rc = "ok", !.tool = "ok",
                                   !.ref = Reference(h), !.result = None])
      PROVE  EvidenceInv'
  <2>1. PICK ref : ref = Reference(h)
    BY Zenon
  <2>2. ref.attempt = op[h].attempt /\ ref.call = op[h].call /\ ref.plan = op[h].plan
    BY Zenon, <2>1 DEF Reference
  <2>3. op[h].kind # "direct" /\ "deliver" \in Admitted /\ "deliver" \in Resting
    BY Zenon, <1>4 DEF IsBackground, Background, Admitted, Resting
  <2>4. IsBound /\ op[h].attempt = BoundAttempt /\ op[h].plan = BoundSource
    BY Zenon, <1>1, <2>3 DEF OutcomeOK, EvidenceOK
  <2>5. attempts[op[h].attempt] # None /\ attempts[op[h].attempt].phase = "committed"
    BY Zenon, <1>1, <2>3 DEF RecordOK
  <2>6. /\ journals[op[h].call] # None /\ journals[op[h].call].phase = "committed"
        /\ op[h].call \in runs
    BY Zenon, <1>1 DEF EvidenceOK
  <2>7. Backed(ref)
    BY Zenon, <2>2, <2>4, <2>5, <2>6 DEF Backed
  <2>8. PICK s : s = [op[h] EXCEPT !.pc = "close", !.rc = "ok", !.tool = "ok",
                                   !.ref = ref, !.result = None]
    BY Zenon
  <2>9. /\ s.call = op[h].call /\ s.kind = op[h].kind /\ s.id = op[h].id
        /\ s.ref = ref /\ s.pc = "close"
    BY Zenon, <1>1, <2>8 DEF Fields
  <2>10. "close" \in Settling /\ "close" \notin Admitted
    BY Zenon DEF Settling, Admitted, Owning, Resting
  <2>11. EvidenceOK(s)
    BY Zenon, <1>1, <2>7, <2>9, <2>10 DEF EvidenceOK
  <2>12. op' = [op EXCEPT ![h] = s]
    BY Zenon, <1>4, <2>1, <2>8 DEF Goto
  <2> QED
    BY Zenon, <1>1, <1>2, <2>11, <2>12, EvidenceGoes
<1>5. CASE op' = [op EXCEPT ![h] = None]
  BY Zenon, <1>1, <1>2, <1>5, EvidenceGoesOn
<1>6. ASSUME NEW rc, NEW tool, Ended(h, rc, tool)
      PROVE  EvidenceInv'
  BY Zenon, <1>1, <1>6, EndedEvidence
<1> QED
  BY Zenon, <1>3, <1>4, <1>5, <1>6

(* The worker publishes its cancellation, and records what it observed:    *)
(* the observation has the operation's own reference.                      *)
LEMMA PublishCancelEvidence ==
    ASSUME ExecInv, OutcomeInv, EvidenceInv, NEW h \in Harnesses, NEW o \in Outcomes,
           PublishCancel(h, o)
    PROVE  EvidenceInv'
<1>1. op[h] # None /\ Fields \subseteq DOMAIN op[h]
  BY Zenon DEF PublishCancel, At, OutcomeInv, OutcomeOK
<1>2. EvidenceSame
  BY Zenon DEF PublishCancel, EvidenceSame, executionStore, records, reviews, history
<1>3. Final
  <2>1. revs' = revs /\ (cancellation # None => cancellation' = cancellation)
    BY Zenon DEF PublishCancel, Inserted
  <2> QED
    BY Zenon, <2>1, SameHistory
<1>4. bounds'.calls = bounds.calls
  BY Zenon, StoreKeepsBounds DEF PublishCancel, ExecInv
<1>5. PICK x : x = Observation(h, CancelStatus(h, o))
  BY Zenon
<1>6. PICK s : s = [op[h] EXCEPT !.pc = "record", !.obs = x]
  BY Zenon
<1>7. /\ s.call = op[h].call /\ s.kind = op[h].kind /\ s.id = op[h].id /\ s.plan = op[h].plan
      /\ s.ref = op[h].ref /\ s.pc = "record"
  BY Zenon, <1>1, <1>6 DEF Fields
<1>8. Kin(op[h], s)
  BY Zenon, <1>7 DEF Kin, Settling
<1> QED
  BY Zenon, <1>1, <1>2, <1>3, <1>4, <1>5, <1>6, <1>8, EvidenceGoesOn DEF PublishCancel, Goto

LEMMA RecordEvidence ==
    ASSUME ExecInv, OutcomeInv, EvidenceInv, NEW h \in Harnesses, NEW o \in Outcomes, Record(h, o)
    PROVE  EvidenceInv'
<1>1. /\ op[h] # None /\ op[h].pc = "record" /\ Fields \subseteq DOMAIN op[h]
      /\ EvidenceOK(op[h]) /\ op[h].obs.ref = op[h].ref
  BY Zenon DEF Record, At, OutcomeInv, OutcomeOK, EvidenceInv
<1>2. /\ UNCHANGED <<attempts, journals, runs, receipts, reviews, entered>>
      /\ revs' = revs /\ cancellation' = cancellation
  BY Zenon DEF Record, history, jobVars, jobStore
<1>3. bounds'.calls = bounds.calls
  BY Zenon, StoreKeepsBounds DEF Record, ExecInv
<1>4. EvidenceStep(0)
  BY Zenon, <1>2, SameHistory DEF EvidenceStep, CommittedStay, reviews
<1>5. \/ observations' = observations
      \/ observations' = [observations EXCEPT ![op[h].id] =
                             Inserted(observations[op[h].id], op[h].obs, o)]
  BY Zenon DEF Record
<1>6. DOMAIN observations = Ids
  BY Zenon DEF EvidenceInv
<1>7. DOMAIN observations' = Ids
      /\ \A i \in Ids : observations'[i] = observations[i] \/ observations'[i] = op[h].obs
  BY Zenon, <1>5, <1>6 DEF Inserted
<1>8. \A ref : Backed(ref) => Backed(ref)'
  BY Zenon, <1>4, BackedStays
<1>9. \A i \in Ids : observations'[i] # None /\ observations'[i].ref # None =>
         Backed(observations[i].ref)'
  BY ZenonT(40), <1>1, <1>7, <1>8 DEF EvidenceInv, EvidenceChain, EvidenceOK
<1>10. EvidenceChain'
  BY Zenon, <1>2, <1>8, <1>9 DEF EvidenceInv, EvidenceChain, reviews
<1>11. \/ op' = [op EXCEPT ![h] = None]
       \/ \E status, ref : /\ ref \in {op[h].ref, None}
                           /\ op' = [op EXCEPT ![h] = [op[h] EXCEPT !.pc = "terminal",
                                                        !.recorded = status, !.ref = ref]]
  BY Zenon DEF Record, Goto
<1>12. ASSUME NEW status, NEW ref \in {op[h].ref, None}, NEW s,
              s = [op[h] EXCEPT !.pc = "terminal", !.recorded = status, !.ref = ref]
       PROVE  EvidenceOK(s)'
  <2>1. /\ s.call = op[h].call /\ s.kind = op[h].kind /\ s.id = op[h].id /\ s.ref = ref
        /\ s.pc = "terminal"
    BY Zenon, <1>1, <1>12 DEF Fields
  <2>2. "terminal" \in Settling /\ "terminal" \notin Admitted
    BY Zenon DEF Settling, Admitted, Owning, Resting
  <2>3. EvidenceOK(s)
    BY Zenon, <1>1, <1>12, <2>1, <2>2 DEF EvidenceOK
  <2>4. runs' = runs /\ journals' = journals
    BY Zenon, <1>2
  <2> QED
    BY Zenon, <1>4, <2>3, <2>4, EvidenceStays
<1>13. \E s : op' = [op EXCEPT ![h] = s] /\ (s # None => EvidenceOK(s)')
  BY Zenon, <1>11, <1>12
<1>14. bounds'.calls <= MaxCalls /\ bounds'.calls \in Nat
  BY Zenon, <1>3 DEF EvidenceInv, ExecInv, TypeInv
<1>15. bounds.calls <= bounds'.calls
  BY <1>3, <1>14
<1>16. /\ DOMAIN journals' = Calls /\ DOMAIN receipts' = Ids
       /\ \A d \in runs' : /\ d \in 1..bounds'.calls
                           /\ journals'[d] # None /\ journals'[d].phase = "committed"
       /\ \A x \in entered' : x.id \in Ids \cup {None}
  BY Zenon, <1>2, <1>3 DEF EvidenceInv
<1> QED
  BY Zenon, <1>2, <1>4, <1>7, <1>10, <1>13, <1>14, <1>15, <1>16, EvidenceMove

-----------------------------------------------------------------------------
(* The steps of an Inspect that write records.                             *)

(* A call whose Run is not stored may write its journal. *)
LEMMA JournalEvidence ==
    ASSUME ExecInv, EvidenceInv, NEW h \in Harnesses, op[h] # None,
           op[h].pc \in Admitted \ {"deliver"}, NEW s,
           op' = [op EXCEPT ![h] = s], s # None => EvidenceOK(s)',
           NEW v, journals' = journals \/ journals' = [journals EXCEPT ![op[h].call] = v],
           CommittedStay,
           EnteredFits,
           UNCHANGED <<runs, receipts, observations, reviews>>,
           revs' = revs, cancellation' = cancellation, bounds'.calls = bounds.calls
    PROVE  EvidenceInv'
<1>1. op[h].call \in Calls /\ op[h].call \notin runs
  <2>1. op[h].pc \notin Settling \cup {"deliver"}
    BY Zenon DEF Settling, Admitted, Owning, Resting
  <2> QED
    BY Zenon, <2>1 DEF EvidenceInv, EvidenceOK
<1>2. DOMAIN journals = Calls /\ DOMAIN receipts = Ids /\ DOMAIN observations = Ids
  BY Zenon DEF EvidenceInv
<1>3. DOMAIN journals' = Calls /\ \A d : d \in Calls /\ d # op[h].call => journals'[d] = journals[d]
  BY Zenon, <1>2
<1>5. runs' = runs /\ receipts' = receipts /\ acceptance' = acceptance /\ intent' = intent
      /\ observations' = observations
  BY Zenon DEF reviews
<1>6. EvidenceStep(op[h].call)
  BY Zenon, <1>1, <1>3, <1>5, SameHistory DEF EvidenceStep
<1>7. EvidenceChain' /\ \A x \in entered' : x.id \in Ids \cup {None}
  BY Zenon, <1>5, <1>6, ChainStays
<1>8. bounds'.calls <= MaxCalls /\ bounds'.calls \in Nat
  BY Zenon DEF EvidenceInv, ExecInv, TypeInv
<1>9. bounds.calls <= bounds'.calls
  BY <1>8
<1>10. ASSUME NEW d \in runs'
       PROVE  d \in 1..bounds'.calls /\ journals'[d] # None /\ journals'[d].phase = "committed"
  <2>1. d \in 1..bounds.calls /\ journals[d] # None /\ journals[d].phase = "committed"
    BY Zenon, <1>5 DEF EvidenceInv
  <2>2. d \in Calls
    <3>1. bounds.calls \in Nat /\ bounds.calls <= MaxCalls /\ MaxCalls \in Nat
      BY Zenon, ExecutionConstants DEF ExecInv, TypeInv, EvidenceInv
    <3> QED
      BY <2>1, <3>1 DEF Calls
  <2> QED
    BY Zenon, <1>1, <1>3, <1>5, <2>1, <2>2
<1> QED
  BY Zenon, <1>2, <1>3, <1>5, <1>6, <1>7, <1>8, <1>9, <1>10, EvidenceMove

(* An operation that goes on within its Inspect is in order after the write. *)
LEMMA JournalStays ==
    ASSUME ExecInv, EvidenceInv, NEW h \in Harnesses, op[h] # None,
           op[h].pc \in Admitted \ {"deliver"}, NEW s, s # None => Kin(op[h], s),
           op' = [op EXCEPT ![h] = s],
           s # None => s.pc \notin {"finalize", "deliver"},
           NEW v, journals' = journals \/ journals' = [journals EXCEPT ![op[h].call] = v],
           CommittedStay,
           UNCHANGED <<runs, receipts, observations, reviews, entered>>,
           revs' = revs, cancellation' = cancellation, bounds'.calls = bounds.calls
    PROVE  EvidenceInv'
<1>1. op[h].call \in Calls /\ op[h].call \notin runs /\ EvidenceOK(op[h])
  <2>1. op[h].pc \notin Settling \cup {"deliver"}
    BY Zenon DEF Settling, Admitted, Owning, Resting
  <2> QED
    BY Zenon, <2>1 DEF EvidenceInv, EvidenceOK
<1>2. DOMAIN journals = Calls
  BY Zenon DEF EvidenceInv
<1>3. \A d : d \in Calls /\ d # op[h].call => journals'[d] = journals[d]
  BY Zenon, <1>2
<1>5. runs' = runs /\ receipts' = receipts /\ acceptance' = acceptance /\ intent' = intent
  BY Zenon DEF reviews
<1>6. EvidenceStep(op[h].call)
  BY Zenon, <1>1, <1>3, <1>5, SameHistory DEF EvidenceStep
<1>7. s # None => EvidenceOK(s)
  BY Zenon, <1>1, KinKept
<1>8. s # None => EvidenceOK(s)'
  BY Zenon, <1>5, <1>6, <1>7, EvidenceStays
<1> QED
  BY Zenon, <1>8, JournalEvidence DEF EnteredFits

(* An Inspect ends after its write. *)
LEMMA JournalEnds ==
    ASSUME ExecInv, OutcomeInv, EvidenceInv, NEW h \in Harnesses, op[h] # None,
           op[h].pc \in Admitted \ {"deliver"},
           \/ \E rc, tool : Ended(h, rc, tool)
           \/ \E p \in Admitted \ {"finalize", "deliver"} : StepTo(h, p),
           NEW v, journals' = journals \/ journals' = [journals EXCEPT ![op[h].call] = v],
           CommittedStay,
           UNCHANGED <<runs, receipts, observations, reviews, entered>>,
           revs' = revs, cancellation' = cancellation, bounds'.calls = bounds.calls
    PROVE  EvidenceInv'
<1>1. Fields \subseteq DOMAIN op[h]
  BY Zenon DEF OutcomeInv, OutcomeOK
<1>2. ASSUME NEW rc, NEW tool, Ended(h, rc, tool)
      PROVE  \E s : /\ op' = [op EXCEPT ![h] = s]
                    /\ s # None => Kin(op[h], s) /\ s.pc \notin {"finalize", "deliver"}
  <2>1. PICK t : t = ToolFor(rc, tool)
    BY Zenon
  <2>2. PICK s : s = [op[h] EXCEPT !.pc = "close", !.rc = rc, !.tool = t]
    BY Zenon
  <2>3. Kin(op[h], s) /\ s.pc = "close"
    BY Zenon, <1>1, <2>2, EndedKin DEF Fields
  <2>4. op' = [op EXCEPT ![h] = s] \/ op' = [op EXCEPT ![h] = None]
    BY Zenon, <1>2, <2>1, <2>2 DEF Ended, Goto
  <2> QED
    BY Zenon, <2>3, <2>4
<1>3. ASSUME NEW p \in Admitted \ {"finalize", "deliver"}, StepTo(h, p)
      PROVE  \E s : /\ op' = [op EXCEPT ![h] = s]
                    /\ s # None => Kin(op[h], s) /\ s.pc \notin {"finalize", "deliver"}
  <2>1. PICK s : s = [op[h] EXCEPT !.pc = p]
    BY Zenon
  <2>2. Kin(op[h], s) /\ s.pc = p
    BY Zenon, <1>1, <2>1, MovedKin DEF Fields
  <2> QED
    BY Zenon, <1>3, <2>1, <2>2 DEF StepTo, Goto
<1>4. \E s : /\ op' = [op EXCEPT ![h] = s]
             /\ s # None => Kin(op[h], s) /\ s.pc \notin {"finalize", "deliver"}
  BY Zenon, <1>2, <1>3
<1> QED
  BY Zenon, <1>4, JournalStays

(* The steps of an Inspect that write its attempt or its journal, and do   *)
(* not enter the callback or commit the journal.                           *)
LEMMA InspectStoreEvidence ==
    ASSUME ExecInv, OutcomeInv, EvidenceInv, NEW h \in Harnesses, NEW o \in Outcomes,
           \/ Replay(h, o) \/ Uncertain(h, o) \/ Claim(h, o) \/ CommitAttempt(h, o) \/ MarkUnknown(h, o)
           \/ JournalUnknown(h, o)
           \/ JournalStart(h, o) /\ o # "ok"
           \/ JournalCommit(h, o) /\ o # "ok"
    PROVE  EvidenceInv'
<1>1. /\ UNCHANGED <<runs, receipts, observations, reviews, entered>>
      /\ revs' = revs /\ cancellation' = cancellation
  BY Zenon DEF Replay, Uncertain, Claim, JournalStart, CommitAttempt, MarkUnknown,
     JournalUnknown, JournalCommit,
     JournalStep, history, records, jobVars, jobStore
<1>2. bounds'.calls = bounds.calls
  <2>1. Store(o)
    BY Zenon DEF Replay, Uncertain, Claim, JournalStart, CommitAttempt, MarkUnknown,
     JournalUnknown, JournalCommit,
       JournalStep
  <2> QED
    BY Zenon, <2>1, StoreKeepsBounds DEF ExecInv
<1>3. /\ op[h] # None
      /\ op[h].pc \in {"replay", "uncertain", "claim", "commit", "unknown", "unknown_journal",
                    "journal", "journal_commit"}
  BY Zenon DEF Replay, Uncertain, Claim, JournalStart, CommitAttempt, MarkUnknown,
     JournalUnknown, JournalCommit,
     JournalStep, At
<1>4. {"replay", "uncertain", "claim", "commit", "unknown", "unknown_journal", "journal", "journal_commit"}
        \subseteq Admitted \ {"finalize", "deliver"}
  BY Zenon DEF Admitted, Owning, Resting
<1>5. \E v : journals' = journals \/ journals' = [journals EXCEPT ![op[h].call] = v]
  BY Zenon DEF Replay, Uncertain, Claim, JournalStart, CommitAttempt, MarkUnknown,
     JournalUnknown, JournalCommit,
     JournalStep, JournalWrite
<1>6. \/ \E rc, tool : Ended(h, rc, tool)
      \/ \E p \in {"journal_commit", "journal", "unknown", "unknown_journal"} : StepTo(h, p)
  BY Zenon DEF Replay, Uncertain, Claim, JournalStart, CommitAttempt, MarkUnknown,
     JournalUnknown, JournalCommit,
     JournalStep
<1>7. CommittedStay
  <2>1. attempts \in [Attempts -> AttemptRecords \cup {None}] /\ RecordOK(op[h])
    BY Zenon, <1>3 DEF ExecInv, TypeInv
  <2>2. \/ attempts' = attempts
        \/ \E n : attempts' = [attempts EXCEPT ![op[h].attempt] =
                                  Inserted(attempts[op[h].attempt], n, o)]
        \/ \E n : /\ MayAdvance(h)
                  /\ attempts' = [attempts EXCEPT ![op[h].attempt] = n]
    BY Zenon DEF Replay, Uncertain, Claim, JournalStart, CommitAttempt, MarkUnknown,
     JournalUnknown, JournalCommit,
       JournalStep
  <2>3. ASSUME NEW n, MayAdvance(h), attempts' = [attempts EXCEPT ![op[h].attempt] = n]
        PROVE  CommittedStay
    BY Zenon, <2>1, <2>3 DEF CommittedStay, MayAdvance
  <2>4. ASSUME NEW n, attempts' = [attempts EXCEPT ![op[h].attempt] =
                                     Inserted(attempts[op[h].attempt], n, o)]
        PROVE  CommittedStay
    BY Zenon, <2>1, <2>4 DEF CommittedStay, Inserted
  <2> QED
    BY Zenon, <2>2, <2>3, <2>4 DEF CommittedStay
<1> QED
  BY Zenon, <1>1, <1>2, <1>3, <1>4, <1>5, <1>6, <1>7, JournalEnds

(* A callback is entered for the receipt that its own supervisor stored. *)
LEMMA JournalStartEvidence ==
    ASSUME ExecInv, OutcomeInv, EvidenceInv, NEW h \in Harnesses, JournalStart(h, "ok")
    PROVE  EvidenceInv'
<1>1. /\ UNCHANGED <<attempts, runs, receipts, observations, reviews>>
      /\ revs' = revs /\ cancellation' = cancellation
  BY Zenon DEF JournalStart, records, jobVars, jobStore
<1>2. bounds'.calls = bounds.calls
  BY Zenon, StoreKeepsBounds DEF JournalStart, ExecInv, Outcomes
<1>3. /\ op[h] # None /\ op[h].pc = "journal" /\ EvidenceOK(op[h]) /\ Fields \subseteq DOMAIN op[h]
  BY Zenon DEF JournalStart, At, EvidenceInv, OutcomeInv, OutcomeOK
<1>4. {"journal", "inside"} \subseteq Admitted \ {"finalize", "deliver"}
  BY Zenon DEF Admitted, Owning
<1>5. \E v : journals' = [journals EXCEPT ![op[h].call] = v]
  BY Zenon DEF JournalStart, JournalWrite
<1>6. PICK id : id = IF op[h].kind = "receipted" THEN op[h].id ELSE None
  BY Zenon
<1>7. PICK x : x = [attempt |-> op[h].attempt, call |-> op[h].call, id |-> id]
  BY Zenon
<1>8. entered' = entered \cup {x} /\ StepTo(h, "inside")
  BY Zenon, <1>6, <1>7 DEF JournalStart
<1>9. x.call = op[h].call /\ x.id = id
  BY Zenon, <1>7
<1>10. id # None => op[h].kind = "receipted" /\ id = op[h].id
  BY Zenon, <1>6
<1>11. /\ id \in Ids \cup {None}
       /\ id # None => receipts[id] = [supervisor |-> op[h].call, selection |-> "run"]
  BY Zenon, <1>3, <1>4, <1>10 DEF EvidenceOK
<1>12. EnteredFits
  BY Zenon, <1>1, <1>8, <1>9, <1>11 DEF EnteredFits
<1>13. CommittedStay
  BY Zenon, <1>1 DEF CommittedStay
<1>14. PICK s : s = [op[h] EXCEPT !.pc = "inside"]
  BY Zenon
<1>15. Kin(op[h], s) /\ s.pc = "inside"
  BY Zenon, <1>3, <1>4, <1>14, MovedKin DEF Fields
<1>16. op' = [op EXCEPT ![h] = s]
  BY Zenon, <1>8, <1>14 DEF StepTo, Goto
<1>17. EvidenceOK(s)
  BY Zenon, <1>3, <1>15, KinKept
<1>18. EvidenceStep(op[h].call)
  <2>1. op[h].call \notin runs /\ DOMAIN journals = Calls
    BY Zenon, <1>3, <1>4 DEF EvidenceOK, EvidenceInv, Settling
  <2>2. \A d : d \in Calls /\ d # op[h].call => journals'[d] = journals[d]
    BY Zenon, <1>5, <2>1
  <2> QED
    BY Zenon, <1>1, <1>13, <2>1, <2>2, SameHistory DEF EvidenceStep, reviews
<1>19. EvidenceOK(s)'
  BY Zenon, <1>1, <1>15, <1>17, <1>18, EvidenceStays
<1> QED
  BY Zenon, <1>1, <1>2, <1>3, <1>4, <1>5, <1>12, <1>13, <1>16, <1>19, JournalEvidence

(* An acknowledged commit of the journal is in the store. *)
LEMMA JournalCommitEvidence ==
    ASSUME ExecInv, OutcomeInv, EvidenceInv, NEW h \in Harnesses, JournalCommit(h, "ok")
    PROVE  EvidenceInv'
<1>1. /\ UNCHANGED <<attempts, runs, receipts, observations, reviews, entered>>
      /\ revs' = revs /\ cancellation' = cancellation
  BY Zenon DEF JournalCommit, JournalStep, history, records, jobVars, jobStore
<1>2. bounds'.calls = bounds.calls
  BY Zenon, StoreKeepsBounds DEF JournalCommit, JournalStep, ExecInv, Outcomes
<1>3. /\ op[h] # None /\ op[h].pc = "journal_commit" /\ EvidenceOK(op[h])
      /\ Fields \subseteq DOMAIN op[h] /\ RecordOK(op[h])
  BY Zenon DEF JournalCommit, JournalStep, At, EvidenceInv, OutcomeInv, OutcomeOK, ExecInv
<1>4. /\ {"journal_commit", "finalize"} \subseteq Admitted
      /\ "journal_commit" \notin Settling \cup {"deliver"} /\ "finalize" \notin {"admit", "publish"}
  BY Zenon DEF Admitted, Resting, Settling
<1>5. PICK v : v = Journal(h, "committed")
  BY Zenon
<1>6. journals' = [journals EXCEPT ![op[h].call] = v]
  BY Zenon, <1>5 DEF JournalCommit, JournalStep, JournalWrite, Overwritten
<1>7. v.phase = "committed" /\ v # None
  <2>1. op[h].attempt \in Attempts /\ op[h].plan \in Sources /\ op[h].gen \in Nat
    BY Zenon, <1>3, <1>4 DEF RecordOK
  <2>2. v \in [phase : {"started", "committed", "outcome_unknown"}, attempt : Attempts,
               plan : Sources, gen : Nat]
    BY <1>5, <2>1 DEF Journal
  <2>3. v.phase = "committed"
    BY Zenon, <1>5 DEF Journal
  <2> QED
    BY Zenon, <2>2, <2>3, NoneIsApart
<1>8. /\ op[h].call \in Calls /\ op[h].call \notin runs /\ DOMAIN journals = Calls
  BY Zenon, <1>3, <1>4 DEF EvidenceOK, EvidenceInv
<1>9. journals'[op[h].call] = v /\ \A d : d \in Calls /\ d # op[h].call => journals'[d] = journals[d]
  BY Zenon, <1>6, <1>8
<1>10. PICK s : s = [op[h] EXCEPT !.pc = "finalize"]
  BY Zenon
<1>11. /\ s.call = op[h].call /\ s.kind = op[h].kind /\ s.id = op[h].id /\ s.plan = op[h].plan
       /\ s.ref = op[h].ref /\ s.pc = "finalize"
  BY Zenon, <1>3, <1>10 DEF Fields
<1>12. op' = [op EXCEPT ![h] = s]
  BY Zenon, <1>10 DEF JournalCommit, JournalStep, StepTo, Goto
<1>13. CommittedStay /\ EnteredFits
  BY Zenon, <1>1 DEF CommittedStay, EnteredFits
<1>14. EvidenceStep(op[h].call)
  BY Zenon, <1>1, <1>8, <1>9, <1>13, SameHistory DEF EvidenceStep, reviews
<1>15. \A ref : Backed(ref) => Backed(ref)'
  BY Zenon, <1>14, BackedStays
<1>16. IsBound => IsBound' /\ BoundSource' = BoundSource
  BY Zenon, <1>14 DEF EvidenceStep, Final
<1>17. EvidenceOK(s)'
  <2>1. /\ s.call \in Calls /\ (s.kind # "direct" => IsBound' /\ s.plan = BoundSource')
        /\ journals'[s.call] # None /\ journals'[s.call].phase = "committed"
        /\ s.call \notin runs' /\ (s.ref # None => Backed(s.ref)')
    BY Zenon, <1>1, <1>3, <1>4, <1>7, <1>8, <1>9, <1>11, <1>15, <1>16 DEF EvidenceOK
  <2>2. s.kind = "receipted" =>
           s.id \in Ids /\ receipts'[s.id] = [supervisor |-> s.call, selection |-> "run"]
    BY Zenon, <1>1, <1>3, <1>4, <1>11 DEF EvidenceOK
  <2> QED
    BY Zenon, <1>4, <1>11, <2>1, <2>2 DEF EvidenceOK
<1> QED
  BY Zenon, <1>1, <1>2, <1>3, <1>4, <1>6, <1>12, <1>13, <1>17, JournalEvidence

(* The Run of a call is stored once its journal is committed. *)
LEMMA FinalizeEvidence ==
    ASSUME ExecInv, OutcomeInv, EvidenceInv, NEW h \in Harnesses, NEW o \in Outcomes, Finalize(h, o)
    PROVE  EvidenceInv'
<1>1. /\ UNCHANGED <<attempts, journals, receipts, observations, reviews, entered>>
      /\ revs' = revs /\ cancellation' = cancellation
  BY Zenon DEF Finalize, history, records, jobVars, jobStore
<1>2. bounds'.calls = bounds.calls
  BY Zenon, StoreKeepsBounds DEF Finalize, ExecInv
<1>3. /\ op[h] # None /\ op[h].pc = "finalize" /\ EvidenceOK(op[h]) /\ Fields \subseteq DOMAIN op[h]
      /\ RecordOK(op[h])
  BY Zenon DEF Finalize, At, EvidenceInv, OutcomeInv, OutcomeOK, ExecInv
<1>4. /\ {"finalize", "deliver"} \subseteq Admitted /\ "close" \in Settling /\ "close" \notin Admitted
      /\ "deliver" \notin {"admit", "publish"}
  BY Zenon DEF Admitted, Owning, Resting, Settling
<1>5. /\ runs \subseteq runs' /\ runs' \subseteq runs \cup {op[h].call}
      /\ o = "ok" => op[h].call \in runs'
  BY Zenon DEF Finalize
<1>6. /\ op[h].call \in Calls /\ op[h].call \in 1..bounds.calls
      /\ journals[op[h].call] # None /\ journals[op[h].call].phase = "committed"
  BY Zenon, <1>3 DEF EvidenceOK, RecordOK
<1>7. CommittedStay /\ EnteredFits
  BY Zenon, <1>1 DEF CommittedStay, EnteredFits
<1>8. EvidenceStep(op[h].call)
  BY Zenon, <1>1, <1>5, <1>7, SameHistory DEF EvidenceStep, reviews
<1>9. \A ref : Backed(ref) => Backed(ref)'
  BY Zenon, <1>8, BackedStays
<1>10. IsBound => IsBound' /\ BoundSource' = BoundSource
  BY Zenon, <1>8 DEF EvidenceStep, Final
<1>11. ASSUME o = "ok"
       PROVE  \E s : op' = [op EXCEPT ![h] = s] /\ (s # None => EvidenceOK(s)')
  <2>1. PICK s : s = [op[h] EXCEPT !.pc = "deliver"]
    BY Zenon
  <2>2. op' = [op EXCEPT ![h] = s]
    BY Zenon, <1>11, <2>1 DEF Finalize, StepTo, Goto
  <2>3. /\ s.call = op[h].call /\ s.kind = op[h].kind /\ s.id = op[h].id /\ s.plan = op[h].plan
        /\ s.ref = op[h].ref /\ s.pc = "deliver"
    BY Zenon, <1>3, <2>1 DEF Fields
  <2>4. /\ s.call \in Calls /\ (s.kind # "direct" => IsBound' /\ s.plan = BoundSource')
        /\ journals'[s.call] # None /\ journals'[s.call].phase = "committed"
        /\ s.call \in runs' /\ (s.ref # None => Backed(s.ref)')
    BY Zenon, <1>1, <1>3, <1>4, <1>5, <1>6, <1>9, <1>10, <1>11, <2>3 DEF EvidenceOK
  <2>5. s.kind = "receipted" =>
           s.id \in Ids /\ receipts'[s.id] = [supervisor |-> s.call, selection |-> "run"]
    BY Zenon, <1>1, <1>3, <1>4, <2>3 DEF EvidenceOK
  <2>6. EvidenceOK(s)'
    BY Zenon, <1>4, <2>3, <2>4, <2>5 DEF EvidenceOK
  <2> QED
    BY Zenon, <2>2, <2>6
<1>12. ASSUME o # "ok"
       PROVE  \E s : op' = [op EXCEPT ![h] = s] /\ (s # None => EvidenceOK(s)')
  <2>1. PICK t : t = ToolFor("error", "ok")
    BY Zenon
  <2>2. PICK s : s = [op[h] EXCEPT !.pc = "close", !.rc = "error", !.tool = t]
    BY Zenon
  <2>3. op' = [op EXCEPT ![h] = s] \/ op' = [op EXCEPT ![h] = None]
    BY Zenon, <1>12, <2>1, <2>2 DEF Finalize, Ended, Goto
  <2>4. /\ s.call = op[h].call /\ s.kind = op[h].kind /\ s.id = op[h].id
        /\ s.ref = op[h].ref /\ s.pc = "close"
    BY Zenon, <1>3, <2>2 DEF Fields
  <2>5. EvidenceOK(s)'
    BY Zenon, <1>3, <1>4, <1>9, <2>4 DEF EvidenceOK
  <2> QED
    BY Zenon, <2>3, <2>5
<1>13. \E s : op' = [op EXCEPT ![h] = s] /\ (s # None => EvidenceOK(s)')
  BY Zenon, <1>11, <1>12
<1>14. EvidenceChain' /\ \A x \in entered' : x.id \in Ids \cup {None}
  BY Zenon, <1>1, <1>7, <1>8, ChainStays
<1>15. bounds'.calls <= MaxCalls /\ bounds'.calls \in Nat
  BY Zenon, <1>2 DEF EvidenceInv, ExecInv, TypeInv
<1>16. bounds.calls <= bounds'.calls
  BY <1>2, <1>15
<1>17. /\ DOMAIN journals' = Calls /\ DOMAIN receipts' = Ids /\ DOMAIN observations' = Ids
       /\ \A d \in runs' : /\ d \in 1..bounds'.calls
                           /\ journals'[d] # None /\ journals'[d].phase = "committed"
  BY Zenon, <1>1, <1>2, <1>5, <1>6 DEF EvidenceInv
<1> QED
  BY Zenon, <1>3, <1>8, <1>13, <1>14, <1>15, <1>16, <1>17, EvidenceMove

-----------------------------------------------------------------------------
(* Receipts, reviews and beginnings.                                       *)

(* A step that writes one receipt. *)
LEMMA ReceiptEvidence ==
    ASSUME ExecInv, EvidenceInv, NEW h \in Harnesses, NEW s,
           op' = [op EXCEPT ![h] = s], s # None => EvidenceOK(s)',
           NEW v, NEW o,
           \/ receipts' = receipts
           \/ receipts' = [receipts EXCEPT ![op[h].id] = Inserted(receipts[op[h].id], v, o)],
           UNCHANGED <<attempts, journals, runs, observations, reviews, entered>>,
           revs' = revs, cancellation' = cancellation, bounds'.calls = bounds.calls
    PROVE  EvidenceInv'
<1>1. DOMAIN receipts = Ids
  BY Zenon DEF EvidenceInv
<1>2. DOMAIN receipts' = Ids /\ \A i \in Ids : receipts[i] # None => receipts'[i] = receipts[i]
  BY Zenon, <1>1 DEF Inserted
<1>3. CommittedStay /\ EnteredFits
  BY Zenon DEF CommittedStay, EnteredFits
<1>4. EvidenceStep(0)
  BY Zenon, <1>2, <1>3, SameHistory DEF EvidenceStep, reviews
<1>5. EvidenceChain' /\ \A x \in entered' : x.id \in Ids \cup {None}
  BY Zenon, <1>3, <1>4, ChainStays
<1>6. bounds'.calls <= MaxCalls /\ bounds'.calls \in Nat
  BY Zenon DEF EvidenceInv, ExecInv, TypeInv
<1>7. bounds.calls <= bounds'.calls
  BY <1>6
<1>8. /\ DOMAIN journals' = Calls /\ DOMAIN observations' = Ids
      /\ \A d \in runs' : /\ d \in 1..bounds'.calls
                          /\ journals'[d] # None /\ journals'[d].phase = "committed"
  BY Zenon DEF EvidenceInv
<1> QED
  BY Zenon, <1>2, <1>4, <1>5, <1>6, <1>7, <1>8, EvidenceMove

LEMMA RejectionReceiptEvidence ==
    ASSUME ExecInv, EvidenceInv, NEW h \in Harnesses, NEW o \in Outcomes, RejectionReceipt(h, o)
    PROVE  EvidenceInv'
<1>1. /\ UNCHANGED <<attempts, journals, runs, observations, reviews, entered>>
      /\ revs' = revs /\ cancellation' = cancellation
  BY Zenon DEF RejectionReceipt, WriteReceipt, history, jobVars, jobStore
<1>2. bounds'.calls = bounds.calls
  BY Zenon, StoreKeepsBounds DEF RejectionReceipt, WriteReceipt, ExecInv
<1>3. \E v : \/ receipts' = receipts
             \/ receipts' = [receipts EXCEPT ![op[h].id] = Inserted(receipts[op[h].id], v, o)]
  BY Zenon DEF RejectionReceipt, WriteReceipt
<1>4. op' = [op EXCEPT ![h] = None]
  BY Zenon DEF RejectionReceipt, Goto
<1> QED
  BY Zenon, <1>1, <1>2, <1>3, <1>4, ReceiptEvidence

(* A receipt that was acknowledged is this supervisor's, with the          *)
(* selection it wrote.                                                     *)
LEMMA QueueReceiptEvidence ==
    ASSUME ExecInv, OutcomeInv, EvidenceInv, NEW h \in Harnesses, NEW o \in Outcomes,
           QueueReceipt(h, o)
    PROVE  EvidenceInv'
<1>1. /\ UNCHANGED <<attempts, journals, runs, observations, reviews, entered>>
      /\ revs' = revs /\ cancellation' = cancellation
  BY Zenon DEF QueueReceipt, WriteReceipt, history, jobVars, jobStore
<1>2. bounds'.calls = bounds.calls
  BY Zenon, StoreKeepsBounds DEF QueueReceipt, WriteReceipt, ExecInv
<1>3. /\ op[h] # None /\ op[h].pc = "receipt" /\ EvidenceOK(op[h]) /\ Fields \subseteq DOMAIN op[h]
      /\ op[h].kind = "receipted"
  BY Zenon DEF QueueReceipt, At, EvidenceInv, OutcomeInv, OutcomeOK
<1>4. PICK v : v = [supervisor |-> op[h].call,
                    selection |-> IF op[h].dispatched THEN "run" ELSE "pool_cancelled"]
  BY Zenon
<1>5. \/ receipts' = receipts
      \/ receipts' = [receipts EXCEPT ![op[h].id] = Inserted(receipts[op[h].id], v, o)]
  BY Zenon, <1>4 DEF QueueReceipt, WriteReceipt
<1>6. ReceiptStatus(h, o) = "ok" => receipts'[op[h].id] = v
  <2>1. op[h].id \in Ids /\ DOMAIN receipts = Ids
    BY Zenon, <1>3 DEF EvidenceOK, EvidenceInv
  <2>2. ASSUME ReceiptStatus(h, o) = "ok"
        PROVE  /\ receipts[op[h].id] = None /\ o = "ok"
               /\ BoundStatus(op[h].rev) = "ok" /\ admissions[op[h].id] = op[h].call
    BY Zenon, <2>2 DEF ReceiptStatus, Acknowledged
  <2>3. ASSUME ReceiptStatus(h, o) = "ok"
        PROVE  receipts' = [receipts EXCEPT ![op[h].id] = v]
    BY Zenon, <1>4, <2>2, <2>3 DEF QueueReceipt, WriteReceipt, Inserted
  <2> QED
    BY Zenon, <2>1, <2>3
<1>7. PICK r : r = [op[h] EXCEPT !.receipt = ReceiptStatus(h, o)]
  BY Zenon
<1>8. /\ Fields \subseteq DOMAIN r /\ r.call = op[h].call /\ r.kind = op[h].kind /\ r.id = op[h].id
      /\ r.plan = op[h].plan /\ r.ref = op[h].ref /\ r.dispatched = op[h].dispatched
      /\ r.receipt = ReceiptStatus(h, o)
  BY Zenon, <1>3, <1>7 DEF Fields
<1>9. /\ op[h].call \notin runs /\ "admit" \notin Admitted \cup {"publish", "finalize", "deliver"}
      /\ "close" \in Settling
      /\ "close" \notin Admitted \cup {"admit", "publish", "finalize", "deliver"}
  BY Zenon, <1>3 DEF EvidenceOK, Settling, Admitted, Owning, Resting
<1>10. CommittedStay /\ EvidenceStep(0)
  <2>1. DOMAIN receipts = Ids
    BY Zenon DEF EvidenceInv
  <2>2. \A i \in Ids : receipts[i] # None => receipts'[i] = receipts[i]
    BY Zenon, <1>5, <2>1 DEF Inserted
  <2>3. CommittedStay
    BY Zenon, <1>1 DEF CommittedStay
  <2> QED
    BY Zenon, <1>1, <2>2, <2>3, SameHistory DEF EvidenceStep, reviews
<1>11. \A ref : Backed(ref) => Backed(ref)'
  BY Zenon, <1>10, BackedStays
<1>12. ASSUME NEW s, s.call = op[h].call, s.kind = op[h].kind, s.id = op[h].id, s.ref = op[h].ref,
              \/ s.pc = "close"
              \/ s.pc = "admit" /\ op[h].dispatched /\ ReceiptStatus(h, o) = "ok"
       PROVE  EvidenceOK(s)'
  <2>1. s.pc = "admit" => receipts'[s.id] = [supervisor |-> s.call, selection |-> "run"]
    BY Zenon, <1>4, <1>6, <1>9, <1>12
  <2>2. s.call \in Calls /\ s.call \notin runs' /\ s.id \in Ids /\ (s.ref # None => Backed(s.ref)')
    BY Zenon, <1>1, <1>3, <1>9, <1>11, <1>12 DEF EvidenceOK
  <2> QED
    BY Zenon, <1>9, <1>12, <2>1, <2>2 DEF EvidenceOK
<1>13. CASE r.receipt = "ok"
  <2>1. PICK s : s = Dispatched(r)
    BY Zenon
  <2>2. op' = [op EXCEPT ![h] = s]
    BY Zenon, <1>7, <1>13, <2>1 DEF QueueReceipt, Goto
  <2>3. /\ s.call = r.call /\ s.kind = r.kind /\ s.id = r.id /\ s.ref = r.ref
        /\ s.pc = IF r.dispatched THEN "admit" ELSE "close"
    BY Zenon, <1>8, <2>1, DispatchedKin
  <2>4. EvidenceOK(s)'
    BY Zenon, <1>8, <1>12, <1>13, <2>3
  <2> QED
    BY Zenon, <1>1, <1>2, <1>5, <2>2, <2>4, ReceiptEvidence
<1>14. CASE r.receipt # "ok"
  <2>1. PICK s : s = [r EXCEPT !.pc = "close", !.rc = "error"]
    BY Zenon
  <2>2. op' = [op EXCEPT ![h] = s]
    BY Zenon, <1>7, <1>14, <2>1 DEF QueueReceipt, Goto
  <2>3. s.call = r.call /\ s.kind = r.kind /\ s.id = r.id /\ s.ref = r.ref /\ s.pc = "close"
    BY Zenon, <1>8, <2>1 DEF Fields
  <2>4. EvidenceOK(s)'
    BY Zenon, <1>8, <1>12, <2>3
  <2> QED
    BY Zenon, <1>1, <1>2, <1>5, <2>2, <2>4, ReceiptEvidence
<1> QED
  BY Zenon, <1>13, <1>14

(* One create-if-absent of a review: the acceptance has a backed           *)
(* reference, the intent an acceptance, the receipt its intent.            *)
LEMMA PublishReviewEvidence ==
    ASSUME ExecInv, EvidenceInv, NEW h \in Harnesses, NEW o \in Outcomes, PublishReview(h, o)
    PROVE  EvidenceInv'
<1>1. /\ UNCHANGED <<attempts, journals, runs, receipts, observations, entered>>
      /\ revs' = revs /\ cancellation' = cancellation
  BY Zenon DEF PublishReview, history, records, jobVars, jobStore
<1>2. bounds'.calls = bounds.calls
  BY Zenon, StoreKeepsBounds DEF PublishReview, ExecInv
<1>3. op[h] # None /\ op[h].pc = "publish" /\ EvidenceOK(op[h]) /\ op' = [op EXCEPT ![h] = None]
  BY Zenon DEF PublishReview, At, Goto, EvidenceInv
<1>4. /\ acceptance' = acceptance \/ (acceptance = None /\ op[h].kind = "accept" /\ acceptance' = op[h].result)
      /\ intent' = intent \/ (intent = None /\ op[h].kind = "prepare" /\ intent' = op[h].result)
      /\ delivery' = delivery \/ (delivery = None /\ op[h].kind = "confirm" /\ delivery' = op[h].result)
  BY Zenon DEF PublishReview, Inserted
<1>5. CommittedStay /\ EnteredFits
  BY Zenon, <1>1 DEF CommittedStay, EnteredFits
<1>6. EvidenceStep(0)
  BY Zenon, <1>1, <1>4, <1>5, SameHistory DEF EvidenceStep
<1>7. \A ref : Backed(ref) => Backed(ref)'
  BY Zenon, <1>6, BackedStays
<1>8. acceptance' # None => Backed(acceptance.ref)'
  BY Zenon, <1>3, <1>4, <1>7 DEF EvidenceInv, EvidenceChain, EvidenceOK
<1>9. intent' # None => acceptance' # None /\ acceptance'.decision = "accepted"
  BY Zenon, <1>3, <1>4 DEF EvidenceInv, EvidenceChain, EvidenceOK
<1>10. ASSUME delivery' # None PROVE intent' = delivery'
  <2>1. intent = delivery'
    <3>1. CASE delivery' = delivery
      BY Zenon, <1>10, <3>1 DEF EvidenceInv, EvidenceChain
    <3>2. CASE op[h].kind = "confirm" /\ delivery' = op[h].result
      BY Zenon, <1>3, <1>10, <3>2 DEF EvidenceOK
    <3> QED
      BY Zenon, <1>4, <3>1, <3>2
  <2>2. intent # None => intent' = intent
    BY Zenon, <1>4
  <2> QED
    BY Zenon, <1>10, <2>1, <2>2
<1>11. EvidenceChain'
  BY Zenon, <1>1, <1>7, <1>8, <1>9, <1>10 DEF EvidenceInv, EvidenceChain
<1>12. bounds'.calls <= MaxCalls /\ bounds'.calls \in Nat
  BY Zenon, <1>2 DEF EvidenceInv, ExecInv, TypeInv
<1>13. bounds.calls <= bounds'.calls
  BY <1>2, <1>12
<1>14. /\ DOMAIN journals' = Calls /\ DOMAIN observations' = Ids /\ DOMAIN receipts' = Ids
       /\ \A d \in runs' : /\ d \in 1..bounds'.calls
                           /\ journals'[d] # None /\ journals'[d].phase = "committed"
       /\ \A x \in entered' : x.id \in Ids \cup {None}
  BY Zenon, <1>1, <1>2 DEF EvidenceInv
<1> QED
  BY Zenon, <1>1, <1>3, <1>6, <1>11, <1>12, <1>13, <1>14, EvidenceMove

(* A call begins with a number no Run is stored under. *)
LEMMA BeginsEvidence ==
    ASSUME ExecInv, EvidenceInv, NEW h \in Harnesses, NEW s, BeginSubmit(h, s),
           s.call = bounds.calls + 1, s.ref = None,
           s.kind = "receipted" => s.id \in Ids /\ s.pc # "admit",
           s.pc \in {"admit", "intent", "enqueue", "publish"},
           s.pc = "publish" /\ s.kind = "accept" => Backed(s.result.ref),
           s.pc = "publish" /\ s.kind = "prepare" =>
              acceptance # None /\ acceptance.decision = "accepted",
           s.pc = "publish" /\ s.kind = "confirm" /\ s.result # None => intent = s.result
    PROVE  EvidenceInv'
<1>1. EvidenceSame /\ Final
  BY Zenon, Untouched DEF BeginSubmit
<1>2. /\ op' = [op EXCEPT ![h] = s] /\ bounds.calls < MaxCalls
      /\ bounds' = [bounds EXCEPT !.calls = bounds.calls + 1]
  BY Zenon DEF BeginSubmit, Goto
<1>3. bounds \in [calls : Nat, faults : Nat, policies : Nat] /\ MaxCalls \in Nat
  BY Zenon, ExecutionConstants DEF ExecInv, TypeInv
<1>4. /\ bounds'.calls <= MaxCalls /\ bounds'.calls \in Nat /\ bounds.calls <= bounds'.calls
      /\ bounds.calls + 1 \in Calls /\ bounds.calls + 1 \notin 1..bounds.calls
  BY <1>2, <1>3 DEF Calls
<1>5. s.call \notin runs
  BY Zenon, <1>4 DEF EvidenceInv
<1>6. s.pc \notin Admitted \cup {"finalize", "deliver"}
  BY Zenon DEF Admitted, Owning, Resting
<1>7. EvidenceOK(s)
  BY Zenon, <1>4, <1>5, <1>6 DEF EvidenceOK
<1>8. EvidenceStep(0) /\ runs' = runs /\ journals' = journals
  BY Zenon, <1>1, SameIsStep DEF EvidenceSame
<1>9. EvidenceOK(s)'
  BY Zenon, <1>7, <1>8, EvidenceStays
<1> QED
  BY Zenon, <1>1, <1>2, <1>4, <1>9, EvidenceCalm

(* What a proof of a binding has validated is backed. *)
LEMMA ValidatedBacked ==
    ASSUME NEW ref, NEW g, BoundStatus(Revision) = "ok", Validated(ref, g)
    PROVE  Backed(ref)
<1>1. IsBound
  BY Zenon DEF BoundStatus
<1> QED
  BY Zenon, <1>1 DEF Validated, Backed

LEMMA StartEvidence ==
    ASSUME ExecInv, EvidenceInv, NEW h \in Harnesses, Start(h)
    PROVE  EvidenceInv'
<1>1. CASE ExecuteJob(h)
  BY Zenon, <1>1, BeginsEvidence DEF ExecuteJob, Operation
<1>2. ASSUME NEW a \in Attempts, NEW p \in Sources, ExecuteAttempt(h, a, p)
      PROVE  EvidenceInv'
  BY Zenon, <1>2, BeginsEvidence DEF ExecuteAttempt, Operation
<1>3. ASSUME NEW k \in Background, NEW i \in Ids \cup {None}, Submit(h, k, i)
      PROVE  EvidenceInv'
  <2>1. PICK p : p = IF k \in {"admitted", "receipted"} THEN "intent" ELSE "enqueue"
    BY Zenon
  <2>2. PICK s : s = [Operation(k, p) EXCEPT !.id = i]
    BY Zenon
  <2>3. BeginSubmit(h, s)
    BY Zenon, <1>3, <2>1, <2>2 DEF Submit
  <2>4. s.call = bounds.calls + 1 /\ s.ref = None /\ s.kind = k /\ s.id = i /\ s.pc = p
    BY Zenon, <2>2 DEF Operation
  <2>5. k = "receipted" => i \in Ids
    BY Zenon, <1>3 DEF Submit
  <2>6. p \in {"intent", "enqueue"}
    BY Zenon, <2>1
  <2> QED
    BY Zenon, <2>3, <2>4, <2>5, <2>6, BeginsEvidence
<1>4. ASSUME NEW kind \in {"accept", "prepare", "confirm"}, NEW record, Review(h, kind, record),
             kind = "accept" => Backed(record.ref),
             kind = "prepare" => acceptance # None /\ acceptance.decision = "accepted",
             kind = "confirm" => intent = record
      PROVE  EvidenceInv'
  <2>1. PICK s : s = [Operation(kind, "publish") EXCEPT !.result = record]
    BY Zenon
  <2>2. BeginSubmit(h, s)
    BY Zenon, <1>4, <2>1 DEF Review
  <2>3. /\ s.call = bounds.calls + 1 /\ s.ref = None /\ s.kind = kind /\ s.pc = "publish"
        /\ s.result = record
    BY Zenon, <2>1 DEF Operation
  <2> QED
    BY Zenon, <1>4, <2>2, <2>3, BeginsEvidence
<1>5. ASSUME NEW r \in References, NEW d \in {"accepted", "rejected"}, Accept(h, r, d)
      PROVE  EvidenceInv'
  <2>1. Backed(r)
    BY Zenon, <1>5, ValidatedBacked DEF Accept, Proof
  <2>2. PICK record : record = [ref |-> r, decision |-> d]
    BY Zenon
  <2>3. record.ref = r /\ Review(h, "accept", record)
    BY Zenon, <1>5, <2>2 DEF Accept
  <2> QED
    BY Zenon, <1>4, <2>1, <2>3
<1>6. ASSUME NEW d \in Deliveries, PrepareDelivery(h, d)
      PROVE  EvidenceInv'
  BY Zenon, <1>4, <1>6 DEF PrepareDelivery, Accepted
<1>7. ASSUME NEW d \in Deliveries, RecordDelivery(h, d)
      PROVE  EvidenceInv'
  BY Zenon, <1>4, <1>7 DEF RecordDelivery
<1> QED
  BY Zenon, <1>1, <1>2, <1>3, <1>5, <1>6, <1>7 DEF Start

(* A step that concerns no operation. *)
LEMMA EvidenceRests ==
    ASSUME ExecInv, EvidenceInv, op' = op, EvidenceSame, Final, bounds'.calls = bounds.calls
    PROVE  EvidenceInv'
<1>1. EvidenceStep(0) /\ runs' = runs /\ journals' = journals
  BY Zenon, SameIsStep DEF EvidenceSame
<1>2. \A q : EvidenceOK(q) => EvidenceOK(q)'
  BY Zenon, <1>1, EvidenceStays
<1>3. \A k \in Harnesses : op'[k] # None => EvidenceOK(op[k])'
  BY Zenon, <1>2 DEF EvidenceInv
<1>4. EvidenceChain'
  BY Zenon, <1>1, ChainStays DEF EvidenceSame, EnteredFits
<1>5. receipts' = receipts /\ observations' = observations /\ entered' = entered
  BY Zenon DEF EvidenceSame
<1> QED
  BY Zenon, <1>1, <1>3, <1>4, <1>5 DEF EvidenceInv

LEMMA InitEvidenceInv == Init => EvidenceInv
<1> SUFFICES ASSUME Init PROVE EvidenceInv
  BY Zenon
<1>1. bounds.calls = 0 /\ 0 <= MaxCalls
  BY ExecutionConstants DEF Init
<1>2. DOMAIN journals = Calls /\ DOMAIN receipts = Ids /\ DOMAIN observations = Ids
  BY Zenon DEF Init
<1>3. runs = {} /\ entered = {} /\ \A h \in Harnesses : op[h] = None
  BY Zenon DEF Init
<1>4. EvidenceChain
  BY Zenon, <1>3 DEF Init, EvidenceChain
<1> QED
  BY Zenon, <1>1, <1>2, <1>3, <1>4 DEF EvidenceInv

(* Every step keeps the chain. *)
LEMMA NextEvidenceInv == ExecInv /\ OutcomeInv /\ EvidenceInv /\ [Next]_vars => EvidenceInv'
<1> SUFFICES ASSUME ExecInv, OutcomeInv, EvidenceInv, [Next]_vars PROVE EvidenceInv'
  BY Zenon
<1>1. CASE UNCHANGED vars
  <2>1. op' = op /\ bounds' = bounds /\ UNCHANGED <<jobVars, executionStore, entered>>
    BY Zenon, <1>1 DEF vars, history
  <2> QED
    BY Zenon, <2>1, Untouched, EvidenceRests
<1>2. CASE JobCall
  <2>1. op' = op /\ bounds' = bounds /\ EvidenceSame
    BY Zenon, <1>2 DEF JobCall, history, EvidenceSame, executionStore, records, reviews
  <2>2. Final
    BY Zenon, <1>2, JobCallFinal DEF JobCall, ExecInv
  <2> QED
    BY Zenon, <2>1, <2>2, EvidenceRests
<1>3. ASSUME NEW h \in Harnesses, Start(h)
      PROVE  EvidenceInv'
  BY Zenon, <1>3, StartEvidence
<1>4. ASSUME NEW h \in Harnesses, LocalStep(h)
      PROVE  EvidenceInv'
  BY Zenon, <1>4, SubmissionEvidence, SelectEvidence, WorkerEvidence, AdmitEvidence,
     DeliverEvidence, HostEvidence DEF LocalStep
<1>5. ASSUME NEW h \in Harnesses, ChangePolicy(h)
      PROVE  EvidenceInv'
  <2>1. op' = op /\ UNCHANGED <<jobVars, executionStore, entered>>
    BY Zenon, <1>5 DEF ChangePolicy, history
  <2>2. bounds'.calls = bounds.calls
    BY Zenon, <1>5 DEF ChangePolicy, ExecInv, TypeInv
  <2> QED
    BY Zenon, <2>1, <2>2, Untouched, EvidenceRests
<1>6. ASSUME NEW h \in Harnesses, HostStep(h)
      PROVE  EvidenceInv'
  BY Zenon, <1>5, <1>6, HostEvidence DEF HostStep
<1>7. ASSUME NEW h \in Harnesses, NEW o \in Outcomes, JournalStart(h, o) \/ JournalCommit(h, o)
      PROVE  EvidenceInv'
  BY Zenon, <1>7, JournalStartEvidence, JournalCommitEvidence, InspectStoreEvidence
<1>8. ASSUME NEW h \in Harnesses, NEW o \in Outcomes, StoreStep(h, o)
      PROVE  EvidenceInv'
  BY Zenon, <1>7, <1>8, SubmissionEvidence, RejectionReceiptEvidence, QueueReceiptEvidence,
     InspectStoreEvidence, FinalizeEvidence, PublishCancelEvidence, RecordEvidence,
     PublishReviewEvidence DEF StoreStep
<1> QED
  BY Zenon, <1>1, <1>2, <1>3, <1>4, <1>6, <1>8 DEF Next

(* Every durable record of a Job rests on the one before it, over all      *)
(* crashes, lost acknowledgements, late writes and changes of policy: the  *)
(* delivery receipt on its intent, the intent on a positive acceptance,    *)
(* the acceptance and a completed observation on a committed attempt and   *)
(* journal and a stored Run, a callback on its supervisor's receipt        *)
(* (turbo_agent_job_acceptance.c, turbo_agent_job_delivery.c,              *)
(* turbo_agent_job_observation.c).                                         *)
THEOREM EvidenceIsChained == Spec => []EvidenceChain
<1>1. Spec => []OutcomeInv
  BY InitOutcomeInv, NextOutcomeInv, ExecInvHolds, PTL DEF Spec
<1>2. Spec => []EvidenceInv
  BY <1>1, InitEvidenceInv, NextEvidenceInv, ExecInvHolds, PTL DEF Spec
<1>3. EvidenceInv => EvidenceChain
  BY Zenon DEF EvidenceInv
<1> QED
  BY <1>2, <1>3, PTL

=============================================================================
