------------------------- MODULE JobExecutionProofs -------------------------
(***************************************************************************)
(* Proofs about Job, for any number of clients, sources and revisions and  *)
(* whichever writes are lost or only look lost, and about JobExecution,    *)
(* for any number of Harnesses, calls, faults and policy changes: the      *)
(* history of a Job stays readable, the callback of an attempt is entered  *)
(* at most once, every result handed over is the one committed result, and *)
(* a cancellation fences the calls that begin after it.                    *)
(***************************************************************************)
EXTENDS JobExecution, WellFoundedInduction, TLAPS

(* A record that may stand at revision i: everything before it is there,   *)
(* no binding is among it, and a binding names the last proposal.          *)
FitsAt(i, r) ==
    /\ created
    /\ r \in Proposals \cup Bindings
    /\ \A j \in 1..(i - 1) : revs[j] # None /\ revs[j].kind # "attempt_bound"
    /\ r.kind = "attempt_bound" => IsLast(r.version, ProposalsBefore(i))

(* The inductive invariant.  Readability alone is not inductive: a call    *)
(* writes what it decided on an older read, and that still fits because    *)
(* the revisions before it were complete when it was decided and are never *)
(* overwritten.                                                            *)
JobInv ==
    /\ created \in BOOLEAN
    /\ DOMAIN revs = Revisions
    /\ DOMAIN client = Clients
    /\ \A i \in Revisions : revs[i] # None => FitsAt(i, revs[i])
    /\ \A c \in Clients : client[c] # None /\ client[c].to = "revision" =>
          client[c].key \in Revisions /\ FitsAt(client[c].key, client[c].record)

-----------------------------------------------------------------------------
(* A nonempty set of numbers up to n has a largest one: the revision that  *)
(* head_read stops at exists.                                              *)
LEMMA LargestExists ==
    ASSUME NEW n \in Nat, NEW S \in SUBSET (1..n), S # {}
    PROVE  \E m \in S : \A k \in S : k <= m
<1> DEFINE T == {n - i : i \in S}
<1>1. T \subseteq Nat /\ T # {}
  <2>1. \A i \in S : n - i \in Nat
    OBVIOUS
  <2>2. T \subseteq Nat
    BY Zenon, <2>1
  <2>3. PICK i \in S : TRUE
    BY ZenonT(30)
  <2>4. n - i \in T
    BY Zenon, <2>3
  <2> QED
    BY Zenon, <2>2, <2>4
<1>2. PICK x \in T : \A y \in T : ~(<<y, x>> \in OpToRel(<, Nat))
  BY <1>1, NatLessThanWellFounded, WFMin
<1>3. \A y \in T : ~(y < x)
  BY ZenonT(30), <1>1, <1>2 DEF OpToRel
<1>4. PICK m \in S : x = n - m
  BY Zenon
<1>5. \A k \in S : n - k \in T
  BY Zenon
<1>6. \A k \in S : ~(n - k < n - m)
  BY ZenonT(30), <1>3, <1>4, <1>5
<1> QED
  BY <1>6

(* The head of a history is 0 when it is empty, and its last revision      *)
(* otherwise.                                                              *)
LEMMA RevisionIsLast ==
    ASSUME JobInv
    PROVE  \/ Revision = 0 /\ \A i \in Revisions : revs[i] = None
           \/ /\ Revision \in Revisions /\ revs[Revision] # None
              /\ \A j \in Revisions : revs[j] # None => j <= Revision
<1>1. CASE \A i \in Revisions : revs[i] = None
  BY Zenon, <1>1 DEF Revision
<1>2. CASE ~\A i \in Revisions : revs[i] = None
  <2> DEFINE S == {i \in Revisions : revs[i] # None}
  <2>1. PICK m \in S : \A k \in S : k <= m
    BY ZenonT(30), <1>2, LargestExists, JobConstants DEF Revisions
  <2>2. \E i \in Revisions : revs[i] # None /\ \A j \in Revisions : revs[j] # None => j <= i
    BY Zenon, <2>1
  <2> QED
    BY Zenon, <1>2, <2>2 DEF Revision
<1> QED
  BY Zenon, <1>1, <1>2

(* Every history that satisfies the invariant is readable once the Job     *)
(* exists, and no record exists before it.                                 *)
LEMMA InvReadable == JobInv => HistoryReadable
<1> SUFFICES ASSUME JobInv, created \/ HasProposal PROVE HeadReadable
  BY Zenon DEF HistoryReadable
<1>1. created
  BY Zenon DEF JobInv, HasProposal, Kind, FitsAt
<1> QED
  BY Zenon, <1>1 DEF JobInv, FitsAt, HeadReadable

(* An empty store satisfies the invariant. *)
LEMMA InitJobInv == JobInit => JobInv
  BY ZenonT(30) DEF JobInit, JobInv

(* A call that append_admit lets through finds a complete history without  *)
(* a binding, so that its record fits at the next revision.                *)
LEMMA AdmittedFits ==
    ASSUME JobInv, AppendAdmit(Revision, FALSE) \/ AppendAdmit(Revision, TRUE)
    PROVE  /\ created /\ Revision \in Nat /\ Revision + 1 \in Revisions
           /\ \A j \in 1..Revision : revs[j] # None /\ revs[j].kind # "attempt_bound"
<1>1. created /\ Revision < MaxRevisions /\ ~IsBound
  BY Zenon DEF AppendAdmit, HeadReadable
<1>2. CASE Revision = 0
  BY <1>1, <1>2, JobConstants DEF Revisions
<1>3. CASE Revision \in Revisions /\ revs[Revision] # None
  <2>1. \A j \in 1..(Revision - 1) : revs[j] # None /\ revs[j].kind # "attempt_bound"
    BY Zenon, <1>3 DEF JobInv, FitsAt
  <2>2. revs[Revision].kind # "attempt_bound"
    BY <1>1, <1>3, JobConstants DEF IsBound, Kind, Revisions
  <2> QED
    BY <1>1, <1>3, <2>1, <2>2, JobConstants DEF Revisions
<1> QED
  BY Zenon, <1>2, <1>3, RevisionIsLast

(* A binding names a proposal that exists and is the last. *)
LEMMA LatestProposalExists ==
    ASSUME JobInv, AppendAdmit(Revision, TRUE)
    PROVE  /\ LatestProposal \in Revisions
           /\ IsLast(LatestProposal, ProposalsBefore(Revision + 1))
<1> DEFINE S == ProposalsBefore(Revision + 1)
<1>1. Revision \in Nat /\ Revision + 1 \in Revisions
  BY Zenon, AdmittedFits
<1>2. S \subseteq 1..Revision
  BY <1>1 DEF ProposalsBefore
<1>3. PICK i \in Revisions : Kind(i, "proposal")
  BY Zenon DEF AppendAdmit, HasProposal
<1>4. i \in S
  BY <1>1, <1>3, RevisionIsLast, JobConstants DEF ProposalsBefore, Kind, Revisions
<1>5. PICK m \in S : \A k \in S : k <= m
  BY ZenonT(30), <1>1, <1>2, <1>4, LargestExists
<1>6. m \in Revisions
  BY <1>1, <1>2, <1>5, JobConstants DEF Revisions
<1>7. IsLast(m, S)
  BY Zenon, <1>5 DEF IsLast
<1> QED
  BY Zenon, <1>6, <1>7 DEF LatestProposal

(* A call only remembers what it decided. *)
LEMMA CallKeepsInv ==
    ASSUME JobInv, NEW c \in Clients, NEW to, NEW key, NEW record,
           Call(c, to, key, record),
           to = "revision" => key \in Revisions /\ FitsAt(key, record)
    PROVE  JobInv'
<1>1. UNCHANGED <<created, revs>>
  BY Zenon DEF Call, jobStore
<1>2. \A i, r : FitsAt(i, r) => FitsAt(i, r)'
  BY Zenon, <1>1 DEF FitsAt, IsLast, ProposalsBefore, Kind
<1>3. DOMAIN client' = Clients
  BY Zenon DEF Call, JobInv
<1>4. \A i \in Revisions : revs'[i] # None => FitsAt(i, revs[i])'
  BY Zenon, <1>1, <1>2 DEF JobInv
<1>5. ASSUME NEW d \in Clients, client'[d] # None, client'[d].to = "revision"
      PROVE  client'[d].key \in Revisions /\ FitsAt(client[d].key, client[d].record)'
  <2>1. CASE d = c
    <3>1. client'[c] = [to |-> to, key |-> key, record |-> record]
      BY Zenon DEF Call, JobInv
    <3> QED
      BY <1>2, <1>5, <2>1, <3>1
  <2>2. CASE d # c
    <3>1. client'[d] = client[d]
      BY Zenon, <2>2 DEF Call, JobInv
    <3> QED
      BY Zenon, <1>2, <1>5, <3>1 DEF JobInv
  <2> QED
    BY Zenon, <2>1, <2>2
<1> QED
  BY Zenon, <1>1, <1>3, <1>4, <1>5 DEF JobInv

(* A publication keeps what is stored and inserts where nothing was; since *)
(* the history has no gap, nothing stands after the place it fills.        *)
LEMMA PublishKeepsInv ==
    ASSUME JobInv, NEW c \in Clients, NEW o \in Outcomes, Publish(c, o)
    PROVE  JobInv'
<1> DEFINE w == client[c]
<1>1. client[c] # None /\ DOMAIN client' = Clients /\ created' \in BOOLEAN /\ (created => created')
  BY Zenon DEF Publish, JobInv
<1>2. DOMAIN revs' = Revisions /\ \A i \in Revisions : revs[i] # None => revs'[i] = revs[i]
  BY Zenon DEF Publish, JobInv, Inserted
<1>3. \A i \in Revisions : revs[i] = None /\ revs'[i] # None =>
         w.to = "revision" /\ i = w.key /\ revs'[i] = w.record
  BY Zenon DEF Publish, JobInv, Inserted
<1>4. ASSUME NEW i \in Revisions, NEW r, FitsAt(i, r)
      PROVE  FitsAt(i, r)'
  <2>1. \A j \in 1..(i - 1) : j \in Revisions /\ revs[j] # None /\ revs'[j] = revs[j]
    BY <1>2, <1>4, JobConstants DEF FitsAt, Revisions
  <2>2. ProposalsBefore(i)' = ProposalsBefore(i)
    BY Zenon, <2>1 DEF ProposalsBefore, Kind
  <2> QED
    BY Zenon, <1>1, <1>4, <2>1, <2>2 DEF FitsAt, IsLast
<1>5. \A i \in Revisions : revs'[i] # None => FitsAt(i, revs[i])'
  <2> SUFFICES ASSUME NEW i \in Revisions, revs'[i] # None PROVE FitsAt(i, revs'[i])
    BY Zenon, <1>4
  <2>1. CASE revs[i] # None
    BY Zenon, <1>2, <2>1 DEF JobInv
  <2>2. CASE revs[i] = None
    BY Zenon, <1>1, <1>3, <2>2 DEF JobInv
  <2> QED
    BY Zenon, <2>1, <2>2
<1>6. \A d \in Clients : client'[d] # None => client'[d] = client[d]
  BY Zenon DEF Publish, JobInv
<1>7. ASSUME NEW d \in Clients, client'[d] # None, client'[d].to = "revision"
      PROVE  client'[d].key \in Revisions /\ FitsAt(client[d].key, client[d].record)'
  BY Zenon, <1>4, <1>6, <1>7 DEF JobInv
<1> QED
  BY Zenon, <1>1, <1>2, <1>5, <1>7 DEF JobInv

(* Every step of every client preserves the invariant. *)
LEMMA NextJobInv == JobInv /\ [JobNext]_jobVars => JobInv'
<1> SUFFICES ASSUME JobInv, [JobNext]_jobVars PROVE JobInv'
  BY Zenon
<1>1. CASE UNCHANGED jobVars
  BY <1>1 DEF jobVars, jobStore, JobInv, FitsAt, IsLast, ProposalsBefore, Kind
<1>2. ASSUME NEW c \in Clients, Create(c)
      PROVE  JobInv'
  BY Zenon, <1>2, CallKeepsInv DEF Create
<1>3. ASSUME NEW c \in Clients, NEW s \in Sources, Propose(c, s)
      PROVE  JobInv'
  <2>1. AppendAdmit(Revision, FALSE) /\ Call(c, "revision", Revision + 1, Proposal(s))
    BY ZenonT(30), <1>3 DEF Propose
  <2>2. /\ created /\ Revision \in Nat /\ Revision + 1 \in Revisions
        /\ \A j \in 1..Revision : revs[j] # None /\ revs[j].kind # "attempt_bound"
    BY Zenon, <2>1, AdmittedFits
  <2>3. FitsAt(Revision + 1, Proposal(s)) /\ Revision + 1 \in Revisions
    BY <2>2 DEF FitsAt, Proposal, Proposals
  <2> QED
    BY Zenon, <2>1, <2>3, CallKeepsInv
<1>4. ASSUME NEW c \in Clients, NEW a \in Attempts, BindCompiledInspect(c, a)
      PROVE  JobInv'
  <2>1. AppendAdmit(Revision, TRUE) /\ Call(c, "revision", Revision + 1, Binding(a, LatestProposal))
    BY ZenonT(30), <1>4 DEF BindCompiledInspect
  <2>2. /\ created /\ Revision \in Nat /\ Revision + 1 \in Revisions
        /\ \A j \in 1..Revision : revs[j] # None /\ revs[j].kind # "attempt_bound"
    BY Zenon, <2>1, AdmittedFits
  <2>3. LatestProposal \in Revisions /\ IsLast(LatestProposal, ProposalsBefore(Revision + 1))
    BY Zenon, <2>1, LatestProposalExists
  <2>4. FitsAt(Revision + 1, Binding(a, LatestProposal)) /\ Revision + 1 \in Revisions
    BY <2>2, <2>3 DEF FitsAt, Binding, Bindings
  <2> QED
    BY Zenon, <2>1, <2>4, CallKeepsInv
<1>5. ASSUME NEW c \in Clients, NEW req \in Requests, RequestCancel(c, req)
      PROVE  JobInv'
  BY Zenon, <1>5, CallKeepsInv DEF RequestCancel
<1>6. ASSUME NEW c \in Clients, NEW o \in Outcomes, Publish(c, o)
      PROVE  JobInv'
  BY Zenon, <1>6, PublishKeepsInv
<1> QED
  BY Zenon, <1>1, <1>2, <1>3, <1>4, <1>5, <1>6 DEF JobNext

(* However the calls of several clients overlap, head_read of              *)
(* turbo_agent_job.c never meets a gap, a revision after the binding or a  *)
(* binding of a superseded proposal.                                       *)
THEOREM HistoryStaysReadable == JobSpec => []HistoryReadable
<1>1. JobSpec => []JobInv
  BY InitJobInv, NextJobInv, PTL DEF JobSpec
<1> QED
  BY <1>1, InvReadable, PTL

-----------------------------------------------------------------------------
OpFields == {"kind", "pc", "call", "id", "attempt", "plan", "gen", "result", "ref"}

(* Steps before the callback, steps that own the attempt, steps that rest  *)
(* on a committed attempt, all steps of an Inspect that has been admitted, *)
(* and steps that settle an execution.                                     *)
NotEntered == {"intent", "admission", "enqueue", "queued", "receipt", "admit", "lookup", "claim",
               "journal"}
Owning == {"journal", "inside", "commit", "unknown", "unknown_journal"}
Resting == {"replay", "journal_commit", "finalize", "deliver"}
Admitted == Owning \cup Resting \cup {"lookup", "claim", "uncertain"}
Settling == {"close", "publish_cancel", "record", "terminal"}

(* What an operation may rely on. *)
RecordOK(r) ==
    /\ OpFields \subseteq DOMAIN r
    /\ r.call \in 1..bounds.calls
    /\ r.pc \in NotEntered => \A x \in entered : x.call # r.call
    /\ r.pc \in {"intent", "admission", "enqueue", "queued", "receipt"} => r.kind # "direct"
    /\ r.pc \in Admitted \/ (r.pc = "admit" /\ r.kind = "direct") =>
          r.attempt \in Attempts /\ r.plan \in Sources
    /\ r.pc \in Admitted => r.gen \in Nat
    /\ r.pc \in Owning =>
          attempts[r.attempt] # None /\ attempts[r.attempt].exec = r.call
    /\ r.pc = "commit" => r.result \in Nat
    /\ r.pc \in Resting =>
          /\ attempts[r.attempt] # None /\ attempts[r.attempt].phase = "committed"
          /\ attempts[r.attempt].result = r.result
    /\ r.ref # None => r.pc \in Settling /\ r.ref.attempt = r.attempt
    /\ r.call \in lateCalls => r.kind # "direct" /\ r.pc \notin Admitted \cup {"admission"}

TypeInv ==
    /\ bounds \in [calls : Nat, faults : Nat, policies : Nat]
    /\ authority \in [Harnesses -> Nat]
    /\ DOMAIN op = Harnesses
    /\ DOMAIN admissions = Ids
    /\ \A i \in Ids : admissions[i] = None \/ admissions[i] \in 1..bounds.calls
    /\ attempts \in [Attempts -> AttemptRecords \cup {None}]
    /\ \A a \in Attempts : attempts[a] # None => attempts[a].exec \in 1..bounds.calls

(* Callbacks entered belong to the call that the attempt record names. *)
EnteredOK ==
    \A x \in entered : /\ x.attempt \in Attempts /\ x.call \in 1..bounds.calls
                       /\ attempts[x.attempt] # None /\ attempts[x.attempt].exec = x.call
GotOK == \A g \in got : g.attempt \in Attempts /\ g.call \in 1..bounds.calls
LateOK ==
    /\ lateCalls \subseteq 1..bounds.calls
    /\ lateCalls # {} => cancellation # None
CallsDiffer ==
    \A h, k \in Harnesses : h # k /\ op[h] # None /\ op[k] # None => op[h].call # op[k].call

(* The inductive invariant.  The properties are not inductive alone: they  *)
(* need to know that an operation past its claim is the one its attempt    *)
(* record names, that no call before its callback has entered one, that    *)
(* call numbers are never used twice, and that a late call is stopped by   *)
(* its admission.                                                          *)
ExecInv ==
    /\ JobInv /\ TypeInv
    /\ \A h \in Harnesses : op[h] # None => RecordOK(op[h])
    /\ CallsDiffer /\ EnteredOK /\ GotOK /\ LateOK
    /\ CallbackOnce /\ OneResult /\ FenceHolds

-----------------------------------------------------------------------------
(* Facts about the store and the Job that several steps use.               *)

(* A write spends at most a fault. *)
LEMMA StoreKeepsBounds ==
    ASSUME TypeInv, NEW o \in Outcomes, Store(o)
    PROVE  bounds' \in [calls : Nat, faults : Nat, policies : Nat] /\ bounds'.calls = bounds.calls
  BY DEF TypeInv, Store, Fault

(* A readable, bound history names an attempt and a source. *)
LEMMA BoundTypes ==
    ASSUME JobInv, HeadReadable, IsBound
    PROVE  BoundAttempt \in Attempts /\ BoundSource \in Sources
<1>1. Revision \in Revisions /\ revs[Revision] # None /\ revs[Revision].kind = "attempt_bound"
  BY Zenon, RevisionIsLast DEF IsBound, Kind
<1>2. revs[Revision] \in Proposals \cup Bindings
  BY Zenon, <1>1 DEF JobInv, FitsAt
<1>3. revs[Revision] \in Bindings
  BY Zenon, <1>1, <1>2 DEF Proposals
<1>4. revs[Revision].attempt \in Attempts /\ revs[Revision].version \in Revisions
  BY Zenon, <1>3 DEF Bindings
<1>5. Kind(revs[Revision].version, "proposal")
  BY Zenon, <1>1 DEF HeadReadable, IsLast, ProposalsBefore
<1>6. revs[revs[Revision].version] \in Proposals \cup Bindings
  BY Zenon, <1>4, <1>5 DEF JobInv, FitsAt, Kind
<1>7. revs[revs[Revision].version] \in Proposals
  BY Zenon, <1>5, <1>6 DEF Kind, Bindings
<1> QED
  BY Zenon, <1>4, <1>7 DEF BoundAttempt, BoundSource, Proposals

(* Only revisions, descriptor and client calls matter to the Job's         *)
(* invariant.                                                              *)
LEMMA JobUntouched ==
    ASSUME JobInv, UNCHANGED <<created, revs, client>>
    PROVE  JobInv'
  BY DEF JobInv, FitsAt, IsLast, ProposalsBefore, Kind

(* Moving to a step outside an Inspect, with the call and the reference    *)
(* kept or the reference dropped, asks nothing new.                        *)
LEMMA CalmMove ==
    ASSUME NEW s, NEW r, RecordOK(s), OpFields \subseteq DOMAIN r,
           r.call = s.call, r.pc \in Settling \cup {"rejected"},
           r.kind = s.kind, r.attempt = s.attempt,
           r.ref = None \/ (r.ref = s.ref /\ r.pc # "rejected")
    PROVE  RecordOK(r)
  BY Zenon DEF RecordOK, NotEntered, Admitted, Owning, Resting, Settling

(* A change of fields that the invariant does not look at. *)
LEMMA SameStep ==
    ASSUME NEW s, NEW r, RecordOK(s), OpFields \subseteq DOMAIN r,
           \A f \in OpFields : r[f] = s[f]
    PROVE  RecordOK(r)
<1>1. /\ r.kind = s.kind /\ r.pc = s.pc /\ r.call = s.call /\ r.attempt = s.attempt
      /\ r.plan = s.plan /\ r.gen = s.gen /\ r.result = s.result /\ r.ref = s.ref
  BY ZenonT(30) DEF OpFields
<1> QED
  BY Zenon, <1>1 DEF RecordOK

(* What a step leaves alone when it changes no attempt, no admission and   *)
(* no history.                                                             *)
Quiet ==
    /\ UNCHANGED <<attempts, admissions, history, created, revs, client>>
    /\ bounds' \in [calls : Nat, faults : Nat, policies : Nat]
    /\ bounds'.calls = bounds.calls
    /\ authority' \in [Harnesses -> Nat]
    /\ cancellation # None => cancellation' # None

(* Such a step of one Harness preserves the invariant if its own operation *)
(* stays in order.                                                         *)
LEMMA QuietStep ==
    ASSUME ExecInv, NEW h \in Harnesses, NEW r, op' = [op EXCEPT ![h] = r],
           op[h] # None, r # None => RecordOK(r) /\ r.call = op[h].call, Quiet
    PROVE  ExecInv'
<1>1. JobInv'
  BY Zenon, JobUntouched DEF ExecInv, Quiet
<1>2. TypeInv'
  BY ZenonT(30) DEF ExecInv, TypeInv, Quiet
<1>3. \A q : RecordOK(q) => RecordOK(q)'
  BY DEF RecordOK, Quiet, history
<1>4. DOMAIN op = Harnesses
  BY Zenon DEF ExecInv, TypeInv
<1>5. \A k \in Harnesses : op'[k] # None => RecordOK(op[k])'
  BY Zenon, <1>3, <1>4 DEF ExecInv
<1>6. CallsDiffer'
  BY <1>4 DEF ExecInv, CallsDiffer
<1>7. EnteredOK' /\ GotOK' /\ LateOK'
  BY Zenon DEF ExecInv, EnteredOK, GotOK, LateOK, Quiet, history
<1>8. CallbackOnce' /\ OneResult' /\ FenceHolds'
  BY Zenon DEF ExecInv, CallbackOnce, OneResult, FenceHolds, Quiet, history
<1> QED
  BY Zenon, <1>1, <1>2, <1>5, <1>6, <1>7, <1>8 DEF ExecInv

(* An operation that ends or goes on to settle. *)
LEMMA EndedKeeps ==
    ASSUME ExecInv, NEW h \in Harnesses, op[h] # None, op[h].ref = None,
           NEW rc, NEW tool, Ended(h, rc, tool), Quiet
    PROVE  ExecInv'
<1> DEFINE b == [op[h] EXCEPT !.pc = "close", !.rc = rc, !.tool = ToolFor(rc, tool)]
           r == IF IsBackground(h) THEN b ELSE None
<1>1. op' = [op EXCEPT ![h] = r]
  BY Zenon DEF Ended, Goto
<1>2. RecordOK(op[h])
  BY Zenon DEF ExecInv
<1>3. /\ OpFields \subseteq DOMAIN b /\ b.call = op[h].call /\ b.pc = "close"
      /\ b.kind = op[h].kind /\ b.attempt = op[h].attempt /\ b.ref = None
  BY Zenon, <1>2 DEF RecordOK, OpFields
<1>4. RecordOK(b)
  BY ZenonT(30), <1>2, <1>3, CalmMove DEF Settling
<1> QED
  BY ZenonT(30), <1>1, <1>3, <1>4, QuietStep

(* A store access that leaves attempts and admissions alone is quiet. *)
LEMMA StoreIsQuiet ==
    ASSUME ExecInv, NEW o \in Outcomes, Store(o),
           UNCHANGED <<jobVars, attempts, admissions, authority, history>>
    PROVE  Quiet
<1>1. bounds' \in [calls : Nat, faults : Nat, policies : Nat] /\ bounds'.calls = bounds.calls
  BY Zenon, StoreKeepsBounds DEF ExecInv
<1> QED
  BY Zenon, <1>1 DEF Quiet, jobVars, jobStore, ExecInv, TypeInv

(* So is a step that touches no store. *)
LEMMA LocalIsQuiet ==
    ASSUME ExecInv, UNCHANGED <<jobVars, executionStore, authority, bounds, history>>
    PROVE  Quiet
  BY Zenon DEF Quiet, jobVars, jobStore, executionStore, records, ExecInv, TypeInv

(* The initial state satisfies the invariant. *)
LEMMA InitExecInv == Init => ExecInv
<1> SUFFICES ASSUME Init PROVE ExecInv
  BY Zenon
<1>1. JobInv
  BY Zenon, InitJobInv DEF Init
<1>2. TypeInv
  BY Zenon DEF Init, TypeInv
<1>3. CallsDiffer /\ EnteredOK /\ GotOK /\ LateOK
  BY Zenon DEF Init, CallsDiffer, EnteredOK, GotOK, LateOK
<1>4. CallbackOnce /\ OneResult /\ FenceHolds
  BY Zenon DEF Init, CallbackOnce, OneResult, FenceHolds
<1> QED
  BY Zenon, <1>1, <1>2, <1>3, <1>4 DEF ExecInv, Init

-----------------------------------------------------------------------------
(* The steps of a submission before its Inspect.                           *)

LEMMA EnqueueKeeps ==
    ASSUME ExecInv, NEW h \in Harnesses, NEW b \in BOOLEAN, Enqueue(h, b)
    PROVE  ExecInv'
<1>1. Quiet
  BY Zenon, LocalIsQuiet DEF Enqueue
<1>2. op[h] # None /\ op[h].pc = "enqueue" /\ RecordOK(op[h])
  BY Zenon DEF Enqueue, At, ExecInv
<1> DEFINE q == [op[h] EXCEPT !.pc = "queued"]
           j == [op[h] EXCEPT !.pc = "rejected"]
<1>3. op' = [op EXCEPT ![h] = q] \/ op' = [op EXCEPT ![h] = j] \/ op' = [op EXCEPT ![h] = None]
  BY Zenon DEF Enqueue, StepTo, Goto
<1>4. RecordOK(q) /\ q.call = op[h].call
  BY Zenon, <1>2 DEF RecordOK, OpFields, NotEntered, Admitted, Owning, Resting, Settling
<1>5. RecordOK(j) /\ j.call = op[h].call
  BY Zenon, <1>2 DEF RecordOK, OpFields, NotEntered, Admitted, Owning, Resting, Settling
<1> QED
  BY ZenonT(30), <1>1, <1>2, <1>3, <1>4, <1>5, QuietStep

(* settle, after its receipt: on to the Inspect or to its end. *)
LEMMA DispatchedOK ==
    ASSUME NEW s, RecordOK(s), s.pc = "queued" \/ s.pc = "receipt"
    PROVE  RecordOK(Dispatched(s)) /\ Dispatched(s).call = s.call
  BY Zenon DEF Dispatched, RecordOK, OpFields, NotEntered, Admitted, Owning, Resting, Settling

LEMMA SelectKeeps ==
    ASSUME ExecInv, NEW h \in Harnesses, NEW b \in BOOLEAN, Select(h, b)
    PROVE  ExecInv'
<1>1. Quiet
  BY Zenon, LocalIsQuiet DEF Select
<1>2. op[h] # None /\ op[h].pc = "queued" /\ RecordOK(op[h])
  BY Zenon DEF Select, At, ExecInv
<1> DEFINE s == [op[h] EXCEPT !.dispatched = b]
           q == [s EXCEPT !.pc = "receipt"]
<1>3. op' = [op EXCEPT ![h] = q] \/ op' = [op EXCEPT ![h] = Dispatched(s)]
  BY ZenonT(30) DEF Select, Goto
<1>4. RecordOK(s) /\ s.call = op[h].call /\ s.pc = "queued"
  BY Zenon, <1>2 DEF RecordOK, OpFields, NotEntered, Admitted, Owning, Resting, Settling
<1>5. RecordOK(q) /\ q.call = op[h].call
  BY Zenon, <1>4 DEF RecordOK, OpFields, NotEntered, Admitted, Owning, Resting, Settling
<1>6. RecordOK(Dispatched(s)) /\ Dispatched(s).call = op[h].call
  BY ZenonT(30), <1>4, DispatchedOK
<1> QED
  BY ZenonT(30), <1>1, <1>2, <1>3, <1>5, <1>6, QuietStep

LEMMA RejectionReceiptKeeps ==
    ASSUME ExecInv, NEW h \in Harnesses, NEW o \in Outcomes, RejectionReceipt(h, o)
    PROVE  ExecInv'
<1>1. Quiet
  BY Zenon, StoreIsQuiet DEF RejectionReceipt, WriteReceipt
<1>2. op[h] # None /\ op' = [op EXCEPT ![h] = None]
  BY Zenon DEF RejectionReceipt, At, Goto
<1> QED
  BY ZenonT(30), <1>1, <1>2, QuietStep

LEMMA QueueReceiptKeeps ==
    ASSUME ExecInv, NEW h \in Harnesses, NEW o \in Outcomes, QueueReceipt(h, o)
    PROVE  ExecInv'
<1>1. Quiet
  BY Zenon, StoreIsQuiet DEF QueueReceipt, WriteReceipt
<1>2. op[h] # None /\ op[h].pc = "receipt" /\ RecordOK(op[h])
  BY Zenon DEF QueueReceipt, At, ExecInv
<1> DEFINE s == [op[h] EXCEPT !.receipt = ReceiptStatus(h, o)]
           q == [s EXCEPT !.pc = "close", !.rc = "error"]
<1>3. op' = [op EXCEPT ![h] = q] \/ op' = [op EXCEPT ![h] = Dispatched(s)]
  BY ZenonT(30) DEF QueueReceipt, Goto
<1>4. RecordOK(s) /\ s.call = op[h].call /\ s.pc = "receipt"
  BY Zenon, <1>2 DEF RecordOK, OpFields, NotEntered, Admitted, Owning, Resting, Settling
<1>5. RecordOK(q) /\ q.call = op[h].call
  BY Zenon, <1>4 DEF RecordOK, OpFields, NotEntered, Admitted, Owning, Resting, Settling
<1>6. RecordOK(Dispatched(s)) /\ Dispatched(s).call = op[h].call
  BY ZenonT(30), <1>4, DispatchedOK
<1> QED
  BY ZenonT(30), <1>1, <1>2, <1>3, <1>5, <1>6, QuietStep

-----------------------------------------------------------------------------
(* The steps of an Inspect that write no attempt.                          *)

(* Admission: a Job call that began after the cancellation stops here. *)
LEMMA AdmitKeeps ==
    ASSUME ExecInv, NEW h \in Harnesses, Admit(h)
    PROVE  ExecInv'
<1>1. Quiet
  BY Zenon, LocalIsQuiet DEF Admit
<1>2. op[h] # None /\ op[h].pc = "admit" /\ RecordOK(op[h]) /\ op[h].ref = None
  BY Zenon DEF Admit, At, ExecInv, RecordOK, Settling
<1> DEFINE job == First(BoundStatus(op[h].rev), ActiveStatus)
           rc == First(IF IsJob(h) THEN job ELSE "ok", TokenStatus(op[h].token))
           s == [op[h] EXCEPT !.pc = "lookup", !.gen = authority[h],
                    !.attempt = IF IsJob(h) THEN BoundAttempt ELSE @,
                    !.plan = IF IsJob(h) THEN BoundSource ELSE @]
<1>3. CASE rc # "ok"
  <2>1. Ended(h, rc, "error")
    BY Zenon, <1>3 DEF Admit
  <2> QED
    BY Zenon, <1>1, <1>2, <2>1, EndedKeeps
<1>4. CASE rc = "ok"
  <2>1. op' = [op EXCEPT ![h] = s]
    BY Zenon, <1>4 DEF Admit, Goto
  <2>2. IsJob(h) => HeadReadable /\ IsBound /\ cancellation = None
    BY Zenon, <1>4 DEF First, BoundStatus, ActiveStatus
  <2>3. s.attempt \in Attempts /\ s.plan \in Sources
    <3>1. CASE IsJob(h)
      <4>1. s.attempt = BoundAttempt /\ s.plan = BoundSource
        BY Zenon, <1>2, <3>1 DEF RecordOK, OpFields
      <4> QED
        BY Zenon, <2>2, <3>1, <4>1, BoundTypes DEF ExecInv
    <3>2. CASE ~IsJob(h)
      BY Zenon, <1>2, <3>2 DEF RecordOK, OpFields, IsJob
    <3> QED
      BY Zenon, <3>1, <3>2
  <2>4. op[h].call \notin lateCalls
    BY Zenon, <1>2, <2>2 DEF ExecInv, LateOK, RecordOK, IsJob
  <2>5. authority[h] \in Nat
    BY Zenon DEF ExecInv, TypeInv
  <2>6. /\ OpFields \subseteq DOMAIN s /\ s.call = op[h].call /\ s.pc = "lookup"
        /\ s.gen = authority[h] /\ s.ref = None
    BY Zenon, <1>2 DEF RecordOK, OpFields
  <2>7. RecordOK(s)
    BY Zenon, <1>2, <2>3, <2>4, <2>5, <2>6 DEF RecordOK, NotEntered, Owning, Resting
  <2> QED
    BY ZenonT(30), <1>1, <1>2, <2>1, <2>6, <2>7, QuietStep
<1> QED
  BY Zenon, <1>3, <1>4

LEMMA RefuseKeeps ==
    ASSUME ExecInv, NEW h \in Harnesses, NEW rc, Refuse(h, rc)
    PROVE  ExecInv'
<1>1. Quiet
  BY Zenon, LocalIsQuiet DEF Refuse
<1>2. op[h] # None /\ op[h].pc \in {"admit", "lookup", "deliver"} /\ RecordOK(op[h])
  BY Zenon DEF Refuse, At, ExecInv
<1>3. op[h].ref = None
  BY Zenon, <1>2 DEF RecordOK, Settling
<1> QED
  BY Zenon, <1>1, <1>2, <1>3, EndedKeeps DEF Refuse

(* The lookup only replays an attempt that is committed. *)
LEMMA LookupKeeps ==
    ASSUME ExecInv, NEW h \in Harnesses, Lookup(h)
    PROVE  ExecInv'
<1>1. Quiet
  BY Zenon, LocalIsQuiet DEF Lookup
<1>2. op[h] # None /\ op[h].pc = "lookup" /\ RecordOK(op[h])
  BY Zenon DEF Lookup, At, ExecInv
<1>3. op[h].ref = None
  BY Zenon, <1>2 DEF RecordOK, Settling
<1> DEFINE a == attempts[op[h].attempt]
           c == [op[h] EXCEPT !.pc = "claim"]
           p == [op[h] EXCEPT !.pc = "replay", !.result = a.result]
           u == [op[h] EXCEPT !.pc = "uncertain"]
<1>4. \/ \E rc : Ended(h, rc, "error")
      \/ op' = [op EXCEPT ![h] = c]
      \/ a # None /\ a.phase = "committed" /\ op' = [op EXCEPT ![h] = p]
      \/ op' = [op EXCEPT ![h] = u]
  BY Zenon DEF Lookup, StepTo, Goto
<1>5. RecordOK(c) /\ c.call = op[h].call
  BY Zenon, <1>2 DEF RecordOK, OpFields, NotEntered, Admitted, Owning, Resting, Settling
<1>6. a # None /\ a.phase = "committed" => RecordOK(p) /\ p.call = op[h].call
  BY Zenon, <1>2 DEF RecordOK, OpFields, NotEntered, Admitted, Owning, Resting, Settling
<1>7. RecordOK(u) /\ u.call = op[h].call
  BY Zenon, <1>2 DEF RecordOK, OpFields, NotEntered, Admitted, Owning, Resting, Settling
<1> QED
  BY ZenonT(30), <1>1, <1>2, <1>3, <1>4, <1>5, <1>6, <1>7, QuietStep, EndedKeeps

(* Replay and JournalCommit stay on their committed attempt. *)
LEMMA JournalStepKeeps ==
    ASSUME ExecInv, NEW h \in Harnesses, NEW o \in Outcomes, NEW phase,
           NEW from \in Resting, NEW to \in Resting, JournalStep(h, from, phase, o, to)
    PROVE  ExecInv'
<1>1. Quiet
  BY Zenon, StoreIsQuiet DEF JournalStep, records
<1>2. op[h] # None /\ op[h].pc \in Resting /\ RecordOK(op[h])
  BY Zenon DEF JournalStep, At, ExecInv
<1>3. op[h].ref = None
  BY Zenon, <1>2 DEF RecordOK, Settling, Resting
<1> DEFINE s == [op[h] EXCEPT !.pc = to]
<1>4. op' = [op EXCEPT ![h] = s] \/ Ended(h, "error", "error")
  BY Zenon DEF JournalStep, StepTo, Goto
<1>5. RecordOK(s) /\ s.call = op[h].call
  BY Zenon, <1>2 DEF RecordOK, OpFields, NotEntered, Admitted, Owning, Resting, Settling
<1> QED
  BY ZenonT(30), <1>1, <1>2, <1>3, <1>4, <1>5, QuietStep, EndedKeeps

LEMMA UncertainKeeps ==
    ASSUME ExecInv, NEW h \in Harnesses, NEW o \in Outcomes, Uncertain(h, o)
    PROVE  ExecInv'
<1>1. Quiet
  BY Zenon, StoreIsQuiet DEF Uncertain, records
<1>2. op[h] # None /\ op[h].pc = "uncertain" /\ RecordOK(op[h])
  BY Zenon DEF Uncertain, At, ExecInv
<1>3. op[h].ref = None
  BY Zenon, <1>2 DEF RecordOK, Settling
<1> QED
  BY Zenon, <1>1, <1>2, <1>3, EndedKeeps DEF Uncertain

LEMMA ReturnCallbackKeeps ==
    ASSUME ExecInv, NEW h \in Harnesses, NEW b \in BOOLEAN, ReturnCallback(h, b)
    PROVE  ExecInv'
<1>1. Quiet
  BY Zenon, LocalIsQuiet DEF ReturnCallback
<1>2. op[h] # None /\ op[h].pc = "inside" /\ RecordOK(op[h])
  BY Zenon DEF ReturnCallback, At, ExecInv
<1>3. bounds.calls \in Nat
  BY Zenon DEF ExecInv, TypeInv
<1> DEFINE c == [op[h] EXCEPT !.pc = "commit", !.result = op[h].call]
           u == [op[h] EXCEPT !.pc = "unknown"]
<1>4. op' = [op EXCEPT ![h] = c] \/ op' = [op EXCEPT ![h] = u]
  BY Zenon DEF ReturnCallback, StepTo, Goto
<1>5. RecordOK(c) /\ c.call = op[h].call
  BY <1>2, <1>3 DEF RecordOK, OpFields, NotEntered, Admitted, Owning, Resting, Settling
<1>6. RecordOK(u) /\ u.call = op[h].call
  BY Zenon, <1>2 DEF RecordOK, OpFields, NotEntered, Admitted, Owning, Resting, Settling
<1> QED
  BY ZenonT(30), <1>1, <1>2, <1>4, <1>5, <1>6, QuietStep

LEMMA FinalizeKeeps ==
    ASSUME ExecInv, NEW h \in Harnesses, NEW o \in Outcomes, Finalize(h, o)
    PROVE  ExecInv'
<1>1. Quiet
  BY Zenon, StoreIsQuiet DEF Finalize, records
<1>2. op[h] # None /\ op[h].pc = "finalize" /\ RecordOK(op[h])
  BY Zenon DEF Finalize, At, ExecInv
<1>3. op[h].ref = None
  BY Zenon, <1>2 DEF RecordOK, Settling
<1> DEFINE s == [op[h] EXCEPT !.pc = "deliver"]
<1>4. op' = [op EXCEPT ![h] = s] \/ Ended(h, "error", "ok")
  BY Zenon DEF Finalize, StepTo, Goto
<1>5. RecordOK(s) /\ s.call = op[h].call
  BY Zenon, <1>2 DEF RecordOK, OpFields, NotEntered, Admitted, Owning, Resting, Settling
<1> QED
  BY ZenonT(30), <1>1, <1>2, <1>3, <1>4, <1>5, QuietStep, EndedKeeps

-----------------------------------------------------------------------------
(* Settling, reviewing, and the Host.                                      *)

(* Steps that move a settling operation on, or change only its token, its  *)
(* request or its handle.                                                  *)
LEMMA CloseKeeps ==
    ASSUME ExecInv, NEW h \in Harnesses, Close(h)
    PROVE  ExecInv'
<1>1. Quiet
  BY Zenon, LocalIsQuiet DEF Close
<1>2. op[h] # None /\ op[h].pc = "close" /\ RecordOK(op[h])
  BY Zenon DEF Close, At, ExecInv
<1> DEFINE s == [op[h] EXCEPT !.pc = "publish_cancel", !.closed = TRUE]
<1>3. RecordOK(s) /\ s.call = op[h].call
  BY Zenon, <1>2 DEF RecordOK, OpFields, NotEntered, Admitted, Owning, Resting, Settling
<1> QED
  BY ZenonT(30), <1>1, <1>2, <1>3, QuietStep DEF Close, Goto

LEMMA HostSignalKeeps ==
    ASSUME ExecInv, NEW h \in Harnesses,
           (\E req \in Requests : CancelExecution(h, req))
              \/ (\E reason \in {"user", "deadline"} : SignalToken(h, reason))
              \/ ReleaseHandle(h)
    PROVE  ExecInv'
<1>1. Quiet
  BY ZenonT(30), LocalIsQuiet DEF CancelExecution, SignalToken, ReleaseHandle
<1>2. op[h] # None /\ RecordOK(op[h])
  BY ZenonT(30) DEF CancelExecution, SignalToken, ReleaseHandle, ExecInv
<1>3. ASSUME NEW req, NEW t
      PROVE  LET s == [op[h] EXCEPT !.request = req, !.token = t]
             IN  RecordOK(s) /\ s.call = op[h].call
  BY Zenon, <1>2 DEF RecordOK, OpFields, NotEntered, Admitted, Owning, Resting, Settling
<1>4. ASSUME NEW t
      PROVE  LET s == [op[h] EXCEPT !.token = t] IN  RecordOK(s) /\ s.call = op[h].call
  BY Zenon, <1>2 DEF RecordOK, OpFields, NotEntered, Admitted, Owning, Resting, Settling
<1>5. LET s == [op[h] EXCEPT !.held = FALSE] IN  RecordOK(s) /\ s.call = op[h].call
  BY Zenon, <1>2 DEF RecordOK, OpFields, NotEntered, Admitted, Owning, Resting, Settling
<1>6. CASE \E req \in Requests : CancelExecution(h, req)
  <2>1. PICK req : op' = [op EXCEPT ![h] = [op[h] EXCEPT !.request = req,
                                               !.token = Signalled(@, "user")]]
    BY ZenonT(30), <1>6 DEF CancelExecution, Goto
  <2> DEFINE s == [op[h] EXCEPT !.request = req, !.token = Signalled(op[h].token, "user")]
  <2>2. op' = [op EXCEPT ![h] = s]
    BY Zenon, <2>1
  <2>3. RecordOK(s) /\ s.call = op[h].call
    BY ZenonT(30), <1>3
  <2> HIDE DEF s
  <2> QED
    BY ZenonT(30), <1>1, <1>2, <2>2, <2>3, QuietStep
<1>7. CASE \E reason \in {"user", "deadline"} : SignalToken(h, reason)
  BY ZenonT(30), <1>1, <1>2, <1>4, <1>7, QuietStep DEF SignalToken, Goto
<1>8. CASE ReleaseHandle(h)
  BY ZenonT(30), <1>1, <1>2, <1>5, <1>8, QuietStep DEF ReleaseHandle, Goto
<1> QED
  BY Zenon, <1>6, <1>7, <1>8

(* Publishing the accepted cancel never withdraws a cancellation. *)
LEMMA PublishCancelKeeps ==
    ASSUME ExecInv, NEW h \in Harnesses, NEW o \in Outcomes, PublishCancel(h, o)
    PROVE  ExecInv'
<1>1. cancellation # None => cancellation' # None
  BY Zenon DEF PublishCancel, Inserted
<1>2. bounds' \in [calls : Nat, faults : Nat, policies : Nat] /\ bounds'.calls = bounds.calls
  BY Zenon, StoreKeepsBounds DEF ExecInv, PublishCancel
<1>3. Quiet
  BY Zenon, <1>1, <1>2 DEF PublishCancel, Quiet, executionStore, records, ExecInv, TypeInv
<1>4. op[h] # None /\ op[h].pc = "publish_cancel" /\ RecordOK(op[h])
  BY Zenon DEF PublishCancel, At, ExecInv
<1> DEFINE s == [op[h] EXCEPT !.pc = "record", !.obs = Observation(h, CancelStatus(h, o))]
<1>5. RecordOK(s) /\ s.call = op[h].call
  BY Zenon, <1>4 DEF RecordOK, OpFields, NotEntered, Admitted, Owning, Resting, Settling
<1> QED
  BY ZenonT(30), <1>3, <1>4, <1>5, QuietStep DEF PublishCancel, Goto

LEMMA RecordKeeps ==
    ASSUME ExecInv, NEW h \in Harnesses, NEW o \in Outcomes, Record(h, o)
    PROVE  ExecInv'
<1>1. Quiet
  BY Zenon, StoreIsQuiet DEF Record
<1>2. op[h] # None /\ op[h].pc = "record" /\ RecordOK(op[h])
  BY Zenon DEF Record, At, ExecInv
<1> DEFINE kept == IF op[h].obs.state = "completed" THEN op[h].ref ELSE None
           s(status) == [op[h] EXCEPT !.pc = "terminal", !.recorded = status, !.ref = kept]
<1>3. op' = [op EXCEPT ![h] = None] \/ \E status : op' = [op EXCEPT ![h] = s(status)]
  BY ZenonT(30), <1>2 DEF Record, Goto, RecordOK, OpFields
<1>4. ASSUME NEW status
      PROVE  RecordOK(s(status)) /\ s(status).call = op[h].call
  BY Zenon, <1>2 DEF RecordOK, OpFields, NotEntered, Admitted, Owning, Resting, Settling
<1> HIDE DEF s
<1> QED
  BY Zenon, <1>1, <1>2, <1>3, <1>4, QuietStep

LEMMA PublishReviewKeeps ==
    ASSUME ExecInv, NEW h \in Harnesses, NEW o \in Outcomes, PublishReview(h, o)
    PROVE  ExecInv'
<1>1. Quiet
  BY Zenon, StoreIsQuiet DEF PublishReview, records
<1>2. op[h] # None /\ op' = [op EXCEPT ![h] = None]
  BY Zenon DEF PublishReview, At, Goto
<1> QED
  BY ZenonT(30), <1>1, <1>2, QuietStep

(* A crash loses the operation and keeps the store. *)
LEMMA CrashKeeps ==
    ASSUME ExecInv, NEW h \in Harnesses, Crash(h)
    PROVE  ExecInv'
<1>1. bounds' \in [calls : Nat, faults : Nat, policies : Nat] /\ bounds'.calls = bounds.calls
  BY DEF ExecInv, TypeInv, Crash, Fault
<1>2. authority' \in [Harnesses -> Nat]
  BY Zenon DEF ExecInv, TypeInv, Crash
<1>3. Quiet
  BY Zenon, <1>1, <1>2 DEF Crash, Quiet, jobVars, jobStore, executionStore, records
<1>4. op[h] # None /\ op' = [op EXCEPT ![h] = None]
  BY Zenon DEF Crash, Goto
<1> QED
  BY ZenonT(30), <1>3, <1>4, QuietStep

(* A step that leaves every operation alone. *)
LEMMA QuietStays ==
    ASSUME ExecInv, JobInv', UNCHANGED <<op, attempts, admissions, history>>,
           bounds' \in [calls : Nat, faults : Nat, policies : Nat],
           bounds'.calls = bounds.calls, authority' \in [Harnesses -> Nat],
           cancellation # None => cancellation' # None
    PROVE  ExecInv'
<1>1. TypeInv'
  BY Zenon DEF ExecInv, TypeInv
<1>2. \A q : RecordOK(q) => RecordOK(q)'
  BY DEF RecordOK, history
<1>3. \A k \in Harnesses : op'[k] # None => RecordOK(op[k])'
  BY Zenon, <1>2 DEF ExecInv
<1>4. CallsDiffer' /\ EnteredOK' /\ GotOK' /\ LateOK'
  BY Zenon DEF ExecInv, CallsDiffer, EnteredOK, GotOK, LateOK, history
<1>5. CallbackOnce' /\ OneResult' /\ FenceHolds'
  BY Zenon DEF ExecInv, CallbackOnce, OneResult, FenceHolds, history
<1> QED
  BY Zenon, <1>1, <1>3, <1>4, <1>5 DEF ExecInv

LEMMA ChangePolicyKeeps ==
    ASSUME ExecInv, NEW h \in Harnesses, ChangePolicy(h)
    PROVE  ExecInv'
<1>1. JobInv'
  BY Zenon, JobUntouched DEF ExecInv, ChangePolicy, jobVars, jobStore
<1>2. bounds' \in [calls : Nat, faults : Nat, policies : Nat] /\ bounds'.calls = bounds.calls
  BY DEF ExecInv, TypeInv, ChangePolicy
<1>3. authority' \in [Harnesses -> Nat]
  BY DEF ExecInv, TypeInv, ChangePolicy
<1> QED
  BY Zenon, <1>1, <1>2, <1>3, QuietStays
     DEF ChangePolicy, jobVars, jobStore, executionStore, records

(* The Job API never withdraws a cancellation either. *)
LEMMA JobCallKeeps ==
    ASSUME ExecInv, JobCall \/ UNCHANGED vars
    PROVE  ExecInv'
<1>1. [JobNext]_jobVars
  BY Zenon DEF JobCall, vars
<1>2. JobInv'
  BY Zenon, <1>1, NextJobInv DEF ExecInv
<1>3. cancellation # None => cancellation' # None
  BY ZenonT(30), <1>1 DEF JobNext, Create, Propose, BindCompiledInspect, RequestCancel, Call, Publish,
              Inserted, jobVars, jobStore
<1> QED
  BY Zenon, <1>2, <1>3, QuietStays
     DEF JobCall, vars, executionStore, records, ExecInv, TypeInv

-----------------------------------------------------------------------------
(* A call begins.  Its number is new, so nothing stored names it yet.      *)

LEMMA BeginKeeps ==
    ASSUME ExecInv, NEW h \in Harnesses, NEW r, BeginSubmit(h, r), OpFields \subseteq DOMAIN r,
           r.call = bounds.calls + 1, r.ref = None,
           r.pc \in {"intent", "enqueue", "admit", "publish"},
           r.pc \in {"intent", "enqueue"} => r.kind # "direct",
           r.kind = "direct" => r.attempt \in Attempts /\ r.plan \in Sources
    PROVE  ExecInv'
<1>1. /\ bounds.calls \in Nat /\ bounds'.calls = bounds.calls + 1
      /\ bounds' \in [calls : Nat, faults : Nat, policies : Nat]
  BY DEF ExecInv, TypeInv, BeginSubmit
<1>2. /\ DOMAIN op = Harnesses /\ op[h] = None /\ op' = [op EXCEPT ![h] = r]
      /\ UNCHANGED <<created, revs, cancellation, client, attempts, admissions,
                     authority, entered, got>>
  BY Zenon DEF ExecInv, TypeInv, BeginSubmit, Goto, jobVars, jobStore, executionStore, records
<1>3. /\ lateCalls' \subseteq lateCalls \cup {r.call} /\ lateCalls \subseteq lateCalls'
      /\ lateCalls' # {} => cancellation # None
      /\ r.kind = "direct" => lateCalls' = lateCalls
  BY Zenon DEF BeginSubmit, ExecInv, LateOK
<1>4. lateCalls \subseteq 1..bounds.calls
  BY Zenon DEF ExecInv, LateOK
<1>5. JobInv'
  BY Zenon, <1>2, JobUntouched DEF ExecInv
<1>6. TypeInv'
  BY <1>1, <1>2 DEF ExecInv, TypeInv
<1>7. \A x \in entered : x.call \in 1..bounds.calls
  BY Zenon DEF ExecInv, EnteredOK
<1>8. RecordOK(r)'
  BY <1>1, <1>2, <1>3, <1>4, <1>7
     DEF RecordOK, NotEntered, Admitted, Owning, Resting, Settling
<1>9. ASSUME NEW q, RecordOK(q)
      PROVE  RecordOK(q)'
  BY <1>1, <1>2, <1>3, <1>9 DEF RecordOK
<1>10. \A k \in Harnesses : op'[k] # None => RecordOK(op[k])'
  BY Zenon, <1>2, <1>8, <1>9 DEF ExecInv
<1>11. CallsDiffer'
  BY <1>1, <1>2 DEF ExecInv, CallsDiffer, RecordOK
<1>12. EnteredOK' /\ GotOK' /\ LateOK'
  BY <1>1, <1>2, <1>3, <1>4 DEF ExecInv, EnteredOK, GotOK, LateOK
<1>13. CallbackOnce' /\ OneResult'
  BY Zenon, <1>2 DEF ExecInv, CallbackOnce, OneResult
<1>14. FenceHolds'
  <2> SUFFICES ASSUME NEW c \in lateCalls'
               PROVE  /\ \A i \in Ids : admissions[i] # c
                      /\ \A a \in Attempts : attempts[a] # None => attempts[a].exec # c
                      /\ \A x \in entered : x.call # c
                      /\ \A g \in got : g.call # c
    BY Zenon, <1>2 DEF FenceHolds
  <2>1. CASE c \in lateCalls
    BY Zenon, <2>1 DEF ExecInv, FenceHolds
  <2>2. CASE c = bounds.calls + 1
    <3>1. \A i \in Ids : admissions[i] # c
      BY <1>1, <2>2, JobConstants DEF ExecInv, TypeInv
    <3>2. \A a \in Attempts : attempts[a] # None => attempts[a].exec # c
      BY <1>1, <2>2 DEF ExecInv, TypeInv
    <3>3. (\A x \in entered : x.call # c) /\ (\A g \in got : g.call # c)
      BY <1>1, <2>2 DEF ExecInv, EnteredOK, GotOK
    <3> QED
      BY Zenon, <3>1, <3>2, <3>3
  <2> QED
    BY Zenon, <1>3, <2>1, <2>2
<1> QED
  BY ZenonT(30), <1>5, <1>6, <1>10, <1>11, <1>12, <1>13, <1>14 DEF ExecInv

LEMMA StartKeeps ==
    ASSUME ExecInv, NEW h \in Harnesses, Start(h)
    PROVE  ExecInv'
<1>1. CASE ExecuteJob(h)
  BY ZenonT(60), <1>1, BeginKeeps DEF ExecuteJob, Operation, OpFields
<1>2. ASSUME NEW a \in Attempts, NEW p \in Sources, ExecuteAttempt(h, a, p)
      PROVE  ExecInv'
  BY ZenonT(30), <1>2, BeginKeeps DEF ExecuteAttempt, Operation, OpFields
<1>3. ASSUME NEW k \in Background, NEW i \in Ids \cup {None}, Submit(h, k, i)
      PROVE  ExecInv'
  BY <1>3, BeginKeeps DEF Submit, Operation, OpFields, Background
<1>4. ASSUME NEW kind \in {"accept", "prepare", "confirm"}, NEW record, Review(h, kind, record)
      PROVE  ExecInv'
  BY <1>4, BeginKeeps DEF Review, Operation, OpFields
<1> QED
  BY ZenonT(30), <1>1, <1>2, <1>3, <1>4 DEF Start, Accept, PrepareDelivery, RecordDelivery

-----------------------------------------------------------------------------
(* Steps that write an admission or an attempt.                            *)

(* The check is only passed while there is no cancellation, when no call   *)
(* is late.                                                                *)
LEMMA AdmissionCheckKeeps ==
    ASSUME ExecInv, NEW h \in Harnesses, AdmissionCheck(h)
    PROVE  ExecInv'
<1>1. Quiet
  BY Zenon, LocalIsQuiet DEF AdmissionCheck
<1>2. op[h] # None /\ op[h].pc = "intent" /\ RecordOK(op[h])
  BY Zenon DEF AdmissionCheck, At, ExecInv
<1> DEFINE s == [op[h] EXCEPT !.pc = "admission"]
<1>3. op' = [op EXCEPT ![h] = None] \/ (cancellation = None /\ op' = [op EXCEPT ![h] = s])
  BY Zenon DEF AdmissionCheck, First, ActiveStatus, StepTo, Goto
<1>4. cancellation = None => RecordOK(s) /\ s.call = op[h].call
  <2>1. cancellation = None => lateCalls = {}
    BY Zenon DEF ExecInv, LateOK
  <2> QED
    BY Zenon, <1>2, <2>1 DEF RecordOK, OpFields, NotEntered, Admitted, Owning, Resting, Settling
<1> QED
  BY ZenonT(30), <1>1, <1>2, <1>3, <1>4, QuietStep

(* An admission is written after the check, by a call that is not late. *)
LEMMA AdmissionWriteKeeps ==
    ASSUME ExecInv, NEW h \in Harnesses, NEW o \in Outcomes, AdmissionWrite(h, o)
    PROVE  ExecInv'
<1>1. /\ bounds' \in [calls : Nat, faults : Nat, policies : Nat]
      /\ bounds'.calls = bounds.calls /\ bounds.calls \in Nat
  BY ZenonT(30), StoreKeepsBounds DEF ExecInv, AdmissionWrite, TypeInv
<1>2. /\ DOMAIN op = Harnesses /\ op[h] # None /\ op[h].pc = "admission" /\ RecordOK(op[h])
      /\ UNCHANGED <<created, revs, cancellation, client, attempts, authority,
                     entered, got, lateCalls>>
  BY ZenonT(30) DEF ExecInv, TypeInv, AdmissionWrite, At, jobVars, jobStore, history
<1> DEFINE s == [op[h] EXCEPT !.pc = "enqueue"]
<1>3. RecordOK(s) /\ s.call = op[h].call
  BY Zenon, <1>2 DEF RecordOK, OpFields, NotEntered, Admitted, Owning, Resting, Settling
<1>4. op' = [op EXCEPT ![h] = s] \/ op' = [op EXCEPT ![h] = None]
  BY Zenon DEF AdmissionWrite, StepTo, Goto
<1>5. /\ op[h].call \notin lateCalls
      /\ admissions' = [admissions EXCEPT ![op[h].id] = Inserted(@, op[h].call, o)]
  BY Zenon, <1>2 DEF AdmissionWrite, RecordOK
<1>6. /\ DOMAIN admissions' = Ids
      /\ \A i \in Ids : admissions'[i] = None \/ admissions'[i] \in 1..bounds.calls
  <2>1. /\ DOMAIN admissions = Ids
        /\ \A i \in Ids : admissions[i] = None \/ admissions[i] \in 1..bounds.calls
    BY Zenon DEF ExecInv, TypeInv
  <2>2. op[h].call \in 1..bounds.calls
    BY Zenon, <1>2 DEF RecordOK
  <2> QED
    BY Zenon, <1>5, <2>1, <2>2 DEF Inserted
<1>7. JobInv' /\ TypeInv'
  BY Zenon, <1>1, <1>2, <1>4, <1>6, JobUntouched DEF ExecInv, TypeInv
<1>8. \A q : RecordOK(q) => RecordOK(q)'
  BY ZenonT(30), <1>1, <1>2 DEF RecordOK
<1> HIDE DEF s
<1>9. \A k \in Harnesses : op'[k] # None => RecordOK(op[k])'
  BY ZenonT(30), <1>2, <1>3, <1>4, <1>8 DEF ExecInv
<1>10. CallsDiffer' /\ EnteredOK' /\ GotOK' /\ LateOK'
  <2>1. CallsDiffer'
    BY <1>2, <1>3, <1>4 DEF ExecInv, CallsDiffer
  <2> QED
    BY <1>1, <1>2, <2>1 DEF ExecInv, EnteredOK, GotOK, LateOK
<1>11. CallbackOnce' /\ OneResult'
  BY Zenon, <1>2 DEF ExecInv, CallbackOnce, OneResult
<1>12. FenceHolds'
  BY ZenonT(30), <1>2, <1>5 DEF ExecInv, TypeInv, FenceHolds, Inserted
<1> QED
  BY Zenon, <1>7, <1>9, <1>10, <1>11, <1>12 DEF ExecInv

(* What a write of one attempt by call c does to all attempts: a record    *)
(* stays and keeps its call, a committed one does not change, and a new    *)
(* one names c.                                                            *)
AttemptsGrow(c) ==
    /\ attempts' \in [Attempts -> AttemptRecords \cup {None}]
    /\ \A a \in Attempts :
          /\ attempts[a] # None =>
                /\ attempts'[a] # None /\ attempts'[a].exec = attempts[a].exec
                /\ attempts[a].phase = "committed" => attempts'[a] = attempts[a]
          /\ attempts[a] = None /\ attempts'[a] # None => attempts'[a].exec = c

LEMMA RecordStays ==
    ASSUME TypeInv, NEW q, RecordOK(q), NEW c, AttemptsGrow(c), bounds'.calls = bounds.calls,
           UNCHANGED <<entered, lateCalls>>
    PROVE  RecordOK(q)'
  BY Zenon DEF RecordOK, AttemptsGrow, Admitted, Owning, Resting

LEMMA AttemptStep ==
    ASSUME ExecInv, NEW h \in Harnesses, NEW r, op' = [op EXCEPT ![h] = r], op[h] # None,
           r # None => RecordOK(r)' /\ r.call = op[h].call, op[h].call \notin lateCalls,
           AttemptsGrow(op[h].call),
           bounds' \in [calls : Nat, faults : Nat, policies : Nat], bounds'.calls = bounds.calls,
           UNCHANGED <<jobVars, admissions, authority, history>>
    PROVE  ExecInv'
<1>1. /\ DOMAIN op = Harnesses
      /\ UNCHANGED <<created, revs, cancellation, client, entered, got, lateCalls>>
  BY DEF ExecInv, TypeInv, jobVars, jobStore, history
<1>2. op[h].call \in 1..bounds.calls
  BY Zenon DEF ExecInv, RecordOK
<1>3. JobInv'
  BY ZenonT(30), <1>1, JobUntouched DEF ExecInv
<1>4. TypeInv'
  BY Zenon, <1>1, <1>2 DEF ExecInv, TypeInv, AttemptsGrow
<1>5. ASSUME NEW q, RecordOK(q)
      PROVE  RecordOK(q)'
  BY Zenon, <1>1, <1>5, RecordStays DEF ExecInv
<1>6. \A k \in Harnesses : op'[k] # None => RecordOK(op[k])'
  BY Zenon, <1>1, <1>5 DEF ExecInv
<1>7. CallsDiffer'
  BY <1>1 DEF ExecInv, CallsDiffer
<1>8. EnteredOK' /\ GotOK' /\ LateOK'
  BY Zenon, <1>1 DEF ExecInv, EnteredOK, GotOK, LateOK, AttemptsGrow
<1>9. CallbackOnce' /\ OneResult'
  BY <1>1 DEF ExecInv, CallbackOnce, OneResult, GotOK, AttemptsGrow
<1>10. FenceHolds'
  BY <1>1 DEF ExecInv, FenceHolds, AttemptsGrow
<1> QED
  BY ZenonT(30), <1>3, <1>4, <1>6, <1>7, <1>8, <1>9, <1>10 DEF ExecInv

(* The same when Inspect ends there. *)
LEMMA AttemptEnded ==
    ASSUME ExecInv, NEW h \in Harnesses, op[h] # None, op[h].ref = None,
           NEW rc, NEW tool, Ended(h, rc, tool), op[h].call \notin lateCalls,
           AttemptsGrow(op[h].call),
           bounds' \in [calls : Nat, faults : Nat, policies : Nat], bounds'.calls = bounds.calls,
           UNCHANGED <<jobVars, admissions, authority, history>>
    PROVE  ExecInv'
<1>1. PICK b : b = [op[h] EXCEPT !.pc = "close", !.rc = rc, !.tool = ToolFor(rc, tool)]
  BY Zenon
<1>2. RecordOK(op[h])
  BY ZenonT(30) DEF ExecInv
<1>3. /\ OpFields \subseteq DOMAIN b /\ b.call = op[h].call /\ b.pc = "close"
      /\ b.kind = op[h].kind /\ b.attempt = op[h].attempt /\ b.ref = None
  BY Zenon, <1>1, <1>2 DEF RecordOK, OpFields
<1>4. RecordOK(b)
  BY Zenon, <1>2, <1>3, CalmMove DEF Settling
<1>5. RecordOK(b)'
  BY Zenon, <1>4, RecordStays DEF ExecInv, history
<1>6. op' = [op EXCEPT ![h] = b] \/ op' = [op EXCEPT ![h] = None]
  BY ZenonT(30), <1>1 DEF Ended, Goto
<1> QED
  BY Zenon, <1>3, <1>5, <1>6, AttemptStep

(* The conditional insert makes the caller the owner, or changes nothing.  *)
LEMMA ClaimKeeps ==
    ASSUME ExecInv, NEW h \in Harnesses, NEW o \in Outcomes, Claim(h, o)
    PROVE  ExecInv'
<1>1. /\ bounds' \in [calls : Nat, faults : Nat, policies : Nat] /\ bounds'.calls = bounds.calls
      /\ UNCHANGED <<jobVars, admissions, authority, history>>
  BY Zenon, StoreKeepsBounds DEF ExecInv, Claim, records
<1>2. op[h] # None /\ op[h].pc = "claim" /\ RecordOK(op[h])
  BY DEF ExecInv, Claim, At
<1>3. /\ op[h].attempt \in Attempts /\ op[h].plan \in Sources /\ op[h].gen \in Nat
      /\ op[h].call \notin lateCalls /\ op[h].call \in Nat /\ op[h].ref = None
  <2>1. bounds.calls \in Nat
    BY ZenonT(30) DEF ExecInv, TypeInv
  <2> QED
    BY <1>2, <2>1 DEF RecordOK, Admitted, Settling
<1> DEFINE n == AttemptRecord(h, "started", None)
<1>4. n \in AttemptRecords /\ n.exec = op[h].call
  BY Zenon, <1>3 DEF AttemptRecord, AttemptRecords
<1>5. n # None
  BY Zenon, <1>4, ExecutionConstants
<1>6. attempts \in [Attempts -> AttemptRecords \cup {None}]
  BY Zenon DEF ExecInv, TypeInv
<1>7. attempts' = [attempts EXCEPT ![op[h].attempt] = Inserted(@, n, o)]
  BY Zenon DEF Claim
<1> HIDE DEF n
<1>8. AttemptsGrow(op[h].call)
  BY Zenon, <1>3, <1>4, <1>6, <1>7 DEF AttemptsGrow, Inserted
<1>9. CASE Acknowledged(attempts[op[h].attempt], o)
  <2>1. PICK r : r = [op[h] EXCEPT !.pc = "journal"]
    BY ZenonT(30)
  <2>2. op' = [op EXCEPT ![h] = r]
    BY Zenon, <1>9, <2>1 DEF Claim, StepTo, Goto
  <2>3. attempts'[op[h].attempt] = n
    BY Zenon, <1>3, <1>6, <1>7, <1>9 DEF Acknowledged, Inserted
  <2>4. UNCHANGED <<entered, lateCalls>>
    BY Zenon, <1>1 DEF history
  <2>5. /\ OpFields \subseteq DOMAIN r /\ r.pc = "journal" /\ r.call = op[h].call
        /\ r.kind = op[h].kind /\ r.attempt = op[h].attempt /\ r.plan = op[h].plan
        /\ r.gen = op[h].gen /\ r.ref = None
    BY Zenon, <1>2, <1>3, <2>1 DEF RecordOK, OpFields
  <2>6. \A x \in entered : x.call # op[h].call
    BY <1>2 DEF RecordOK, NotEntered
  <2>7. op[h].call \in 1..bounds.calls
    BY ZenonT(30), <1>2 DEF RecordOK
  <2>8. RecordOK(r)'
    BY ZenonT(30), <1>1, <1>3, <1>4, <1>5, <2>3, <2>4, <2>5, <2>6, <2>7 DEF RecordOK, Resting
  <2> QED
    BY ZenonT(30), <1>1, <1>2, <1>3, <1>8, <2>2, <2>5, <2>8, AttemptStep
<1>10. CASE ~Acknowledged(attempts[op[h].attempt], o)
  <2>1. Ended(h, "error", "error")
    BY Zenon, <1>10 DEF Claim
  <2> QED
    BY ZenonT(30), <1>1, <1>2, <1>3, <1>8, <2>1, AttemptEnded
<1> QED
  BY Zenon, <1>9, <1>10

(* Who commits or gives up an attempt owns its record. *)
LEMMA AdvanceOwns ==
    ASSUME ExecInv, NEW h \in Harnesses, op[h] # None, op[h].pc \in {"commit", "unknown"}
    PROVE  /\ op[h].attempt \in Attempts /\ op[h].plan \in Sources /\ op[h].gen \in Nat
           /\ op[h].call \notin lateCalls /\ op[h].call \in Nat /\ op[h].ref = None
           /\ attempts[op[h].attempt] # None /\ attempts[op[h].attempt].exec = op[h].call
<1>1. RecordOK(op[h])
  BY DEF ExecInv
<1>2. op[h].pc \in Owning /\ op[h].pc \in Admitted /\ op[h].pc \notin Settling
  BY Zenon DEF Owning, Admitted, Settling
<1>3. op[h].call \in 1..bounds.calls /\ bounds.calls \in Nat
  BY ZenonT(30), <1>1 DEF RecordOK, ExecInv, TypeInv
<1>4. \A x : x \in 1..bounds.calls => x \in Nat
  BY <1>3
<1>5. op[h].call \in Nat
  BY <1>3, <1>4, Zenon
<1>6. op[h].attempt \in Attempts /\ op[h].plan \in Sources /\ op[h].gen \in Nat
  BY <1>1, <1>2, Zenon DEF RecordOK
<1>7. attempts[op[h].attempt] # None /\ attempts[op[h].attempt].exec = op[h].call
  BY <1>1, <1>2, Zenon DEF RecordOK
<1>8. op[h].call \notin lateCalls /\ op[h].ref = None
  BY <1>1, <1>2, Zenon DEF RecordOK
<1> QED
  BY Zenon, <1>5, <1>6, <1>7, <1>8

(* A later phase is only written over the caller's own started record. *)
LEMMA AdvanceGrows ==
    ASSUME ExecInv, NEW h \in Harnesses, NEW o, NEW phase \in {"committed", "outcome_unknown"},
           NEW result \in Nat \cup {None}, op[h] # None, op[h].pc \in {"commit", "unknown"},
           attempts' = IF MayAdvance(h)
                       THEN [attempts EXCEPT ![op[h].attempt] =
                                Overwritten(@, AttemptRecord(h, phase, result), o)]
                       ELSE attempts
    PROVE  /\ op[h].attempt \in Attempts /\ op[h].call \notin lateCalls /\ op[h].ref = None
           /\ AttemptsGrow(op[h].call)
           /\ MayAdvance(h) /\ o = "ok" =>
                 /\ attempts'[op[h].attempt] = AttemptRecord(h, phase, result)
                 /\ attempts'[op[h].attempt] # None
<1>1. RecordOK(op[h])
  BY Zenon DEF ExecInv
<1>2. /\ op[h].attempt \in Attempts /\ op[h].plan \in Sources /\ op[h].gen \in Nat
      /\ op[h].call \notin lateCalls /\ op[h].call \in Nat /\ op[h].ref = None
      /\ attempts[op[h].attempt] # None /\ attempts[op[h].attempt].exec = op[h].call
  BY AdvanceOwns, Zenon
<1> DEFINE n == AttemptRecord(h, phase, result)
<1>3. n \in AttemptRecords /\ n.exec = op[h].call
  BY ZenonT(30), <1>2 DEF AttemptRecord, AttemptRecords
<1>4. n # None
  BY Zenon, <1>3, ExecutionConstants
<1>5. attempts \in [Attempts -> AttemptRecords \cup {None}]
  BY Zenon DEF ExecInv, TypeInv
<1>6. attempts' = IF MayAdvance(h)
                  THEN [attempts EXCEPT ![op[h].attempt] = Overwritten(@, n, o)] ELSE attempts
  BY Zenon
<1>7. MayAdvance(h) => attempts[op[h].attempt].phase # "committed"
  BY Zenon DEF MayAdvance
<1> HIDE DEF n
<1>8. AttemptsGrow(op[h].call)
  BY <1>2, <1>3, <1>4, <1>5, <1>6, <1>7 DEF AttemptsGrow, Overwritten
<1>9. MayAdvance(h) /\ o = "ok" => attempts'[op[h].attempt] = n
  BY Zenon, <1>2, <1>5, <1>6 DEF Overwritten
<1> QED
  BY ZenonT(30), <1>2, <1>4, <1>8, <1>9 DEF n

LEMMA CommitAttemptKeeps ==
    ASSUME ExecInv, NEW h \in Harnesses, NEW o \in Outcomes, CommitAttempt(h, o)
    PROVE  ExecInv'
<1>1. /\ bounds' \in [calls : Nat, faults : Nat, policies : Nat] /\ bounds'.calls = bounds.calls
      /\ UNCHANGED <<jobVars, admissions, authority, history>>
  BY Zenon, StoreKeepsBounds DEF ExecInv, CommitAttempt, records
<1>2. op[h] # None /\ op[h].pc = "commit" /\ RecordOK(op[h]) /\ op[h].result \in Nat
  BY ZenonT(30) DEF ExecInv, CommitAttempt, At, RecordOK
<1>3. /\ op[h].attempt \in Attempts /\ op[h].call \notin lateCalls /\ op[h].ref = None
      /\ AttemptsGrow(op[h].call)
      /\ MayAdvance(h) /\ o = "ok" =>
            /\ attempts'[op[h].attempt] = AttemptRecord(h, "committed", op[h].result)
            /\ attempts'[op[h].attempt] # None
  BY ZenonT(30), <1>2, AdvanceGrows DEF CommitAttempt
<1>4. UNCHANGED <<entered, lateCalls>>
  BY Zenon, <1>1 DEF history
<1>5. CASE MayAdvance(h) /\ o = "ok"
  <2>1. PICK r : r = [op[h] EXCEPT !.pc = "journal_commit"]
    BY ZenonT(30)
  <2>2. op' = [op EXCEPT ![h] = r]
    BY Zenon, <1>5, <2>1 DEF CommitAttempt, StepTo, Goto
  <2>3. /\ OpFields \subseteq DOMAIN r /\ r.pc = "journal_commit" /\ r.call = op[h].call
        /\ r.kind = op[h].kind /\ r.attempt = op[h].attempt /\ r.plan = op[h].plan
        /\ r.gen = op[h].gen /\ r.ref = None /\ r.result = op[h].result
    BY Zenon, <1>2, <1>3, <2>1 DEF RecordOK, OpFields
  <2>4. /\ attempts'[r.attempt] # None /\ attempts'[r.attempt].phase = "committed"
        /\ attempts'[r.attempt].result = r.result
    BY <1>3, <1>5, <2>3 DEF AttemptRecord
  <2>5. op[h].plan \in Sources /\ op[h].gen \in Nat /\ op[h].call \in 1..bounds.calls
    BY ZenonT(30), <1>2 DEF RecordOK, Admitted, Owning
  <2>6. RecordOK(r)'
    BY ZenonT(30), <1>1, <1>3, <1>4, <2>3, <2>4, <2>5 DEF RecordOK, NotEntered, Owning
  <2> QED
    BY ZenonT(30), <1>1, <1>2, <1>3, <2>2, <2>3, <2>6, AttemptStep
<1>6. CASE ~(MayAdvance(h) /\ o = "ok")
  <2>1. PICK r : r = [op[h] EXCEPT !.pc = "unknown"]
    BY ZenonT(30)
  <2>2. op' = [op EXCEPT ![h] = r]
    BY ZenonT(30), <1>6, <2>1 DEF CommitAttempt, StepTo, Goto
  <2>3. RecordOK(r) /\ r.call = op[h].call
    BY Zenon, <1>2, <2>1 DEF RecordOK, OpFields, NotEntered, Admitted, Owning, Resting, Settling
  <2>4. RecordOK(r)'
    BY ZenonT(30), <1>1, <1>3, <1>4, <2>3, RecordStays DEF ExecInv
  <2> QED
    BY ZenonT(30), <1>1, <1>2, <1>3, <2>2, <2>3, <2>4, AttemptStep
<1> QED
  BY Zenon, <1>5, <1>6

LEMMA MarkUnknownKeeps ==
    ASSUME ExecInv, NEW h \in Harnesses, NEW o \in Outcomes, MarkUnknown(h, o)
    PROVE  ExecInv'
<1>1. /\ bounds' \in [calls : Nat, faults : Nat, policies : Nat] /\ bounds'.calls = bounds.calls
      /\ UNCHANGED <<jobVars, admissions, authority, history>>
  BY Zenon, StoreKeepsBounds DEF ExecInv, MarkUnknown, records
<1>2. op[h] # None /\ op[h].pc = "unknown"
  BY ZenonT(30) DEF MarkUnknown, At
<1>3. op[h].call \notin lateCalls /\ op[h].ref = None /\ AttemptsGrow(op[h].call)
  BY ZenonT(30), <1>2, AdvanceGrows DEF MarkUnknown
<1>4. CASE Ended(h, "error", "error")
  BY ZenonT(30), <1>1, <1>2, <1>3, <1>4, AttemptEnded
<1>5. CASE StepTo(h, "unknown_journal")
  <2>1. PICK r : r = [op[h] EXCEPT !.pc = "unknown_journal"]
    BY ZenonT(30)
  <2>2. op' = [op EXCEPT ![h] = r]
    BY ZenonT(30), <1>5, <2>1 DEF StepTo, Goto
  <2>3. RecordOK(op[h])
    BY Zenon, <1>2 DEF ExecInv
  <2>4. RecordOK(r) /\ r.call = op[h].call
    BY Zenon, <1>2, <2>1, <2>3 DEF RecordOK, OpFields, NotEntered, Admitted, Owning, Resting, Settling
  <2>5. RecordOK(r)'
    BY ZenonT(30), <1>1, <1>3, <2>4, RecordStays DEF ExecInv, history
  <2> QED
    BY ZenonT(30), <1>1, <1>2, <1>3, <2>2, <2>4, <2>5, AttemptStep
<1> QED
  BY Zenon, <1>4, <1>5 DEF MarkUnknown

LEMMA JournalUnknownKeeps ==
    ASSUME ExecInv, NEW h \in Harnesses, NEW o \in Outcomes, JournalUnknown(h, o)
    PROVE  ExecInv'
<1>1. Quiet
  BY Zenon, StoreIsQuiet DEF JournalUnknown, records
<1>2. op[h] # None /\ op[h].pc = "unknown_journal" /\ RecordOK(op[h])
  BY Zenon DEF JournalUnknown, At, ExecInv
<1>3. op[h].ref = None
  BY Zenon, <1>2 DEF RecordOK, Settling
<1> QED
  BY Zenon, <1>1, <1>2, <1>3, EndedKeeps DEF JournalUnknown

-----------------------------------------------------------------------------
(* Entering the callback, and handing over a result.                       *)

(* The attempt record names the caller, which has entered no callback, so  *)
(* no callback of that attempt has been entered.                           *)
LEMMA JournalStartKeeps ==
    ASSUME ExecInv, NEW h \in Harnesses, NEW o \in Outcomes, JournalStart(h, o)
    PROVE  ExecInv'
<1>1. /\ bounds' \in [calls : Nat, faults : Nat, policies : Nat] /\ bounds'.calls = bounds.calls
      /\ UNCHANGED <<created, revs, cancellation, client, attempts, admissions, authority,
                     got, lateCalls>>
  BY ZenonT(30), StoreKeepsBounds DEF ExecInv, JournalStart, jobVars, jobStore, records
<1>2. op[h] # None /\ op[h].pc = "journal" /\ RecordOK(op[h]) /\ DOMAIN op = Harnesses
  BY ZenonT(30) DEF ExecInv, TypeInv, JournalStart, At
<1>3. /\ op[h].attempt \in Attempts /\ op[h].call \notin lateCalls /\ op[h].ref = None
      /\ attempts[op[h].attempt] # None /\ attempts[op[h].attempt].exec = op[h].call
      /\ op[h].call \in 1..bounds.calls
      /\ \A x \in entered : x.call # op[h].call
  BY ZenonT(30), <1>2 DEF RecordOK, Admitted, Owning, Settling, NotEntered
<1>4. CASE o # "ok"
  <2>1. Ended(h, "error", "error") /\ UNCHANGED history
    BY ZenonT(30), <1>1, <1>4 DEF JournalStart, history
  <2>2. Quiet
    BY ZenonT(30), <1>1, <2>1 DEF Quiet, ExecInv, TypeInv
  <2> QED
    BY ZenonT(30), <1>2, <1>3, <2>1, <2>2, EndedKeeps
<1>5. CASE o = "ok"
  <2>1. PICK r : r = [op[h] EXCEPT !.pc = "inside"]
    BY ZenonT(30)
  <2>2. PICK x : x = [attempt |-> op[h].attempt, call |-> op[h].call,
                      id |-> IF op[h].kind = "receipted" THEN op[h].id ELSE None]
    BY ZenonT(30)
  <2>3. op' = [op EXCEPT ![h] = r] /\ entered' = entered \cup {x}
    BY Zenon, <1>5, <2>1, <2>2 DEF JournalStart, StepTo, Goto
  <2>4. x.attempt = op[h].attempt /\ x.call = op[h].call
    BY <2>2
  <2>5. RecordOK(r) /\ r.call = op[h].call /\ r.pc = "inside"
    BY Zenon, <1>2, <2>1 DEF RecordOK, OpFields, NotEntered, Admitted, Owning, Resting, Settling
  <2>6. RecordOK(r)'
    BY Zenon, <1>1, <2>5 DEF RecordOK, NotEntered
  <2>7. ASSUME NEW q, RecordOK(q), q.call # op[h].call
        PROVE  RecordOK(q)'
    BY Zenon, <1>1, <2>3, <2>4, <2>7 DEF RecordOK
  <2>8. \A k \in Harnesses : op'[k] # None => RecordOK(op[k])'
    BY Zenon, <1>2, <2>3, <2>6, <2>7 DEF ExecInv, CallsDiffer
  <2>9. JobInv' /\ TypeInv'
    BY ZenonT(30), <1>1, <1>2, <2>3, JobUntouched DEF ExecInv, TypeInv
  <2>10. CallsDiffer'
    BY <1>2, <2>3, <2>5 DEF ExecInv, CallsDiffer
  <2>11. EnteredOK' /\ GotOK' /\ LateOK'
    BY Zenon, <1>1, <1>3, <2>3, <2>4 DEF ExecInv, EnteredOK, GotOK, LateOK
  <2>12. CallbackOnce'
    BY <1>3, <2>3, <2>4 DEF ExecInv, EnteredOK, CallbackOnce
  <2>13. OneResult' /\ FenceHolds'
    BY <1>1, <1>3, <2>3, <2>4 DEF ExecInv, OneResult, FenceHolds
  <2> QED
    BY ZenonT(30), <2>8, <2>9, <2>10, <2>11, <2>12, <2>13 DEF ExecInv
<1> QED
  BY Zenon, <1>4, <1>5

(* A result handed over is that of a committed attempt, to a call that is  *)
(* not late.                                                               *)
LEMMA HandOver ==
    ASSUME ExecInv, NEW h \in Harnesses, NEW g, op' = [op EXCEPT ![h] = None],
           got' = got \cup {g}, g.attempt \in Attempts, g.call \in 1..bounds.calls,
           g.call \notin lateCalls, attempts[g.attempt] # None,
           attempts[g.attempt].phase = "committed", attempts[g.attempt].result = g.result,
           UNCHANGED <<jobVars, executionStore, authority, bounds, entered, lateCalls>>
    PROVE  ExecInv'
<1>1. UNCHANGED <<created, revs, cancellation, client, attempts, admissions>>
  BY ZenonT(30) DEF jobVars, jobStore, executionStore, records
<1>2. JobInv' /\ TypeInv'
  BY ZenonT(30), <1>1, JobUntouched DEF ExecInv, TypeInv
<1>3. \A q : RecordOK(q) => RecordOK(q)'
  BY ZenonT(40), <1>1 DEF RecordOK
<1>4. \A k \in Harnesses : op'[k] # None => RecordOK(op[k])'
  BY ZenonT(30), <1>3 DEF ExecInv, TypeInv
<1>5. CallsDiffer'
  BY ZenonT(30) DEF ExecInv, TypeInv, CallsDiffer
<1>6. EnteredOK' /\ GotOK' /\ LateOK'
  BY Zenon, <1>1 DEF ExecInv, EnteredOK, GotOK, LateOK
<1>7. CallbackOnce' /\ OneResult' /\ FenceHolds'
  BY <1>1 DEF ExecInv, CallbackOnce, OneResult, FenceHolds
<1> QED
  BY Zenon, <1>2, <1>4, <1>5, <1>6, <1>7 DEF ExecInv

LEMMA DeliverKeeps ==
    ASSUME ExecInv, NEW h \in Harnesses, Deliver(h)
    PROVE  ExecInv'
<1>1. op[h] # None /\ op[h].pc = "deliver" /\ RecordOK(op[h])
  BY Zenon DEF ExecInv, Deliver, At
<1>2. /\ op[h].attempt \in Attempts /\ op[h].call \notin lateCalls /\ op[h].ref = None
      /\ op[h].call \in 1..bounds.calls
      /\ attempts[op[h].attempt] # None /\ attempts[op[h].attempt].phase = "committed"
      /\ attempts[op[h].attempt].result = op[h].result
  BY ZenonT(30), <1>1 DEF RecordOK, Admitted, Resting, Settling
<1> DEFINE s == [op[h] EXCEPT !.pc = "close", !.rc = "ok", !.tool = "ok",
                              !.ref = Reference(h), !.result = None]
<1>3. /\ \/ UNCHANGED got /\ \E rc : Ended(h, rc, "error")
         \/ UNCHANGED got /\ op' = [op EXCEPT ![h] = s]
         \/ op' = [op EXCEPT ![h] = None] /\ got' = got \cup {Handed(h, op[h].result)}
      /\ UNCHANGED <<jobVars, executionStore, authority, bounds, entered, lateCalls>>
  BY Zenon DEF Deliver, Goto
<1>4. UNCHANGED got => Quiet
  BY Zenon, <1>3, LocalIsQuiet DEF history
<1>5. RecordOK(s) /\ s.call = op[h].call
  BY Zenon, <1>1 DEF RecordOK, OpFields, NotEntered, Admitted, Owning, Resting, Settling, Reference
<1> DEFINE g == Handed(h, op[h].result)
<1>6. g.attempt = op[h].attempt /\ g.call = op[h].call /\ g.result = op[h].result
  BY Zenon DEF Handed
<1> HIDE DEF s, g
<1>7. CASE UNCHANGED got /\ \E rc : Ended(h, rc, "error")
  BY Zenon, <1>1, <1>2, <1>4, <1>7, EndedKeeps
<1>8. CASE UNCHANGED got /\ op' = [op EXCEPT ![h] = s]
  BY ZenonT(30), <1>1, <1>4, <1>5, <1>8, QuietStep
<1>9. CASE op' = [op EXCEPT ![h] = None] /\ got' = got \cup {g}
  BY ZenonT(30), <1>2, <1>3, <1>6, <1>9, HandOver
<1> QED
  BY Zenon, <1>3, <1>7, <1>8, <1>9 DEF s, g

(* take_result hands over the attempt that its reference names, and        *)
(* refuses once there is a cancellation.                                   *)
LEMMA TakeResultKeeps ==
    ASSUME ExecInv, NEW h \in Harnesses, TakeResult(h)
    PROVE  ExecInv'
<1>1. op[h] # None /\ RecordOK(op[h]) /\ op[h].ref # None
  BY ZenonT(30) DEF ExecInv, TakeResult, At, Validated
<1>2. /\ op[h].ref.attempt = op[h].attempt /\ op[h].call \in 1..bounds.calls
  BY ZenonT(30), <1>1 DEF RecordOK
<1>3. op[h].ref.attempt = BoundAttempt /\ HeadReadable /\ IsBound
  BY ZenonT(30) DEF TakeResult, Validated, BoundStatus
<1>4. op[h].attempt \in Attempts
  BY Zenon, <1>2, <1>3, BoundTypes DEF ExecInv
<1>5. attempts[op[h].attempt] # None /\ attempts[op[h].attempt].phase = "committed"
  BY ZenonT(30), <1>2 DEF TakeResult, Validated
<1>6. op[h].call \notin lateCalls
  BY ZenonT(30) DEF TakeResult, Active, ExecInv, LateOK
<1> DEFINE g == Handed(h, attempts[op[h].attempt].result)
<1>7. /\ g.attempt = op[h].attempt /\ g.call = op[h].call
      /\ g.result = attempts[op[h].attempt].result
  BY Zenon DEF Handed
<1>8. /\ op' = [op EXCEPT ![h] = None] /\ got' = got \cup {g}
      /\ UNCHANGED <<jobVars, executionStore, authority, bounds, entered, lateCalls>>
  BY Zenon DEF TakeResult, Goto
<1> HIDE DEF g
<1> QED
  BY ZenonT(30), <1>2, <1>4, <1>5, <1>6, <1>7, <1>8, HandOver

-----------------------------------------------------------------------------
(* Every step preserves the invariant.                                     *)

LEMMA NextExecInv == ExecInv /\ [Next]_vars => ExecInv'
<1> SUFFICES ASSUME ExecInv, [Next]_vars PROVE ExecInv'
  BY Zenon
<1>1. CASE JobCall \/ UNCHANGED vars
  BY Zenon, <1>1, JobCallKeeps
<1>2. ASSUME NEW h \in Harnesses, Start(h) PROVE ExecInv'
  BY Zenon, <1>2, StartKeeps
<1>3. ASSUME NEW h \in Harnesses, LocalStep(h) PROVE ExecInv'
  BY Zenon, <1>3, EnqueueKeeps, SelectKeeps, ReturnCallbackKeeps, RefuseKeeps, AdmitKeeps,
     AdmissionCheckKeeps, LookupKeeps, DeliverKeeps, CloseKeeps DEF LocalStep
<1>4. ASSUME NEW h \in Harnesses, HostStep(h) PROVE ExecInv'
  BY Zenon, <1>4, HostSignalKeeps, TakeResultKeeps, ChangePolicyKeeps, CrashKeeps DEF HostStep
<1>5. ASSUME NEW h \in Harnesses, NEW o \in Outcomes, StoreStep(h, o) PROVE ExecInv'
  <2>1. Replay(h, o) \/ JournalCommit(h, o) => ExecInv'
    BY Zenon, JournalStepKeeps DEF Replay, JournalCommit, Resting
  <2> QED
    BY Zenon, <1>5, <2>1, AdmissionWriteKeeps, RejectionReceiptKeeps, QueueReceiptKeeps,
       UncertainKeeps, ClaimKeeps, JournalStartKeeps, CommitAttemptKeeps, MarkUnknownKeeps,
       JournalUnknownKeeps, FinalizeKeeps, PublishCancelKeeps, RecordKeeps, PublishReviewKeeps DEF StoreStep
<1> QED
  BY Zenon, <1>1, <1>2, <1>3, <1>4, <1>5 DEF Next

LEMMA ExecInvHolds == Spec => []ExecInv
<1> QED
  BY InitExecInv, NextExecInv, PTL DEF Spec

(* The callback of an attempt is entered at most once, however many        *)
(* Harnesses, calls, lost acknowledgements and crashes there are.          *)
THEOREM CallbackEnteredOnce == Spec => []CallbackOnce
<1>1. ExecInv => CallbackOnce
  BY Zenon DEF ExecInv
<1> QED
  BY <1>1, ExecInvHolds, PTL

(* Every result handed over for an attempt is its one committed result,    *)
(* and stays so.                                                           *)
THEOREM ResultIsUnique == Spec => []OneResult
<1>1. ExecInv => OneResult
  BY Zenon DEF ExecInv
<1> QED
  BY <1>1, ExecInvHolds, PTL

(* A Job is executed once: no callback is entered twice and no second      *)
(* result is handed over or recorded (turbo_agent_job_execution.c), for    *)
(* any Harnesses, requests, deliveries and faults.                         *)
THEOREM JobExecutesOnce == Spec => []ExecutesOnce
BY CallbackEnteredOnce, ResultIsUnique, PTL DEF ExecutesOnce

(* A Job call that begins after the cancellation claims nothing, runs      *)
(* nothing and is handed nothing.                                          *)
THEOREM CancellationFences == Spec => []FenceHolds
<1>1. ExecInv => FenceHolds
  BY Zenon DEF ExecInv
<1> QED
  BY <1>1, ExecInvHolds, PTL

=============================================================================
