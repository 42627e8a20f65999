--------------------------------- MODULE Job ---------------------------------
(***************************************************************************)
(* The durable record of one Job (src/harness/src/turbo_agent_job.c): a    *)
(* descriptor, numbered revisions and one cancellation request, written by *)
(* any number of clients over one Runtime Store.  A call reads the whole   *)
(* history, decides, and publishes with one create-if-absent; the two      *)
(* store accesses are separate steps, so that calls of several clients     *)
(* overlap.  The header asks the Host to serialize them; the model does    *)
(* not rely on it.  A write may take effect and report an error.           *)
(***************************************************************************)
EXTENDS Naturals

CONSTANTS
    Clients,        \* callers of the Job API
    Sources,        \* proposal sources
    Attempts,       \* compiled Inspect identities (thread and attempt id)
    Requests,       \* cancellation request ids
    MaxRevisions,   \* TURBO_AGENT_JOB_MAX_REVISIONS
    None

Revisions == 1..MaxRevisions

Proposals == [kind : {"proposal"}, source : Sources]
Bindings == [kind : {"attempt_bound"}, attempt : Attempts, version : Revisions]

ASSUME JobConstants ==
    /\ MaxRevisions \in Nat
    /\ None \notin Nat /\ None \notin Proposals /\ None \notin Bindings

VARIABLES
    created,        \* the descriptor exists
    revs,           \* revs[i]: the record of revision i, or None
    cancellation,   \* the cancellation record, or None
    client          \* client[c]: the call c is in, or None

jobStore == <<created, revs, cancellation>>
jobVars == <<jobStore, client>>

Proposal(s) == [kind |-> "proposal", source |-> s]
Binding(a, v) == [kind |-> "attempt_bound", attempt |-> a, version |-> v]
Cancellation(rev, req) == [rev |-> rev, request |-> req]

(* What the store holds after a create-if-absent, and whether the caller   *)
(* is told that it succeeded.                                              *)
Outcomes == {"ok", "lost", "fail"}
Inserted(old, new, o) == IF old # None \/ o = "fail" THEN old ELSE new
Acknowledged(old, o) == old = None /\ o = "ok"

JobInit ==
    /\ created = FALSE
    /\ revs = [i \in Revisions |-> None]
    /\ cancellation = None
    /\ client = [c \in Clients |-> None]

Kind(i, k) == revs[i] # None /\ revs[i].kind = k

(* The head of a history that head_read accepts.                           *)
Revision ==
    IF \A i \in Revisions : revs[i] = None THEN 0
    ELSE CHOOSE i \in Revisions :
            revs[i] # None /\ \A j \in Revisions : revs[j] # None => j <= i

ProposalsBefore(i) == {j \in 1..(i - 1) : Kind(j, "proposal")}
IsLast(j, S) == j \in S /\ \A k \in S : k <= j

(* head_read: no gap, nothing after a binding, and a binding that names    *)
(* the last proposal before it.                                            *)
HeadReadable ==
    /\ created
    /\ \A i \in Revisions : revs[i] # None =>
          /\ \A j \in 1..(i - 1) : revs[j] # None /\ revs[j].kind # "attempt_bound"
          /\ revs[i].kind = "attempt_bound" =>
                IsLast(revs[i].version, ProposalsBefore(i))

IsBound == Revision # 0 /\ Kind(Revision, "attempt_bound")
HasProposal == \E i \in Revisions : Kind(i, "proposal")
BoundAttempt == revs[Revision].attempt
BoundSource == revs[revs[Revision].version].source

(* turbo_agent_job_check_active: an absent record admits progress; a       *)
(* record of another revision does not parse and refuses it too.           *)
Active == cancellation = None

(* history_absent: no revision and no cancellation survives. *)
HistoryAbsent == cancellation = None /\ \A i \in Revisions : revs[i] = None

(* Faulty variant: a bound Job may still be amended. *)
AppendAdmitBound(e, binding) ==
    /\ HeadReadable /\ Revision = e /\ Active
    /\ binding => HasProposal
    /\ e < MaxRevisions

(* append_admit, for a call that expects the head to be at revision e.     *)
AppendAdmit(e, binding) ==
    /\ HeadReadable /\ Revision = e /\ Active
    /\ ~IsBound /\ (binding => HasProposal)
    /\ e < MaxRevisions

(* A call that has decided what to insert, and where. *)
Call(c, to, key, record) ==
    /\ client[c] = None
    /\ client' = [client EXCEPT ![c] = [to |-> to, key |-> key, record |-> record]]
    /\ UNCHANGED jobStore

(* The part of each call before its write: the expected revision is the    *)
(* one the call has just read, any other is refused.                       *)
Create(c) == HistoryAbsent /\ Call(c, "descriptor", None, None)

Propose(c, s) ==
    /\ AppendAdmit(Revision, FALSE)
    /\ Call(c, "revision", Revision + 1, Proposal(s))

LatestProposal == CHOOSE j \in Revisions : IsLast(j, ProposalsBefore(Revision + 1))

BindCompiledInspect(c, a) ==
    /\ AppendAdmit(Revision, TRUE)
    /\ Call(c, "revision", Revision + 1, Binding(a, LatestProposal))

RequestCancel(c, req) ==
    /\ HeadReadable
    /\ Call(c, "cancellation", None, Cancellation(Revision, req))

(* The write that ends the call, one create-if-absent. *)
Publish(c, o) ==
    /\ client[c] # None
    /\ LET w == client[c]
       IN  /\ created' = (created \/ (w.to = "descriptor" /\ o # "fail"))
           /\ revs' = IF w.to = "revision"
                      THEN [revs EXCEPT ![w.key] = Inserted(@, w.record, o)] ELSE revs
           /\ cancellation' = IF w.to = "cancellation"
                              THEN Inserted(cancellation, w.record, o) ELSE cancellation
    /\ client' = [client EXCEPT ![c] = None]

JobNext ==
    \E c \in Clients :
       \/ Create(c)
       \/ \E s \in Sources : Propose(c, s)
       \/ \E a \in Attempts : BindCompiledInspect(c, a)
       \/ \E req \in Requests : RequestCancel(c, req)
       \/ \E o \in Outcomes : Publish(c, o)

JobSpec == JobInit /\ [][JobNext]_jobVars

-----------------------------------------------------------------------------
(* However the calls of several clients overlap and whichever of their     *)
(* writes are lost or only look lost, what they leave behind can always be *)
(* read again: head_read never meets a gap, a revision after the binding   *)
(* or a binding of a superseded proposal in the history of a created Job.  *)
HistoryReadable == (created \/ HasProposal) => HeadReadable

=============================================================================
