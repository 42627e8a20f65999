------------------------------- MODULE MCJobs -------------------------------
(***************************************************************************)
(* A Job with one client and its execution by Harnesses, the review and    *)
(* delivery of what was executed, and the record of a Job with several     *)
(* clients, each on its own.                                               *)
(***************************************************************************)
EXTENDS JobExecution, TLC

CONSTANTS
    Focus,  \* the components a run takes, each on its own
    h1, r1  \* the Harness and the cancel request of the review

VARIABLE focus   \* the component that runs; the others stay in their first state

-----------------------------------------------------------------------------
\* Harnesses and requests are interchangeable.
Symmetry == Permutations(Harnesses) \cup Permutations(Requests)

(* With one client nothing can change the history between the two steps of *)
(* RequestCancel, so they may as well follow each other.                   *)
CancelAtOnce ==
    focus # "record" /\ (\E c \in Clients : client[c] # None /\ client[c].to = "cancellation")
       => client' # client

(* A Job that is executed has up to two revisions. *)
TwoRevisions ==
    focus # "record" => \A c \in Clients :
       client'[c] # None /\ client'[c].to = "revision" => client'[c].key <= 2

Begins(h) == op[h] = None /\ op'[h] # None

-----------------------------------------------------------------------------
\* job: executions of the Job by several Harnesses.

(* Operations begin once the Job is bound: before that every call on it    *)
(* ends at its first check (the review has such calls).                    *)
BindFirst ==
    focus = "job" => \A h \in Harnesses : Begins(h) => IsBound

(* At most two disturbances at a time, among faults so far, operations     *)
(* whose token is signalled and operations whose handle was released; one  *)
(* while calls of two kinds run.                                           *)
TwoDisturbances ==
    LET running == {h \in Harnesses : op[h] # None}
        mixed == \E h, k \in running : op[h].kind # op[k].kind
    IN  focus = "job" =>
           bounds.faults + Cardinality({h \in running : op[h].token # None})
              + Cardinality({h \in running : ~op[h].held}) <= IF mixed THEN 1 ELSE 2

-----------------------------------------------------------------------------
\* review: four operations of one Harness, at most the first two of them executions, and one
\* fault or change of policy, not both.
Reviewed == INSTANCE JobExecution WITH
    Requests <- {r1}, Deliveries <- {"d1", "d2"}, Kinds <- {"direct", "receipted", "review"},
    MaxCalls <- 4, MaxPolicies <- 1

ReviewNext ==
    \/ Reviewed!JobCall
    \/ Reviewed!Start(h1) \/ Reviewed!LocalStep(h1) \/ Reviewed!HostStep(h1)
    \/ \E o \in Outcomes : Reviewed!StoreStep(h1, o)

ReviewLast ==
    focus = "review" /\ Begins(h1) /\ bounds.calls >= 2 => op'[h1].pc = "publish"

OneDisturbance == focus = "review" => bounds.faults + bounds.policies <= 1

-----------------------------------------------------------------------------
\* record: overlapping calls of two clients on a Job of up to four revisions.
Recorded == INSTANCE JobExecution WITH Clients <- {"client", "other"}

-----------------------------------------------------------------------------
JobsInit ==
    /\ focus \in Focus
    /\ CASE focus = "job" -> Init
         [] focus = "review" -> Reviewed!Init
         [] focus = "record" -> Recorded!Init

JobsNext ==
    \/ focus = "job" /\ Next /\ UNCHANGED focus
    \/ focus = "review" /\ ReviewNext /\ UNCHANGED focus
    \/ focus = "record" /\ Recorded!JobCall /\ UNCHANGED focus

JobsVars == <<focus, vars>>

JobsSpec == JobsInit /\ [][JobsNext]_JobsVars
=============================================================================
