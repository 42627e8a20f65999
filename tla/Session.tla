------------------------------- MODULE Session -------------------------------
(***************************************************************************)
(* The session of src/agent/src/turbo_agent_session.c and                  *)
(* turbo_agent_session_execution.c as the consumer of its inbox: one       *)
(* execution at a time starts, resumes or forks a run, injects at most one *)
(* steering message before a model turn, has the runtime store the run,    *)
(* commits the claim and then chains follow-up runs.                       *)
(*                                                                         *)
(* It replaces the consumer of Inbox.tla; producers, crashes and recovery  *)
(* are those of Inbox.tla.  A run's state is the set of inbox_message      *)
(* events in it, each <<item, n>> for the n-th event made for the item     *)
(* (event_id is a fresh uuid).                                             *)
(***************************************************************************)
EXTENDS Inbox

CONSTANTS
    MaxFollowUps,   \* max_follow_ups_per_execution
    MaxFailures     \* bound: runs that end with an error

ASSUME SessionConstants == MaxFollowUps \in Nat /\ MaxFailures \in Nat

VARIABLES
    sess,       \* where the execution is
    run,        \* run id in the execution context
    last,       \* session->last_run_id
    status,     \* status of the last summary
    state,      \* events of the state in memory, or last handed to the caller
    saved,      \* saved[r]: events of the state stored with run r
    started,    \* run ids already given out
    made,       \* made[i]: events created for item i
    followUps,  \* follow_up_count of this execution
    failures,   \* runs and injections that failed
    unsure      \* items claimed when one of them did

execution == <<sess, run, last, status, state, started, made, followUps>>
failed == <<failures, unsure>>
sessionVars == <<vars, execution, saved, failed>>

SessionInit ==
    /\ Init
    /\ sess = "idle" /\ run = None /\ last = None /\ status = None
    /\ state = {} /\ saved = [r \in Runs |-> {}]
    /\ started = {} /\ made = [i \in Items |-> 0] /\ followUps = 0
    /\ failures = 0 /\ unsure = {}

Goto(s) == sess' = s
Return == sess' = "idle" /\ run' = None

(* An injection or a run fails, with whatever claim is outstanding. *)
Failure ==
    /\ failures < MaxFailures
    /\ failures' = failures + 1
    /\ unsure' = unsure \union InClaim

-----------------------------------------------------------------------------
(* start_graph with the caller's state (a new one or the one handed back   *)
(* last), or fork_graph from the stored state of an interrupted run.       *)
Start(r) ==
    /\ sess = "idle" /\ mode = "up" /\ r \notin started
    /\ \E s \in {{}, state} \union {saved[q] : q \in started} : state' = s
    /\ started' = started \union {r}
    /\ run' = r /\ followUps' = 0 /\ Goto("turn")
    /\ UNCHANGED <<vars, last, status, saved, made>>

(* resume_graph from the latest checkpoint: same run id, stored state. *)
Resume ==
    /\ sess = "idle" /\ mode = "up" /\ status = "interrupted"
    /\ state' = saved[last]
    /\ run' = last /\ followUps' = 0 /\ Goto("turn")
    /\ UNCHANGED <<vars, last, status, saved, started, made>>

(* Faulty variant: the claim names the session's last run, as the claim of *)
(* a follow-up does.                                                       *)
ClaimSteerForLastRun ==
    /\ sess = "turn" /\ Take("steer", IF last = None THEN run ELSE last)
    /\ Goto("claim_steer")
    /\ UNCHANGED <<run, last, status, state, saved, started, made, followUps>>

(* apply_pending_steer: the claim names the running run.  Nothing to claim *)
(* (ENOENT, ECANCELED) and an outstanding claim (EBUSY) skip it.           *)
ClaimSteer ==
    /\ sess = "turn" /\ Take("steer", run) /\ Goto("claim_steer")
    /\ UNCHANGED <<run, last, status, state, saved, started, made, followUps>>

(* claim returns: an error of it fails the turn and with it the run. *)
SteerClaimed ==
    /\ sess = "claim_steer" /\ PutClaimed
    /\ IF claim' = NoClaim THEN Return ELSE Goto("inject_steer") /\ UNCHANGED run
    /\ UNCHANGED <<last, status, state, saved, started, made, followUps>>

(* apply_claimed_message: bind, add the message and append the event. *)
Inject ==
    /\ sess \in {"inject_steer", "inject_follow"}
    /\ Bind
    /\ made' = [made EXCEPT ![claim.id] = @ + 1]
    /\ state' = state \union {<<claim.id, made'[claim.id]>>}
    /\ Goto(IF sess = "inject_steer" THEN "turn" ELSE "launch")
    /\ UNCHANGED <<run, last, status, saved, started, followUps>>

(* apply_claimed_message fails: the claim is requeued, whose own failure   *)
(* is ignored, and the turn or the execution fails.  When the event was    *)
(* bound, the append failed and the requeue fails too, the claim stays     *)
(* bound to an event that is in no state.                                  *)
InjectFails ==
    /\ Failure /\ sess \in {"inject_steer", "inject_follow"}
    /\ Requeue \/ Bind
    /\ Return
    /\ UNCHANGED <<last, status, state, saved, started, made, followUps>>

StoreRun ==
    /\ saved' = [saved EXCEPT ![run] = state]
    /\ events' = [events EXCEPT ![run] = {e[1] : e \in state}]
    /\ UNCHANGED <<payload, log, object, claims, producers, crashes>>

(* The graph ends, the runtime stores the run with its state and publishes *)
(* the head; capture_summary.                                              *)
Finish ==
    /\ sess = "turn"
    /\ StoreRun
    /\ status' \in {"completed", "interrupted"}
    /\ last' = run /\ Goto("commit")
    /\ UNCHANGED <<run, state, started, made, followUps>>

(* The run is stored and a later step of the runtime fails. *)
FinishUnpublished ==
    /\ Failure /\ sess = "turn"
    /\ StoreRun
    /\ state' = {} /\ Return
    /\ UNCHANGED <<last, status, started, made, followUps>>

(* The graph ends with an error: nothing is stored, the caller gets the    *)
(* state (EXEC_ERROR) or nothing, and the claim stays as it is.            *)
FailRun ==
    /\ Failure /\ sess = "turn"
    /\ state' \in {state, {}}
    /\ Return
    /\ UNCHANGED <<vars, last, status, saved, started, made, followUps>>

(* commit_bound_claim: the bound claim is marked applied.  An error ends   *)
(* the execution with the claim still bound.                               *)
Commit ==
    /\ sess = "commit"
    /\ IF claim # NoClaim /\ claim.bound
       THEN /\ MarkApplied
            /\ IF claim' = NoClaim THEN Goto("follow") /\ UNCHANGED run ELSE Return
       ELSE UNCHANGED vars /\ Goto("follow") /\ UNCHANGED run
    /\ UNCHANGED <<last, status, state, saved, started, made, followUps>>

(* run_follow_ups: the execution ends when the turn did not complete, the  *)
(* limit is reached, nothing is queued, or a claim is outstanding (EBUSY). *)
NoFollowUp ==
    /\ sess = "follow"
    /\ \/ status # "completed" \/ followUps = MaxFollowUps
       \/ closed \/ claim # NoClaim \/ OfKind(ready, "follow_up") = {}
    /\ Return
    /\ UNCHANGED <<vars, last, status, state, saved, started, made, followUps>>

(* run_follow_ups: the claim names the run that has just ended. *)
ClaimFollowUp ==
    /\ sess = "follow" /\ status = "completed" /\ followUps < MaxFollowUps
    /\ Take("follow_up", last)
    /\ Goto("claim_follow")
    /\ UNCHANGED <<run, last, status, state, saved, started, made, followUps>>

FollowUpClaimed ==
    /\ sess = "claim_follow" /\ PutClaimed
    /\ IF claim' = NoClaim THEN Return ELSE Goto("inject_follow") /\ UNCHANGED run
    /\ UNCHANGED <<last, status, state, saved, started, made, followUps>>

(* Faulty variant: the follow-up run starts from its message alone. *)
LaunchFresh(r) ==
    /\ sess = "launch" /\ r \notin started
    /\ started' = started \union {r}
    /\ state' = {e \in state : e[1] = claim.id}
    /\ run' = r /\ followUps' = followUps + 1 /\ Goto("turn")
    /\ UNCHANGED <<vars, last, status, saved, made>>

(* run_follow_ups: a new run starts from the previous state with the       *)
(* message in it.                                                          *)
Launch(r) ==
    /\ sess = "launch" /\ r \notin started
    /\ started' = started \union {r}
    /\ run' = r /\ followUps' = followUps + 1 /\ Goto("turn")
    /\ UNCHANGED <<vars, last, status, state, saved, made>>

SessionStep ==
    \/ \E r \in Runs : Start(r) \/ Launch(r)
    \/ Resume \/ ClaimSteer \/ SteerClaimed \/ Inject \/ Finish \/ Commit
    \/ NoFollowUp \/ ClaimFollowUp \/ FollowUpClaimed

(* The process dies; a session opened later knows only the store. *)
SessionCrash ==
    /\ Crash
    /\ Return
    /\ last' = None /\ status' = None /\ state' = {} /\ followUps' = 0
    /\ UNCHANGED <<saved, started, made>>

InboxStep ==
    /\ (\E i \in Items : Produce(i)) \/ Close \/ Restart
    /\ UNCHANGED <<execution, saved>>

SessionNext ==
    \/ (SessionStep \/ SessionCrash \/ InboxStep) /\ UNCHANGED failed
    \/ InjectFails \/ FinishUnpublished \/ FailRun

SessionSpec == SessionInit /\ [][SessionNext]_sessionVars

-----------------------------------------------------------------------------
Durable == UNION {saved[r] : r \in Runs}

(* session-inbox-process-crash.md: an item is applied only if its event is *)
(* in the stored state of a run (commit_bound_claim after the run's put,   *)
(* and recover after a crash).                                             *)
AppliedHasEvent ==
    \A i \in Items : Visible(i) /\ Latest(i).status = "applied" =>
        \E e \in Durable : e[1] = i

(* An accepted message is never lost: it is queued, claimed or applied,    *)
(* and unless it was claimed when a run failed it is applied only if its   *)
(* event is in the stored state of a run, however often the process died   *)
(* in between.                                                             *)
NothingLost ==
    /\ \A i \in Items : producer[i] = "accepted" =>
          /\ Visible(i)
          /\ mode = "up" /\ Latest(i).status # "applied" => i \in InReady \union InClaim
    /\ \A i \in Items \ unsure : Visible(i) /\ Latest(i).status = "applied" =>
          \E e \in Durable : e[1] = i

(* runtime-v4-agent-core-design.md 6.3: one inbox_id never yields two      *)
(* logical injection events (apply_claimed_message, requeue and recover).  *)
OneLogicalInjection ==
    \A d, e \in Durable : d[1] = e[1] => d = e

(* A steering message is never injected twice, whatever crashes: its claim *)
(* names the run that stores its event (apply_pending_steer, recover).     *)
(* Not so for a message claimed when a run failed: the caller may carry    *)
(* its event into another run.                                             *)
SteerInjectedOnce ==
    \A d, e \in Durable : d[1] = e[1] /\ d[1] \in Steers \ unsure => d = e

(* Within one execution, a follow-up run starts from the state of the run  *)
(* before it: no event the previous run stored is missing from it.         *)
FollowUpKeepsHistory ==
    sess = "turn" /\ followUps > 0 => saved[last] \subseteq state
=============================================================================
