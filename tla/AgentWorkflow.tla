--------------------------- MODULE AgentWorkflow ---------------------------
(***************************************************************************)
(* The agent's preset workflows (agent/src/turbo_agent_workflow*.c and     *)
(* turbo_agent_state_flow.c): graphs of model, tool, planning, review and  *)
(* replanning nodes over one JSON state, run one node after the other.     *)
(* The host resumes a paused run after it has approved or rejected the     *)
(* review in the state, or has asked for a new plan.  Nodes change the     *)
(* state in place, so a host that runs the graph again after a failure     *)
(* starts from the state the failing node left.                            *)
(*                                                                         *)
(* A model's answer is its text and its tool calls.  A call is a tool with *)
(* arguments, as far as the policy looks at them, and its id is its        *)
(* position in the answer: a later turn may repeat id, tool and arguments. *)
(***************************************************************************)
EXTENDS Naturals, Sequences, SequencesExt, FiniteSets

CONSTANTS
  Loops,        \* "loop", "planner", "review", "replan", "engineering", "each_step", "supervisor"
  Agents,       \* the agents a supervisor hands over to
  PlanAnswers,  \* answers of a planning turn
  WorkAnswers,  \* answers of a working turn
  Policy,       \* the host's policy: what it allows, and whether observing is free
  Rewritings,   \* what the host's before_tool middlewares may make of a call's arguments
  ReplanLimits,       \* replan limits; 0 is none
  HostMoves,    \* kinds of the commands the host resumes with
  MaxGraphSteps, \* per workflow, the step limit over all runs on the state
  MaxAgain      \* bound: how often the host runs the graph again

VARIABLES
  loop,     \* the workflow
  at,       \* current node
  status,   \* "running", "paused", or how the run ended
  steps,    \* nodes run
  st,       \* the state
  cancel,   \* the run's cancel token is set
  host      \* what the host asked for and allowed: a review, one call, the plan, the step

wfVars == <<loop, at, status, steps, st, cancel, host>>

NoText   == "NULL"
NoModel  == [text |-> NoText, calls |-> <<>>]
NoNote   == <<>>                 \* no review version yet: the note is NULL
EmptyNote == <<"">>
PlanNote == <<"plan">>
ToolNote(i, t) == <<"tool", i, t>>

Review(required, approved, note) == [required |-> required, approved |-> approved, note |-> note]
NoReview == Review(FALSE, FALSE, NoNote)

Sub == [on |-> FALSE, origin |-> <<0, 0>>, model |-> NoModel, results |-> "none", before |-> "none",
        review |-> NoReview]

Steps(text) == CASE text = "plan0" -> 0 [] text = "plan1" -> 1 [] text = "plan2" -> 2 [] OTHER -> 9

----------------------------------------------------------------------------
(* The state's versioned fields.                                            *)

request_review(s, note) == [s EXCEPT !.review = Review(TRUE, FALSE, note)]
set_review_approved(s, yes) == [s EXCEPT !.review = Review(~yes, yes, s.review.note)]
clear_review(s) == [s EXCEPT !.review = Review(FALSE, FALSE, EmptyNote)]
request_replan(s) == [s EXCEPT !.replan.requested = TRUE, !.replan.count = @ + 1]

plan_step_index(s) == IF s.progress = <<>> THEN 0 ELSE s.progress[Len(s.progress)]
plan_step_count(s) == IF s.plans = <<>> THEN 0 ELSE s.plans[Len(s.plans)]
plan_complete(s) == plan_step_index(s) >= plan_step_count(s)
set_plan(s, n) == [s EXCEPT !.plans = Append(@, n), !.progress = Append(@, 0)]
advance_plan(s) == IF plan_complete(s) THEN s ELSE [s EXCEPT !.progress[Len(s.progress)] = @ + 1]

\* The supervisor's versions: who is active and whom a handoff was asked for.
request_handoff(s, a)  == [s EXCEPT !.target = a]
commit_handoff(s)      == [s EXCEPT !.active = s.target, !.target = ""]

\* Events are kept as far as later nodes look at them: the last model event,
\* tool results after it and tool results just before it.
with_model(s, m)    == [s EXCEPT !.model = m, !.before = s.results, !.results = "none"]
with_results(s, r)  == [s EXCEPT !.results = r]

\* The substate's newest event is copied to the root's events.
append_last_substate_event(s, field) ==
  IF s[field].results = "none" THEN with_model(s, s[field].model) ELSE with_results(s, s[field].results)

\* contains_failure_marker.
contains_failure_marker(text) == text = "FAILED"

\* executor_tool_results_failed.
tool_results_failed(e) ==
  IF e.results # "none" THEN e.results = "failed"
  ELSE contains_failure_marker(e.model.text) /\ e.before = "failed"

----------------------------------------------------------------------------
(* The graphs: edges in the order they are added.                           *)

PlannerPath(next) == << <<"planner", "planner.tools", "planner_pending">>,
  <<"planner.tools", "planner", "always">>, <<"planner", "plan_commit", "always">>,
  <<"plan_commit", "plan_step", "always">>, <<"plan_step", next, "always">> >>
ExecutorCycle == << <<"executor", "tools", "executor_pending">>, <<"tools", "executor", "always">> >>
ExecutorReplanCycle == << <<"executor", "tools", "executor_pending">>,
  <<"tools", "detect", "replan">>, <<"tools", "executor", "always">> >>
ReplanCycle == << <<"detect", "replan_route", "always">>, <<"replan_route", "plan_advance", "always">>,
  <<"replan_prepare", "planner", "always">> >>
ReviewGate == << <<"review", "executor", "gate">>, <<"review", "end", "always">> >>
PlanAdvance(next) == << <<"plan_advance", "end", "complete">>, <<"plan_advance", next, "always">> >>

install_loop == << <<"model", "tools", "pending">>, <<"model", "end", "always">>,
                   <<"tools", "model", "always">> >>
install_planner_loop ==
  PlannerPath("executor") \o ExecutorCycle \o << <<"executor", "plan_advance", "always">> >>
    \o PlanAdvance("plan_step")
install_review_loop ==
  PlannerPath("review") \o ReviewGate \o ExecutorCycle
    \o << <<"executor", "plan_advance", "always">> >> \o PlanAdvance("plan_step")
install_replan_loop ==
  PlannerPath("executor") \o ExecutorReplanCycle \o << <<"executor", "detect", "always">> >>
    \o ReplanCycle \o PlanAdvance("plan_step")
install_review_replan_loop ==
  PlannerPath("review") \o ReviewGate \o ExecutorReplanCycle
    \o << <<"executor", "detect", "always">> >> \o ReplanCycle \o PlanAdvance("plan_step")
\* The planner's tool node is added, and no edge leads to it.
install_each_step_review ==
  << <<"planner", "plan_commit", "always">>, <<"plan_commit", "review_reset", "always">>,
     <<"review_reset", "plan_step", "always">>, <<"plan_step", "review", "always">> >>
    \o ReviewGate \o ExecutorReplanCycle \o << <<"executor", "detect", "always">> >>
    \o ReplanCycle \o PlanAdvance("review_reset")

\* The host's own agent nodes lead to the handoff node.
install_supervisor_loop ==
  << <<"supervisor", "end", "always">>, <<"handoff", "end", "always">> >>

Edges == CASE loop = "loop" -> install_loop
           [] loop = "planner" -> install_planner_loop
           [] loop = "review" -> install_review_loop
           [] loop = "replan" -> install_replan_loop
           [] loop = "engineering" -> install_review_replan_loop
           [] loop = "supervisor" -> install_supervisor_loop
           [] loop = "each_step" -> install_each_step_review

\* Pending calls are those of the last model event, of the substate if there is one.
pending(s) == s.model.calls # <<>>
nested_has_pending(s, field) == pending(IF s[field].on THEN s[field] ELSE s)
review_gate_open(s) == ~s.review.required \/ s.review.approved
Holds(p, s) ==
  CASE p = "always" -> TRUE
    [] p = "pending" -> pending(s)
    [] p = "planner_pending" -> nested_has_pending(s, "planner")
    [] p = "executor_pending" -> nested_has_pending(s, "executor")
    [] p = "replan" -> s.replan.requested
    [] p = "gate" -> review_gate_open(s)
    [] p = "complete" -> plan_complete(s)

NextBy(node, s) ==
  LET es == SelectSeq(Edges, LAMBDA e : e[1] = node /\ Holds(e[3], s))
  IN  es[1][2]

----------------------------------------------------------------------------
(* One node of the run.                                                     *)

Enter(node) == /\ status = "running" /\ at = node /\ ~cancel /\ steps < MaxGraphSteps[loop]
               /\ steps' = steps + 1 /\ loop' = loop
Goes(s, node) == st' = s /\ at' = node /\ status' = "running"
Leaves(s) == Goes(s, NextBy(at, s))
Ends(s, how) == st' = s /\ at' = at /\ status' = how
FailsWith(s) == Ends(s, "error")
Fails == FailsWith(st)
Pauses(s) == Ends(s, "paused")

\* A model turn answers, or fails, or the run is cancelled during it: then a
\* turn on the root state goes back to its node, while a nested turn, whose
\* context names no node, fails.
ModelTurn(answers, scope) ==
  \/ \E m \in answers :
       /\ Leaves(CASE scope = "root" -> with_model(st, m)
                   [] OTHER -> append_last_substate_event([st EXCEPT ![scope] = with_model(@, m)], scope))
       /\ UNCHANGED <<cancel, host>>
  \/ Fails /\ UNCHANGED <<cancel, host>>
  \/ /\ cancel' = TRUE /\ UNCHANGED host
     /\ IF scope = "root" THEN Goes(st, at) ELSE Fails

model_node == Enter("model") /\ ModelTurn(WorkAnswers, "root")
planner_model_node == Enter("planner") /\ ModelTurn(PlanAnswers, IF st.planner.on THEN "planner" ELSE "root")
executor_model_node ==
  /\ Enter("executor")
  /\ IF st.executor.on THEN ModelTurn(WorkAnswers, "executor") ELSE Fails /\ UNCHANGED <<cancel, host>>

\* plan_commit_node: the last model text must be a plan.
plan_commit_node ==
  /\ Enter("plan_commit")
  /\ IF Steps(st.model.text) = 9 THEN Fails ELSE Leaves(set_plan(st, Steps(st.model.text)))
  /\ UNCHANGED <<cancel, host>>

\* Variant: a substate that is there is used again for the next step.
plan_step_prepare_nodeReuses ==
  /\ Enter("plan_step")
  /\ IF plan_complete(st) THEN Fails
     ELSE Leaves(IF st.executor.on THEN st
                 ELSE [st EXCEPT !.executor = [Sub EXCEPT !.on = TRUE,
                         !.origin = <<Len(st.plans), plan_step_index(st)>>]])
  /\ UNCHANGED cancel
  /\ host' = [host EXCEPT !.step = FALSE]

\* plan_step_prepare_node: a new executor substate, with the step it is for.
plan_step_prepare_node ==
  /\ Enter("plan_step")
  /\ IF plan_complete(st) THEN Fails
     ELSE Leaves([st EXCEPT !.executor =
            [Sub EXCEPT !.on = TRUE, !.origin = <<Len(st.plans), plan_step_index(st)>>]])
  /\ UNCHANGED cancel
  /\ host' = [host EXCEPT !.step = FALSE]

plan_advance_node ==
  /\ Enter("plan_advance")
  /\ Leaves(advance_plan(
       IF ~plan_complete(st) /\ st.executor.model.text \notin {NoText, ""}
       THEN [st EXCEPT !.completed = Append(@, <<Len(st.plans), plan_step_index(st)>>)] ELSE st))
  /\ UNCHANGED <<cancel, host>>

\* review_node: the run stops, and the checkpoint before the node is what the
\* host resumes.
review_node ==
  /\ Enter("review")
  /\ IF st.review.required /\ ~st.review.approved THEN Pauses(st) ELSE Leaves(st)
  /\ UNCHANGED <<cancel, host>>

review_reset_node ==
  /\ Enter("review_reset")
  /\ Leaves(IF st.review.note = NoNote \/ (st.review.required /\ ~st.review.approved)
            THEN st ELSE request_review(st, st.review.note))
  /\ UNCHANGED <<cancel, host>>

\* detect_failed_step_node: a failed step asks for a new plan, up to the limit.
detect_failed_step_node ==
  /\ Enter("detect")
  /\ LET failed == tool_results_failed(st.executor) \/ contains_failure_marker(st.executor.model.text)
     IN  IF ~failed THEN Leaves(st)
         ELSE IF st.replan.limit > 0 /\ st.replan.count >= st.replan.limit THEN Ends(st, "stopped")
         ELSE Leaves(request_replan(st))
  /\ UNCHANGED <<cancel, host>>

replan_route_node ==
  /\ Enter("replan_route")
  /\ IF st.replan.requested THEN Goes(st, "replan_prepare") ELSE Leaves(st)
  /\ UNCHANGED <<cancel, host>>

\* replan_prepare_node: a new planner substate; the request is taken back.
replan_prepare_node ==
  /\ Enter("replan_prepare")
  /\ IF ~st.replan.requested THEN Fails
     ELSE Leaves([st EXCEPT !.planner = [Sub EXCEPT !.on = TRUE], !.replan.requested = FALSE])
  /\ UNCHANGED <<cancel, host>>

supervisor_route_node ==
  /\ Enter("supervisor") /\ Goes(st, IF st.active = "" THEN "end" ELSE "agent")
  /\ UNCHANGED <<cancel, host>>

supervisor_handoff_node ==
  /\ Enter("handoff")
  /\ IF st.target = "" THEN Goes(st, "end") ELSE Goes(commit_handoff(st), "agent")
  /\ UNCHANGED <<cancel, host>>

\* The node of the active agent, written by the host: it may ask for a handoff.
AgentNode ==
  /\ Enter("agent") /\ UNCHANGED cancel
  /\ \E a \in Agents \cup {""} :
       /\ Goes(IF a = "" THEN st ELSE request_handoff(st, a), "handoff")
       /\ host' = [host EXCEPT !.next = a,
                               !.strays = @ \/ (host.next # st.active /\ host.next # "first")]

end_node == Enter("end") /\ Ends(st, "stopped") /\ UNCHANGED <<cancel, host>>

----------------------------------------------------------------------------
(* The policy and the guardrail in front of a tool.  A tool is known or not, *)
(* requires capabilities, observes, mutates or is dangerous, may ask for     *)
(* approval; a call's path is inside the workspace or not, its command is    *)
(* one of the dangerous ones or not.                                         *)

policy_check_tool(t) ==
  IF t.caps = {} THEN "custom_tools" \in Policy.allows ELSE t.caps \subseteq Policy.allows

policy_check_action(t) ==
  CASE ~t.inside -> "deny"
    [] t.kind = "mutate" /\ "patch" \notin Policy.allows -> "deny"
    [] t.kind = "dangerous" /\ "shell" \notin Policy.allows -> "deny"
    [] t.command \/ t.approval -> "require_approval"
    [] t.kind = "observe" /\ Policy.auto_approve_safe -> "allow"
    [] t.kind = "dangerous" -> "require_approval"
    [] OTHER -> "allow"

\* tool_calls_preflight: what is unknown or not allowed is answered, not run.
preflight(t) == t.known /\ policy_check_tool(t)

\* The before_tool middlewares see the calls that pass the preflight; the
\* guardrail, the approval and the tool see the arguments they leave.
after_middlewares(calls) ==
  {c \in [DOMAIN calls -> UNION {{calls[i]} \cup Rewritings[calls[i]] : i \in DOMAIN calls}] :
     \A i \in DOMAIN calls : c[i] \in IF preflight(calls[i]) THEN Rewritings[calls[i]] ELSE {calls[i]}}

\* tool_approval_review_matches: the approved review is for exactly this call.
review_matches(s, i, call) == s.review.approved /\ s.review.note = ToolNote(i, call)

\* action_policy_before_tool, for the calls that pass the preflight.
before_tool(s, i, call) ==
  LET d == policy_check_action(call)
  IN  CASE d = "allow" -> "run"
        [] d = "require_approval" -> IF review_matches(s, i, call) THEN "run" ELSE "approval_required"
        [] OTHER -> "reject"

Guarded(calls) ==
  {i \in DOMAIN calls : preflight(calls[i]) /\ policy_check_action(calls[i]) = "require_approval"}
\* The calls that put a review to the host: the first of them ends the pass.
Unapproved(s, calls) ==
  {i \in DOMAIN calls : preflight(calls[i]) /\ before_tool(s, i, calls[i]) = "approval_required"}
First(S) == CHOOSE i \in S : \A j \in S : i <= j
Asks(s, calls) == LET i == First(Unapproved(s, calls)) IN ToolNote(i, calls[i])

\* What the batch comes to: calls that are refused count as failed results.
TurnOutcomes(s, calls) ==
  IF \E i \in DOMAIN calls : ~preflight(calls[i]) \/ before_tool(s, i, calls[i]) = "reject"
  THEN {"failed"} ELSE {"ok", "failed"}

\* The guarded calls that run, and whether the host has allowed each of them.
Dispatched(calls) ==
  host' = [host EXCEPT !.grant = IF Guarded(calls) = {} THEN @ ELSE NoNote,
                       !.wrong = @ \/ \E i \in Guarded(calls) : host.grant # ToolNote(i, calls[i])]

----------------------------------------------------------------------------
(* The tool node.                                                           *)

\* No call is pending, or a before_tool middleware fails: nothing is consumed.
BeforeDispatchFails(s, left) ==
  /\ s.model.calls = <<>> \/ \E i \in DOMAIN s.model.calls : preflight(s.model.calls[i])
  /\ FailsWith(left) /\ UNCHANGED host

\* The approval is consumed before a callback is entered, so also when one fails.
consume_approval(s, calls) == IF Guarded(calls) = {} THEN s ELSE clear_review(s)

\* The tool node on its own state: the first guarded call without approval is
\* put to the host; otherwise the approval is consumed and the batch runs.
RootTools ==
  \/ BeforeDispatchFails(st, st)
  \/ /\ st.model.calls # <<>>
     /\ \E calls \in after_middlewares(st.model.calls) :
          IF Unapproved(st, calls) # {}
          THEN Pauses(request_review(st, Asks(st, calls))) /\ UNCHANGED host
          ELSE /\ Dispatched(calls)
               /\ \/ FailsWith(consume_approval(st, calls))
                  \/ \E r \in TurnOutcomes(st, calls) :
                       Leaves(with_results(consume_approval(st, calls), r))

\* nested_tool_node: the parent's approval is copied into the substate, a
\* request of the substate into the parent.
Copied(sub) ==
  IF ~st.review.approved \/ st.review.note = NoNote THEN sub
  ELSE [sub EXCEPT !.review = Review(FALSE, TRUE, st.review.note)]

NestedTools(field) ==
  LET s == Copied(st[field])
      put(root, x) == [root EXCEPT ![field] = x]
  IN  \/ BeforeDispatchFails(s, put(st, s))
      \/ /\ s.model.calls # <<>>
         /\ \E calls \in after_middlewares(s.model.calls) :
              LET parent == consume_approval(st, calls)
              IN  IF Unapproved(s, calls) # {}
                  THEN /\ Pauses(request_review(put(st, request_review(s, Asks(s, calls))), Asks(s, calls)))
                       /\ UNCHANGED host
                  ELSE IF Guarded(calls) # {} /\ ~\E i \in Guarded(calls) : review_matches(st, i, calls[i])
                  THEN FailsWith(put(st, s)) /\ UNCHANGED host
                  ELSE /\ Dispatched(calls)
                       /\ \/ FailsWith(put(parent, consume_approval(s, calls)))
                          \/ \E r \in TurnOutcomes(s, calls) :
                               Leaves(append_last_substate_event(
                                 put(parent, with_results(consume_approval(s, calls), r)), field))

tool_node == Enter("tools") /\ loop = "loop" /\ RootTools /\ UNCHANGED cancel

planner_tool_node ==
  /\ Enter("planner.tools") /\ UNCHANGED cancel
  /\ IF st.planner.on THEN NestedTools("planner") ELSE RootTools

\* A replan the host asked for meanwhile takes precedence over the calls.
executor_tool_node ==
  /\ Enter("tools") /\ loop # "loop" /\ UNCHANGED cancel
  /\ IF st.replan.requested THEN Leaves(st) /\ UNCHANGED host
     ELSE NestedTools("executor")

----------------------------------------------------------------------------
(* The engine and the host.                                                 *)

HaltRun ==
  /\ status = "running" /\ (cancel \/ steps = MaxGraphSteps[loop])
  /\ status' = IF cancel THEN "cancelled" ELSE "step_limit"
  /\ UNCHANGED <<loop, at, steps, st, cancel, host>>

\* The token is set outside a model turn: the engine sees it before the next node.
Cancel == /\ status = "running" /\ ~cancel /\ cancel' = TRUE /\ status' = "cancelled"
          /\ UNCHANGED <<loop, at, steps, st, host>>

\* apply_command on the state of the checkpoint; messages to the model and a
\* final answer change nothing that a node or an edge looks at.
apply_command(kind, s) ==
  CASE kind = "approve_review" -> set_review_approved(s, TRUE)
    [] kind = "reject_review" -> set_review_approved(s, FALSE)
    [] kind = "reject_review_because" -> request_review(s, <<"reason">>)
    [] kind = "request_replan" -> request_replan(clear_review(s))
    [] kind = "append_feedback" -> s

\* run_command: the paused run is resumed at its node with the changed state.
Command(kind) ==
  /\ status = "paused" /\ status' = "running"
  /\ st' = apply_command(kind, st)
  /\ host' = CASE kind = "approve_review" ->
                  [host EXCEPT !.grant = IF st.review.note[1] = "tool" THEN st.review.note ELSE @,
                               !.plan = @ \/ at = "review", !.step = @ \/ at = "review"]
              [] kind = "request_replan" ->
                  [host EXCEPT !.grant = NoNote, !.plan = TRUE, !.step = TRUE, !.replans = @ + 1]
              [] kind = "append_feedback" -> host
              [] OTHER -> [host EXCEPT !.grant = NoNote]
  /\ UNCHANGED <<loop, at, steps, cancel>>

\* The host runs the graph again, from its entry, on the state of a failed run.
Entry == CASE loop = "loop" -> "model" [] loop = "supervisor" -> "supervisor" [] OTHER -> "planner"
RunAgain ==
  /\ status = "error" /\ ~cancel /\ host.again < MaxAgain
  /\ status' = "running" /\ at' = Entry /\ host' = [host EXCEPT !.again = @ + 1]
  /\ UNCHANGED <<loop, steps, st, cancel>>

Reviewing  == {"review", "engineering", "each_step"}
Replanning == {"replan", "engineering", "each_step"}

WfInit ==
  /\ loop \in Loops
  /\ at = Entry
  /\ status = "running" /\ steps = 0 /\ cancel = FALSE
  /\ \E asked \in (IF loop \in Reviewing THEN BOOLEAN ELSE {FALSE}),
        active \in (IF loop = "supervisor" THEN Agents \cup {""} ELSE {""}),
        limit \in (IF loop \in Replanning THEN ReplanLimits ELSE {0}) :
       /\ host = [asked |-> asked, grant |-> NoNote, plan |-> FALSE, step |-> FALSE, replans |-> 0,
                  wrong |-> FALSE, again |-> 0, next |-> "first", strays |-> FALSE]
       /\ st = [model |-> NoModel, results |-> "none", before |-> "none",
                review |-> IF asked THEN Review(TRUE, FALSE, PlanNote) ELSE NoReview,
                replan |-> [requested |-> FALSE, count |-> 0, limit |-> limit],
                plans |-> <<>>, progress |-> <<>>, completed |-> <<>>,
                planner |-> Sub, executor |-> Sub, active |-> active, target |-> ""]

Nodes ==
  \/ model_node \/ tool_node \/ planner_model_node \/ planner_tool_node \/ plan_commit_node
  \/ plan_step_prepare_node \/ review_reset_node \/ review_node \/ executor_model_node
  \/ executor_tool_node \/ detect_failed_step_node \/ replan_route_node \/ replan_prepare_node
  \/ plan_advance_node \/ end_node \/ supervisor_route_node \/ supervisor_handoff_node \/ AgentNode

WfNext == Nodes \/ HaltRun \/ Cancel \/ RunAgain \/ \E kind \in HostMoves : Command(kind)

WfSpec == WfInit /\ [][WfNext]_wfVars

----------------------------------------------------------------------------
Planned == loop \notin {"loop", "supervisor"}

\* While a step is worked on, its executor substate is the one prepared for the
\* step the plan is at, in the newest plan; the steps recorded as completed are
\* those of each plan in order, none twice; and under a supervisor an agent runs
\* only when the one before it asked for exactly this agent.
WorkIsForCurrentStep ==
  /\ ~host.strays
  /\ Planned /\ at \in {"executor", "tools", "detect", "replan_route", "plan_advance"}
       => st.executor.on /\ st.executor.origin = <<Len(st.plans), plan_step_index(st)>>
  /\ \A i, j \in DOMAIN st.completed : i < j =>
       \/ st.completed[i][1] < st.completed[j][1]
       \/ st.completed[i][1] = st.completed[j][1] /\ st.completed[i][2] < st.completed[j][2]

\* A guarded call runs only on an approval the host gave for this very call and
\* that no earlier dispatch, rejection or newer request has used up, even when a
\* later turn repeats the call word for word.
ApprovalSpentOnce == ~host.wrong

\* With review asked for, the loop that re-arms it lets no step be worked on
\* that the host has not decided on since the step was prepared; no loop works
\* on a step while a review is open; and failed steps cause no more replans
\* than the limit, whatever the host adds.
StepsReviewed ==
  /\ loop = "each_step" /\ host.asked /\ at = "executor" => host.step
  /\ loop \in Reviewing /\ at = "executor" => review_gate_open(st)
  /\ st.replan.limit > 0 => st.replan.count <= st.replan.limit + host.replans

\* The plan review a host asked for is decided before the first step is worked on.
PlanReviewed ==
  loop \in {"review", "engineering"} /\ host.asked /\ at = "executor" => host.plan
=============================================================================
