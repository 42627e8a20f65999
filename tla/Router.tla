-------------------------------- MODULE Router --------------------------------
(* The tiered model router: endpoint selection, supervised model and tool-loop
   tasks, the Host tool gate, explicit review resumes, write-ahead intents,
   observations and worker groups (turbo_agent_router*.c).  The Host's calls are
   serialized; the workers of the pool interleave with them and with each other.
   An execution is identified by its task and segment.                         *)
EXTENDS Naturals, Sequences, FiniteSets

CONSTANTS
  Tasks,       \* task handles, each used once
  Endpoint,    \* sequence of endpoint configurations
  Requests,    \* requests the Host may make for each task handle
  Ids,         \* record ids the Host chooses
  Turns,       \* model-turn bounds it asks for, 0 for a plain model call
  Limits,      \* tool task limits it sets
  PriceUnit,   \* tokens a price is quoted for (1000000)
  MaxResumes,  \* TURBO_AGENT_ROUTER_MAX_REVIEW_RESUMES
  MaxClock, MaxGen   \* bounds on time and on policy replacements

VARIABLES
  router,   \* busy endpoints, tool task limit and count, the Host tool gate
  task,     \* the task handles with their current execution segment
  group,    \* the worker group
  hstore,   \* the Host's store: intents, review intents, observations
  auth,     \* authority generation of the Agents
  clock     \* monotonic time

routerVars == <<router, task, group, hstore, auth, clock>>

NoId == "none"
NoTask == [live |-> FALSE, ep |-> 0, max |-> 0, turns |-> 0, resumes |-> 0, seg |-> 0,
           pc |-> "none", status |-> "none", stop |-> FALSE, pending |-> FALSE,
           rejected |-> FALSE, unresponsive |-> FALSE, taken |-> FALSE, waiting |-> FALSE,
           grouped |-> FALSE, gen |-> 0, adm |-> NoId, rev |-> NoId, deadline |-> 0, beat |-> 0,
           observed |-> 0, hb |-> 0, effects |-> 0, cost |-> 0, req |-> [thread |-> 0]]
NoGroup == [members |-> <<>>, failed |-> FALSE, built |-> FALSE, taken |-> FALSE, observed |-> 0]

RouterInit ==
  /\ router = [busy |-> [e \in DOMAIN Endpoint |-> FALSE], limit |-> 1, tools |-> 0, active |-> FALSE]
  /\ task = [t \in Tasks |-> NoTask]
  /\ group = NoGroup
  /\ hstore = [admission |-> {}, review |-> {}, observation |-> {}]
  /\ auth = 0
  /\ clock = 0

-------------------------------------------------------------------------------
\* Selection.

CeilDiv(a, b) == (a + b - 1) \div b

\* Each token direction is rounded up on its own, then the turns multiply.
EstimatedCost(e, r, turns) ==
  (CeilDiv(r.input * Endpoint[e].inPrice, PriceUnit) + CeilDiv(r.output * Endpoint[e].outPrice, PriceUnit))
     * (IF turns = 0 THEN 1 ELSE turns)

Qualified(e, r, turns) ==
  /\ r.role \in Endpoint[e].roles
  /\ Endpoint[e].difficulty >= r.difficulty
  /\ r.caps \subseteq Endpoint[e].caps
  /\ Endpoint[e].maxInput >= r.input /\ Endpoint[e].maxOutput >= r.output
  /\ turns > 0 => Endpoint[e].sharesRegistry
  /\ EstimatedCost(e, r, turns) <= r.budget

Candidates(r, turns) ==
  {e \in DOMAIN Endpoint : Qualified(e, r, turns) /\ ~router.busy[e] /\ Endpoint[e].delegable}

\* The cheapest one; the first configured one among equals.
Selected(r, turns, e) ==
  /\ e \in Candidates(r, turns)
  /\ \A f \in Candidates(r, turns) :
        LET ce == EstimatedCost(e, r, turns)  cf == EstimatedCost(f, r, turns)
        IN ce < cf \/ (ce = cf /\ e <= f)

\* The request a submit refuses before it looks for an endpoint.
Refused(r, turns) ==
  \/ router.limit = 1 /\ router.tools > 0
  \/ /\ turns > 0
     /\ \/ r.role # "execute" \/ "tools" \notin r.caps
        \/ router.tools >= router.limit
        \/ router.limit = 1 /\ \E e \in DOMAIN Endpoint : router.busy[e]

AuthorityCurrent(t) == task[t].gen = auth

-------------------------------------------------------------------------------
\* The Host's store.  A create is refused for an id in use; it may fail, and it
\* may take effect although its acknowledgement is lost.

Outcomes == {"ok", "lost", "fail"}

Unused(kind, id) == \A r \in hstore[kind] : r.id # id

Stored(kind, rec, outcome) ==
  IF Unused(kind, rec.id) /\ outcome # "fail" THEN [hstore EXCEPT ![kind] = @ \cup {rec}] ELSE hstore

Acknowledged(kind, rec, outcome) == Unused(kind, rec.id) /\ outcome = "ok"

\* What the loader requires of an admission intent: bounds, clocks, arithmetic.
AdmissionValid(rec) ==
  /\ rec.max = 0 \/ (rec.max >= 2 /\ rec.req.role = "execute" /\ "tools" \in rec.req.caps)
  /\ rec.deadline > rec.started
  /\ rec.req.hb > 0 /\ rec.req.hb <= rec.deadline - rec.started
  /\ rec.cost = EstimatedCost(rec.ep, rec.req, rec.max)
  /\ rec.cost <= rec.req.budget

AdmissionRecord(t, id, e, r, turns) ==
  [id |-> id, task |-> t, ep |-> e, req |-> r, max |-> turns, started |-> clock,
   deadline |-> clock + r.timeout, cost |-> EstimatedCost(e, r, turns)]

ReviewValid(rec) ==
  /\ rec.segment \in 1..MaxResumes
  /\ rec.turns >= 1 /\ rec.turns < rec.max
  /\ rec.requested < rec.deadline
  /\ rec.execution # rec.previous
  /\ (rec.segment = 1) = (rec.previous = 1)

ReviewRecord(t, id, approved) ==
  [id |-> id, task |-> t, execution |-> task[t].seg + 1, previous |-> task[t].seg,
   approved |-> approved, segment |-> task[t].resumes + 1, turns |-> task[t].turns,
   max |-> task[t].max, requested |-> clock, deadline |-> task[t].deadline, adm |-> task[t].adm]

-------------------------------------------------------------------------------
\* Submission.

NewTask(t, id, e, r, turns) ==
  [NoTask EXCEPT !.live = TRUE, !.ep = e, !.max = turns, !.seg = 1, !.pc = "queued", !.status = "active",
                 !.gen = auth, !.adm = id, !.deadline = clock + r.timeout, !.beat = clock,
                 !.observed = clock, !.hb = r.hb, !.cost = EstimatedCost(e, r, turns), !.req = r]

Reserve(e, turns) ==
  router' = [router EXCEPT !.busy[e] = TRUE, !.tools = @ + (IF turns > 0 THEN 1 ELSE 0)]

\* The intent is written after the endpoint is chosen and before the pool is
\* asked; a failed write or a full pool undoes the reservation, not the record.
Submit(t, id, r, turns, write, admitted) ==
  /\ ~task[t].live /\ task[t].seg = 0
  /\ ~Refused(r, turns)
  /\ \E e \in DOMAIN Endpoint :
       /\ Selected(r, turns, e)
       /\ LET rec == AdmissionRecord(t, id, e, r, turns)
              written == id = NoId \/ (AdmissionValid(rec) /\ Acknowledged("admission", rec, write))
          IN /\ hstore' = IF id # NoId /\ AdmissionValid(rec) THEN Stored("admission", rec, write) ELSE hstore
             /\ IF written /\ admitted
                THEN Reserve(e, turns) /\ task' = [task EXCEPT ![t] = NewTask(t, id, e, r, turns)]
                ELSE UNCHANGED <<router, task>>
  /\ UNCHANGED <<group, auth, clock>>

Retained == {t \in Tasks : task[t].live}
Terminal(t) == task[t].pc = "done"
Status(t) == IF Terminal(t) THEN task[t].status ELSE "active"

SetToolTaskLimit(n) ==
  /\ \A e \in DOMAIN Endpoint : ~router.busy[e]
  /\ router' = [router EXCEPT !.limit = n]
  /\ UNCHANGED <<task, group, hstore, auth, clock>>

-------------------------------------------------------------------------------
\* The worker: the two nodes of the graph, with the runtime's check for
\* cancellation and for the deadline before each node.

\* loop_complete runs before the terminal status is published: a run that ended
\* leaves a pending review when it asks for approval.  After a failed run it does
\* not run.
LoopComplete(v, t, status, asks) ==
  [v EXCEPT ![t].pc = "ending", ![t].status = status,
            ![t].pending = IF status = "failed" THEN @ ELSE asks]
Finish(t, status) == task' = LoopComplete(task, t, status, FALSE)

\* The execution publishes the status; it may have been cancelled meanwhile.
Publish(t) ==
  /\ task[t].pc = "ending"
  /\ task' = [task EXCEPT ![t].pc = "done"]
  /\ UNCHANGED <<router, group, hstore, auth, clock>>

\* loop_halt: the failure is recorded and the graph interrupts at this node.
Halt(t) == Finish(t, "interrupted")

Expired(t) == clock >= task[t].deadline
Stopped(t) == task[t].stop \/ Expired(t)

NodeBoundary(t) ==
  /\ task[t].pc \in {"queued", "model", "tools"}
  /\ \/ task[t].stop /\ Finish(t, "cancelled")
     \/ Expired(t) /\ Finish(t, "timed_out")
  /\ UNCHANGED <<router, group, hstore, auth, clock>>

EnterNode(t) ==
  /\ task[t].pc \in {"queued", "model", "tools"} /\ ~Stopped(t)
  /\ task' = [task EXCEPT ![t].pc = IF @ = "tools" \/ (@ = "queued" /\ task[t].resumes > 0)
                                    THEN "in_tools" ELSE "in_model"]
  /\ UNCHANGED <<router, group, hstore, auth, clock>>

\* What the model answers: text, a tool proposal, or an error.  The turn is
\* spent before the call; a call that was stopped routes back to this node,
\* where the graph ends the run.
ModelNode(t, answer) ==
  LET used == task[t].turns + (IF task[t].max > 0 THEN 1 ELSE 0)
      spent == [task EXCEPT ![t].turns = used]
      loop == task[t].max > 0
      ends(status) == task' = LoopComplete(spent, t, status, FALSE)
  IN  /\ task[t].pc = "in_model"
      /\ CASE ~AuthorityCurrent(t) -> Finish(t, "failed")
           [] AuthorityCurrent(t) /\ loop /\ task[t].turns >= task[t].max -> Halt(t)
           [] OTHER ->
                CASE answer = "error" -> ends("failed")
                  [] answer # "error" /\ Stopped(t) -> task' = [spent EXCEPT ![t].pc = "model"]
                  [] answer = "tool" /\ ~Stopped(t) /\ loop ->
                        IF used < task[t].max THEN task' = [spent EXCEPT ![t].pc = "tools"]
                                              ELSE ends("interrupted")
                  [] answer = "tool" /\ ~Stopped(t) /\ ~loop -> ends("proposal")
                  [] OTHER -> ends("completed")
      /\ UNCHANGED <<router, group, hstore, auth, clock>>

\* A single permitted call with a strict result contract goes on to the gate.
ToolsNode(t, permitted) ==
  /\ task[t].pc = "in_tools"
  /\ IF ~AuthorityCurrent(t) THEN Finish(t, "failed")
     ELSE IF task[t].rejected \/ ~permitted THEN Halt(t)
     ELSE task' = [task EXCEPT ![t].pc = "gate"]
  /\ UNCHANGED <<router, group, hstore, auth, clock>>

\* The gate: cancellation and deadline are looked at before the lane is taken;
\* a stopped waiter goes back to the boundary before this node.
HostToolAcquire(t) ==
  /\ task[t].pc = "gate"
  /\ CASE Stopped(t) ->
              task' = [task EXCEPT ![t].pc = "tools", ![t].waiting = FALSE] /\ UNCHANGED router
       [] ~Stopped(t) /\ ~router.active ->
              /\ router' = [router EXCEPT !.active = TRUE]
              /\ task' = [task EXCEPT ![t].pc = "host", ![t].waiting = FALSE]
       [] OTHER -> /\ ~task[t].waiting
                   /\ task' = [task EXCEPT ![t].waiting = TRUE]
                   /\ UNCHANGED router
  /\ UNCHANGED <<group, hstore, auth, clock>>

HostToolRelease == router' = [router EXCEPT !.active = FALSE]

\* The Host ToolNode under the gate: it asks for approval, runs the tool, or fails.
HostTool(t, outcome) ==
  /\ task[t].pc = "host"
  /\ HostToolRelease
  /\ CASE ~AuthorityCurrent(t) -> Finish(t, "failed")
       [] AuthorityCurrent(t) /\ outcome = "approval" -> task' = LoopComplete(task, t, "interrupted", TRUE)
       [] AuthorityCurrent(t) /\ outcome = "ok" ->
            task' = [task EXCEPT ![t].pc = "model", ![t].effects = @ + 1]
       [] OTHER ->
            task' = LoopComplete([task EXCEPT ![t].effects = @ + 1], t, "interrupted", FALSE)
  /\ UNCHANGED <<group, hstore, auth, clock>>

-------------------------------------------------------------------------------
\* Review of a paused task, under the original deadline.

Reviewable(t) ==
  /\ task[t].live /\ task[t].max > 0 /\ Terminal(t)
  /\ ~task[t].unresponsive /\ ~task[t].rejected
  /\ AuthorityCurrent(t)
  /\ Status(t) = "interrupted" /\ task[t].pending
  /\ task[t].resumes < MaxResumes
  /\ ~Expired(t)

NextSegment(t, id, approved) ==
  [task EXCEPT ![t].rev = id, ![t].seg = @ + 1, ![t].pc = "queued", ![t].status = "active", ![t].resumes = @ + 1,
               ![t].rejected = ~approved, ![t].taken = FALSE,
               ![t].beat = clock, ![t].observed = clock, ![t].stop = FALSE]

TaskReview(t, id, approved, write, admitted) ==
  /\ Reviewable(t)
  /\ LET rec == ReviewRecord(t, id, approved)
         written == id = NoId \/ (ReviewValid(rec) /\ Acknowledged("review", rec, write))
     IN /\ hstore' = IF id # NoId /\ ReviewValid(rec) THEN Stored("review", rec, write) ELSE hstore
        /\ task' = IF written /\ admitted THEN NextSegment(t, id, approved) ELSE task
  /\ UNCHANGED <<router, group, auth, clock>>

\* Cancelling a paused review blocks it for good.
TaskCancel(t) ==
  /\ task[t].live /\ ~task[t].grouped
  /\ IF task[t].max > 0 /\ Status(t) = "interrupted" /\ task[t].pending
     THEN task' = [task EXCEPT ![t].rejected = TRUE]
     ELSE ~Terminal(t) /\ task' = [task EXCEPT ![t].stop = TRUE]
  /\ UNCHANGED <<router, group, hstore, auth, clock>>

-------------------------------------------------------------------------------
\* Supervision.

\* One observation: a running task whose heartbeat is overdue is lost for good.
Observed(t, now) ==
  LET lost == task[t].unresponsive \/ (~Terminal(t) /\ now - task[t].beat >= task[t].hb)
  IN [task[t] EXCEPT !.observed = now, !.unresponsive = lost,
                     !.stop = @ \/ (lost /\ ~task[t].unresponsive)]

TaskPoll(t) ==
  /\ task[t].live /\ ~task[t].grouped
  /\ task' = [task EXCEPT ![t] = Observed(t, clock)]
  /\ UNCHANGED <<router, group, hstore, auth, clock>>

TaskHeartbeat(t) ==
  /\ task[t].live /\ ~task[t].grouped
  /\ LET seen == Observed(t, clock)
     IN task' = [task EXCEPT ![t] = IF seen.unresponsive \/ Terminal(t) THEN seen
                                    ELSE [seen EXCEPT !.beat = clock]]
  /\ UNCHANGED <<router, group, hstore, auth, clock>>

ApprovalPending(t) == Status(t) = "interrupted" /\ task[t].pending /\ ~task[t].rejected

\* What inspect shows and what an observation records.
Inspect(t) ==
  [task |-> t, execution |-> task[t].seg, status |-> Status(t), resumes |-> task[t].resumes,
   max |-> task[t].max, unresponsive |-> task[t].unresponsive, current |-> AuthorityCurrent(t),
   pending |-> ApprovalPending(t), taken |-> task[t].taken, observed |-> task[t].observed]

ObservationValid(rec) ==
  /\ rec.max = 0 => rec.resumes = 0
  /\ rec.resumes = 0 => rec.execution = 1
  /\ rec.status = "active" => ~rec.pending
  /\ rec.pending => rec.status = "interrupted" /\ rec.max > 0

Observation(id, members, kind, built, failed) ==
  [id |-> id, kind |-> kind, built |-> built, failed |-> failed,
   members |-> [i \in DOMAIN members |-> Inspect(members[i])]]

\* Of an observation the store keeps what it is about; the view is validated first.
Kept(rec) == [id |-> rec.id, kind |-> rec.kind,
              members |-> [i \in DOMAIN rec.members |-> <<rec.members[i].task, rec.members[i].execution>>]]

\* The result of a terminal task can be observed while the execution owns it.
RecordObservation(t, id, write) ==
  /\ task[t].live /\ ~(Terminal(t) /\ task[t].taken)
  /\ ObservationValid(Inspect(t))
  /\ hstore' = Stored("observation", Kept(Observation(id, <<t>>, "task", FALSE, FALSE)), write)
  /\ UNCHANGED <<router, task, group, auth, clock>>

\* Withheld: still running, lost, or under an authority that has been replaced.
Deliverable(t) == Terminal(t) /\ ~task[t].unresponsive /\ AuthorityCurrent(t) /\ ~task[t].taken

TaskTakeResult(t, id, write) ==
  /\ task[t].live /\ ~task[t].grouped
  /\ Deliverable(t)
  /\ LET rec == Observation(id, <<t>>, "task", FALSE, FALSE)
     IN /\ hstore' = IF id = NoId THEN hstore ELSE Stored("observation", Kept(rec), write)
        /\ task' = IF id = NoId \/ Acknowledged("observation", rec, write)
                   THEN [task EXCEPT ![t].taken = TRUE] ELSE task
  /\ UNCHANGED <<router, group, auth, clock>>

\* A handle that has been freed; it is not used again.
Gone(t) == [NoTask EXCEPT !.seg = 1]

\* Variant: the tool lane stays counted.
ReleasedKeepsLane(r, S) ==
  [r EXCEPT !.busy = [e \in DOMAIN Endpoint |-> r.busy[e] /\ e \notin {task[t].ep : t \in S}]]

Released(r, S) ==
  [r EXCEPT !.busy = [e \in DOMAIN Endpoint |-> r.busy[e] /\ e \notin {task[t].ep : t \in S}],
            !.tools = @ - Cardinality({t \in S : task[t].max > 0})]

TaskRelease(t) ==
  /\ task[t].live /\ ~task[t].grouped /\ Terminal(t)
  /\ router' = Released(router, {t})
  /\ task' = [task EXCEPT ![t] = Gone(t)]
  /\ UNCHANGED <<group, hstore, auth, clock>>

-------------------------------------------------------------------------------
\* Worker groups.

Members == {group.members[i] : i \in DOMAIN group.members}
MaxOf(S) == CHOOSE n \in S : \A m \in S : m <= n

\* Two or more model-only tasks of one parent on different threads.
GroupAdopt(ts) ==
  /\ group = NoGroup
  /\ Len(ts) >= 2
  /\ \A i \in DOMAIN ts :
       /\ task[ts[i]].live /\ task[ts[i]].max = 0 /\ ~task[ts[i]].grouped /\ ~task[ts[i]].taken
       /\ \A j \in 1..i - 1 : ts[j] # ts[i] /\ task[ts[j]].req.thread # task[ts[i]].req.thread
  /\ group' = [NoGroup EXCEPT !.members = ts, !.observed = MaxOf({task[ts[i]].observed : i \in DOMAIN ts})]
  /\ task' = [t \in Tasks |-> IF t \in {ts[i] : i \in DOMAIN ts} THEN [task[t] EXCEPT !.grouped = TRUE]
                                                                 ELSE task[t]]
  /\ UNCHANGED <<router, hstore, auth, clock>>

\* Failure of one member: anything terminal but a completed answer.
MemberFailed(v, t) ==
  v[t].unresponsive \/ ~AuthorityCurrent(t) \/ (v[t].pc = "done" /\ v[t].status # "completed")

GroupHalted(v) == [t \in Tasks |-> IF t \in Members THEN [v[t] EXCEPT !.stop = TRUE] ELSE v[t]]

\* Every member is observed before the first failure stops the siblings.
Polled == [t \in Tasks |-> IF t \in Members THEN Observed(t, clock) ELSE task[t]]
PollFails == group.failed \/ \E t \in Members : MemberFailed(Polled, t)

GroupPoll ==
  /\ group # NoGroup /\ ~group.taken
  /\ group' = [group EXCEPT !.observed = clock, !.failed = PollFails]
  /\ task' = IF PollFails THEN GroupHalted(Polled) ELSE Polled
  /\ UNCHANGED <<router, hstore, auth, clock>>

GroupHeartbeat(t) ==
  /\ group # NoGroup /\ ~group.taken /\ t \in Members
  /\ group' = [group EXCEPT !.observed = clock, !.failed = PollFails]
  /\ task' = IF PollFails THEN GroupHalted(Polled)
             ELSE IF Terminal(t) THEN Polled ELSE [Polled EXCEPT ![t].beat = clock]
  /\ UNCHANGED <<router, hstore, auth, clock>>

GroupCancel ==
  /\ group # NoGroup /\ ~group.failed /\ ~group.taken
  /\ group' = [group EXCEPT !.failed = TRUE]
  /\ task' = GroupHalted(task)
  /\ UNCHANGED <<router, hstore, auth, clock>>

DeliveryPreflight == ~group.taken /\ \A t \in Members : Deliverable(t)

GroupObservationValid(rec) ==
  /\ \A i \in DOMAIN rec.members :
       /\ ObservationValid(rec.members[i])
       /\ rec.members[i].status # "active" /\ rec.members[i].max = 0 /\ rec.members[i].observed <= group.observed
       /\ rec.members[i].current /\ ~rec.members[i].unresponsive /\ ~rec.members[i].pending
  /\ rec.kind = "aggregation_input" =>
       ~rec.failed /\ ~rec.built /\ \A i \in DOMAIN rec.members : rec.members[i].status = "completed"

\* A failure seen while the input is built halts the group.
GroupBuildInput(id, write) ==
  /\ group # NoGroup /\ ~group.built /\ DeliveryPreflight /\ ~group.failed
  /\ LET rec == Observation(id, group.members, "aggregation_input", group.built, group.failed)
         failed == \E t \in Members : MemberFailed(task, t)
         valid == GroupObservationValid(rec)
     IN /\ hstore' = IF failed \/ id = NoId \/ ~valid THEN hstore ELSE Stored("observation", Kept(rec), write)
        /\ group' = IF failed THEN [group EXCEPT !.failed = TRUE]
                    ELSE IF id = NoId \/ (valid /\ Acknowledged("observation", rec, write))
                    THEN [group EXCEPT !.built = TRUE] ELSE group
        /\ task' = IF failed THEN GroupHalted(task) ELSE task
  /\ UNCHANGED <<router, auth, clock>>

GroupTakeResults(id, write) ==
  /\ group # NoGroup /\ DeliveryPreflight
  /\ LET rec == Observation(id, group.members, "result_collection", group.built, group.failed)
         valid == GroupObservationValid(rec)
         may == id = NoId \/ (valid /\ Acknowledged("observation", rec, write))
     IN /\ hstore' = IF id # NoId /\ valid THEN Stored("observation", Kept(rec), write) ELSE hstore
        /\ group' = IF may THEN [group EXCEPT !.taken = TRUE] ELSE group
        /\ task' = IF may THEN [t \in Tasks |-> [task[t] EXCEPT !.taken = @ \/ t \in Members]] ELSE task
  /\ UNCHANGED <<router, auth, clock>>

GroupRelease ==
  /\ group # NoGroup /\ \A t \in Members : Terminal(t)
  /\ router' = Released(router, Members)
  /\ task' = [t \in Tasks |-> IF t \in Members THEN Gone(t) ELSE task[t]]
  /\ group' = NoGroup
  /\ UNCHANGED <<hstore, auth, clock>>

-------------------------------------------------------------------------------
Tick == clock < MaxClock /\ clock' = clock + 1 /\ UNCHANGED <<router, task, group, hstore, auth>>

\* Policies are replaced only while nothing is queued or running.
ReplacePolicy ==
  /\ auth < MaxGen
  /\ \A t \in Retained : Terminal(t)
  /\ auth' = auth + 1
  /\ UNCHANGED <<router, task, group, hstore, clock>>

\* The process dies; the Host's store is what is left.
Crash ==
  /\ \E t \in Tasks : task[t].live
  /\ task' = [t \in Tasks |-> IF task[t].live THEN Gone(t) ELSE task[t]]
  /\ router' = [busy |-> [e \in DOMAIN Endpoint |-> FALSE], limit |-> 1, tools |-> 0, active |-> FALSE]
  /\ group' = NoGroup
  /\ UNCHANGED <<hstore, auth, clock>>

Worker(t) ==
  \/ EnterNode(t) \/ NodeBoundary(t) \/ HostToolAcquire(t) \/ Publish(t)
  \/ \E a \in {"text", "tool", "error"} : ModelNode(t, a)
  \/ \E p \in BOOLEAN : ToolsNode(t, p)
  \/ \E o \in {"approval", "ok", "failed"} : HostTool(t, o)

MaybeId == Ids \cup {NoId}

Host ==
  \/ \E t \in Tasks, id \in MaybeId, n \in Turns, w \in Outcomes, a \in BOOLEAN : \E r \in Requests[t] :
       Submit(t, id, r, n, w, a)
  \/ \E t \in Tasks, id \in MaybeId, ok, a \in BOOLEAN, w \in Outcomes : TaskReview(t, id, ok, w, a)
  \/ \E t \in Tasks, id \in MaybeId, w \in Outcomes : TaskTakeResult(t, id, w)
  \/ \E t \in Tasks, id \in Ids, w \in Outcomes : RecordObservation(t, id, w)
  \/ \E t \in Tasks : TaskCancel(t) \/ TaskPoll(t) \/ TaskHeartbeat(t) \/ TaskRelease(t) \/ GroupHeartbeat(t)
  \/ \E n \in Limits : SetToolTaskLimit(n)
  \/ \E s, t \in Tasks : GroupAdopt(<<s, t>>)
  \/ \E id \in MaybeId, w \in Outcomes : GroupBuildInput(id, w) \/ GroupTakeResults(id, w)
  \/ GroupPoll \/ GroupCancel \/ GroupRelease

RouterNext == (\E t \in Tasks : Worker(t)) \/ Host \/ Tick \/ ReplacePolicy \/ Crash

RouterSpec == RouterInit /\ [][RouterNext]_routerVars

-------------------------------------------------------------------------------
\* A slot is held from admission to release and no longer: an endpoint is busy
\* exactly while one task holds it, the tool count is that of the retained tool
\* loops and within the limit, a loop under limit 1 is alone, and the Host tool
\* gate is closed exactly while one worker is behind it, whatever was cancelled,
\* lost, refused by the pool or released in between.
LanesAccounted ==
  /\ \A e \in DOMAIN Endpoint :
       Cardinality({t \in Retained : task[t].ep = e}) = IF router.busy[e] THEN 1 ELSE 0
  /\ router.tools = Cardinality({t \in Retained : task[t].max > 0})
  /\ router.tools <= router.limit
  /\ router.limit = 1 /\ router.tools = 1 => Cardinality(Retained) = 1
  /\ Cardinality({t \in Tasks : task[t].pc = "host"}) = IF router.active THEN 1 ELSE 0

\* Work dispatched under an intent is the work the surviving record describes:
\* the record of a live task's admission (or of its current review segment) names
\* this task, endpoint, estimate and execution, passes the loader's validation,
\* and no id stands for two attempts, although writes fail, lose their
\* acknowledgement, and the pool refuses after the write.
IntentsTruthful ==
  /\ \A t \in Retained : task[t].adm # NoId =>
       \E rec \in hstore.admission :
         /\ rec.id = task[t].adm /\ rec.task = t /\ rec.ep = task[t].ep /\ rec.cost = task[t].cost
         /\ rec.deadline = task[t].deadline /\ AdmissionValid(rec)
  /\ \A t \in Retained : task[t].rev # NoId =>
       \E rec \in hstore.review :
         /\ rec.id = task[t].rev /\ rec.task = t /\ rec.execution = task[t].seg
         /\ rec.segment = task[t].resumes /\ rec.adm = task[t].adm /\ (rec.approved \/ task[t].rejected)
  /\ \A k \in DOMAIN hstore : \A a, b \in hstore[k] : a.id = b.id => a = b

\* Loss is final: a task the Host has seen miss its heartbeat delivers nothing,
\* by itself or in a group, and a group whose input was published consists of
\* completed, responsive members.
LostNeverDelivered ==
  /\ \A t \in Retained : task[t].unresponsive => ~task[t].taken
  /\ group.built => \A t \in Members : task[t].status = "completed" /\ ~task[t].unresponsive
  /\ group.taken => \A t \in Members : task[t].taken

\* A tool effect needs a live grant: no worker runs a Host tool for a task whose
\* review was rejected or cancelled, after its last model turn, or under an
\* authority that has been replaced since admission.
RefusedNeverRunsStep ==
     \A t \in Tasks : task'[t].effects > task[t].effects =>
        ~task[t].rejected /\ task[t].gen = auth /\ task[t].turns < task[t].max
RefusedNeverRuns == [][RefusedNeverRunsStep]_routerVars
=============================================================================
