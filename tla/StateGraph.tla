----------------------------- MODULE StateGraph -----------------------------
(***************************************************************************)
(* The state graph of runtime/src/turbo_state_graph.c: threads, runs and a *)
(* history of checkpoints, which a host starts, resumes, updates, resumes  *)
(* from history and forks, and the snapshot store of                       *)
(* runtime/src/turbo_state_graph_store.c that carries them over a restart. *)
(*                                                                         *)
(* graph is the C structure without its topology.  It is used by one       *)
(* thread, so between the actions of one call (call # None) nothing else   *)
(* runs; what the node callbacks and edge predicates answer is chosen from *)
(* Outcomes and from Routes.  Calls that return an error before they       *)
(* change anything are stuttering steps and are left out.  Memory          *)
(* exhaustion is not modelled.                                             *)
(***************************************************************************)
EXTENDS Integers, Sequences, FiniteSets, SequencesExt

CONSTANTS
    NoValue, NoRoute, Torn,
    Node,               \* the node names
    EntryNode,
    Version,            \* program versions, each with its own edges
    FirstVersion,       \* the one that runs first
    Edges,              \* [Version -> Seq([from, to, conditional])]
    Channel,            \* the channel names
    Reducer,            \* [Channel -> the reducer kinds]
    ValueKind,          \* [Channel -> JSON types]; "null" accepts every type
    DefaultValue,       \* [Channel -> JSON values]
    ThreadId,           \* thread ids a host asks for
    AutoId(_),          \* the id generated from a counter: "thread-%zu"
    Updates,            \* the updates hosts and callbacks make
    NodeOutcomes,           \* what a node callback does with its context
    RunOptions,         \* [max, start, interrupts, skip]
    SnapshotId,
    Newer(_, _),        \* strcmp(a, b) > 0 on snapshot ids
    MaxCalls,               \* bounds of the model: calls on the graph,
    MaxSaves, MaxRestarts   \* snapshots written and restarts

ASSUME ChannelAssumption ==
    /\ Reducer \in [Channel -> {"replace", "append", "merge_object", "add", "last_non_null"}]
    /\ DOMAIN ValueKind = Channel
    /\ DOMAIN DefaultValue = Channel

VARIABLES
    graph,      \* threads, runs, history entries and the id counters
    call,       \* the execute_run in progress, or None
    version,    \* the program version now running
    store,      \* [SnapshotId -> a snapshot, Torn or None]
    calls,      \* calls made on the graph so far
    saves,      \* snapshots written so far
    restarts    \* restarts so far

sgVars == <<graph, call, version, store, calls, saves, restarts>>

-----------------------------------------------------------------------------
(* The typed channels, and how one update is reduced into the state        *)
(* (validate_channel_value, merge_object_values, reduce_channel,           *)
(* apply_update).  A JSON value is a record with its type t and its        *)
(* content v.  A state is a function from every channel to a value:        *)
(* seed_defaults writes all of them before anything else touches the       *)
(* object.  An update is a sequence of <<key, value>> pairs, because       *)
(* apply_update works in the order of the keys and does not undo the       *)
(* earlier ones when a later one fails.                                    *)
JNull == [t |-> "null"]
JNumber(n) == [t |-> "number", v |-> n]
JString(s) == [t |-> "string", v |-> s]
JArray(q) == [t |-> "array", v |-> q]
JObject(f) == [t |-> "object", v |-> f]

\* What the reducers answer in place of a value when the types disagree.
Mismatch == [t |-> "mismatch"]

ValidChannelValue(ch, value) ==
    \/ value.t = "null" \/ ValueKind[ch] = "null"
    \/ /\ Reducer[ch] = "append" /\ value.t = "array"
       /\ \A i \in DOMAIN value.v : value.v[i].t \in {ValueKind[ch], "null"}
    \/ /\ ~(Reducer[ch] = "append" /\ value.t = "array")
       /\ value.t = ValueKind[ch]

\* Objects are merged key by key, and where both sides hold an object the
\* merge goes on below it; any other value of the update wins.
RECURSIVE MergeObject(_, _)
MergeObject(current, update) ==
    IF update.t # "object" \/ current.t \notin {"object", "null"} THEN Mismatch
    ELSE LET old == IF current.t = "object" THEN current.v ELSE << >>
             Child(k) ==
                 IF k \notin DOMAIN update.v THEN old[k]
                 ELSE IF k \in DOMAIN old /\ old[k].t = "object" /\ update.v[k].t = "object"
                      THEN MergeObject(old[k], update.v[k])
                      ELSE update.v[k]
         IN JObject([k \in DOMAIN old \cup DOMAIN update.v |-> Child(k)])

AppendItems(ch, current, update) ==
    LET items == IF update.t = "array" THEN update.v ELSE <<update>>
        old == IF current.t = "array" THEN current.v ELSE << >>
    IN IF /\ current.t \in {"array", "null"}
          /\ \A i \in DOMAIN items : ValidChannelValue(ch, items[i])
       THEN JArray(old \o items)
       ELSE Mismatch

\* The reducer kinds replace and last_non_null validate the update first; the
\* other three do their own checks.
Reduce(ch, current, update) ==
    CASE Reducer[ch] = "replace" ->
             IF ValidChannelValue(ch, update) THEN update ELSE Mismatch
      [] Reducer[ch] = "last_non_null" ->
             IF ~ValidChannelValue(ch, update) THEN Mismatch
             ELSE IF update.t = "null" THEN current ELSE update
      [] Reducer[ch] = "append" -> AppendItems(ch, current, update)
      [] Reducer[ch] = "merge_object" -> MergeObject(current, update)
      [] Reducer[ch] = "add" ->
             IF update.t # "number" \/ current.t \notin {"number", "null"} THEN Mismatch
             ELSE JNumber((IF current.t = "number" THEN current.v ELSE 0) + update.v)

\* Is pair i of the update acceptable in this state?
Accepts(state, pair) ==
    pair[1] \in Channel /\ Reduce(pair[1], state[pair[1]], pair[2]) # Mismatch

\* The pairs are applied in order up to the first that fails; what was applied
\* before it stays in the state.
RECURSIVE ApplyUpdate(_, _)
ApplyUpdate(state, update) ==
    IF update = << >> THEN [ok |-> TRUE, state |-> state]
    ELSE LET pair == Head(update)
         IN IF ~Accepts(state, pair) THEN [ok |-> FALSE, state |-> state]
            ELSE ApplyUpdate([state EXCEPT ![pair[1]] = Reduce(pair[1], @, pair[2])],
                             Tail(update))

SeedDefaults == DefaultValue

-----------------------------------------------------------------------------
EmptyGraph ==
    [threads |-> << >>, runs |-> << >>, history |-> << >>,
     next_thread_id |-> 0, next_run_id |-> 0, next_history_id |-> 0]

FindThread(g, id) == SelectInSeq(g.threads, LAMBDA t : t.id = id)
FindRun(g, id) == SelectInSeq(g.runs, LAMBDA r : r.id = id)
FindHistory(g, id) == SelectInSeq(g.history, LAMBDA h : h.id = id)

\* The position of the thread record a start uses.  A requested id is looked
\* up; a generated one is not, and always gets a record of its own.
ThreadIndex(g, id) ==
    IF id # NoValue /\ FindThread(g, id) # 0 THEN FindThread(g, id) ELSE Len(g.threads) + 1

AddThreadRecord(g, id) ==
    IF id = NoValue
    THEN [g EXCEPT !.next_thread_id = @ + 1,
                   !.threads = Append(@, [id |-> AutoId(g.next_thread_id + 1), current |-> NoValue])]
    ELSE IF FindThread(g, id) # 0 THEN g
    ELSE [g EXCEPT !.threads = Append(@, [id |-> id, current |-> NoValue])]

AddRunRecord(g, thread, parent, forked, state, node, steps) ==
    [g EXCEPT !.next_run_id = @ + 1,
              !.runs = Append(@, [id |-> g.next_run_id + 1, thread |-> thread,
                                  parent |-> parent, forked_from |-> forked,
                                  latest |-> NoValue, node |-> node, steps |-> steps,
                                  interrupted |-> FALSE, completed |-> node = NoValue,
                                  state |-> state, failed |-> FALSE])]

\* Records run i as it now stands.  The field failed is an observer: some call
\* on the run has returned an error since its latest history entry.
AddHistoryRecord(g, i, kind, last, next, step, update) ==
    LET run == g.runs[i]
        id == g.next_history_id + 1
    IN [g EXCEPT !.next_history_id = id,
                 !.history = Append(@, [id |-> id, thread |-> run.thread, run |-> run.id,
                                        kind |-> kind, last |-> last, next |-> next,
                                        step |-> step, update |-> update,
                                        state |-> run.state]),
                 !.runs[i].latest = id,
                 !.runs[i].failed = FALSE]

\* An update reaches the run's own state object even when it fails half way.
WithUpdate(g, i, update) ==
    [g EXCEPT !.runs[i].state = ApplyUpdate(@, update).state,
              !.runs[i].failed = @ \/ ~ApplyUpdate(g.runs[i].state, update).ok]

Applies(g, i, update) == ApplyUpdate(g.runs[i].state, update).ok

WithFailure(g, i) == [g EXCEPT !.runs[i].failed = TRUE]

SeedRun(g, i, kind, update, node, step) ==
    IF ~Applies(g, i, update) THEN WithUpdate(g, i, update)
    ELSE AddHistoryRecord(
             [WithUpdate(g, i, update) EXCEPT !.runs[i].node = node, !.runs[i].steps = step,
                                              !.runs[i].completed = node = NoValue,
                                              !.runs[i].interrupted = FALSE],
             i, kind, NoValue, node, step, update)

\* execute_run on run i, before its first iteration.
Execution(g, i, options) ==
    [run |-> i, options |-> options, skip |-> options.skip, pc |-> "loop",
     node |-> IF options.start # NoValue THEN options.start ELSE g.runs[i].node,
     steps |-> g.runs[i].steps, outcome |-> NoValue, sends |-> << >>]

-----------------------------------------------------------------------------
\* The calls of the host.

SGInit ==
    /\ graph = EmptyGraph
    /\ call = NoValue
    /\ version = FirstVersion
    /\ store = [s \in SnapshotId |-> NoValue]
    /\ calls = 0
    /\ saves = 0
    /\ restarts = 0

\* A call begins.
Begin == call = NoValue /\ calls < MaxCalls /\ calls' = calls + 1

Start(id, input, options) ==
    LET node == IF options.start # NoValue THEN options.start ELSE EntryNode
        t == ThreadIndex(graph, id)
        added == AddThreadRecord(graph, id)
        i == Len(graph.runs) + 1
        seeded == SeedRun(AddRunRecord(added, added.threads[t].id, NoValue, NoValue,
                                       SeedDefaults, node, 0),
                          i, "start", input, node, 0)
    IN /\ Begin
       /\ IF seeded.runs[i].failed
          THEN graph' = seeded /\ call' = NoValue
          ELSE /\ graph' = [seeded EXCEPT !.threads[t].current = seeded.runs[i].id]
               /\ call' = Execution(seeded, i, options)
       /\ UNCHANGED <<version, store, saves, restarts>>

Resume(i, options) ==
    LET t == FindThread(graph, graph.runs[i].thread)
    IN /\ Begin
       /\ graph.runs[i].node # NoValue
       /\ t # 0
       /\ graph' = [graph EXCEPT !.threads[t].current = graph.runs[i].id]
       /\ call' = Execution(graph, i, options)
       /\ UNCHANGED <<version, store, saves, restarts>>

\* update_state: the host acts in the name of a node.
UpdateState(i, update, as) ==
    LET updated == WithUpdate(graph, i, update)
    IN /\ Begin
       /\ graph' = IF ~Applies(graph, i, update) THEN updated
                   ELSE AddHistoryRecord(updated, i, "host", as, updated.runs[i].node,
                                         updated.runs[i].steps, update)
       /\ UNCHANGED <<call, version, store, saves, restarts>>

\* branch_from_history: a new run from an entry's state.  A resume becomes the
\* thread's current run, a fork (kind = "fork") does not.
BranchFromHistory(h, kind, update, options) ==
    LET entry == graph.history[h]
        t == FindThread(graph, entry.thread)
        i == Len(graph.runs) + 1
        seeded == SeedRun(AddRunRecord(graph, entry.thread, entry.run,
                                       IF kind = "fork" THEN entry.id ELSE NoValue,
                                       entry.state, entry.next, entry.step),
                          i, kind, update, entry.next, entry.step)
    IN /\ Begin
       /\ FindRun(graph, entry.run) # 0 /\ t # 0
       /\ IF seeded.runs[i].failed
          THEN graph' = seeded /\ call' = NoValue
          ELSE /\ graph' = IF kind = "fork" THEN seeded
                           ELSE [seeded EXCEPT !.threads[t].current = seeded.runs[i].id]
               /\ call' = IF seeded.runs[i].node = NoValue THEN NoValue
                          ELSE Execution(seeded, i, options)
       /\ UNCHANGED <<version, store, saves, restarts>>

-----------------------------------------------------------------------------
\* The loop of execute_run.

InLoop(pc) == call # NoValue /\ call.pc = pc

MaxStepsReached == call.options.max > 0 /\ call.steps >= call.options.max

InterruptsHere == ~call.skip /\ call.node \in call.options.interrupts

Return == call' = NoValue

StepLimit ==
    /\ InLoop("loop") /\ call.node # NoValue /\ MaxStepsReached
    /\ graph' = [graph EXCEPT !.runs[call.run].node = call.node,
                              !.runs[call.run].interrupted = FALSE,
                              !.runs[call.run].completed = FALSE]
    /\ Return
    /\ UNCHANGED <<version, store, calls, saves, restarts>>

Interrupt ==
    /\ InLoop("loop") /\ call.node # NoValue /\ ~MaxStepsReached /\ InterruptsHere
    /\ graph' = [graph EXCEPT !.runs[call.run].node = call.node,
                              !.runs[call.run].interrupted = TRUE,
                              !.runs[call.run].completed = FALSE]
    /\ Return
    /\ UNCHANGED <<version, store, calls, saves, restarts>>

\* The node runs, its update is applied, and its sends are queued.
RunNode(outcome) ==
    /\ InLoop("loop") /\ call.node # NoValue /\ ~MaxStepsReached /\ ~InterruptsHere
    /\ IF call.node \notin Node \/ outcome.rc # 0
       THEN graph' = WithFailure(graph, call.run) /\ Return
       ELSE /\ graph' = WithUpdate(graph, call.run, outcome.update)
            /\ call' = IF ~Applies(graph, call.run, outcome.update) THEN NoValue
                       ELSE [call EXCEPT !.pc = "sends", !.skip = FALSE,
                                         !.outcome = outcome, !.sends = outcome.sends]
    /\ UNCHANGED <<version, store, calls, saves, restarts>>

\* execute_send_node: the payload is applied and recorded, the target's
\* callback runs, and its update is applied and recorded.  A target may not
\* route, stop or send.
ExecuteSend(outcome) ==
    LET send == Head(call.sends)
        payload == WithUpdate(graph, call.run, send.update)
        sent == AddHistoryRecord(payload, call.run, "node", NoValue, send.to,
                                 call.steps + 1, send.update)
        run == WithUpdate(sent, call.run, outcome.update)
        refused == outcome.rc # 0 \/ outcome.sends # << >> \/ outcome.next # NoValue \/ outcome.stop
    IN /\ InLoop("sends") /\ call.sends # << >>
       /\ \/ /\ send.to \notin Node
             /\ graph' = WithFailure(graph, call.run) /\ Return
          \/ /\ send.to \in Node /\ ~Applies(graph, call.run, send.update)
             /\ graph' = payload /\ Return
          \/ /\ send.to \in Node /\ Applies(graph, call.run, send.update)
             /\ refused
             /\ graph' = WithFailure(sent, call.run) /\ Return
          \/ /\ send.to \in Node /\ Applies(graph, call.run, send.update)
             /\ ~refused /\ ~Applies(sent, call.run, outcome.update)
             /\ graph' = run /\ Return
          \/ /\ send.to \in Node /\ Applies(graph, call.run, send.update)
             /\ ~refused /\ Applies(sent, call.run, outcome.update)
             /\ graph' = AddHistoryRecord(run, call.run, "node", send.to, NoValue,
                                          call.steps + 1, outcome.update)
             /\ call' = [call EXCEPT !.sends = Tail(@)]
       /\ UNCHANGED <<version, store, calls, saves, restarts>>

\* Where the edges may lead from a node: to the target of an edge whose earlier
\* siblings all have a predicate, nowhere when the node has no edge, and to
\* NoRoute when every edge has a predicate.
Routes(node) ==
    LET es == Edges[version]
        out == {e \in DOMAIN es : es[e].from = node}
    IN IF out = {} THEN {NoValue}
       ELSE {es[e].to : e \in {f \in out : \A d \in out : d < f => es[d].conditional}}
            \cup (IF \A e \in out : es[e].conditional THEN {NoRoute} ELSE {})

\* Faulty variant: the flag of an interrupted run survives its resumption.
AdvanceKeepsInterrupted(next) ==
    LET moved == [graph EXCEPT !.runs[call.run].steps = call.steps + 1,
                               !.runs[call.run].node = next,
                               !.runs[call.run].completed = next = NoValue]
        recorded == AddHistoryRecord(moved, call.run, "node", call.node, next,
                                     call.steps + 1, call.outcome.update)
    IN /\ InLoop("sends") /\ call.sends = << >>
       /\ next \in IF call.outcome.next # NoValue THEN {call.outcome.next} ELSE Routes(call.node)
       /\ \/ /\ next = NoRoute
             /\ graph' = WithFailure(graph, call.run) /\ Return
          \/ /\ next # NoRoute /\ call.outcome.stop
             /\ graph' = [recorded EXCEPT !.runs[call.run].node = NoValue,
                                          !.runs[call.run].completed = TRUE]
             /\ Return
          \/ /\ next # NoRoute /\ ~call.outcome.stop
             /\ graph' = recorded
             /\ call' = [call EXCEPT !.pc = "loop", !.node = next, !.steps = @ + 1,
                                     !.outcome = NoValue]
       /\ UNCHANGED <<version, store, calls, saves, restarts>>

\* The end of an iteration: the route is resolved, the step counted and
\* recorded.  A node that asked to stop ends the run after its record.
Advance(next) ==
    LET moved == [graph EXCEPT !.runs[call.run].steps = call.steps + 1,
                               !.runs[call.run].node = next,
                               !.runs[call.run].interrupted = FALSE,
                               !.runs[call.run].completed = next = NoValue]
        recorded == AddHistoryRecord(moved, call.run, "node", call.node, next,
                                     call.steps + 1, call.outcome.update)
    IN /\ InLoop("sends") /\ call.sends = << >>
       /\ next \in IF call.outcome.next # NoValue THEN {call.outcome.next} ELSE Routes(call.node)
       /\ \/ /\ next = NoRoute
             /\ graph' = WithFailure(graph, call.run) /\ Return
          \/ /\ next # NoRoute /\ call.outcome.stop
             /\ graph' = [recorded EXCEPT !.runs[call.run].node = NoValue,
                                          !.runs[call.run].completed = TRUE,
                                          !.runs[call.run].interrupted = FALSE]
             /\ Return
          \/ /\ next # NoRoute /\ ~call.outcome.stop
             /\ graph' = recorded
             /\ call' = [call EXCEPT !.pc = "loop", !.node = next, !.steps = @ + 1,
                                     !.outcome = NoValue]
       /\ UNCHANGED <<version, store, calls, saves, restarts>>

Finish ==
    /\ InLoop("loop") /\ call.node = NoValue
    /\ Return
    /\ UNCHANGED <<graph, version, store, calls, saves, restarts>>

-----------------------------------------------------------------------------
\* The snapshot and its store.

RunStatus(run) ==
    IF run.completed THEN "completed" ELSE IF run.interrupted THEN "interrupted" ELSE "running"

\* run_object writes one status word for the two flags, import_runs reads the
\* flags back from it.
RunObject(run) ==
    [status |-> RunStatus(run), fields |-> [run EXCEPT !.interrupted = FALSE, !.completed = FALSE]]

ImportRun(object) ==
    [object.fields EXCEPT !.interrupted = object.status = "interrupted",
                          !.completed = object.status = "completed"]

\* topology_snapshot lists the edges without their predicates.
Topology(v) == [e \in DOMAIN Edges[v] |-> <<Edges[v][e].from, Edges[v][e].to>>]

SerializeSnapshot(v, g) ==
    [topology |-> Topology(v),
     runtime |-> [g EXCEPT !.runs = [i \in DOMAIN @ |-> RunObject(@[i])]]]

ImportRuntime(runtime) == [runtime EXCEPT !.runs = [i \in DOMAIN @ |-> ImportRun(@[i])]]

IsSnapshot(s) == store[s] \notin {NoValue, Torn}

SaveSnapshot(s) ==
    /\ call = NoValue
    /\ graph.runs # << >>
    /\ saves < MaxSaves /\ saves' = saves + 1
    /\ store' = [store EXCEPT ![s] = SerializeSnapshot(version, graph)]
    /\ UNCHANGED <<graph, call, version, calls, restarts>>

DeleteSnapshot(s) ==
    /\ call = NoValue /\ store[s] # NoValue
    /\ store' = [store EXCEPT ![s] = NoValue]
    /\ UNCHANGED <<graph, call, version, calls, saves, restarts>>

\* turbo_state_graph_validate_topology_snapshot: the names of the nodes each edge joins.
ValidTopologySnapshot(s) == store[s].topology = Topology(version)

\* A snapshot of another topology is refused and the graph is left as it was.
LoadSnapshot(s) ==
    /\ call = NoValue /\ IsSnapshot(s)
    /\ ValidTopologySnapshot(s)
    /\ graph' = ImportRuntime(store[s].runtime)
    /\ UNCHANGED <<call, version, store, calls, saves, restarts>>

DescriptorIsNewer(a, b) ==
    LET x == store[a].runtime
        y == store[b].runtime
    IN IF x.next_history_id # y.next_history_id THEN x.next_history_id > y.next_history_id
       ELSE IF x.next_run_id # y.next_run_id THEN x.next_run_id > y.next_run_id
       ELSE IF x.next_thread_id # y.next_thread_id THEN x.next_thread_id > y.next_thread_id
       ELSE Newer(a, b)

MatchesOptions(s, thread) == thread = NoValue \/ FindThread(store[s].runtime, thread) # 0

\* The listing reads every snapshot of the store, so an unreadable one fails it
\* whatever the filter.
ListFails == \E s \in SnapshotId : store[s] = Torn

ListFiltered(thread) == {s \in SnapshotId : IsSnapshot(s) /\ MatchesOptions(s, thread)}

LoadLatestSnapshot(thread) ==
    /\ ~ListFails
    /\ \E s \in ListFiltered(thread) :
          /\ \A o \in ListFiltered(thread) \ {s} : DescriptorIsNewer(s, o)
          /\ LoadSnapshot(s)

\* The process ends and is started again, perhaps in another version, with an
\* empty graph; in the file store the end may come in the middle of a write.
Restart ==
    /\ restarts < MaxRestarts
    /\ restarts' = restarts + 1
    /\ graph' = EmptyGraph
    /\ call' = NoValue
    /\ version' \in Version
    /\ UNCHANGED calls
    /\ \/ UNCHANGED <<store, saves>>
       \/ /\ call = NoValue /\ graph.runs # << >>
          /\ saves < MaxSaves /\ saves' = saves + 1
          /\ \E s \in SnapshotId : store' = [store EXCEPT ![s] = Torn]

HostCall ==
    \/ \E options \in RunOptions :
          \/ \E id \in ThreadId \cup {NoValue}, input \in Updates : Start(id, input, options)
          \/ \E i \in DOMAIN graph.runs : Resume(i, options)
          \/ \E h \in DOMAIN graph.history, kind \in {"host", "fork"}, update \in Updates :
                BranchFromHistory(h, kind, update, options)
    \/ \E i \in DOMAIN graph.runs, update \in Updates : UpdateState(i, update, EntryNode)

ExecuteRun ==
    \/ StepLimit \/ Interrupt \/ Finish
    \/ \E outcome \in NodeOutcomes : RunNode(outcome) \/ ExecuteSend(outcome)
    \/ \E next \in Node \cup {NoValue, NoRoute} : Advance(next)

StoreCall ==
    \/ \E s \in SnapshotId : SaveSnapshot(s) \/ DeleteSnapshot(s) \/ LoadSnapshot(s)
    \/ \E thread \in ThreadId \cup {NoValue} : LoadLatestSnapshot(thread)

SGNext == HostCall \/ ExecuteRun \/ StoreCall \/ Restart

SGSpec == SGInit /\ [][SGNext]_sgVars

-----------------------------------------------------------------------------
\* Properties.

Unique(seq) == \A i, j \in DOMAIN seq : seq[i].id = seq[j].id => i = j

(***************************************************************************)
(* Every id kept in the graph leads somewhere, and to the right place: a   *)
(* run's latest entry and its parent are of the run's own thread, an entry *)
(* is of a run of its thread, a thread's current run is a run of that      *)
(* thread, and no two runs or entries share an id.  Runs are resumed and   *)
(* branched by id, and a snapshot loaded over a younger graph takes the id *)
(* counters back with it (load_snapshot).                                  *)
(***************************************************************************)
RefsResolve ==
    /\ Unique(graph.runs) /\ Unique(graph.history)
    /\ \A i \in DOMAIN graph.runs :
         LET run == graph.runs[i] IN
         /\ run.latest # NoValue =>
              \E h \in DOMAIN graph.history :
                 /\ graph.history[h].id = run.latest
                 /\ graph.history[h].run = run.id /\ graph.history[h].thread = run.thread
         /\ run.parent # NoValue =>
              \E j \in 1..(i - 1) :
                 graph.runs[j].id = run.parent /\ graph.runs[j].thread = run.thread
         /\ run.forked_from # NoValue =>
              \E h \in DOMAIN graph.history :
                 graph.history[h].id = run.forked_from /\ graph.history[h].run = run.parent
    /\ \A h \in DOMAIN graph.history :
         \E i \in DOMAIN graph.runs :
            /\ graph.runs[i].id = graph.history[h].run
            /\ graph.runs[i].thread = graph.history[h].thread
    /\ \A t \in DOMAIN graph.threads :
         graph.threads[t].current # NoValue =>
            \E i \in DOMAIN graph.runs :
               /\ graph.runs[i].id = graph.threads[t].current
               /\ graph.runs[i].thread = graph.threads[t].id

(***************************************************************************)
(* Between calls, a run none of whose calls has failed since its latest    *)
(* history entry has exactly the state of that entry: a host that resumes  *)
(* or forks from the entry continues from what the run itself would        *)
(* continue from (execute_run, execute_send_node, update_state).           *)
(***************************************************************************)
RecordedState ==
    call = NoValue =>
        \A i \in DOMAIN graph.runs :
            ~graph.runs[i].failed =>
                /\ graph.runs[i].latest # NoValue
                /\ graph.runs[i].state
                      = graph.history[FindHistory(graph, graph.runs[i].latest)].state

(***************************************************************************)
(* A snapshot loads back as the graph it was made from: the status word of *)
(* a run stands for both flags, so no run may be interrupted and completed *)
(* at once, and the flags agree with whether a node is left to run         *)
(* (run_object, import_runs).                                              *)
(***************************************************************************)
SnapshotRoundTrip ==
    /\ ImportRuntime(SerializeSnapshot(version, graph).runtime) = graph
    /\ call = NoValue =>
         \A i \in DOMAIN graph.runs :
            LET run == graph.runs[i] IN
            /\ run.completed <=> run.node = NoValue
            /\ run.interrupted => run.node # NoValue

(***************************************************************************)
(* Branches are isolated: except by loading a snapshot or restarting, no   *)
(* entry ever changes or goes away, one step changes at most one run, and  *)
(* creating a fork changes neither an earlier run nor which run is its     *)
(* thread's current one (branch_from_history, json_clone of the state).    *)
(***************************************************************************)
BranchesIsolatedStep ==
        \/ restarts' # restarts
        \/ \E s \in SnapshotId : LoadSnapshot(s)
        \/ /\ IsPrefix(graph.history, graph'.history)
           /\ Len(graph'.runs) >= Len(graph.runs)
           /\ LET changed == {i \in DOMAIN graph.runs : graph'.runs[i] # graph.runs[i]}
              IN /\ Cardinality(changed) <= 1
                 /\ Len(graph'.runs) > Len(graph.runs) =>
                      /\ changed = {}
                      /\ graph'.runs[Len(graph'.runs)].forked_from # NoValue
                            => graph'.threads = graph.threads
BranchesIsolated == [][BranchesIsolatedStep]_sgVars
=============================================================================
