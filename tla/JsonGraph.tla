------------------------------ MODULE JsonGraph ------------------------------
(***************************************************************************)
(* The JSON graph engine (runtime/src/turbo_graph.c): a host builds a      *)
(* graph of nodes and edges, runs it with a step limit, nodes to interrupt *)
(* before and a cancel token, keeps the checkpoint its callback was given  *)
(* last, and resumes from it, perhaps after it has changed the graph.      *)
(*                                                                         *)
(* The JSON state of a run is abstracted to the sequence of the nodes that *)
(* have worked on it.  A node is a record of what its callback does:       *)
(* status (an error, going on, stopping) and the next node it asks for.    *)
(* Both engines are modelled: "json" (turbo_graph_run_internal, callbacks  *)
(* on the state in place) and "value" (.._run_internal_json_value, with a  *)
(* cancel token).                                                          *)
(***************************************************************************)
EXTENDS Integers, Sequences, SequencesExt, FiniteSets, TLC

CONSTANTS
    NodeChoices,   \* the nodes a host may add
    EdgeChoices,   \* the edges a host may add
    StartNodes,    \* the values of start_node; NoNode is not given
    InterruptSets, \* the values of interrupt_before_nodes
    StepLimits,    \* the values of max_steps; 0 is no limit
    MaxGEdges      \* bound on the edges of a graph

VARIABLES
    graph,   \* [nodes, edges, entry, topo]: topo is the cached topology id
    run,     \* the run in progress or the last one
    ckpt,    \* the last checkpoint the host was given
    cancel   \* what the cancel token says

gVars == <<graph, run, ckpt, cancel>>

NoNode == "none"

NoTopology == <<>>

NoCheckpoint == [next |-> NoNode, steps |-> 0, state |-> <<>>, topo |-> NoTopology]

(* ------------------------------ the graph ------------------------------- *)

NodeNames(g) == {g.nodes[i].name : i \in 1..Len(g.nodes)}

\* turbo_graph_find_node_index.
NodeOf(g, n) == g.nodes[CHOOSE i \in 1..Len(g.nodes) : g.nodes[i].name = n]

\* turbo_graph_topology_json_create: the entry, the nodes and the edges with their kinds, each
\* sorted, so that the order in which they were added does not show.
TopologyId(g) ==
    LET nodes == {[name |-> g.nodes[i].name, kind |-> g.nodes[i].kind] : i \in 1..Len(g.nodes)}
        ref(e) == [from |-> e.from, to |-> e.to, kind |-> e.kind]
        refs == {ref(g.edges[i]) : i \in 1..Len(g.edges)}
    IN  <<g.entry, nodes, [r \in refs |-> Cardinality({i \in 1..Len(g.edges) : ref(g.edges[i]) = r})]>>

\* turbo_graph_topology_id: built once and kept until the graph changes.
WithTopology(g) == IF g.topo # NoTopology THEN g ELSE [g EXCEPT !.topo = TopologyId(g)]

\* turbo_graph_invalidate_topology_id.
Invalidated(g) == [g EXCEPT !.topo = NoTopology]

Building == run.pc = "idle"

\* turbo_graph_add_node_ex and turbo_graph_add_json_value_node_ex: names are unique.
AddNode(n) ==
    /\ Building /\ n.name \notin NodeNames(graph)
    /\ graph' = Invalidated([graph EXCEPT !.nodes = Append(@, n)])
    /\ UNCHANGED <<run, ckpt, cancel>>

\* turbo_graph_add_edge_ex and turbo_graph_add_json_value_edge_ex: both ends exist.
AddEdge(e) ==
    /\ Building /\ Len(graph.edges) < MaxGEdges
    /\ {e.from, e.to} \subseteq NodeNames(graph)
    /\ graph' = Invalidated([graph EXCEPT !.edges = Append(@, e)])
    /\ UNCHANGED <<run, ckpt, cancel>>

\* turbo_graph_set_entry.
SetEntry(n) ==
    /\ Building /\ n \in NodeNames(graph) /\ n # graph.entry
    /\ graph' = Invalidated([graph EXCEPT !.entry = n])
    /\ UNCHANGED <<run, ckpt, cancel>>

(* ------------------------------- routing -------------------------------- *)

\* The outgoing edges of a node, in the order they were added.
Outgoing(g, n) == SelectSeq(g.edges, LAMBDA e : e.from = n)

\* An edge without a predicate the engine knows of is taken; the "json" engine does not look
\* at the predicates of the other kind.
PredicateStatus(mode, e) ==
    IF e.kind = "always" \/ (mode = "json" /\ e.kind = "value") THEN 1 ELSE e.pred

\* The edge that decides: the first one taken or failing.
DecidingEdge(mode, edges) ==
    SelectInSeq(edges, LAMBDA e : PredicateStatus(mode, e) # 0)

\* The next node by the edges, or what stops the run.
RouteByEdges(mode, g, n) ==
    LET out == Outgoing(g, n)
        i == DecidingEdge(mode, out)
    IN  IF i = 0 THEN [next |-> NoNode, status |-> IF out = <<>> THEN "OK" ELSE "ROUTE_NOT_FOUND"]
        ELSE IF PredicateStatus(mode, out[i]) < 0 THEN [next |-> NoNode, status |-> "ERROR"]
        ELSE [next |-> out[i].to, status |-> "GO"]

\* After a node has worked: its status, the next node it asked for, then the edges.
Route(mode, g, node) ==
    IF node.status < 0 THEN [next |-> NoNode, status |-> "ERROR"]
    ELSE IF node.next # NoNode /\ node.next \notin NodeNames(g)
    THEN [next |-> node.next, status |-> "NODE_NOT_FOUND"]
    ELSE IF node.status > 0
    THEN IF node.next # NoNode THEN [next |-> node.next, status |-> "INTERRUPTED"]
         ELSE [next |-> NoNode, status |-> "STOP"]
    ELSE IF node.next # NoNode THEN [next |-> node.next, status |-> "GO"]
    ELSE RouteByEdges(mode, g, node.name)

(* -------------------------------- running ------------------------------- *)

\* turbo_graph_emit_checkpoint_json and .._json_value: the host's callback gets the next node,
\* the steps, a copy of the state and the graph's id.
Emit(next, steps, state) ==
    /\ graph' = WithTopology(graph)
    /\ ckpt' = [next |-> next, steps |-> steps, state |-> state, topo |-> graph'.topo]

NoGraphRun == [pc |-> "idle", mode |-> "json", cur |-> NoNode, steps |-> 0, state |-> <<>>,
          status |-> NoNode, skip |-> FALSE, interrupts |-> {}, limit |-> 0, base |-> 0, origin |-> NoNode]

\* What is left of a run: turbo_graph_result_init, and the state handed back.
Returned(r, status) ==
    [NoGraphRun EXCEPT !.status = status, !.cur = r.cur, !.steps = r.steps, !.state = r.state, !.origin = r.origin]

End(status, next) == run' = Returned([run EXCEPT !.cur = next], status)

\* turbo_graph_run and turbo_graph_run_json_value: from options->start_node or else the entry,
\* with nothing done yet.  `base` is start_steps of run_internal; `origin` records, for the
\* properties, where the run that the last checkpoint belongs to began.
GRun(mode, start, interrupts, limit) ==
    LET first == IF start # NoNode THEN start ELSE graph.entry
    IN  /\ Building /\ first # NoNode
        /\ run' = [pc |-> "top", mode |-> mode, cur |-> first, steps |-> 0, state |-> <<>>,
                   status |-> NoNode, skip |-> FALSE, interrupts |-> interrupts, limit |-> limit,
                   base |-> 0, origin |-> first]
        /\ cancel' = "live"
        /\ ckpt' = NoCheckpoint
        /\ UNCHANGED graph


\* turbo_graph_checkpoint_matches_graph.
MatchesGraph(c, g) == c.topo # NoTopology /\ c.topo = g.topo

\* turbo_graph_run_checkpoint and its JSON-value forms: with the graph the checkpoint was
\* made for, from where it stands, by either engine.
GResume(mode, interrupts, limit, skip) ==
    /\ Building /\ ckpt # NoCheckpoint
    /\ graph' = WithTopology(graph)
    /\ run' = IF MatchesGraph(ckpt, graph')
              THEN [pc |-> "top", mode |-> mode, cur |-> ckpt.next, steps |-> ckpt.steps,
                    state |-> ckpt.state, status |-> NoNode, skip |-> skip,
                    interrupts |-> interrupts, limit |-> limit, base |-> ckpt.steps, origin |-> run.origin]
              ELSE [NoGraphRun EXCEPT !.status = "CHECKPOINT_MISMATCH", !.origin = run.origin]
    /\ cancel' = "live"
    /\ UNCHANGED ckpt

\* turbo_graph_checkpoint_create by a host: a checkpoint of no graph.
HostCheckpoint(n) ==
    /\ Building /\ ckpt # NoCheckpoint /\ ckpt.topo # NoTopology
    /\ ckpt' = [ckpt EXCEPT !.next = n, !.topo = NoTopology]
    /\ UNCHANGED <<graph, run, cancel>>

\* turbo_graph_checkpoint_serialize, and .._deserialize in a process that has built the graph
\* anew, its edges in any order: the checkpoint keeps its next node, steps, state and topology id.
SaveAndLoad(order) ==
    /\ Building /\ ckpt # NoCheckpoint
    /\ graph' = Invalidated([graph EXCEPT !.edges = [i \in DOMAIN @ |-> @[order[i]]]])
    /\ UNCHANGED <<run, ckpt, cancel>>

\* turbo_cancel_token_cancel by another thread, or the deadline of the token passes.
Cancel(how) ==
    /\ run.pc # "idle" /\ run.mode = "value" /\ cancel = "live"
    /\ cancel' = how
    /\ UNCHANGED <<graph, run, ckpt>>

\* turbo_graph_cancel_status: only the "value" engine has a token.
Cancelled == run.mode = "value" /\ cancel # "live"

\* turbo_graph_should_interrupt_before.
InterruptBefore(n) == n \in run.interrupts

\* The limit counts the steps of the whole run, those before a resume included.
OutOfSteps == run.limit > 0 /\ run.steps >= run.limit

\* The top of the loop: cancelled, out of steps, to be interrupted before, or to work.
Top ==
    /\ run.pc = "top"
    /\ \/ /\ Cancelled
          /\ Emit(run.cur, run.steps, run.state) /\ End(cancel, run.cur)
       \/ /\ ~Cancelled /\ OutOfSteps
          /\ End("STEP_LIMIT", run.cur) /\ UNCHANGED <<graph, ckpt>>
       \/ /\ ~Cancelled /\ ~OutOfSteps /\ ~run.skip /\ InterruptBefore(run.cur)
          /\ Emit(run.cur, run.steps, run.state) /\ End("INTERRUPTED", run.cur)
       \/ /\ ~Cancelled /\ ~OutOfSteps /\ (run.skip \/ ~InterruptBefore(run.cur))
          /\ run' = [run EXCEPT !.pc = "node", !.skip = FALSE] /\ UNCHANGED <<graph, ckpt>>
    /\ UNCHANGED cancel

\* A node the engine cannot call: the "json" engine has no use for a node of the other kind.
Callable(node) == run.mode = "value" \/ node.kind = "json"

\* A node of the first kind under the "value" engine works on a copy, which is dropped when it
\* asks for a node that does not exist.
Dropped(node) ==
    run.mode = "value" /\ node.kind = "json" /\ node.next # NoNode /\ node.next \notin NodeNames(graph)

\* The node works, the run is routed, and the checkpoint before the next node is emitted.
Node ==
    LET node == NodeOf(graph, run.cur)
        state == Append(run.state, run.cur)
        r == Route(run.mode, graph, node)
        worked == [run EXCEPT !.steps = @ + 1, !.state = state, !.cur = r.next]
    IN  /\ run.pc = "node"
        /\ \/ /\ run.cur \notin NodeNames(graph)
              /\ End("NODE_NOT_FOUND", run.cur) /\ UNCHANGED <<graph, ckpt>>
           \/ /\ run.cur \in NodeNames(graph) /\ ~Callable(node)
              /\ End("INVALID_ARGUMENT", run.cur) /\ UNCHANGED <<graph, ckpt>>
           \/ /\ run.cur \in NodeNames(graph) /\ Callable(node) /\ Dropped(node)
              /\ End("NODE_NOT_FOUND", node.next) /\ UNCHANGED <<graph, ckpt>>
           \/ /\ run.cur \in NodeNames(graph) /\ Callable(node) /\ r.status \in {"GO", "INTERRUPTED"}
              /\ Emit(r.next, run.steps + 1, state)
              /\ run' = IF r.status = "GO" THEN [worked EXCEPT !.pc = "after"] ELSE Returned(worked, r.status)
           \/ /\ run.cur \in NodeNames(graph) /\ Callable(node) /\ ~Dropped(node) /\ r.status \notin {"GO", "INTERRUPTED"}
              /\ run' = Returned(worked, r.status)
              /\ UNCHANGED <<graph, ckpt>>
        /\ UNCHANGED cancel

\* After the checkpoint: a cancellation comes before an interruption.
AfterRoute ==
    /\ run.pc = "after"
    /\ IF Cancelled THEN End(cancel, run.cur)
       ELSE IF InterruptBefore(run.cur) THEN End("INTERRUPTED", run.cur)
       ELSE run' = [run EXCEPT !.pc = "top"]
    /\ UNCHANGED <<graph, ckpt, cancel>>

(* ----------------------------- specification ---------------------------- *)

GInit ==
    /\ graph = [nodes |-> <<>>, edges |-> <<>>, entry |-> NoNode, topo |-> NoTopology]
    /\ run = NoGraphRun
    /\ ckpt = NoCheckpoint
    /\ cancel = "live"

GNext ==
    \/ \E n \in NodeChoices : AddNode(n)
    \/ \E e \in EdgeChoices : AddEdge(e)
    \/ \E n \in NodeChoices : SetEntry(n.name) \/ HostCheckpoint(n.name)
    \/ \E i \in InterruptSets, l \in StepLimits :
         \E m \in {"json", "value"} :
            \/ \E start \in StartNodes : GRun(m, start, i, l)
            \/ \E s \in {FALSE, i # {}} : GResume(m, i, l, s)
    \/ \E order \in Permutations(DOMAIN graph.edges) : SaveAndLoad(order)
    \/ \E how \in {"CANCELLED", "DEADLINE"} : Cancel(how)
    \/ Top \/ Node \/ AfterRoute

GSpec == GInit /\ [][GNext]_gVars

\* The node after n in this graph: the one it asks for, or the one its edges lead to.
Follows(mode, g, n, m) ==
    LET r == Route(mode, g, NodeOf(g, n)) IN r.status \in {"GO", "INTERRUPTED"} /\ r.next = m

\* The graph lets m come after n: n asks for it, or an edge joins them.
Joined(g, n, m) ==
    /\ n \in NodeNames(g)
    /\ \/ NodeOf(g, n).next = m
       \/ \E i \in DOMAIN g.edges : g.edges[i].from = n /\ g.edges[i].to = m

\* However often a run is interrupted, cancelled, stopped by the step limit or resumed, by the
\* same or the other engine, from a checkpoint that was saved and loaded beside a graph whose
\* edges were added in another order, and however the graph was changed in between: the nodes
\* that worked on the state of a run are a walk of the graph it runs on, from the node where
\* it was started; no node works twice or is left out at a resume, the steps are the nodes,
\* and since the last resume each step is the one the engine's own routing takes.  (What was
\* routed before a resume need not be what this edge order would have chosen: the topology id
\* sorts the edges, run_internal takes the first that matches.)
ResumedRunIsPath ==
    LET walk == Append(run.state, run.cur)
    IN  run.pc # "idle"
        => /\ run.steps = Len(run.state)
           /\ walk[1] = run.origin
           /\ \A i \in 1..Len(run.state) :
                 IF i <= run.base THEN Joined(graph, walk[i], walk[i + 1])
                 ELSE Follows(run.mode, graph, walk[i], walk[i + 1])

\* turbo_graph.h: cancellation and interruption preserve the same next-node checkpoint.  A run
\* that ends so has given its host the checkpoint from which it goes on, with the state it
\* hands back and the steps it reports.
StoppedIsResumableStep ==
       run.pc # "idle" /\ run'.pc = "idle" /\ run'.status \in {"INTERRUPTED", "CANCELLED", "DEADLINE"}
       => /\ ckpt'.next = run'.cur /\ ckpt'.steps = run'.steps /\ ckpt'.state = run'.state
          /\ MatchesGraph(ckpt', graph')
StoppedIsResumable == [][StoppedIsResumableStep]_gVars
=============================================================================
