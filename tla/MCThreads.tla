----------------------------- MODULE MCThreads ------------------------------
(***************************************************************************)
(* Threads and their heads, chains, runnables and MCP packs, each on its   *)
(* own.                                                                    *)
(***************************************************************************)
EXTENDS RuntimeViews, Chain, Runnable, McpPack, TLC

CONSTANT Focus   \* the components a run takes, each on its own

VARIABLE focus   \* the component that runs; the others stay in their first state

-----------------------------------------------------------------------------
\* thread: One legacy run and checkpoint and up to three segments.  The third of them comes
\* after one that returned 0, and where checkpoint ids run short, after two.
ThirdAfterSuccess ==
    focus = "thread" /\ begun = 3
    => acked >= 2 \/ (acked = 1 /\ ckpts[LegacyCkpt] = NoCkpt)

CONSTANTS r1, r2, r3, k1, k2, k3

(* New run and checkpoint ids are interchangeable; the legacy ones are not. *)
Fresh == Permutations({r2, r3}) \union Permutations({k2, k3})

-----------------------------------------------------------------------------
\* chain: Three steps out of every kind, tools with and without a JSON handler.

S(n, k) == [name |-> n, kind |-> k]
MCTools == [t |-> {"text"}, b |-> {"text", "json"}]
MCSteps == <<{S("a", "model_text"), S("a", "model_json"), S("p", "prompt")},
             {S("t", "tool"), S("o", "custom_json")},
             {S("c", "custom_value"), S("a", "tool")}>>

-----------------------------------------------------------------------------
\* runnable: Leaves of every kind, pipes and wraps of them, two deep; a
\* component that answers for ever or only once, and one that is used twice.

Values == 1..2
LeafStatuses == [Values -> {"ok", "stop", "error"}]
Kinds == {"chain", "graph", "state_graph", "session", "host"}
Leaf(n, k, s, lasts) == [name |-> n, kind |-> k, status |-> s, lasts |-> lasts,
                         maps |-> <<2, 1>>, events |-> <<Model(k), ToolResult(k)>>]
Leaves == {Leaf("p", k, s, 9) : k \in Kinds, s \in LeafStatuses}
Fixed(n) == {Leaf(n, k, s, l) : k \in Kinds, s \in {<<"ok", "error">>, <<"stop", "ok">>}, l \in {1, 9}}
Often(n) == {l \in Fixed(n) : l.lasts = 9}
Pipe(f, g) == [kind |-> "pipe", first |-> f, second |-> g]
Pipes == {Pipe(f, g) : f \in Leaves, g \in Fixed("q")} \cup {Pipe(f, f) : f \in Fixed("p")}
Wraps == {[kind |-> "wrap", inner |-> i, before |-> b, after |-> a] :
              i \in Fixed("p") \cup {Pipe(f, g) : f \in Often("p"), g \in Often("q")},
              b \in {"none", "replace", "fail"}, a \in {"none", "replace", "fail"}}
MCTrees == Leaves \cup Pipes \cup Wraps
           \cup {Pipe(w, l) : w \in {x \in Wraps : x.before = "none" /\ x.inner.kind = "host"}, l \in Fixed("q")}
           \cup {Pipe(Pipe(f, g), Leaf("r", "graph", <<"ok", "stop">>, 9)) : f \in Often("p"), g \in Fixed("q")}
MCInputs == {[form |-> f, v |-> v] : f \in {"string", "object_messages", "object"}, v \in Values}
MCBatches == {<<>>} \cup [1..1 -> MCInputs] \cup {<<a, b>> : a, b \in {i \in MCInputs : i.form = "string"}}

-----------------------------------------------------------------------------
\* mcp: The MCP pack with two-page listings and tools with and without headers.

Header(name, type) == [at |-> "property", name |-> name, type |-> type, valid |-> TRUE]
Tool(name, schema) == [name |-> name, schema |-> schema, wellFormed |-> TRUE]
Search == Tool("search", <<>>)
Dotted == Tool("a.b", <<Header("region", "string"), Header("size", "integer")>>)
Plain == Tool("a_b", <<Header("region", "string")>>)
Stray == Tool("stray", <<[Header("region", "string") EXCEPT !.at = "item"]>>)
Twice == Tool("twice", <<Header("region", "string"), Header("region", "string")>>)
Long == Tool("long", <<>>)
Broken == [Search EXCEPT !.wellFormed = FALSE]

MCPages == {[complete |-> TRUE, tools |-> t, next |-> n] :
                t \in {<<>>, <<Search>>, <<Dotted>>, <<Plain, Stray>>, <<Twice, Search>>, <<Long>>, <<Dotted, Broken>>},
                n \in {"", "c1", "c2", "invalid"}}
           \cup {[complete |-> FALSE, tools |-> <<>>, next |-> ""]}

Message(own, what) == [own |-> own, what |-> what]
McpMessages == {Message(TRUE, w) : w \in {"result", "error", "neither"}}
            \cup {Message(FALSE, "result"), Message(FALSE, "junk")}
MCAnswers == {[kind |-> k, body |-> <<>>] : k \in {"failed", "large", "http", "other"}}
             \cup {[kind |-> "json", body |-> <<m>>] : m \in McpMessages}
             \cup {[kind |-> "sse", body |-> b] :
                       b \in {<<>>} \cup {<<m, n>> : m \in McpMessages, n \in McpMessages}}
MCArguments == [{"region"} -> {"null", "string", "integer"}]
               \cup [{"region", "size"} -> {"string", "integer"}]
MCNormalized == [n \in {"search", "a.b", "a_b", "stray", "twice", "long"} |-> IF n = "a.b" THEN "a_b" ELSE n]
MCTooLong == {"long"}

-----------------------------------------------------------------------------
ThreadsInit ==
    /\ focus \in Focus
    /\ focus # "thread" => thread = FALSE
    /\ focus # "runnable" => tree = CHOOSE t \in Trees : TRUE
    /\ ViewsInit /\ CInit /\ RInit /\ McpInit

ThreadsNext ==
    \/ focus = "thread" /\ ViewsNext /\ UNCHANGED <<focus, cVars, rVars, packVars>>
    \/ focus = "chain" /\ CNext /\ UNCHANGED <<focus, viewVars, rVars, packVars>>
    \/ focus = "runnable" /\ RNext /\ UNCHANGED <<focus, viewVars, cVars, packVars>>
    \/ focus = "mcp" /\ McpNext /\ UNCHANGED <<focus, viewVars, cVars, rVars>>

ThreadsVars == <<focus, viewVars, cVars, rVars, packVars>>

ThreadsSpec == ThreadsInit /\ [][ThreadsNext]_ThreadsVars

\* Every view of a thread can be loaded, also when its parts are read at different moments, its
\* branches form a forest and its views agree with each other (turbo_agent_runtime_v1.c).
ViewsSound ==
    /\ [](focus = "thread" => ViewsLoad /\ BranchTreeIsForest /\ IndexAgrees)
    /\ [][focus = "thread" => RecordsStayStep]_viewVars

\* A chain run is recorded step by step, and its caller sees whole runs only
\* (turbo_chain_run and its variants).
ChainFaithful ==
    /\ [](focus = "chain" => RunRecorded)
    /\ [][focus = "chain" => CallerSeesWholeRunsStep]_cVars
=============================================================================
