------------------------------ MODULE MCAgents ------------------------------
(***************************************************************************)
(* Routers, agent workflows, Codex bridges, and the two ends of the        *)
(* parser generator: the grammar reader and the action tables; each on     *)
(* its own.                                                                *)
(***************************************************************************)
EXTENDS Router, AgentWorkflow, CodexBridge, LemonReader

CONSTANT Focus   \* the components a run takes, each on its own

VARIABLE focus   \* the component that runs; the others stay in their first state

-----------------------------------------------------------------------------
\* router: Two endpoints and two tasks, in one of three settings.

CONSTANTS t1, t2

VARIABLE mode   \* one task with every record; two tasks and their lanes; a group of two

MCEndpoint ==
  <<[roles |-> {"plan", "execute"}, difficulty |-> 1, caps |-> {"text", "tools"}, maxInput |-> 5, maxOutput |-> 5,
     inPrice |-> 3, outPrice |-> 3, sharesRegistry |-> TRUE, delegable |-> TRUE],
    [roles |-> {"plan", "execute"}, difficulty |-> 1, caps |-> {"text", "tools"}, maxInput |-> 5, maxOutput |-> 5,
     inPrice |-> 4, outPrice |-> 2, sharesRegistry |-> TRUE, delegable |-> TRUE]>>

Request(thread) ==
  [role |-> "execute", difficulty |-> 1, caps |-> {"text", "tools"}, input |-> 3, output |-> 4,
   budget |-> 12, timeout |-> 1, hb |-> 1, thread |-> thread]
MCRequests == [t \in {t1, t2} |-> {Request(IF t = t1 THEN 1 ELSE 2)}]

\* What the Host does in each setting: with the default limit it submits one task and
\* keeps intents or observations of it; it sets a limit and runs two tasks, cancels and
\* reviews the first of them, keeps no records and misses no heartbeat; or, with the
\* default limit, it forms a group with a first task that calls no tools.
Alone ==
  /\ task'[t2] = NoTask /\ router'.limit = 1
  /\ hstore'.observation # {} => hstore'.review = {} /\ task'[t1].adm = NoId
Lanes ==
  /\ hstore' = hstore /\ group' = NoGroup /\ auth' = 0
  /\ \A t \in Tasks : task'[t].beat = task'[t].observed /\ ~task'[t].unresponsive
  /\ task'[t2].resumes = 0 /\ ~task'[t2].stop /\ (task'[t2].live => task'[t1].seg > 0)
Grouped ==
  /\ hstore'.admission = {} /\ \A r \in hstore'.observation : r.kind # "task"
  /\ router'.limit = 1 /\ task'[t1].max = 0 /\ (task'[t2].live => task'[t1].seg > 0)
MCRouterNext ==
  /\ RouterNext
  /\ UNCHANGED mode
  /\ (mode = "alone" => Alone) /\ (mode = "lanes" => Lanes) /\ (mode = "group" => Grouped)
MCRouterInit == RouterInit /\ mode \in {"alone", "lanes", "group"}
-----------------------------------------------------------------------------
\* workflow: Plans of up to two steps; answers that call no tool, one that only
\* observes, ones that need approval, and ones that are refused.

Says(t, c) == [text |-> t, calls |-> c]
Tool(known, caps, kind, approval, inside, command) ==
  [known |-> known, caps |-> caps, kind |-> kind, approval |-> approval, inside |-> inside,
   command |-> command]
Look   == Tool(TRUE, {}, "observe", FALSE, TRUE, FALSE)
Shell  == Tool(TRUE, {"shell"}, "dangerous", FALSE, TRUE, FALSE)
Patch  == Tool(TRUE, {"patch"}, "mutate", FALSE, TRUE, FALSE)
Unknown   == Tool(FALSE, {}, "observe", FALSE, TRUE, FALSE)
Strays == Tool(TRUE, {}, "observe", FALSE, FALSE, FALSE)
\* The middlewares may give the shell a dangerous command.
Danger == [Shell EXCEPT !.command = TRUE]
MCRewritings == [t \in {Look, Shell, Patch, Unknown, Strays} |->
  CASE t = Shell -> {Shell, Danger} [] OTHER -> {t}]

MCGraphSteps == [l \in Loops |-> CASE l = "each_step" -> 14 [] l = "loop" -> 10 [] l \in {"planner", "replan"} -> 11 [] OTHER -> 12]
MCPolicy == [allows |-> {"custom_tools", "shell"}, auto_approve_safe |-> TRUE]
MCPlans == {Says("plan2", <<>>), Says("plan1", <<>>), Says("plan0", <<>>), Says("prose", <<>>),
            Says("", <<Shell>>)}
MCWork  == {Says("done", <<>>), Says("FAILED", <<>>), Says("", <<>>), Says("", <<Look>>),
            Says("", <<Unknown, Shell>>), Says("", <<Shell, Shell>>), Says("", <<Patch, Strays>>)}

-----------------------------------------------------------------------------
\* codex: Two runs, on one thread or on two, with no handler for server requests.

-----------------------------------------------------------------------------
\* tables: Keys that collide in a table of 1, 2 or 4 slots and keys that do not; a
\* state's basis that continues another one; lists with equal keys.

MCStrings == {<<65>>, <<66>>, <<65, 66>>, <<69>>}
MCConfigs == {<<1, 0>>, <<1, 1>>, <<2, 0>>, <<1, 4>>}
MCBases   == {<<<<1, 0>>>>, <<<<1, 0>>, <<1, 1>>>>, <<<<1, 1>>>>, <<<<2, 0>>>>}
\* The tags number the elements in the order they come in.
MCLists   == UNION {{[i \in 1..n |-> [key |-> k[i], tag |-> i]] : k \in [1..n -> 1..3]} : n \in 1..5}

-----------------------------------------------------------------------------
\* reader: Grammar files one token away from well-formed ones, and every short source.

T(c) == [c |-> c, v |-> c]
L(v) == [c |-> "lower", v |-> v]
Up(v) == [c |-> "upper", v |-> v]
Bar(v) == [c |-> "bar", v |-> v]
Kw(v) == <<T("percent"), L(v)>>
Never == [c |-> "brace", v |-> "NEVER-REDUCE"]

\* a(X) ::= b(Y) T|V. {code} [P]  b ::= . {code} b ::= a.
RuleFile == <<L("a"), T("lpar"), Up("X"), T("rpar"), T("arrow"), L("b"), T("lpar"), Up("Y"), T("rpar"),
              Up("T"), Bar("V"), T("dot"), T("brace"), T("lbr"), Up("P"), T("rbr"),
              L("b"), T("arrow"), T("dot"), T("brace"), L("b"), T("arrow"), L("a"), T("dot")>>

\* %left P Q. %right T. a ::= P. %fallback T P. %wildcard W. %type a {x}
DeclFile == Kw("left") \o <<Up("P"), Up("Q"), T("dot")>> \o Kw("right") \o <<Up("T"), T("dot")>>
            \o <<L("a"), T("arrow"), Up("P"), T("dot")>>
            \o Kw("fallback") \o <<Up("T"), Up("P"), T("dot")>> \o Kw("wildcard") \o <<Up("W"), T("dot")>>
            \o Kw("type") \o <<L("a"), T("brace")>>

\* %token_class c T|V. a ::= c|W. {NEVER-REDUCE} {code} a ::= c. %name x %destructor a {d} %token Z. %bad y
ClassFile == Kw("token_class") \o <<L("c"), Up("T"), Bar("V"), T("dot"), L("a"), T("arrow"), L("c"), Bar("W"), T("dot"), Never, T("brace"),
                                      L("a"), T("arrow"), L("c"), T("dot")>>
             \o Kw("name") \o <<L("x")>> \o Kw("destructor") \o <<L("a"), T("brace")>>
             \o Kw("token") \o <<Up("Z"), T("dot")>> \o Kw("bad") \o <<L("y")>>

WellFormed == {RuleFile, DeclFile, ClassFile}
Alphabet == {T("percent"), T("lpar"), T("rpar"), T("arrow"), T("dot"), T("brace"), T("lbr"), T("rbr"),
             T("other"), T("string"), Never, L("b"), L("c"), Up("T"), Bar("T")}

\* One token replaced, dropped or inserted.
MCFiles == UNION {
  {b} \cup {[b EXCEPT ![i] = t] : i \in DOMAIN b, t \in Alphabet}
      \cup {SubSeq(b, 1, i - 1) \o SubSeq(b, i + 1, Len(b)) : i \in DOMAIN b}
      \cup {SubSeq(b, 1, i) \o <<t>> \o SubSeq(b, i + 1, Len(b)) : i \in DOMAIN b, t \in Alphabet}
  : b \in WellFormed}

Line(k, z) == [k |-> k, cond |-> z]
Conds == {<<"A">>, <<"!", "A">>, <<"B", "&&", "!", "(", "A", "||", "B", ")">>}
Lines == {Line("text", <<>>), Line("else", <<>>), Line("endif", <<>>)}
         \cup {Line("if", z) : z \in Conds} \cup {Line("ifndef", <<"B">>)}

\* Conditions of every shape, each alone in a block, and every source of a few lines.
Shapes == {<<"A", "||", "B">>, <<"B", "||", "A">>, <<"A", "&&", "A">>, <<"B", "||", "A", "&&", "A">>,
           <<"!", "!", "A">>, <<"(", "A", ")">>, <<"!", "(", "B", "||", "B", ")", "&&", "A">>,
           <<"A", "B">>, <<"&&">>, <<"(", "A">>, <<"A", "&&", "(">>, <<"(", "||", "A">>, <<"A", ")">>, <<"A", "!">>, <<"(", "(", "A", ")", "&&", "B", ")", "||", "A">>}
Few == Lines \ {Line("if", <<"B", "&&", "!", "(", "A", "||", "B", ")">>), Line("ifndef", <<"B">>)}
MCSources == [1..6 -> Few]
             \cup {<<Line("ifndef", <<"B">>)>> \o s : s \in [1..3 -> Lines]}
             \cup {<<Line(k, z), Line("text", <<>>), Line("else", <<>>), Line("text", <<>>), Line("endif", <<>>)>> :
                     k \in {"if", "ifndef"}, z \in Shapes}
ShortSource == <<Line("ifndef", <<"B">>), Line("text", <<>>), Line("else", <<>>), Line("endif", <<>>)>>
MCDefined == {"A"}

-----------------------------------------------------------------------------
AgentsInit ==
    /\ focus \in Focus
    /\ focus # "router" => mode = "alone"
    /\ focus # "workflow" => loop = "loop"
    /\ focus # "reader" => file = <<>> /\ src = ShortSource
    /\ MCRouterInit /\ WfInit /\ CodexInit /\ TablesInit /\ ReaderInit

AgentsNext ==
    \/ focus = "router" /\ MCRouterNext /\ UNCHANGED <<focus, wfVars, codexVars, tablesVars, readerVars>>
    \/ focus = "workflow" /\ WfNext /\ UNCHANGED <<focus, <<routerVars, mode>>, codexVars, tablesVars, readerVars>>
    \/ focus = "codex" /\ CodexNext /\ UNCHANGED <<focus, <<routerVars, mode>>, wfVars, tablesVars, readerVars>>
    \/ focus = "tables" /\ TablesNext /\ UNCHANGED <<focus, <<routerVars, mode>>, wfVars, codexVars, readerVars>>
    \/ focus = "reader" /\ ReaderNext /\ UNCHANGED <<focus, <<routerVars, mode>>, wfVars, codexVars, tablesVars>>

AgentsVars == <<focus, <<routerVars, mode>>, wfVars, codexVars, tablesVars, readerVars>>

AgentsSpec == AgentsInit /\ [][AgentsNext]_AgentsVars

\* Lanes are accounted for, durable intents are truthful, an unresponsive task delivers nothing and
\* a refused tool call never runs (turbo_agent_router.c).
RouterSound ==
    /\ [](focus = "router" => LanesAccounted /\ IntentsTruthful /\ LostNeverDelivered)
    /\ [][focus = "router" => RefusedNeverRunsStep]_routerVars

\* Work is for the current step, an approval is spent once, and a step is reviewed before it counts
\* (agent/src/turbo_agent_workflow*.c).
WorkflowSound == focus = "workflow" => WorkIsForCurrentStep /\ ApprovalSpentOnce /\ StepsReviewed

\* The generator's tables are dictionaries and its list sort is stable (lemon.c).
TablesSound == focus = "tables" => TablesAreDictionaries /\ SortsAreStable

\* The grammar reader gives the generator what the file says: conditional blocks are kept or
\* dropped whole, and rules are recorded as written (preprocess_input, parseonetoken).
ReaderFaithful == focus = "reader" => PreprocessorKeepsBlocks /\ RulesAsWritten
=============================================================================
