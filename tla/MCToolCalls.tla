---------------------------- MODULE MCToolCalls -----------------------------
(***************************************************************************)
(* The effect journal of a tool call and the catalogs of built-in tools,   *)
(* each on its own.                                                        *)
(***************************************************************************)
EXTENDS ToolJournal, ToolCatalog

CONSTANT Focus   \* the components a run takes, each on its own

VARIABLE focus   \* the component that runs; the others stay in their first state

-----------------------------------------------------------------------------
\* journal: Three owners with different configurations over one store: o1 plain, o2
\* with a smaller output limit, o3 on an adapter without create_if_absent.  One of them
\* calls twice.
OneCallsAgain == focus = "journal" => Cardinality({o \in Owners : tries[o] = 2}) <= 1

-----------------------------------------------------------------------------
\* catalog: Every tool of the two catalogs called with up to two arguments, each
\* of one of seven shapes, and with an argument no schema names.

Shapes == {"text", "empty", "one", "neg", "wide", "flag", "ids"}

AllTools ==
    ({"knowledge"} \X DOMAIN KnowledgeRows)
    \cup ({"vector"} \X (DOMAIN VectorActionRows \cup DOMAIN VectorIndexingSchemas))

CatalogKeys(tool) == {SchemaOf(tool).properties[i][1] : i \in 1..Len(SchemaOf(tool).properties)} \cup {"other"}

MCCalls ==
    UNION {UNION {{[tool |-> tool, args |-> a] : a \in [keys -> Shapes]} :
                     keys \in {k \in SUBSET CatalogKeys(tool) : Cardinality(k) <= 2}} : tool \in AllTools}

\* agent/README.md: the request for a diagram of two selected documents.
MCDocumented ==
    {[tool |-> <<"knowledge", "diagram">>,
      args |-> [document_ids |-> "ids", format |-> "mermaid", focus_id |-> "text",
                direction |-> "outgoing", max_hops |-> "one"]]}

-----------------------------------------------------------------------------
ToolCallsInit ==
    /\ focus \in Focus
    /\ Init /\ TCInit

ToolCallsNext ==
    \/ focus = "journal" /\ Next /\ UNCHANGED <<focus, tcall>>
    \/ focus = "catalog" /\ TCNext /\ UNCHANGED <<focus, vars>>

ToolCallsVars == <<focus, vars, tcall>>

ToolCallsSpec == ToolCallsInit /\ [][ToolCallsNext]_ToolCallsVars
=============================================================================
