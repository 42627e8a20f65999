------------------------------ MODULE MCPacks -------------------------------
(***************************************************************************)
(* Praktor packs, JSON graphs and tool registries, each on its own.        *)
(***************************************************************************)
EXTENDS PraktorPack, JsonGraph, ToolRegistry

CONSTANT Focus   \* the components a run takes, each on its own

VARIABLE focus   \* the component that runs; the others stay in their first state

-----------------------------------------------------------------------------
\* praktor: Nine configurations: plans without effects, with a host tool (resolved or
\* not), with an unknown effect, old configuration versions, inline plans.

Plain == [object |-> TRUE, schema |-> TRUE, source |-> "file", hostsGiven |-> TRUE, hosts |-> <<>>,
          manifest |-> TRUE, unknown |-> FALSE, reasons |-> <<>>, effectsGiven |-> TRUE,
          effects |-> <<"network", "filesystem_read">>,
          profile |-> TRUE, qualified |-> TRUE, objections |-> <<>>]
Hosted == [Plain EXCEPT !.hosts = <<[tool |-> "a", retries |-> 0], [tool |-> "b", retries |-> 1]>>,
             !.unknown = TRUE, !.reasons = <<"a", "b">>, !.effects = <<"host_tool", "process">>,
             !.qualified = FALSE, !.objections = <<"unknown effects">>]
Conf(n, d) == [wellFormed |-> TRUE, name |-> n, abi |-> 3, safe |-> TRUE, authority |-> TRUE,
               requested |-> <<>>, desc |-> d]

MCConfigs == <<
  Conf("w", Plain),
  Conf("w", Hosted),
  Conf("v", [Hosted EXCEPT !.source = "inline"]),
  [Conf("v", [Hosted EXCEPT !.objections = <<"unknown effects", "other">>]) EXCEPT
     !.safe = FALSE, !.requested = <<"gpu">>],
  [Conf("w", [Plain EXCEPT !.effects = <<"teleport">>]) EXCEPT !.safe = FALSE, !.requested = <<"gpu">>],
  [Conf("v", Hosted) EXCEPT !.abi = 2],
  [Conf("w", Plain) EXCEPT !.abi = 1],
  [Conf("w", [Plain EXCEPT !.effects = <<"plugin", "not a string", "process">>]) EXCEPT
     !.requested = <<"gpu", "gpu">>],
  Conf("v", [Hosted EXCEPT !.source = "inline", !.hosts[1].retries = 9]) >>

MCHostCaps == [t \in {"a", "b"} |-> IF t = "a" THEN {"gpu"} ELSE {}]
MCContexts == << [given |-> FALSE, deadline |-> 0, token |-> 0],
                 [given |-> TRUE,  deadline |-> 1, token |-> 1],
                 [given |-> TRUE,  deadline |-> 0, token |-> 2] >>

-----------------------------------------------------------------------------
\* graph: Two nodes, of either kind, one of which may ask for the other, stop or
\* fail, and up to two edges with every kind of predicate.

NodeAs(name, kind, status, next) == [name |-> name, kind |-> kind, status |-> status, next |-> next]

MCNodes ==
    {NodeAs("a", "json", 0, NoNode), NodeAs("a", "value", 0, NoNode), NodeAs("a", "json", 1, "b"),
     NodeAs("b", "json", -1, NoNode), NodeAs("b", "json", 0, "c"), NodeAs("b", "value", 1, NoNode)}

EdgeAs(from, to, kind, pred) == [from |-> from, to |-> to, kind |-> kind, pred |-> pred]

MCEdges ==
    {EdgeAs("a", "b", "always", 1), EdgeAs("a", "a", "value", 1), EdgeAs("b", "a", "json", 0),
     EdgeAs("b", "a", "value", -1)}

MCStarts == {NoNode, "b"}

MCInterrupts == {{}, {"b"}}

MCLimits == {2}

-----------------------------------------------------------------------------
\* tools: The tool registry with two spellings of one sanitized name, and a
\* runtime that offers one, two compatible or two clashing tools.

Dot == <<"a", ".", "b">>
Underscore == <<"a", "_", "b">>
Bare == <<"a", "b">>

MCNames == {Dot, Underscore}
MCHandlers == {{"plain"}, {"context", "json"}}
MCValidChars == {"a", "b", "_", "-"}

Offered(n, h, e) == [name |-> n, handlers |-> h, inner |-> {}, effects |-> e, schema |-> "none", strict |-> FALSE]

MCRuntimeTools ==
    {<<Offered(Bare, {"plain"}, {"pure"})>>,
     <<Offered(Underscore, {"plain", "context"}, {}), Offered(Dot, {"context"}, {"fs"})>>,
     <<Offered(Dot, {"context"}, {"fs"}), Offered(Underscore, {"plain", "context"}, {})>>,
     <<Offered(Bare, {"plain"}, {"pure"}), Offered(Bare, {"json_context"}, {})>>,
     <<Offered(Bare, {"plain"}, {"pure", "unknown"})>>}

-----------------------------------------------------------------------------
PacksInit ==
    /\ focus \in Focus
    /\ PackInit /\ GInit /\ TRInit

PacksNext ==
    \/ focus = "praktor" /\ PackNext /\ UNCHANGED <<focus, gVars, trVars>>
    \/ focus = "graph" /\ GNext /\ UNCHANGED <<focus, packVars, trVars>>
    \/ focus = "tools" /\ TRNext /\ UNCHANGED <<focus, packVars, gVars>>

PacksVars == <<focus, packVars, gVars, trVars>>

PacksSpec == PacksInit /\ [][PacksNext]_PacksVars

\* Compiled plans are released once, capabilities cover the host tools of a plan, and a host tool
\* runs only when admitted (turbo_praktor_tool_pack.c).
PackSound ==
    /\ [](focus = "praktor" => PlansAccounted /\ CapabilitiesCover)
    /\ [][focus = "praktor" => HostCallsAdmittedStep]_packVars


\* References to a runtime balance, what is offered to a model resolves, a projection is faithful
\* and a call that fails changes nothing (turbo_tool_registry.c, turbo_tool_runtime.c).
RegistrySound ==
    /\ [](focus = "tools" => ReferencesBalance /\ OfferedResolves)
    /\ [][focus = "tools" => ProjectionFaithfulStep /\ FailedCallChangesNothingStep]_trVars
=============================================================================
