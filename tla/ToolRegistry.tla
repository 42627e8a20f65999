---------------------------- MODULE ToolRegistry ----------------------------
(***************************************************************************)
(* The tool registry (runtime_tools/src/turbo_tool_registry.c) and the     *)
(* tool runtimes that are bridged into it                                  *)
(* (runtime_tools/src/turbo_tool_runtime.c).  A registry is a sequence of  *)
(* entries.  A runtime is a reference counted object with tools of its     *)
(* own; each bridged entry holds one reference, dropped when the entry is  *)
(* freed.  A projection of a registry borrows the user data of the entries *)
(* it copies.  A name is a sequence of characters, because lookup compares *)
(* a name with the OpenAI-compatible spelling of the registered ones.      *)
(***************************************************************************)
EXTENDS Naturals, Sequences, SequencesExt, FiniteSets

CONSTANTS
    TNames,        \* names tools may be registered under
    THandlers,     \* the sets of handlers a tool of the host's own may have
    TValidChars,   \* the characters an OpenAI tool name may have
    TRuntimeTools, \* lists of the tools a runtime may offer, as add_to_registry meets them
    MaxTools       \* bound on the length of a registry

VARIABLES
    reg,       \* the host's registry: a sequence of entries
    rtools,     \* what the runtime offers: a sequence of definitions
    refs,      \* the runtime's ref_count
    owned,     \* the host has not yet called turbo_tool_runtime_destroy
    impl,      \* "alive" or "destroyed": the runtime's implementation
    view,      \* a projection or composition of reg, a sequence of entries
    treq       \* whether the last call succeeded

trVars == <<reg, rtools, refs, owned, impl, view, treq>>

(* ------------------------------- entries -------------------------------- *)

\* compatible_name_equals: the sanitized spelling of a name.
Compatible(name) == [i \in 1..Len(name) |-> IF name[i] \in TValidChars THEN name[i] ELSE "_"]

EntryNames(r) == [i \in 1..Len(r) |-> r[i].name]

\* find: the exact name, or else the one entry whose sanitized name it is.
\* 0 stands for NULL.
Find(r, name) ==
    LET exact == {i \in 1..Len(r) : r[i].name = name}
        compatible == {i \in 1..Len(r) : Compatible(r[i].name) = name}
    IN  IF exact # {} THEN CHOOSE i \in exact : \A j \in exact : i <= j
        ELSE IF Cardinality(compatible) = 1 THEN CHOOSE i \in compatible : TRUE
        ELSE 0

\* valid_effect_flags: unknown and pure stand alone.
ValidEffects(flags) == flags = {"unknown"} \/ flags = {"pure"} \/ (flags \cap {"unknown", "pure"} = {})

\* normalize_effect_flags.
NormalEffects(flags) == IF flags = {} THEN {"unknown"} ELSE flags

\* A definition: its handlers, effects and result contract.
\* turbo_tool_registry_add_with_policy: TRUE when the definition is accepted.
Addable(r, d) ==
    /\ d.handlers # {}
    /\ ValidEffects(d.effects)
    /\ d.strict => d.schema = "object"
    /\ d.schema # "broken"
    /\ Find(r, d.name) = 0

\* turbo_tool_registry_add_v6 .. turbo_tool_registry_add: the older forms fill in the defaults.
\* `inner` are the handlers of the runtime's own tool behind a bridged entry.
Entry6(d, caps, owner) ==
    [name |-> d.name, handlers |-> d.handlers, inner |-> d.inner, effects |-> NormalEffects(d.effects),
     schema |-> d.schema, strict |-> d.strict, caps |-> caps, owner |-> owner, pure |-> FALSE]

\* turbo_tool_native_projection_bind: a projection whose descriptors are invalid or disagree
\* with its callable is "malformed"; of the others only the function's purity matters here.
NativeProjections == {"malformed", "impure", "pure"}

NativeBinds(projection) == projection # "malformed"

\* The refusals of turbo_tool_registry_publish_native_projection: published once, well formed,
\* and a pure function for a pure tool.
Publishable(e, projection) ==
    /\ ~e.pure
    /\ NativeBinds(projection)
    /\ e.effects = {"pure"} => projection = "pure"

(* ------------------------------- listings ------------------------------- *)

\* turbo_tool_registry_build_openai_tools: no list when two sanitized names meet.
OpenAITools(r) ==
    LET shown == [i \in 1..Len(r) |-> Compatible(r[i].name)]
    IN  IF Cardinality(ToSet(shown)) = Len(r) THEN shown ELSE <<>>

\* turbo_tool_schema_build_openai_compatible_chat_tools: the same names in the chat format.
CompatibleChatTools(r) == OpenAITools(r)

\* turbo_tool_schema_build_openai_chat_tools: the names as registered.
ChatTools(r) == EntryNames(r)

\* turbo_tool_schema_build_anthropic_tools.
AnthropicTools(r) == EntryNames(r)

\* turbo_tool_schema_build_registry_json_value.
RegistryJson(r) == EntryNames(r)

\* turbo_tool_registry_resolve_name: the canonical name of what find returns.
ResolveName(r, name) == IF Find(r, name) = 0 THEN <<>> ELSE r[Find(r, name)].name

(* ------------------------------- execution ------------------------------ *)

Handlers == {"plain", "context", "json", "json_context"}

\* The handler of `first` and `second` that is tried first among those the tool has;
\* "error" is TURBO_TOOL_ERROR.
FirstHandler(handlers, first, second) ==
    IF first \in handlers THEN first ELSE IF second \in handlers THEN second ELSE "error"

\* turbo_tool_registry_execute: the plain handler, else the context handler without a context.
HandlerOf(handlers) == FirstHandler(handlers, "plain", "context")

\* turbo_tool_registry_execute_with_context: the context handler first.
HandlerWithContext(handlers) == FirstHandler(handlers, "context", "plain")

\* turbo_tool_registry_execute_json_value: handlers of JSON values only.
HandlerJson(handlers) == FirstHandler(handlers, "json", "json_context")

\* turbo_tool_registry_execute_json_value_with_context.
HandlerJsonWithContext(handlers) == FirstHandler(handlers, "json_context", "json")

\* The four entry points of the registry.
EntryPoints == {"execute", "with_context", "json_value", "json_with_context"}

HandlerAt(entry, handlers) ==
    CASE entry = "execute" -> HandlerOf(handlers)
      [] entry = "with_context" -> HandlerWithContext(handlers)
      [] entry = "json_value" -> HandlerJson(handlers)
      [] entry = "json_with_context" -> HandlerJsonWithContext(handlers)

\* turbo_tool_runtime_bridge_*_handler: each calls the runtime's entry point of its own kind,
\* and the native runtime that of its registry.
InvokedBy(handler) ==
    CASE handler = "plain" -> "execute"
      [] handler = "context" -> "with_context"
      [] handler = "json" -> "json_value"
      [] handler = "json_context" -> "json_with_context"

\* The handler that serves a call of an entry: for a bridged one, that of the tool behind it.
ServedBy(e, entry) ==
    LET outer == HandlerAt(entry, e.handlers)
    IN  IF outer = "error" \/ e.owner = "host" THEN outer
        ELSE HandlerAt(InvokedBy(outer), e.inner)

(* ------------------------------ operations ------------------------------ *)

\* turbo_tool_registry_add of a tool of the host's own.
HostAdd(d) ==
    /\ Len(reg) < MaxTools
    /\ IF Addable(reg, d)
       THEN reg' = Append(reg, Entry6(d, {}, "host")) /\ treq' = TRUE
       ELSE UNCHANGED reg /\ treq' = FALSE
    /\ UNCHANGED <<rtools, refs, owned, impl, view>>

\* free_entry: a bridged entry drops its reference, the last reference the implementation.
ReleaseRef(n) ==
    /\ refs' = refs - n
    /\ impl' = IF n > 0 /\ refs - n = 0 THEN "destroyed" ELSE impl
    /\ rtools' = IF n > 0 /\ refs - n = 0 THEN <<>> ELSE rtools

Bridged(r) == Cardinality({i \in 1..Len(r) : r[i].owner = "runtime"})

\* turbo_tool_registry_remove: by exact name; the order of the others is kept.
RemoveTool(name) ==
    LET at == {i \in 1..Len(reg) : reg[i].name = name}
    IN  /\ view = <<>>
        /\ IF at = {} THEN UNCHANGED <<reg, refs, impl, rtools>> /\ treq' = FALSE
           ELSE LET i == CHOOSE i \in at : TRUE
                IN  /\ reg' = RemoveAt(reg, i)
                    /\ ReleaseRef(IF reg[i].owner = "runtime" THEN 1 ELSE 0)
                    /\ treq' = TRUE
        /\ UNCHANGED <<owned, view>>

\* turbo_tool_runtime_create_v4 over a native runtime whose registry holds `offered`.
CreateRuntime(offered) ==
    /\ ~owned /\ refs = 0 /\ Bridged(reg) = 0
    /\ rtools' = offered /\ refs' = 1 /\ owned' = TRUE /\ impl' = "alive"
    /\ treq' = TRUE
    /\ UNCHANGED <<reg, view>>

\* turbo_tool_runtime_get_tool_v3: the definition a runtime gives is usable.
ToolUsable(d) == ValidEffects(d.effects)

\* The definition turbo_tool_runtime_add_to_registry registers: the bridge's four handlers.
BridgeDefinition(d) == [d EXCEPT !.handlers = Handlers, !.inner = d.handlers]

\* The second pass of turbo_tool_runtime_add_to_registry: the longest prefix of the tools that
\* can be added one after the other, `stop` bounding it where an allocation or the copy of a
\* native projection fails.
AddedPrefix(r, offered, stop) ==
    LET Step(acc, d) ==
            IF acc.done \/ Len(acc.r) - Len(r) = stop \/ ~Addable(acc.r, BridgeDefinition(d))
            THEN [acc EXCEPT !.done = TRUE]
            ELSE [acc EXCEPT !.r = Append(@, Entry6(BridgeDefinition(d), {"runtime_tools"}, "runtime"))]
    IN  FoldLeft(Step, [r |-> r, done |-> FALSE], offered)

\* turbo_tool_runtime_rollback_registry: removes the first tools by name.
RollbackAdds(r, offered, added) ==
    SelectSeq(r, LAMBDA e : e.name \notin {offered[i].name : i \in 1..added})

\* turbo_tool_runtime_bridge_entry_destroy of the entry whose add failed: its reference goes.
EntryDestroy(n) == n - 1

\* turbo_tool_runtime_add_to_registry: first every tool is looked at, then each is added with a
\* reference of its own; a failure rolls the added ones back.
AddToRegistry(stop) ==
    LET checked == \A i \in 1..Len(rtools) : ToolUsable(rtools[i]) /\ Find(reg, rtools[i].name) = 0
        result == AddedPrefix(reg, rtools, stop)
        after == IF result.done THEN RollbackAdds(result.r, rtools, Len(result.r) - Len(reg)) ELSE result.r
    IN  /\ refs > 0 /\ owned
        /\ Len(reg) + Len(rtools) <= MaxTools
        /\ IF checked
           THEN /\ reg' = after
                /\ refs' = IF result.done
                           THEN EntryDestroy(refs + Len(result.r) - Len(reg) + 1) - (Len(result.r) - Len(after))
                           ELSE refs + Len(rtools)
                /\ treq' = (~result.done)
           ELSE UNCHANGED <<reg, refs>> /\ treq' = FALSE
        /\ UNCHANGED <<rtools, owned, impl, view>>

\* turbo_tool_runtime_destroy by the host.
DestroyRuntime ==
    /\ owned
    /\ owned' = FALSE
    /\ ReleaseRef(1)
    /\ treq' = TRUE
    /\ UNCHANGED <<reg, view>>

\* turbo_tool_registry_destroy: every entry is freed.
DestroyRegistry ==
    /\ view = <<>>
    /\ reg # <<>>
    /\ reg' = <<>>
    /\ ReleaseRef(Bridged(reg))
    /\ treq' = TRUE
    /\ UNCHANGED <<owned, view>>

\* turbo_tool_registry_publish_native_projection.
PublishProjection(name, projection) ==
    LET i == Find(reg, name)
    IN  /\ IF i # 0 /\ Publishable(reg[i], projection)
           THEN reg' = [reg EXCEPT ![i].pure = TRUE] /\ treq' = TRUE
           ELSE UNCHANGED reg /\ treq' = FALSE
        /\ UNCHANGED <<rtools, refs, owned, impl, view>>

\* turbo_tool_registry_require_capability: added once.
RequireCapability(name, cap) ==
    LET i == Find(reg, name)
    IN  /\ IF i # 0
           THEN reg' = [reg EXCEPT ![i].caps = @ \cup {cap}] /\ treq' = TRUE
           ELSE UNCHANGED reg /\ treq' = FALSE
        /\ UNCHANGED <<rtools, refs, owned, impl, view>>

\* A faulty variant: the copy is made as turbo_tool_registry_add would, without capabilities.
CopiesPlain(sources) ==
    LET Step(acc, e) ==
            IF acc.bad \/ ~Addable(acc.r, e) THEN [acc EXCEPT !.bad = TRUE]
            ELSE [acc EXCEPT !.r = Append(@, [e EXCEPT !.caps = {}])]
        all == FoldLeft(Step, [r |-> <<>>, bad |-> FALSE], sources)
    IN  IF all.bad THEN <<>> ELSE all.r

\* The copies of the named entries, in the order asked for: each is added to the new registry
\* with its capabilities, effects, contract and projection; the result is <<>> when a name is
\* unknown, repeated or taken.
Copies(sources) ==
    LET Step(acc, e) ==
            IF acc.bad \/ ~Addable(acc.r, e) THEN [acc EXCEPT !.bad = TRUE]
            ELSE [acc EXCEPT !.r = Append(@, e)]
        all == FoldLeft(Step, [r |-> <<>>, bad |-> FALSE], sources)
    IN  IF all.bad THEN <<>> ELSE all.r

\* turbo_tool_registry_project: by exact names, each once.
Project(names) ==
    LET known == \A k \in 1..Len(names) : names[k] \in ToSet(EntryNames(reg))
        source(n) == reg[CHOOSE i \in 1..Len(reg) : reg[i].name = n]
        copies == Copies([k \in 1..Len(names) |-> source(names[k])])
    IN  /\ view = <<>>
        /\ IF known /\ Cardinality(ToSet(names)) = Len(names)
           THEN view' = copies /\ treq' = (copies # <<>>)
           ELSE UNCHANGED view /\ treq' = FALSE
        /\ UNCHANGED <<reg, rtools, refs, owned, impl>>

\* turbo_tool_registry_compose of two halves of the registry, the second one first.
Compose(cut) ==
    /\ view = <<>> /\ cut \in 1..Len(reg)
    /\ LET copies == Copies(SubSeq(reg, cut + 1, Len(reg)) \o SubSeq(reg, 1, cut))
       IN  view' = copies /\ treq' = (copies # <<>>)
    /\ UNCHANGED <<reg, rtools, refs, owned, impl>>

\* The projection is destroyed before the registry it borrows from changes.
DropView ==
    /\ view # <<>> /\ view' = <<>>
    /\ treq' = TRUE
    /\ UNCHANGED <<reg, rtools, refs, owned, impl>>

\* turbo_tool_registry_execute and its three other forms, of a name a model sent: not found,
\* no handler of that form, or the entry's handler is called (for a bridged entry through
\* turbo_tool_runtime_invoke) and answers or fails.
ExecuteTool(name, entry, answers) ==
    LET i == Find(reg, name)
    IN  /\ treq' = (/\ i # 0 /\ ServedBy(reg[i], entry) # "error"
                    /\ reg[i].owner = "host" \/ impl = "alive"
                    /\ answers)
        /\ UNCHANGED <<reg, rtools, refs, owned, impl, view>>

TRInit ==
    /\ reg = <<>> /\ view = <<>> /\ rtools = <<>>
    /\ refs = 0 /\ owned = FALSE /\ impl = "destroyed"
    /\ treq = TRUE

HostDefinitions ==
    {[name |-> n, handlers |-> h, inner |-> {}, effects |-> {}, schema |-> "none", strict |-> FALSE] :
        n \in TNames, h \in THandlers}

TRNext ==
    \/ \E d \in HostDefinitions : HostAdd(d)
    \/ \E n \in TNames : RemoveTool(n)
    \/ \E n \in TNames, entry \in EntryPoints, ok \in BOOLEAN : ExecuteTool(n, entry, ok)
    \/ \E offered \in TRuntimeTools : CreateRuntime(offered)
    \/ \E stop \in 0..MaxTools : AddToRegistry(stop)
    \/ DestroyRuntime \/ DestroyRegistry \/ DropView
    \/ \E n \in TNames, p \in NativeProjections : PublishProjection(n, p)
    \/ \E n \in TNames : RequireCapability(n, "network")
    \/ \E a, b \in TNames : Project(<<a, b>>)
    \/ \E cut \in 1..MaxTools : Compose(cut)

TRSpec == TRInit /\ [][TRNext]_trVars

(* ------------------------------ properties ------------------------------ *)

\* Every bridged entry owns exactly one reference of the runtime and the host at most one, so
\* the implementation lives exactly as long as somebody can call it, through every failed
\* bridge, rollback, removal and early destroy.
ReferencesBalance ==
    /\ refs = Bridged(reg) + (IF owned THEN 1 ELSE 0)
    /\ (impl = "alive") <=> (refs > 0)

\* Whatever was added, removed, copied or bridged: names stay unique, and every name that a
\* list sent to a model shows is resolved to the tool it was made from, in the registry and
\* in a projection of it.  A bridge and a copy change nothing about how a tool is called: at
\* each entry point the handler that serves a bridged tool is the one its own runtime would
\* have called, and it is refused exactly when the runtime has none of that form.
OfferedResolves ==
    \A r \in {reg, view} :
        /\ IsInjective(EntryNames(r))
        /\ \A shown \in {OpenAITools(r), CompatibleChatTools(r), ChatTools(r), AnthropicTools(r), RegistryJson(r)} :
              \A i \in 1..Len(shown) : ResolveName(r, shown[i]) = r[i].name
        /\ \A i \in 1..Len(r), entry \in EntryPoints :
              LET own == IF r[i].owner = "runtime" THEN r[i].inner ELSE r[i].handlers
              IN  ServedBy(r[i], entry) = HandlerAt(entry, own)

\* A projection or composition copies every contract of its source: capabilities, effects,
\* result contract, handlers and native projection are those of the entry of the same name.
ProjectionFaithfulStep ==
       view # view' /\ view' # <<>>
          => \A k \in 1..Len(view') : view'[k] \in ToSet(reg)
ProjectionFaithful == [][ProjectionFaithfulStep]_trVars

\* An operation that reports a failure has changed neither a registry nor a reference count.
FailedCallChangesNothingStep == treq' = FALSE => UNCHANGED <<reg, refs, impl, owned, view>>
FailedCallChangesNothing == [][FailedCallChangesNothingStep]_trVars
=============================================================================
