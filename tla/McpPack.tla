------------------------------- MODULE McpPack -------------------------------
(***************************************************************************)
(* The pack of tools discovered on an MCP server (mcp_tools): its refresh, *)
(* which reads the server's paged listing into a candidate registry and    *)
(* swaps it in at the end; the tools it registers, whose annotated         *)
(* arguments are mirrored into request headers; and the JSON-RPC client    *)
(* under both, one POST and one answer per request.                        *)
(*                                                                         *)
(* A schema is the sequence of its "x-mcp-header" annotations, each with   *)
(* the place it stands at, the header it names and the type beside it.     *)
(* The arguments of a call are a function from property to value kind.     *)
(* The server and the network are external: a POST may fail before or      *)
(* after the server has run the tool, and the answer may be anything.      *)
(***************************************************************************)
EXTENDS Naturals, Sequences, SequencesExt

CONSTANTS Pages,        \* what tools/list may answer
          Answers,      \* what a POST may answer: see Parsed
          Arguments,    \* arguments of a call: functions property -> value kind
          Normalized,   \* remote tool name -> its name with other characters as '_'
          TooLong,      \* remote names whose local name passes 128 bytes
          MaxTools, MaxPages, MaxHeaders,
          MaxId         \* the last request id, INT64_MAX in the code

VARIABLES pack,         \* registry, rejected count, next request id
          refresh,      \* the refresh in progress
          mcall,         \* the call in progress
          halted,      \* what the call's context reports: "no", "cancelled", "deadline"
          ran           \* requests whose tool the server ran: [id, tool, headers]

packVars == <<pack, refresh, mcall, halted, ran>>

NoRefresh == [pc |-> "idle", page |-> 0, cursor |-> "", candidate |-> <<>>, rejected |-> 0,
              served |-> <<>>, kept |-> <<>>, status |-> "none"]
NoMcpCall == [pc |-> "idle", entry |-> "context", tool |-> 0, args |-> [p \in {} |-> "null"], headers |-> <<>>, id |-> 0,
           status |-> "none"]

McpInit ==
        /\ pack = [registry |-> <<>>, rejected |-> 0, next |-> 1]
        /\ refresh = NoRefresh
        /\ mcall = NoMcpCall
        /\ halted = "no"
        /\ ran = {}

-----------------------------------------------------------------------------
(* The client: the request id, the limits before the POST, the answer after it. *)

\* Whether one message answers the request: "no", "result" or "error".
response_matches(m) == IF m.what = "junk" \/ ~m.own THEN "no"
                       ELSE IF m.what = "result" THEN "result" ELSE "error"

\* The first event of the stream that answers the request decides it.
SseAnswer(events) ==
    LET told == SelectSeq(events, LAMBDA m : response_matches(m) # "no")
    IN  told # <<>> /\ response_matches(Head(told)) = "result"

\* The status of a request once the transport has been entered.
Parsed(a) == CASE a.kind = "failed" -> "error"
               [] a.kind = "large" -> "output_limit"
               [] a.kind = "http" -> "error"
               [] a.kind = "json" -> IF response_matches(a.body[1]) = "result" THEN "ok" ELSE "error"
               [] a.kind = "sse" -> IF SseAnswer(a.body) THEN "ok" ELSE "error"
               [] a.kind = "other" -> "error"


\* A tools/call that entered the transport and has no usable result may have run.
CallStatus(s) == IF s = "ok" THEN "ok" ELSE "unknown"

\* The limits checked before the POST; a request with a name has five headers of its own.
Refused(named, params, large) ==
    CASE params > MaxHeaders - 4 -> "invalid"
      [] pack.next > MaxId -> "error"
      [] large -> "output_limit"
      [] (IF named THEN 5 ELSE 4) + params > MaxHeaders -> "output_limit"
      [] OTHER -> "ok"

\* The request id is spent once the id check has passed, whatever comes after it.
SpendsId(params) == params <= MaxHeaders - 4 /\ pack.next <= MaxId

-----------------------------------------------------------------------------
(* Registration of one listed tool in the candidate registry. *)

\* A header is collected when its annotation stands on a property reached from the root
\* through "properties", has a valid name not used before and a mirrored type.
Collects(schema, i) == /\ schema[i].at = "property"
                       /\ schema[i].valid
                       /\ schema[i].type \in {"string", "integer", "boolean"}
                       /\ \A j \in 1..(i - 1) : schema[j].name # schema[i].name

\* One annotation that cannot be collected rejects the tool.
scan_schema(schema) == \A i \in DOMAIN schema : Collects(schema, i)

local_tool_name(n) == Normalized[n]

Local(registry) == {registry[i].local : i \in DOMAIN registry}

\* The outcome of one entry: the registry and rejected count after it, and the status.
register_remote_tool(e, registry, rejected) ==
    LET same(s) == [registry |-> registry, rejected |-> rejected, status |-> s]
    IN  CASE ~e.wellFormed -> same("error")
          [] e.name \in TooLong -> same("error")
          [] ~scan_schema(e.schema) -> [same("ok") EXCEPT !.rejected = rejected + 1]
          [] Len(registry) >= MaxTools -> same("backpressure")
          [] local_tool_name(e.name) \in Local(registry) -> same("duplicate")
          [] OTHER -> [same("ok") EXCEPT !.registry =
                 Append(registry, [local |-> local_tool_name(e.name), remote |-> e.name, headers |-> e.schema])]

\* The entries of a page in order, stopping at the first that fails.
RegisterPage(tools, registry, rejected) ==
    FoldLeft(LAMBDA acc, e : IF acc.status # "ok" THEN acc
                             ELSE register_remote_tool(e, acc.registry, acc.rejected),
             [registry |-> registry, rejected |-> rejected, status |-> "ok"], tools)

-----------------------------------------------------------------------------
(* turbo_mcp_tool_pack_refresh: one step per page. *)

Refresh ==
    /\ refresh.pc = "idle" /\ mcall.pc = "idle"
    /\ refresh' = [NoRefresh EXCEPT !.pc = "list", !.kept = <<pack.registry, pack.rejected>>]
    /\ UNCHANGED <<pack, mcall, halted, ran>>

\* The refresh gives its candidate up and leaves the pack's registry alone.
RefreshFails(s, next) == /\ refresh' = [refresh EXCEPT !.pc = "done", !.status = s]
                         /\ pack' = [pack EXCEPT !.next = next]

PageLimit == /\ refresh.pc = "list" /\ refresh.page >= MaxPages
             /\ RefreshFails("backpressure", pack.next)
             /\ UNCHANGED <<mcall, halted, ran>>

ListRefused == /\ refresh.pc = "list" /\ refresh.page < MaxPages
               /\ Refused(FALSE, 0, FALSE) # "ok"
               /\ RefreshFails(Refused(FALSE, 0, FALSE), pack.next)
               /\ UNCHANGED <<mcall, halted, ran>>

ListFails(a) == /\ refresh.pc = "list" /\ refresh.page < MaxPages
                /\ Refused(FALSE, 0, FALSE) = "ok"
                /\ Parsed(a) # "ok"
                /\ RefreshFails(Parsed(a), pack.next + 1)
                /\ UNCHANGED <<mcall, halted, ran>>

\* What the refresh does with a page: fails, installs the candidate, or asks for the next page.
PageTaken(p) ==
    LET r == RegisterPage(p.tools, refresh.candidate, refresh.rejected)
        here == [refresh EXCEPT !.candidate = r.registry, !.rejected = r.rejected, !.served = @ \o p.tools,
                                !.page = @ + 1]
        stop(s) == /\ refresh' = [here EXCEPT !.pc = "done", !.status = s]
                   /\ pack' = [pack EXCEPT !.next = @ + 1]
    IN  CASE ~p.complete -> stop("error")
          [] p.complete /\ r.status # "ok" -> stop(r.status)
          [] p.complete /\ r.status = "ok" /\ p.next = "invalid" -> stop("error")
          [] p.complete /\ r.status = "ok" /\ p.next = "" ->
                 /\ refresh' = [here EXCEPT !.pc = "done", !.status = "ok"]
                 /\ pack' = [registry |-> r.registry, rejected |-> r.rejected, next |-> pack.next + 1]
          [] p.complete /\ r.status = "ok" /\ p.next = refresh.cursor /\ p.next # "" -> stop("error")
          [] OTHER -> /\ refresh' = [here EXCEPT !.cursor = p.next]
                      /\ pack' = [pack EXCEPT !.next = @ + 1]

ListPage(p) == /\ refresh.pc = "list" /\ refresh.page < MaxPages
               /\ Refused(FALSE, 0, FALSE) = "ok"
               /\ PageTaken(p)
               /\ UNCHANGED <<mcall, halted, ran>>

RefreshReturns == /\ refresh.pc = "done"
                  /\ refresh' = NoRefresh
                  /\ UNCHANGED <<pack, mcall, halted, ran>>

-----------------------------------------------------------------------------
(* turbo_mcp_tool_invoke_context: one call of a registered tool. *)

\* The status the context gives: a legacy entry has no context.
context_status(entry) == IF entry = "legacy" \/ halted = "no" THEN "ok" ELSE halted

\* Contextual entries keep the typed status; the legacy callbacks return zero or -1, which
\* the registry reports as a plain error.
Reported(entry, s) == IF entry = "legacy" /\ s # "ok" THEN "error" ELSE s

CallReturns(c, s) == mcall' = [c EXCEPT !.pc = "done", !.status = Reported(c.entry, s)]

Value(args, property) == IF property \in DOMAIN args THEN args[property] ELSE "null"

\* The headers a call mirrors: those of its tool whose argument is present.
Present(tool, args) == SelectSeq(tool.headers, LAMBDA h : Value(args, h.name) # "null")

Mirrored(tool, args) ==
    [i \in DOMAIN Present(tool, args) |-> <<Present(tool, args)[i].name, args[Present(tool, args)[i].name]>>]

InvokeTool(entry, t, args) ==
    LET tool == pack.registry[t]
        c == [NoMcpCall EXCEPT !.entry = entry, !.tool = t, !.args = args]
    IN  /\ mcall.pc = "idle" /\ refresh.pc = "idle"
        /\ CASE context_status(entry) # "ok" -> CallReturns(c, context_status(entry))
             [] context_status(entry) = "ok"
                /\ \E i \in DOMAIN Present(tool, args) :
                       args[Present(tool, args)[i].name] # Present(tool, args)[i].type -> CallReturns(c, "invalid")
             [] OTHER -> mcall' = [c EXCEPT !.pc = "built", !.headers = Mirrored(tool, args)]
        /\ UNCHANGED <<pack, refresh, halted, ran>>

\* The second context check and the client's limits, up to the POST.
Post(large) ==
    LET refused == Refused(TRUE, Len(mcall.headers), large)
    IN  /\ mcall.pc = "built"
        /\ CASE context_status(mcall.entry) # "ok" ->
                    CallReturns(mcall, context_status(mcall.entry)) /\ UNCHANGED pack
             [] context_status(mcall.entry) = "ok" /\ refused # "ok" ->
                    /\ CallReturns(mcall, refused)
                    /\ pack' = [pack EXCEPT !.next = IF SpendsId(Len(mcall.headers)) THEN @ + 1 ELSE @]
             [] OTHER -> /\ mcall' = [mcall EXCEPT !.pc = "sent", !.id = pack.next]
                         /\ pack' = [pack EXCEPT !.next = @ + 1]
        /\ UNCHANGED <<refresh, halted, ran>>

\* The server runs the tool, if the request gets there (external).
ServerRuns == /\ mcall.pc = "sent"
              /\ \A r \in ran : r.id # mcall.id
              /\ ran' = ran \cup {[id |-> mcall.id, tool |-> pack.registry[mcall.tool].remote,
                                   headers |-> mcall.headers]}
              /\ UNCHANGED <<pack, refresh, mcall, halted>>

\* The transport comes back; a result that answers this request is only sent after the run.
CallAnswered(a) == /\ mcall.pc = "sent"
                   /\ Parsed(a) = "ok" => \E r \in ran : r.id = mcall.id
                   /\ CallReturns(mcall, CallStatus(Parsed(a)))
                   /\ UNCHANGED <<pack, refresh, halted, ran>>

\* The caller takes the result; the runs of finished calls are forgotten.
Taken == /\ mcall.pc = "done"
         /\ mcall' = NoMcpCall
         /\ ran' = {}
         /\ halted' = "no"
         /\ UNCHANGED <<pack, refresh>>

\* The run is cancelled or its deadline passes, at any moment of a call (external).
StopCall(how) == /\ halted = "no"
                 /\ halted' = how
                 /\ UNCHANGED <<pack, refresh, mcall, ran>>

McpNext ==
        \/ Refresh \/ PageLimit \/ ListRefused \/ RefreshReturns
        \/ \E a \in Answers : ListFails(a)
        \/ \E p \in Pages : ListPage(p)
        \/ \E entry \in {"context", "legacy"}, t \in DOMAIN pack.registry, args \in Arguments : InvokeTool(entry, t, args)
        \/ \E large \in BOOLEAN : Post(large)
        \/ ServerRuns
        \/ \E a \in Answers : CallAnswered(a)
        \/ Taken
        \/ \E how \in {"cancelled", "deadline"} : StopCall(how)

McpSpec == McpInit /\ [][McpNext]_packVars

-----------------------------------------------------------------------------
\* A refresh that succeeds has installed every tool of the pages it was served, in order, but
\* the ones it counted as rejected, and no two under one local name; one that fails has left the
\* registry and the rejected count as they were (turbo_mcp_tool_pack_refresh).
RefreshWhole ==
    refresh.pc = "done" =>
        IF refresh.status = "ok"
        THEN /\ [i \in DOMAIN pack.registry |-> pack.registry[i].remote]
                  = LET good == SelectSeq(refresh.served, LAMBDA e : scan_schema(e.schema))
                    IN  [i \in DOMAIN good |-> good[i].name]
             /\ Len(pack.registry) + pack.rejected = Len(refresh.served)
             /\ \A i, j \in DOMAIN pack.registry : pack.registry[i].local = pack.registry[j].local => i = j
        ELSE <<pack.registry, pack.rejected>> = refresh.kept

\* A contextual call that reports anything but a result or an unknown side effect has not
\* reached the server, and one that reports an unknown side effect was sent; a call through any
\* entry that reports a result was run, as the tool it was registered for, with every present
\* annotated argument mirrored (turbo_mcp_client_request, turbo_mcp_tool_invoke_context).  A
\* legacy entry's error tells nothing about the server: the typed status is lost there.
CallsHonest ==
    mcall.pc = "done" =>
        /\ mcall.entry = "context" => /\ mcall.status \notin {"ok", "unknown"} => ran = {}
                                      /\ mcall.status = "unknown" => mcall.id # 0
        /\ mcall.status = "ok" =>
               \E r \in ran : /\ r.id = mcall.id
                              /\ r.tool = pack.registry[mcall.tool].remote
                              /\ Range(r.headers) =
                                     {<<h.name, mcall.args[h.name]>> :
                                         h \in {x \in Range(pack.registry[mcall.tool].headers) :
                                                    Value(mcall.args, x.name) # "null"}}

=============================================================================
