------------------------------- MODULE Chain -------------------------------
(***************************************************************************)
(* Linear chains (agent/src/turbo_chain.c) and the event log that records  *)
(* one run of them (runtime/src/turbo_event_log.c).                        *)
(*                                                                         *)
(* A chain is a list of named steps: prompt, model, tool and host ("custom"*)
(* ) steps.  Two engines run it.  turbo_chain_run ("inplace") works on the *)
(* caller's own state tree and calls the json_fn of each step;             *)
(* turbo_chain_run_json_value* ("value") works on a clone, calls the       *)
(* json_value_fn, may stream canonical events, and hands the clone back    *)
(* only when every step succeeded or one of them stopped the run.          *)
(*                                                                         *)
(* What a model answers and whether a tool handler succeeds are inputs.  A *)
(* tool has a text handler, a JSON handler, or both.  Memory exhaustion is *)
(* left out.                                                               *)
(***************************************************************************)
EXTENDS Integers, Sequences, SequencesExt

CONSTANTS StepChoices,   \* for each position, the steps a host may add: records [name, kind]
          ToolHandlers,  \* tool name -> the set of its handlers, {"text", "json"}
          MaxRuns        \* bound on the number of runs on one state

VARIABLES chain,   \* the steps, in order
          host,    \* the state tree the caller holds
          st,      \* the state tree the steps work on
          crun,    \* the call in progress
          sunk,    \* the events of this run that reached the sink
          elog     \* the event log: its events and last_status

cVars == <<chain, host, st, crun, sunk, elog>>

NoTool == "no tool"

(* Roles in `messages`, `model_outputs` by number, tool requests with the  *)
(* form of their arguments, results by tool name; `ran` counts, for each   *)
(* request, the handler calls that succeeded for it.                       *)
EmptyState == [messages |-> <<>>, outputs |-> 0, requests |-> <<>>,
               results |-> <<>>, ran |-> <<>>]

NoChainRun == [pc |-> "idle", engine |-> "value", sink |-> "none", i |-> 1,
          status |-> "ok", runs |-> 0]

EmptyLog == [events |-> <<>>, status |-> "ok"]

(* ----------------------------- the events ----------------------------- *)

ChainEvent(kind, name) == [kind |-> kind, name |-> name]

ValidEvent(e) == e.kind \in {"model", "trace", "tool_result", "handoff"}

Append1(l, e) ==
    IF ValidEvent(e) THEN [events |-> Append(l.events, e), status |-> "ok"]
                     ELSE [l EXCEPT !.status = "invalid_event"]

ChainEmit(e) ==
    IF crun.sink = "none" THEN UNCHANGED <<sunk, elog>>
    ELSE /\ sunk' = Append(sunk, e)
         /\ elog' = IF crun.sink = "log" THEN Append1(elog, e) ELSE elog

Silent == UNCHANGED <<sunk, elog>>

(* ------------------------------ the chain ----------------------------- *)

HasFn(fn, step) ==
    CASE step.kind = "custom_json"  -> fn = "json_fn"
      [] step.kind = "custom_value" -> fn = "json_value_fn"
      [] OTHER                      -> TRUE

AddStep(step) ==
    /\ crun.pc = "idle" /\ crun.runs = 0
    /\ Len(chain) < Len(StepChoices) /\ step \in StepChoices[Len(chain) + 1]
    /\ \A i \in DOMAIN chain : chain[i].name # step.name
    /\ chain' = Append(chain, step)
    /\ UNCHANGED <<host, st, crun, sunk, elog>>

(* turbo_chain_run, _json_value, _json_value_stream and _json_value_log.   *)
ChainRun(engine, sink) ==
    /\ crun.pc = "idle" /\ crun.runs < MaxRuns /\ chain # <<>>
    /\ engine = "inplace" => sink = "none"
    /\ crun' = [pc |-> "step", engine |-> engine, sink |-> sink, i |-> 1,
                status |-> "ok", runs |-> crun.runs + 1]
    /\ st' = host
    /\ sunk' = <<>>
    /\ elog' = IF sink = "log" THEN EmptyLog ELSE elog
    /\ UNCHANGED <<chain, host>>

ThisStep == chain[crun.i]

AtStep(kinds) ==
    /\ crun.pc = "step" /\ crun.i <= Len(chain)
    /\ ThisStep.kind \in kinds
    /\ UNCHANGED <<chain, host>>

Advance(status) ==
    crun' = IF status = "ok" THEN [crun EXCEPT !.i = @ + 1]
                             ELSE [crun EXCEPT !.pc = "end", !.status = status]

NoFunction ==
    /\ AtStep({"custom_json", "custom_value"})
    /\ ~HasFn(IF crun.engine = "inplace" THEN "json_fn" ELSE "json_value_fn", ThisStep)
    /\ Advance("invalid_argument")
    /\ UNCHANGED st /\ Silent

PromptStep ==
    /\ AtStep({"prompt"})
    /\ st' = [st EXCEPT !.messages = Append(@, "prompt")]
    /\ Advance("ok") /\ Silent

CustomStep(status, event) ==
    /\ AtStep({"custom_json", "custom_value"})
    /\ HasFn(IF crun.engine = "inplace" THEN "json_fn" ELSE "json_value_fn", ThisStep)
    /\ st' = [st EXCEPT !.messages = Append(@, "custom")]
    /\ Advance(status)
    /\ IF event = "none" THEN Silent ELSE ChainEmit(ChainEvent(event, "custom"))

(* ------------------------------ model steps --------------------------- *)

(* How the request is stored: a JSON model's arguments as a value, a text  *)
(* model's as text, which the value engine first parses.                   *)
ArgumentForm(args) ==
    CASE args = "null"                -> "none"
      [] ThisStep.kind = "model_json"     -> "value"
      [] crun.engine = "value"        -> "value"
      [] OTHER                        -> "text"

Unparsable(args) ==
    ThisStep.kind = "model_text" /\ crun.engine = "value" /\ args = "bad"

Answered(text) ==
    IF text THEN [st EXCEPT !.messages = Append(@, "assistant"), !.outputs = @ + 1]
            ELSE st

StoreRequest(s, tool, args) ==
    [s EXCEPT !.requests = Append(@, [tool |-> tool, form |-> ArgumentForm(args)]),
              !.ran = Append(@, 0)]

ModelStep(text, tool, args) ==
    /\ AtStep({"model_text", "model_json"})
    /\ args = "bad" => ThisStep.kind = "model_text"
    /\ \/ tool = NoTool /\ args = "null"
          /\ st' = Answered(text) /\ Advance("ok")
          /\ IF text THEN ChainEmit(ChainEvent("model", NoTool)) ELSE Silent
       \/ tool # NoTool /\ Unparsable(args)
          /\ st' = Answered(text) /\ Advance("error") /\ Silent
       \/ tool # NoTool /\ ~Unparsable(args)
          /\ st' = StoreRequest(Answered(text), tool, args) /\ Advance("ok")
          /\ ChainEmit(ChainEvent("model", tool))

ModelFails ==
    /\ AtStep({"model_text", "model_json"})
    /\ Advance("error") /\ UNCHANGED st /\ Silent

(* ------------------------------- tool steps --------------------------- *)
(* A variant: a tool step that answers the latest request. *)
PendingRequestIsLast(s) ==
    IF Len(s.results) < Len(s.requests) THEN Len(s.requests) ELSE Len(s.results) + 1

PendingRequest(s) == Len(s.results) + 1

(* The handlers that run for a request, first to last: the value engine    *)
(* tries the text handler after the JSON call gave an error.               *)
HandlersTried(request) ==
    LET has(h) == IF h \in ToolHandlers[request.tool] THEN <<h>> ELSE <<>>
    IN  CASE request.form # "value"     -> has("text")
          [] crun.engine = "inplace"    -> has("json")
          [] OTHER                      -> has("json") \o has("text")

StoreResult(s, p) ==
    [s EXCEPT !.messages = Append(@, "tool"),
              !.results = Append(@, s.requests[p].tool),
              !.ran[p] = @ + 1]

(* `good` is the handler that succeeds, 0 when every one tried fails.      *)
ToolStep(good) ==
    /\ AtStep({"tool"})
    /\ LET p == PendingRequest(st)
       IN  \/ p > Len(st.requests) /\ good = 0
              /\ Advance("ok") /\ UNCHANGED st /\ Silent
           \/ p <= Len(st.requests) /\ good = 0
              /\ Advance("error") /\ UNCHANGED st /\ Silent
           \/ p <= Len(st.requests) /\ good \in DOMAIN HandlersTried(st.requests[p])
              /\ st' = StoreResult(st, p) /\ Advance("ok")
              /\ ChainEmit(ChainEvent("tool_result", st.requests[p].tool))

(* ------------------------------ the run ends -------------------------- *)

AllSteps ==
    /\ crun.pc = "step" /\ crun.i > Len(chain)
    /\ crun' = [crun EXCEPT !.pc = "end"]
    /\ UNCHANGED <<chain, host, st, sunk, elog>>

(* A log whose last append failed fails the run and drops the state.       *)
FinalStatus ==
    IF crun.sink = "log" /\ elog.status # "ok" THEN "out_of_memory" ELSE crun.status

StateDelivered == crun.engine = "inplace" \/ FinalStatus \in {"ok", "stop"}

ChainReturn ==
    /\ crun.pc = "end"
    /\ host' = IF StateDelivered THEN st ELSE host
    /\ crun' = [crun EXCEPT !.pc = "returned", !.status = FinalStatus]
    /\ UNCHANGED <<chain, st, sunk, elog>>

ChainNextCall ==
    /\ crun.pc = "returned"
    /\ crun' = [NoChainRun EXCEPT !.runs = crun.runs]
    /\ st' = EmptyState /\ sunk' = <<>>
    /\ UNCHANGED <<chain, host, elog>>

CInit ==
    /\ chain = <<>> /\ host = EmptyState /\ st = EmptyState
    /\ crun = NoChainRun /\ sunk = <<>> /\ elog = EmptyLog

CNext ==
    \/ \E step \in UNION Range(StepChoices) : AddStep(step)
    \/ \E engine \in {"inplace", "value"}, sink \in {"none", "host", "log"} : ChainRun(engine, sink)
    \/ NoFunction \/ PromptStep \/ ModelFails \/ AllSteps \/ ChainReturn \/ ChainNextCall
    \/ \E status \in {"ok", "stop", "error"}, event \in {"none", "trace", "unknown"} :
          CustomStep(status, event)
    \/ \E text \in BOOLEAN, tool \in DOMAIN ToolHandlers \cup {NoTool},
          args \in {"null", "good", "bad"} : ModelStep(text, tool, args)
    \/ \E good \in 0..2 : ToolStep(good)

CSpec == CInit /\ [][CNext]_cVars

(* ------------------------------ properties ---------------------------- *)

(* A tool step answers the oldest open request: in the tree the caller     *)
(* holds and in the tree being worked on, over any number of runs, the     *)
(* i-th result names the tool of the i-th request, and exactly the         *)
(* answered requests had a handler call succeed, once each.                *)
AnsweredInOrder(s) ==
    /\ Len(s.results) <= Len(s.requests)
    /\ \A i \in DOMAIN s.results : s.results[i] = s.requests[i].tool
    /\ \A i \in DOMAIN s.requests : s.ran[i] = IF i <= Len(s.results) THEN 1 ELSE 0
    /\ s.outputs = Len(SelectSeq(s.messages, LAMBDA m : m = "assistant"))
    /\ Len(s.results) = Len(SelectSeq(s.messages, LAMBDA m : m = "tool"))

(* Three accounts of one run agree.  The tree answers the requests in      *)
(* order.  The events of a completed run tell what it added: tool_result   *)
(* events are the results appended, model events with a tool the requests. *)
(* The log holds the canonical events of this run and of no earlier one.   *)
RunRecorded ==
    /\ \A s \in {st, host} : AnsweredInOrder(s)
    /\ crun.pc = "end" /\ crun.status = "ok" /\ crun.sink # "none" =>
        LET named(kind) == LET of(e) == e.kind = kind /\ e.name # NoTool
                           IN  [i \in DOMAIN SelectSeq(sunk, of) |-> SelectSeq(sunk, of)[i].name]
            added(l, b) == SubSeq(l, Len(b) + 1, Len(l))
            asked == added(st.requests, host.requests)
        IN  /\ named("tool_result") = added(st.results, host.results)
            /\ named("model") = [i \in DOMAIN asked |-> asked[i].tool]
    /\ crun.pc \in {"step", "end"} /\ crun.sink = "log" =>
        elog.events = SelectSeq(sunk, ValidEvent)

(* A run on a clone is all or nothing for the caller: the tree they hold   *)
(* changes only when the call returns, to the worked-on tree if the status *)
(* is OK or STOP and not at all otherwise; whatever the engine, a run only *)
(* ever appends to the lists of the tree.                                  *)
CallerSeesWholeRunsStep ==
       /\ host' # host =>
             /\ crun.pc = "end" /\ host' = st
             /\ crun'.engine = "value" => crun'.status \in {"ok", "stop"}
       /\ \A f \in {"messages", "requests", "results"} : IsPrefix(host[f], host'[f])
CallerSeesWholeRuns == [][CallerSeesWholeRunsStep]_cVars
=============================================================================
