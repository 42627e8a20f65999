------------------------------ MODULE Runnable ------------------------------
(***************************************************************************)
(* Runnables (agent/src/turbo_runnable.c): chains, graphs, state graphs,   *)
(* sessions and apps behind one interface, composed by pipe and by before/ *)
(* after hooks, and called through four surfaces: invoke, stream, log and  *)
(* batch.  The canonical events they stream and the filter on them are     *)
(* those of runtime_data/src/turbo_event.c.                                *)
(*                                                                         *)
(* A leaf is a component with a state of its own (a session's thread, a    *)
(* state graph's history): a table gives its status and output for each    *)
(* input, and after a number of calls it answers no more.  `calls` is the  *)
(* sequence of the calls the components have received, the effects of a    *)
(* call on the world outside.  Every surface is evaluated by the recursion *)
(* of the code over the tree of runnables.                                 *)
(***************************************************************************)
EXTENDS Integers, Sequences, SequencesExt

CONSTANTS Trees,    \* the runnables a host composes
          Inputs,   \* the JSON values of the instance: records [form, v]
          Batches,  \* the input arrays of the instance
          MaxPast   \* bound: calls the components remember when a host calls again

VARIABLES tree,     \* the runnable called
          rcall,    \* the surface called and its argument
          rans      \* what the call returned

rVars == <<tree, rcall, rans>>

(* ------------------------------- events ------------------------------- *)

(* An event is its kind with the JSON type of each field it carries.       *)
Trace(name, detail, status) == [kind |-> "trace", name |-> name, detail |-> detail, status |-> status]
Model(name) == [kind |-> "model", name |-> name, detail |-> "", status |-> 0]
ToolResult(name) == [kind |-> "tool_result", name |-> name, detail |-> "", status |-> 0]

StreamModes == {"all", "messages", "updates", "tools", "debug"}

StreamAccepts(mode, e) ==
    CASE mode = "all"      -> TRUE
      [] mode = "messages" -> e.kind = "model"
      [] mode = "updates"  -> e.kind # "model"
      [] mode = "tools"    -> e.kind = "tool_result"
      [] mode = "debug"    -> e.kind = "trace"

StreamFilter(mode, events) == SelectSeq(events, LAMBDA e : StreamAccepts(mode, e))

(* -------------------------------- leaves ------------------------------ *)

NoOutput == [form |-> "absent", v |-> 0]

Answer(rc, out, events, calls) == [rc |-> rc, out |-> out, events |-> events, calls |-> calls]

Failure(rc, events, calls) == Answer(rc, NoOutput, events, calls)

CallsOf(name, calls) == SelectSeq(calls, LAMBDA c : c.name = name)

(* The component does its work: the status it comes to, and one more call. *)
Status(r, input, calls) ==
    IF Len(CallsOf(r.name, calls)) >= r.lasts THEN "error" ELSE r.status[input.v]

Received(r, input, calls) == Append(calls, [name |-> r.name, v |-> input.v])

(* Only OK counts for a chain; a graph that stopped or was interrupted did *)
(* its work.                                                               *)
StatusOk(kind, status) ==
    IF kind = "chain" THEN status = "ok" ELSE status \in {"ok", "stop", "interrupted"}

Text(input) == input.form \in {"string", "object_text"}

Messages(input) == input.form = "object_messages"

(* A chain and a state graph refuse a state that is not an object.         *)
EngineTakes(kind, input) == kind = "graph" \/ input.form # "string"

(* A chain hands its state out when it stops, a graph also when it fails.  *)
HandsOut(kind, status) == kind = "graph" \/ status # "error"

Bracketed(name, rc, events) ==
    <<Trace(name, "start", 0)>> \o events \o <<Trace(name, "finish", rc)>>

(* A stopped chain counts as failed although its state was handed out.     *)
EngineInvoke(r, input, calls) ==
    LET status == Status(r, input, calls)
        out == IF HandsOut(r.kind, status) THEN [form |-> "object", v |-> r.maps[input.v]] ELSE NoOutput
    IN  IF EngineTakes(r.kind, input)
        THEN Answer(IF StatusOk(r.kind, status) THEN 0 ELSE -1, out, <<>>, Received(r, input, calls))
        ELSE Failure(-1, <<>>, calls)

(* runnable.chain and runnable.graph frame the events of the component; a  *)
(* state graph is invoked without a sink of its own.                       *)
EngineStream(r, input, calls) ==
    LET a == EngineInvoke(r, input, calls)
        own == IF r.kind = "state_graph" \/ ~EngineTakes(r.kind, input) THEN <<>> ELSE r.events
    IN  [a EXCEPT !.events = Bracketed("runnable." \o r.kind, a.rc, own)]

(* A session or app takes text or messages, and answers with an object     *)
(* that holds the summary, the state and the output text.                  *)
AgentCall(r, input, events, calls) ==
    IF ~Text(input) /\ ~Messages(input) THEN Failure(-1, <<>>, calls)
    ELSE IF Status(r, input, calls) # "ok" THEN Failure(-1, events, Received(r, input, calls))
         ELSE Answer(0, [form |-> "object", v |-> r.maps[input.v]], events, Received(r, input, calls))

HostInvoke(r, input, calls) ==
    IF Status(r, input, calls) = "ok"
    THEN Answer(0, [form |-> "string", v |-> r.maps[input.v]], <<>>, Received(r, input, calls))
    ELSE Failure(-7, <<>>, Received(r, input, calls))

(* A host function without a stream function gets the runnable.invoke      *)
(* frame.                                                                  *)
HostStream(r, input, calls) ==
    LET a == HostInvoke(r, input, calls)
    IN  [a EXCEPT !.events = Bracketed("runnable.invoke", a.rc, <<>>)]

LeafInvoke(r, input, calls) ==
    CASE r.kind \in {"chain", "graph", "state_graph"} -> EngineInvoke(r, input, calls)
      [] r.kind \in {"session", "app"}                -> AgentCall(r, input, <<>>, calls)
      [] OTHER                                        -> HostInvoke(r, input, calls)

LeafStream(r, input, calls) ==
    CASE r.kind \in {"chain", "graph", "state_graph"} -> EngineStream(r, input, calls)
      [] r.kind \in {"session", "app"}                -> AgentCall(r, input, r.events, calls)
      [] OTHER                                        -> HostStream(r, input, calls)

(* ---------------------------- composition ----------------------------- *)

(* Hooks: "none" keeps the value, "replace" gives another one, "fail"      *)
(* returns an error.                                                       *)
Hook(hook, value) ==
    CASE hook = "none"    -> [rc |-> 0, value |-> value]
      [] hook = "replace" -> [rc |-> 0, value |-> [form |-> "string", v |-> 1]]
      [] hook = "fail"    -> [rc |-> -5, value |-> value]

(* What a wrapper makes of the inner answer `a`.                           *)
Wrapped(r, a) ==
    LET post == Hook(r.after, a.out)
    IN  CASE a.rc # 0    -> Failure(a.rc, a.events, a.calls)
          [] post.rc # 0 -> Failure(post.rc, a.events, a.calls)
          [] OTHER       -> Answer(0, post.value, a.events, a.calls)

RECURSIVE Invoke(_, _, _)
Invoke(r, input, calls) ==
    CASE r.kind = "pipe" ->
            LET a == Invoke(r.first, input, calls)
            IN  IF a.rc # 0 THEN Failure(a.rc, <<>>, a.calls) ELSE Invoke(r.second, a.out, a.calls)
      [] r.kind = "wrap" ->
            LET pre == Hook(r.before, input)
            IN  IF pre.rc # 0 THEN Failure(pre.rc, <<>>, calls)
                              ELSE Wrapped(r, Invoke(r.inner, pre.value, calls))
      [] OTHER -> LeafInvoke(r, input, calls)

RECURSIVE Stream(_, _, _)
Stream(r, input, calls) ==
    CASE r.kind = "pipe" ->
            LET a == Stream(r.first, input, calls)
            IN  IF a.rc # 0 THEN Failure(a.rc, a.events, a.calls)
                ELSE LET b == Stream(r.second, a.out, a.calls)
                     IN  [b EXCEPT !.events = a.events \o @]
      [] r.kind = "wrap" ->
            LET pre == Hook(r.before, input)
            IN  IF pre.rc # 0 THEN Failure(pre.rc, <<>>, calls)
                              ELSE Wrapped(r, Stream(r.inner, pre.value, calls))
      [] OTHER -> LeafStream(r, input, calls)

(* A mutant of BatchEach: an element that fails is left out.               *)
BatchEachSkips(r, inputs, calls) ==
    LET Step(acc, input) ==
            LET a == Invoke(r, input, acc.calls)
            IN  [acc EXCEPT !.calls = a.calls, !.outs = IF a.rc = 0 THEN Append(@, a.out) ELSE @]
    IN  FoldLeft(Step, [rc |-> 0, outs |-> <<>>, calls |-> calls], inputs)

(* Elements one after the other, up to the first that fails.               *)
BatchEach(r, inputs, calls) ==
    LET Step(acc, input) ==
            IF acc.rc # 0 THEN acc
            ELSE LET a == Invoke(r, input, acc.calls)
                 IN  IF a.rc # 0 THEN [rc |-> a.rc, outs |-> <<>>, calls |-> a.calls]
                     ELSE [rc |-> 0, outs |-> Append(acc.outs, a.out), calls |-> a.calls]
    IN  FoldLeft(Step, [rc |-> 0, outs |-> <<>>, calls |-> calls], inputs)

(* A pipe passes the whole array through its first part before its second. *)
RECURSIVE Batch(_, _, _)
Batch(r, inputs, calls) ==
    IF r.kind = "pipe"
    THEN LET a == Batch(r.first, inputs, calls)
         IN  IF a.rc # 0 THEN a ELSE Batch(r.second, a.outs, a.calls)
    ELSE BatchEach(r, inputs, calls)

(* ------------------------------ the calls ----------------------------- *)

NoCallYet == [surface |-> "none", input |-> NoOutput, inputs |-> <<>>, mode |-> "all",
              past |-> <<>>]
NoAnswer == [rc |-> 0, out |-> NoOutput, outs |-> <<>>, events |-> <<>>, calls |-> <<>>]

Called == rcall.surface # "none"

CallInvoke(input) ==
    /\ ~Called
    /\ rcall' = [NoCallYet EXCEPT !.surface = "invoke", !.input = input,
                                !.past = rans.calls]
    /\ LET a == Invoke(tree, input, rans.calls)
       IN  rans' = [NoAnswer EXCEPT !.rc = a.rc, !.out = a.out, !.calls = a.calls]
    /\ UNCHANGED tree

CallStream(input, mode) ==
    /\ ~Called
    /\ rcall' = [NoCallYet EXCEPT !.surface = "stream", !.input = input, !.mode = mode,
                                !.past = rans.calls]
    /\ LET a == Stream(tree, input, rans.calls)
       IN  rans' = [NoAnswer EXCEPT !.rc = a.rc, !.out = a.out, !.calls = a.calls,
                                    !.events = StreamFilter(mode, a.events)]
    /\ UNCHANGED tree

(* invoke_json_value_log: a log that could not keep an event fails the     *)
(* call after the work was done, and takes its output back.                *)
CallLog(input, kept) ==
    /\ ~Called
    /\ rcall' = [NoCallYet EXCEPT !.surface = IF kept THEN "log" ELSE "lost_log", !.input = input,
                                !.past = rans.calls]
    /\ LET a == Stream(tree, input, rans.calls)
       IN  rans' = IF kept \/ a.events = <<>>
                   THEN [NoAnswer EXCEPT !.rc = a.rc, !.calls = a.calls, !.out = a.out, !.events = a.events]
                   ELSE [NoAnswer EXCEPT !.rc = -1, !.calls = a.calls]
    /\ UNCHANGED tree

CallBatch(inputs) ==
    /\ ~Called
    /\ rcall' = [NoCallYet EXCEPT !.surface = "batch", !.inputs = inputs,
                                !.past = rans.calls]
    /\ LET a == Batch(tree, inputs, rans.calls)
       IN  rans' = [NoAnswer EXCEPT !.rc = a.rc, !.outs = a.outs, !.calls = a.calls]
    /\ UNCHANGED tree

Again ==
    /\ Called
    /\ Len(rans.calls) <= MaxPast
    /\ rcall' = NoCallYet /\ rans' = [NoAnswer EXCEPT !.calls = rans.calls]
    /\ UNCHANGED tree

RInit == tree \in Trees /\ rcall = NoCallYet /\ rans = NoAnswer

RNext ==
    \/ \E input \in Inputs : CallInvoke(input) \/ CallLog(input, TRUE) \/ CallLog(input, FALSE)
    \/ \E input \in Inputs, mode \in StreamModes : CallStream(input, mode)
    \/ \E inputs \in Batches : CallBatch(inputs)
    \/ Again

RSpec == RInit /\ [][RNext]_rVars

(* ------------------------------ properties ---------------------------- *)

(* Every start of a frame is closed by its own finish, frames nest.        *)
RECURSIVE Nested(_, _)
Nested(events, open) ==
    IF events = <<>> THEN open = <<>>
    ELSE LET e == Head(events)
         IN  CASE e.kind = "trace" /\ e.detail = "start"  -> Nested(Tail(events), <<e.name>> \o open)
               [] e.kind = "trace" /\ e.detail = "finish" ->
                     open # <<>> /\ Head(open) = e.name /\ Nested(Tail(events), Tail(open))
               [] OTHER -> Nested(Tail(events), open)

(* The components at the leaves of a runnable, from left to right.         *)
RECURSIVE Components(_)
Components(r) ==
    CASE r.kind = "pipe" -> Components(r.first) \o Components(r.second)
      [] r.kind = "wrap" -> Components(r.inner)
      [] OTHER           -> <<r.name>>

(* The answers of the elements invoked one after the other.                *)
OneByOne(r, inputs, past) ==
    FoldLeft(LAMBDA acc, input : Append(acc, Invoke(r, input, IF acc = <<>> THEN past ELSE Last(acc).calls)),
             <<>>, inputs)

(* What a surface is allowed to do to the components.  Invoking, streaming *)
(* and logging return the same code and value and call the same components *)
(* with the same values, once each and in order, however a part, a hook or *)
(* the log fails; the frames of the stream nest, and its "messages" and    *)
(* "updates" parts split it without loss or overlap.  A batch succeeds     *)
(* exactly when the elements one after the other do, with their outputs in *)
(* their order, and each component that occurs once has then received the  *)
(* same calls; but the second part of a pipe is not called before the      *)
(* first has served every element, so that a failure in the first part has *)
(* no effect in the second (turbo_runnable_pipe_batch_json_value); a       *)
(* failed batch hands out nothing.                                         *)
SurfacesAgree ==
    LET s == Stream(tree, rcall.input, rcall.past)
        i == Invoke(tree, rcall.input, rcall.past)
        leaves == Components(tree)
        new(calls) == SubSeq(calls, Len(rcall.past) + 1, Len(calls))
    IN  CASE rcall.surface \in {"invoke", "stream", "log", "lost_log"} ->
                /\ i.rc = s.rc /\ i.out = s.out
                /\ rans.calls = i.calls /\ rans.calls = s.calls
                /\ \/ rans.rc = i.rc /\ rans.out = i.out
                   \/ rcall.surface = "lost_log" /\ rans.rc # 0 /\ rans.out = NoOutput
                /\ i.rc = 0 => i.out # NoOutput
                /\ IsPrefix([k \in DOMAIN new(i.calls) |-> new(i.calls)[k].name], leaves)
                /\ i.rc = 0 => Len(new(i.calls)) = Len(leaves)
                /\ Nested(s.events, <<>>)
                /\ Len(s.events) = Len(StreamFilter("messages", s.events))
                                   + Len(StreamFilter("updates", s.events))
          [] rcall.surface = "batch" ->
                LET alone == OneByOne(tree, rcall.inputs, rcall.past)
                IN  /\ rans.rc = 0 <=> \A k \in DOMAIN alone : alone[k].rc = 0
                    /\ rans.outs = IF rans.rc = 0 THEN [k \in DOMAIN alone |-> alone[k].out] ELSE <<>>
                    /\ rans.rc = 0 /\ alone # <<>> /\ IsInjective(leaves) =>
                          \A n \in ToSet(leaves) : CallsOf(n, rans.calls) = CallsOf(n, Last(alone).calls)
                    /\ tree.kind = "pipe" /\ IsInjective(leaves) =>
                          LET now == new(rans.calls)
                              second == {k \in DOMAIN now : now[k].name \in ToSet(Components(tree.second))}
                          IN  second # {} =>
                                /\ \A k \in DOMAIN rcall.inputs : OneByOne(tree.first, rcall.inputs, rcall.past)[k].rc = 0
                                /\ \A k \in DOMAIN now \ second : \A m \in second : k < m
          [] OTHER -> TRUE
=============================================================================
