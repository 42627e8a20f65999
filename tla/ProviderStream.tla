--------------------------- MODULE ProviderStream ---------------------------
(***************************************************************************)
(* Reading a model's answer (provider/src): the server-sent events of the  *)
(* three wire formats are read twice, by the live reader that emits an     *)
(* event per change (turbo_provider_*_sse_emit_json_value) and by the      *)
(* aggregator that folds them into one response (turbo_agent_*_sse_to_json)*)
(* which the converters of unstreamed responses then turn into the same    *)
(* kind of event (turbo_provider_response_to_event_json_value).            *)
(*                                                                         *)
(* The server is external: it sends the frames of an answer it composes as *)
(* it goes, the frames of several blocks in any order.  Texts and argument *)
(* strings are sequences of tokens; Null is a missing field.               *)
(***************************************************************************)
EXTENDS Naturals, Sequences, FiniteSets, TLC

CONSTANTS
  Formats,      \* "responses", "chat", "anthropic"
  MaxFrames,    \* bound on the frames of a stream
  MaxBlocks     \* bound on the text blocks and tool calls of an answer

VARIABLES
  fmt,      \* the format of the stream
  said,     \* the answer the server is sending: its id and blocks, the text in the
            \* order it was sent, the blocks in the order they were finished; a call has
            \* the arguments that were sent for others while it was the last and finished
  open,     \* the blocks that are not finished
  sent,     \* frames sent
  ended,    \* "no", "done" (the protocol's end), "noise" (a frame that does not parse came)
  live,     \* the live reader's state and its last event
  fold      \* the aggregator's state

streamVars == <<fmt, said, open, sent, ended, live, fold>>

Null == <<"NULL">>
Id   == <<"id">>
Whole == <<"{", "}">>          \* complete arguments

\* a text of tokens appended to one that may be missing
Cat(a, b) == IF a = Null THEN b ELSE a \o b

Blank == [id |-> Null, type |-> Null, name |-> Null, args |-> Null]

\* Slots up to index i, the new ones zeroed.
Slots(calls, i) == [k \in 1..(IF Len(calls) >= i THEN Len(calls) ELSE i) |->
                      IF k <= Len(calls) THEN calls[k] ELSE Blank]

NoEvent == [id |-> Null, text |-> <<>>, calls |-> <<>>]
Reader  == [id |-> Null, role |-> Null, text |-> Null, calls |-> <<>>, failed |-> FALSE,
            event |-> NoEvent, seen |-> FALSE, items |-> <<>>, completed |-> <<>>]

----------------------------------------------------------------------------
(* The live reader.                                                         *)

\* replace_text_if_changed and append_dynamic_text keep what they have when the
\* frame brings nothing; replace takes an empty text where that is allowed.
Replaced(old, new, allowEmpty) ==
  IF new = Null \/ (new = <<>> /\ ~allowEmpty) THEN old ELSE new

Appended(old, new) == IF new \in {Null, <<>>} THEN old ELSE Cat(old, new)

\* emit_stream_event: calls that have an id and a name.
EventOf(r) ==
  LET named == SelectSeq(r.calls, LAMBDA c : c.id # Null /\ c.name # Null)
  IN  [id |-> r.id, text |-> IF r.text = Null THEN <<>> ELSE r.text,
       calls |-> [i \in DOMAIN named |->
                    [id |-> named[i].id, name |-> named[i].name,
                     args |-> IF named[i].args = Null THEN <<>> ELSE named[i].args]]]

Emit(r, old) ==
  IF r.text # old.text \/ r.calls # old.calls THEN [r EXCEPT !.event = EventOf(r)] ELSE r

LiveChat(r, f) ==
  LET id   == Replaced(r.id, f.id, FALSE)
      text == Appended(r.text, f.text)
      put[k \in 0..Len(f.calls)] ==
        IF k = 0 THEN r.calls
        ELSE LET c == f.calls[k]
                 s == Slots(put[k-1], c.index)
             IN  [s EXCEPT ![c.index] =
                    [id   |-> Replaced(@.id, c.id, FALSE),
                     type |-> @.type,
                     name |-> Appended(@.name, c.name),
                     args |-> Appended(@.args, c.args)]]
  IN  IF ~f.choice THEN [r EXCEPT !.id = id]
      ELSE Emit([r EXCEPT !.id = id, !.text = text, !.calls = put[Len(f.calls)]], r)

LiveAnthropic(r, f) ==
  CASE f.type = "message_start" -> [r EXCEPT !.id = Replaced(@, f.id, FALSE)]
    [] f.type = "text_start"  -> Emit([r EXCEPT !.text = Appended(@, f.text)], r)
    [] f.type = "text_delta"  -> Emit([r EXCEPT !.text = Appended(@, f.text)], r)
    [] f.type = "tool_start"  ->
         Emit([r EXCEPT !.calls = [Slots(@, f.index) EXCEPT ![f.index] =
                [id   |-> Replaced(@.id, f.cid, FALSE), type |-> <<"tool_use">>,
                 name |-> Replaced(@.name, f.name, FALSE),
                 args |-> IF f.args \in {Null, <<>>} THEN @.args ELSE f.args]]], r)
    [] f.type = "tool_delta"  ->
         Emit([r EXCEPT !.calls = [Slots(@, f.index) EXCEPT ![f.index].type = <<"tool_use">>,
                                    ![f.index].args = Appended(@, f.args)]], r)
    [] OTHER -> r

\* An output item, added or done: a message replaces the text, a call is found
\* by its id or takes the next slot.
LiveItem(r, item) ==
  IF item.type = "message" THEN Emit([r EXCEPT !.text = Replaced(@, item.text, TRUE)], r)
  ELSE LET old == {k \in DOMAIN r.calls : r.calls[k].id = item.cid}
           k   == IF old = {} THEN Len(r.calls) + 1 ELSE CHOOSE j \in old : \A i \in old : j <= i
       IN  Emit([r EXCEPT !.calls = [Slots(@, k) EXCEPT ![k] =
                  [id   |-> Replaced(@.id, item.cid, FALSE), type |-> <<"function_call">>,
                   name |-> Replaced(@.name, item.name, FALSE),
                   args |-> Replaced(@.args, item.args, TRUE)]]], r)

\* Variant: the arguments of an item that is done are appended to the deltas.
LiveResponsesAppends(r, f) ==
  LET n == [r EXCEPT !.id = Replaced(@, f.id, FALSE)]
      k == IF Len(r.calls) = 0 THEN 1 ELSE Len(r.calls)
  IN  CASE f.type = "text_delta" -> Emit([n EXCEPT !.text = Appended(@, f.text)], n)
        [] f.type = "args_delta" ->
             Emit([n EXCEPT !.calls = [Slots(@, k) EXCEPT ![k].args = Appended(@, f.args)]], n)
        [] f.type = "item_added" -> LiveItem(n, f.item)
        [] f.type = "item_done" /\ f.item.type = "call" ->
             Emit([n EXCEPT !.calls = [Slots(@, k) EXCEPT ![k].args = Appended(@, f.item.args)]], n)
        [] f.type = "item_done" -> LiveItem(n, f.item)
        [] OTHER -> n

\* Argument deltas go to the last call.
LiveResponses(r, f) ==
  LET n == [r EXCEPT !.id = Replaced(@, f.id, FALSE)]
      k == IF Len(r.calls) = 0 THEN 1 ELSE Len(r.calls)
  IN  CASE f.type = "text_delta" -> Emit([n EXCEPT !.text = Appended(@, f.text)], n)
        [] f.type = "args_delta" ->
             Emit([n EXCEPT !.calls = [Slots(@, k) EXCEPT ![k].args = Appended(@, f.args)]], n)
        [] f.type \in {"item_added", "item_done"} -> LiveItem(n, f.item)
        [] OTHER -> n

----------------------------------------------------------------------------
(* The aggregator.                                                          *)

Kept(old, new) == IF new \in {Null, <<>>} THEN old ELSE new     \* set_if_nonempty
Added(old, new) == IF new = Null THEN old ELSE Cat(old, new)    \* append when present

\* A chunk without a choice fails the whole aggregation.
FoldChat(r, f) ==
  LET put[k \in 0..Len(f.calls)] ==
        IF k = 0 THEN r.calls
        ELSE LET c == f.calls[k]
                 s == Slots(put[k-1], c.index)
             IN  [s EXCEPT ![c.index] =
                    [id |-> Kept(@.id, c.id), type |-> @.type, name |-> Kept(@.name, c.name),
                     args |-> Cat(@.args, IF c.args = Null THEN <<>> ELSE c.args)]]
  IN  IF ~f.choice THEN [r EXCEPT !.failed = TRUE]
      ELSE [r EXCEPT !.id = Kept(@, f.id), !.text = Added(@, f.text),
                     !.calls = put[Len(f.calls)], !.seen = TRUE]

FoldAnthropic(r, f) ==
  LET n == IF f.type = "ping" THEN r ELSE [r EXCEPT !.seen = TRUE]
  IN  CASE f.type = "message_start" -> [n EXCEPT !.id = Kept(@, f.id), !.role = Kept(@, f.role)]
        [] f.type \in {"text_start", "text_delta"} -> [n EXCEPT !.text = Added(@, f.text)]
        [] f.type = "tool_start" ->
             [n EXCEPT !.calls = [Slots(@, f.index) EXCEPT ![f.index] =
                [id |-> Kept(@.id, f.cid), type |-> <<"tool_use">>, name |-> Kept(@.name, f.name),
                 args |-> IF f.args \in {Null, <<>>} THEN @.args ELSE f.args]]]
        [] f.type = "tool_delta" ->
             [n EXCEPT !.calls = [Slots(@, f.index) EXCEPT ![f.index].type = <<"tool_use">>,
                                    ![f.index].args = Added(@, f.args)]]
        [] OTHER -> n

\* Items that are done are kept; the completed response is the answer.
FoldResponses(r, f) ==
  CASE f.type = "item_done" -> [r EXCEPT !.items = Append(@, f.item)]
    [] f.type = "completed" -> [r EXCEPT !.completed = <<[id |-> f.id, output |-> f.output]>>]
    [] OTHER -> r

----------------------------------------------------------------------------
(* One response: its id and its blocks, each a text or a call.              *)

NoResponse == [ok |-> FALSE, id |-> Null, text |-> <<>>, blocks |-> <<>>]
CallBlock(c, args) == [type |-> "call", text |-> <<>>, cid |-> c.id, name |-> c.name, args |-> args]

\* build_chat_response_json: every slot must be a whole call.
ChatResponse(r) ==
  IF ~r.seen \/ r.id = Null
     \/ \E i \in DOMAIN r.calls : Null \in {r.calls[i].id, r.calls[i].name, r.calls[i].args}
  THEN NoResponse
  ELSE [ok |-> TRUE, id |-> r.id, text |-> IF r.text = Null THEN <<>> ELSE r.text,
        blocks |-> [i \in DOMAIN r.calls |-> CallBlock(r.calls[i], r.calls[i].args)]]

\* tool_call_input_object: the argument text is parsed, none is {}.
Parses(args) == args \in {Null, <<>>, Whole}

\* build_anthropic_response_json: one text block, then a tool_use per slot; a
\* slot without id or name, or with arguments that do not parse, fails it.
AnthropicResponse(r) ==
  LET ok == r.seen /\ r.id # Null /\ r.role \notin {Null, <<>>}
              /\ \A i \in DOMAIN r.calls :
                   r.calls[i].id # Null /\ r.calls[i].name # Null /\ Parses(r.calls[i].args)
      text == IF r.text \in {Null, <<>>} THEN <<>>
              ELSE <<[type |-> "text", text |-> r.text, cid |-> Null, name |-> Null, args |-> Null]>>
  IN  IF ~ok THEN NoResponse
      ELSE [ok |-> TRUE, id |-> r.id, text |-> <<>>,
            blocks |-> text \o [i \in DOMAIN r.calls |-> CallBlock(r.calls[i], Whole)]]

\* The completed response, its output rebuilt from the items when it is empty.
ResponsesResponse(r) ==
  IF r.completed = <<>> \/ r.completed[1].id \in {Null, <<>>} THEN NoResponse
  ELSE LET c == r.completed[1]
           items == IF c.output = <<>> THEN r.items ELSE c.output
       IN  [ok |-> TRUE, id |-> c.id, text |-> <<>>,
            blocks |-> [i \in DOMAIN items |->
              [type |-> IF items[i].type = "message" THEN "text" ELSE "call",
               text |-> items[i].text, cid |-> items[i].cid, name |-> items[i].name,
               args |-> items[i].args]]]

ResponseOf(f, r) ==
  IF r.failed THEN NoResponse
  ELSE CASE f = "chat" -> ChatResponse(r)
         [] f = "anthropic" -> AnthropicResponse(r)
         [] f = "responses" -> ResponsesResponse(r)

----------------------------------------------------------------------------
(* Converters of a whole response.                                          *)

Concat(blocks, type) ==
  LET upto[i \in 0..Len(blocks)] ==
        IF i = 0 THEN <<>>
        ELSE upto[i-1] \o (IF blocks[i].type = type THEN blocks[i].text ELSE <<>>)
  IN  upto[Len(blocks)]

\* Calls with a missing field are left out.
Complete(blocks) ==
  LET cs == SelectSeq(blocks, LAMBDA b : b.type = "call" /\ Null \notin {b.cid, b.name, b.args})
  IN  [i \in DOMAIN cs |-> [id |-> cs[i].cid, name |-> cs[i].name, args |-> cs[i].args]]

\* The texts of all messages, and the calls, of the output list.
ResponsesText(resp)  == Concat(resp.blocks, "text")
ResponsesCalls(resp) == Complete(resp.blocks)
\* A chat message has its text beside its calls.
ChatText(resp)  == resp.text
ChatCalls(resp) == Complete(resp.blocks)
\* Content blocks; the input object is written out as the arguments.
AnthropicText(resp)  == Concat(resp.blocks, "text")
AnthropicCalls(resp) ==
  Complete([i \in DOMAIN resp.blocks |->
    IF resp.blocks[i].type = "call" THEN [resp.blocks[i] EXCEPT !.args = Whole] ELSE resp.blocks[i]])

ResponseToEvent(f, resp) ==
  [id |-> IF resp.id = Null THEN <<>> ELSE resp.id,
   text |-> CASE f = "chat" -> ChatText(resp) [] f = "anthropic" -> AnthropicText(resp)
              [] f = "responses" -> ResponsesText(resp),
   calls |-> CASE f = "chat" -> ChatCalls(resp) [] f = "anthropic" -> AnthropicCalls(resp)
              [] f = "responses" -> ResponsesCalls(resp)]

----------------------------------------------------------------------------
(* The server (external).                                                   *)

Frame == [data |-> "json", type |-> "none", id |-> Null, role |-> Null, choice |-> TRUE, index |-> 1, text |-> Null,
          cid |-> Null, name |-> Null, args |-> Null, calls |-> <<>>,
          item |-> [type |-> "none", text |-> <<>>, cid |-> Null, name |-> Null, args |-> Null],
          output |-> <<>>]
Item(b) == [type |-> IF b.type = "text" THEN "message" ELSE "call", text |-> b.text,
            cid |-> b.cid, name |-> b.name, args |-> b.args]

\* What the data lines of a frame amount to: nothing (a comment), something
\* that is no JSON, or an event.  The live readers pass over the first two, the
\* aggregators give up at the second.
Passed(f) == f.data # "json"
GivesUp(r, f) == IF f.data = "garbage" THEN [r EXCEPT !.failed = TRUE] ELSE r

ChatFrame(f) ==
  /\ fmt = "chat"
  /\ live' = IF Passed(f) THEN live ELSE LiveChat(live, f)
  /\ fold' = IF Passed(f) THEN GivesUp(fold, f) ELSE FoldChat(fold, f)

AnthropicFrame(f) ==
  /\ fmt = "anthropic"
  /\ live' = IF Passed(f) THEN live ELSE LiveAnthropic(live, f)
  /\ fold' = IF Passed(f) THEN GivesUp(fold, f) ELSE FoldAnthropic(fold, f)

ResponsesFrame(f) ==
  /\ fmt = "responses"
  /\ live' = IF Passed(f) THEN live ELSE LiveResponses(live, f)
  /\ fold' = IF Passed(f) THEN GivesUp(fold, f) ELSE FoldResponses(fold, f)

Deliver(f) ==
  /\ sent < MaxFrames /\ sent' = sent + 1 /\ fmt' = fmt
  /\ ChatFrame(f) \/ AnthropicFrame(f) \/ ResponsesFrame(f)

NewText == [type |-> "text", text |-> <<>>, cid |-> Null, name |-> Null, args |-> <<>>, stray |-> <<>>]
NewCall(n) == [type |-> "call", text |-> <<>>, cid |-> <<"c", ToString(n)>>, name |-> <<"f">>,
               args |-> <<>>, stray |-> <<>>]
Calls == Len(SelectSeq(said.blocks, LAMBDA b : b.type = "call"))
Texts == Len(SelectSeq(said.blocks, LAMBDA b : b.type = "text"))

Hello ==
  /\ sent = 0 /\ said' = [said EXCEPT !.id = Id]
  /\ Deliver(IF fmt = "anthropic" THEN [Frame EXCEPT !.type = "message_start", !.id = Id, !.role = <<"r">>]
             ELSE [Frame EXCEPT !.type = "created", !.id = Id])
  /\ UNCHANGED <<open, ended>>

Started(b) ==
  /\ said' = [said EXCEPT !.blocks = Append(@, b)]
  /\ open' = open \cup {Len(said.blocks) + 1}

\* A chat message has one text beside its calls.
StartText ==
  /\ sent > 0 /\ ended = "no" /\ Len(said.blocks) < MaxBlocks
  /\ fmt = "chat" => Texts = 0
  /\ Started(NewText)
  /\ Deliver([Frame EXCEPT
       !.type = IF fmt = "anthropic" THEN "text_start" ELSE "item_added",
       !.index = Len(said.blocks) + 1, !.text = <<>>, !.item = Item(NewText)])
  /\ UNCHANGED ended

SendText(k) ==
  /\ ended = "no" /\ said.blocks[k].type = "text" /\ Len(said.blocks[k].text) < 2
  /\ said' = [said EXCEPT !.blocks[k].text = Append(@, ToString(k)), !.heard = Append(@, ToString(k))]
  /\ Deliver([Frame EXCEPT !.type = "text_delta", !.text = <<ToString(k)>>, !.index = k])
  /\ UNCHANGED <<open, ended>>

StartCall ==
  /\ sent > 0 /\ ended = "no" /\ Len(said.blocks) < MaxBlocks
  /\ LET c == NewCall(Calls + 1) IN
     /\ Started(c)
     /\ Deliver([Frame EXCEPT
          !.type = IF fmt = "anthropic" THEN "tool_start" ELSE "item_added",
          !.index = Len(said.blocks) + 1, !.cid = c.cid, !.name = c.name, !.args = <<>>,
          !.calls = <<[index |-> Calls + 1, id |-> c.cid, name |-> c.name, args |-> Null]>>,
          !.item = Item(c)])
  /\ UNCHANGED ended

\* The number of block k among the calls.
CallNo(k) == Cardinality({j \in 1..k : said.blocks[j].type = "call"})
IsLastCall(k) == said.blocks[k].type = "call" /\ CallNo(k) = Calls

SendArgs(k) ==
  /\ ended = "no" /\ said.blocks[k].type = "call" /\ Len(said.blocks[k].args) < 2
  /\ LET a == <<Whole[Len(said.blocks[k].args) + 1]>> IN
     /\ said' = [said EXCEPT !.blocks = [j \in DOMAIN @ |->
                   [@[j] EXCEPT !.args = IF j = k THEN @ \o a ELSE @,
                                !.stray = IF IsLastCall(j) /\ j \notin open THEN @ \o a ELSE @]]]
     /\ Deliver([Frame EXCEPT
          !.type = IF fmt = "anthropic" THEN "tool_delta" ELSE "args_delta",
          !.index = k, !.args = a,
          !.calls = <<[index |-> CallNo(k), id |-> Null, name |-> Null, args |-> a]>>])
  /\ UNCHANGED <<open, ended>>

\* A call may have no arguments sent; otherwise they are complete.
EndBlock(k) ==
  /\ ended = "no"
  /\ said.blocks[k].type = "call" => said.blocks[k].args \in {<<>>, Whole}
  /\ open' = open \ {k} /\ said' = [said EXCEPT !.finished = Append(@, k)]
  /\ IF fmt = "responses" THEN Deliver([Frame EXCEPT !.type = "item_done", !.item = Item(said.blocks[k])])
     ELSE UNCHANGED <<fmt, sent, live, fold>>
  /\ UNCHANGED ended

\* The end of the answer: response.completed, its output given or left empty,
\* or the frames that change nothing.
Bye ==
  /\ sent > 0 /\ ended = "no" /\ open = {} /\ ended' = "done"
  /\ \E full \in BOOLEAN :
       Deliver([Frame EXCEPT !.type = "completed", !.id = Id,
         !.output = IF full THEN [i \in DOMAIN said.blocks |-> Item(said.blocks[i])] ELSE <<>>])
  /\ UNCHANGED <<said, open>>

\* A frame that has nothing to do with the answer: a keep-alive, or a chat
\* chunk that reports usage and has no choice.
Ping ==
  /\ sent > 0 /\ ended = "no"
  /\ Deliver([Frame EXCEPT !.data = IF fmt = "responses" THEN "comment" ELSE "json",
                           !.type = "ping", !.choice = FALSE])
  /\ UNCHANGED <<said, open, ended>>

\* A frame that is not what the protocol says.
Noise ==
  /\ ended = "no" /\ ended' = "noise" /\ Deliver([Frame EXCEPT !.data = "garbage"])
  /\ UNCHANGED <<said, open>>

StreamInit ==
  /\ fmt \in Formats /\ open = {}
  /\ said = [id |-> Null, blocks |-> <<>>, heard |-> <<>>, finished |-> <<>>]
  /\ sent = 0 /\ ended = "no" /\ live = Reader /\ fold = Reader

StreamNext ==
  \/ Hello \/ StartText \/ StartCall \/ Bye \/ Ping \/ Noise
  \/ \E k \in open : SendText(k) \/ SendArgs(k) \/ EndBlock(k)

StreamSpec == StreamInit /\ [][StreamNext]_streamVars

----------------------------------------------------------------------------
Canon(args) == IF args = <<>> THEN Whole ELSE args
Norm(e) == [e EXCEPT !.calls = [i \in DOMAIN e.calls |-> [e.calls[i] EXCEPT !.args = Canon(@)]]]
\* The calls the server made, in the order of the blocks ks, with what they have
\* of others' arguments or without.
Made(ks, strays) ==
  LET cs == SelectSeq(ks, LAMBDA k : said.blocks[k].type = "call")
      call(b) == [id |-> b.cid, name |-> b.name,
                  args |-> Canon(IF strays THEN b.args \o b.stray ELSE b.args)]
  IN  [i \in DOMAIN cs |-> call(said.blocks[cs[i]])]
Texted(ks) == Concat([i \in DOMAIN ks |-> said.blocks[ks[i]]], "text")
InOrder == [k \in DOMAIN said.blocks |-> k]
LastMessage ==
  LET ms == SelectSeq(said.finished, LAMBDA k : said.blocks[k].type = "text")
  IN  IF ms = <<>> THEN <<>> ELSE said.blocks[ms[Len(ms)]].text
Nothing == said.heard = <<>> /\ Calls = 0
\* At the end of a stream whose blocks came in any order the last live event has
\* every call the server made, under its id and with its own arguments; only in the
\* Responses format does the last call also take the arguments that are sent for
\* another one after it was finished.  The text is all that was sent, in that
\* order; of several Responses messages it is the one that was finished last.
LiveReads ==
  Nothing \/ Norm(live.event) =
     [id |-> said.id,
      text |-> IF fmt = "responses" THEN LastMessage ELSE said.heard,
      calls |-> Made(InOrder, fmt = "responses")]

\* The aggregator gives up on frames it cannot read, on a chat chunk without a
\* choice, and on an Anthropic answer with a text block before a call, where the
\* live reader answers.  Otherwise it returns the whole answer: the calls with
\* their own arguments and the texts of all messages, in the order of the output
\* list or, where the completed response has none, in the order they were finished.
TextBeforeCall ==
  \E j, k \in DOMAIN said.blocks : j < k /\ said.blocks[j].type = "text" /\ said.blocks[k].type = "call"
FoldReads ==
  LET r == ResponseOf(fmt, fold)
      e == Norm(ResponseToEvent(fmt, r))
      listed == fmt = "responses" /\ fold.completed[1].output = <<>>
      order == IF listed THEN said.finished ELSE InOrder
  IN  /\ r.ok = ~(fold.failed \/ (fmt = "anthropic" /\ TextBeforeCall))
      /\ r.ok => e = [id |-> said.id, calls |-> Made(order, FALSE),
                      text |-> IF fmt = "responses" THEN Texted(order) ELSE said.heard]

\* The two readers of a stream that has ended, and of one that was cut short by a
\* frame that does not parse: the aggregator makes no response of it.
ReadersAgree ==
  /\ ended = "done" => LiveReads /\ FoldReads
  /\ ended = "noise" => ~ResponseOf(fmt, fold).ok

\* A stream that ends before the arguments of a call are complete is not
\* aggregated into a response that makes the call: the Responses format waits
\* for the completed response, the Anthropic one parses the arguments.
NoHalfCalls ==
  LET r == ResponseOf(fmt, fold) IN
  r.ok /\ fmt # "chat" =>
    \A i \in DOMAIN r.blocks : r.blocks[i].type = "call" =>
      \E j \in DOMAIN said.blocks : /\ said.blocks[j].cid = r.blocks[i].cid
                                    /\ Canon(said.blocks[j].args) = Canon(r.blocks[i].args)

=============================================================================
