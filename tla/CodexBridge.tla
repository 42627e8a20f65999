---------------------------- MODULE CodexBridge ----------------------------
(***************************************************************************)
(* The client of a Codex App Server (codex_bridge/src/turbo_codex_bridge.c *)
(* and turbo_codex_delegate_tool.c).  One synchronous caller at a time     *)
(* writes requests and reads one stream in which the server mixes          *)
(* responses, notifications and requests of its own.  A call may run out   *)
(* of time at any wait; what the server still sends for it is then read    *)
(* by the next call.                                                       *)
(***************************************************************************)
EXTENDS Naturals, Sequences, FiniteSets

CONSTANTS
  Handlers,   \* how the host's server_request handler may answer: subset of {"accept", "reject"}; {} is no handler
  MaxTurns,   \* turns the server starts
  MaxDeltas,  \* deltas of a turn
  MaxText,    \* deltas the captured text may hold
  MaxCalls,   \* calls of the host
  MaxAsks     \* requests the server makes

VARIABLES
  client,  \* [initialized, next, thread, turn, text, completed, error]
  ccall,    \* the call in progress: [op, phase, id, thread]
  ret,     \* what the last call returned: [rc, thread, turn, text]
  tosrv, tocli,  \* the two directions of the transport
  srv,     \* the server: turns and the requests it made
  calls,   \* calls made
  lost     \* threads with a turn that a call gave up on

codexVars == <<client, ccall, ret, tosrv, tocli, srv, calls, lost>>

None == 0
CodexIdle == [op |-> "none", phase |-> "idle", id |-> 0, thread |-> None]
NoRet == [rc |-> "none", thread |-> None, turn |-> None, text |-> <<>>]
Done(thread, turn, status) == [thread |-> thread, turn |-> turn, status |-> status]
NoTurn == Done(None, None, "none")

Response(id, rc, thing) == [kind |-> "response", id |-> id, rc |-> rc, thing |-> thing]
Delta(thread, turn, n)  == [kind |-> "delta", thread |-> thread, turn |-> turn, n |-> n]
Completed(d)            == [kind |-> "completed", turn |-> d]
CodexAsks(n, approval)       == [kind |-> "asks", id |-> n, approval |-> approval]
Answer(n, how)          == [kind |-> "answer", id |-> n, how |-> how]
SendRequest(id, method, thread) == [kind |-> "request", id |-> id, method |-> method, thread |-> thread]

----------------------------------------------------------------------------
(* The client.                                                              *)

\* send_json: a write may still succeed when the other end is gone.
Sends(m) == tosrv' = Append(tosrv, m)

Returns(r) == ccall' = CodexIdle /\ ret' = r
CodexEnds(c) == [c EXCEPT !.thread = None, !.turn = None]
\* A call that returns without its turn's completion gives up on a turn that may go on.
CodexFails(rc) ==
  /\ Returns([NoRet EXCEPT !.rc = rc])
  /\ lost' = IF ccall.op = "run" /\ ccall.phase \in {"turn", "pump"} THEN lost \cup {client.thread} ELSE lost

\* capture_notification: text and completion of the captured turn; until the
\* turn's id is known, of the captured thread.
Mine(c, thread, turn) == c.thread # None /\ c.thread = thread /\ (c.turn = None \/ c.turn = turn)

capture_notification(c, m) ==
  CASE m.kind = "delta" /\ Mine(c, m.thread, m.turn) ->
         IF Len(c.text) = MaxText THEN [c EXCEPT !.error = "too_long"]
         ELSE [c EXCEPT !.text = Append(@, <<m.turn, m.n>>)]
    [] m.kind = "completed" /\ Mine(c, m.turn.thread, m.turn.turn) -> [c EXCEPT !.completed = m.turn]
    [] OTHER -> c

\* handle_server_request: every request is answered at once.
handle_server_request(m) ==
  IF Handlers # {} THEN {Answer(m.id, h) : h \in Handlers}
  ELSE {Answer(m.id, IF m.approval THEN "decline" ELSE "method_not_found")}

turn_status(d) == CASE d.status = "missing" -> "protocol" [] d.status = "completed" -> "ok"
                    [] d.status = "interrupted" -> "cancelled" [] OTHER -> "io"

\* The run is over once the completed turn is the captured one.
RunEnds(c) ==
  /\ client' = CodexEnds(c)
  /\ Returns(IF turn_status(c.completed) = "ok"
             THEN [rc |-> "ok", thread |-> c.thread, turn |-> c.turn, text |-> c.text]
             ELSE [NoRet EXCEPT !.rc = turn_status(c.completed)])
  /\ UNCHANGED <<tosrv, lost>>

\* client_request: the next id, the request, and the wait for its response.
AsksFor(c, method, phase, thread) ==
  \/ /\ client' = [c EXCEPT !.next = @ + 1]
     /\ Sends(SendRequest(c.next, method, thread))
     /\ ccall' = [ccall EXCEPT !.phase = phase, !.id = c.next]
     /\ UNCHANGED <<ret, lost>>
  \/ /\ srv.gone /\ client' = CodexEnds([c EXCEPT !.next = @ + 1])
     /\ CodexFails("shutdown") /\ UNCHANGED tosrv

\* run_text goes on after a response.
ThreadOrResume(c) ==
  IF ccall.thread = None THEN AsksFor(c, "thread/start", "thread", None)
  ELSE AsksFor(c, "thread/resume", "thread", ccall.thread)

\* client_initialize: the client tells the server so, or is not initialized.
initialize ==
  \/ ThreadOrResume([client EXCEPT !.initialized = TRUE])
  \/ srv.gone /\ CodexFails("shutdown") /\ UNCHANGED <<client, tosrv>>

\* Variant: a completion read before the turn's id was known is kept.
IdentifiedKeeps(c, turn) == [c EXCEPT !.turn = turn]

\* Now that the turn's id is known: a completion of another turn is dropped.
Identified(c, turn) == [c EXCEPT !.turn = turn, !.completed = IF @.turn = turn THEN @ ELSE NoTurn]

AfterResponse(m) ==
  CASE ccall.phase = "initialize" -> initialize
    [] ccall.phase = "thread" ->
         AsksFor([client EXCEPT !.thread = m.thing, !.turn = None, !.text = <<>>, !.completed = NoTurn,
                                !.error = "none"], "turn/start", "turn", m.thing)
    [] ccall.phase = "turn" /\ client.error # "none" ->
         /\ CodexFails(client.error) /\ client' = CodexEnds(client) /\ UNCHANGED tosrv
    [] OTHER ->
         LET c == Identified(client, m.thing)
         IN  IF c.completed # NoTurn THEN RunEnds(c)
             ELSE /\ client' = c /\ ccall' = [ccall EXCEPT !.phase = "pump", !.id = 0]
                  /\ UNCHANGED <<ret, tosrv, lost>>

Expected(m) == ccall.phase \in {"initialize", "thread", "turn"} /\ m.id = ccall.id

\* dispatch_incoming for the message just read.
Dispatch(m) ==
  CASE m.kind = "asks" ->
         /\ \E a \in handle_server_request(m) : Sends(a)
         /\ UNCHANGED <<client, ret, lost>>
         /\ ccall' = IF ccall.op = "pump" THEN CodexIdle ELSE ccall
    [] m.kind \in {"delta", "completed"} ->
         LET c == capture_notification(client, m)
         IN  IF ccall.phase = "pump" /\ ccall.op = "run" /\ c.error # "none"
             THEN CodexFails(c.error) /\ client' = CodexEnds(c) /\ UNCHANGED tosrv
             ELSE IF ccall.phase = "pump" /\ ccall.op = "run" /\ c.completed # NoTurn THEN RunEnds(c)
             ELSE /\ client' = c /\ UNCHANGED <<ret, tosrv, lost>>
                  /\ ccall' = IF ccall.op = "pump" THEN CodexIdle ELSE ccall
    [] m.kind = "response" /\ ~Expected(m) -> CodexFails("protocol") /\ client' = CodexEnds(client) /\ UNCHANGED tosrv
    [] m.kind = "response" /\ Expected(m) /\ m.rc # "ok" ->
         /\ Returns([NoRet EXCEPT !.rc = "io"]) /\ client' = CodexEnds(client)
         /\ UNCHANGED <<tosrv, lost>>
    [] OTHER -> AfterResponse(m)

Read ==
  /\ ccall # CodexIdle /\ tocli # <<>>
  /\ tocli' = Tail(tocli)
  /\ Dispatch(Head(tocli))
  /\ UNCHANGED <<srv, calls>>

\* The deadline passes while the call waits.
Timeout ==
  /\ ccall # CodexIdle
  /\ CodexFails("timeout") /\ client' = CodexEnds(client)
  /\ UNCHANGED <<tosrv, tocli, srv, calls>>

\* The server's end is closed and everything it sent is read.
Shutdown ==
  /\ ccall # CodexIdle /\ srv.gone /\ tocli = <<>>
  /\ CodexFails("shutdown") /\ client' = CodexEnds(client)
  /\ UNCHANGED <<tosrv, tocli, srv, calls>>

\* run_text of the host or of the delegate tool, on a new or a known thread.
RunText(thread) ==
  /\ ccall = CodexIdle /\ calls < MaxCalls /\ calls' = calls + 1
  /\ LET run(phase) == [op |-> "run", phase |-> phase, id |-> client.next, thread |-> thread]
         method == IF ~client.initialized THEN "initialize"
                   ELSE IF thread = None THEN "thread/start" ELSE "thread/resume"
     IN  /\ ccall' = run(IF client.initialized THEN "thread" ELSE "initialize")
         /\ Sends(SendRequest(client.next, method, IF client.initialized THEN thread ELSE None))
  /\ client' = [client EXCEPT !.next = @ + 1]
  /\ ret' = NoRet
  /\ UNCHANGED <<tocli, srv, lost>>

\* client_pump of the host between runs.
Pump ==
  /\ ccall = CodexIdle /\ client.initialized /\ calls < MaxCalls /\ calls' = calls + 1
  /\ ccall' = [op |-> "pump", phase |-> "pump", id |-> 0, thread |-> None] /\ ret' = NoRet
  /\ UNCHANGED <<client, tosrv, tocli, srv, lost>>

----------------------------------------------------------------------------
(* The server, outside the repository: it answers requests in order, works   *)
(* on the turns it has started, and may put requests of its own.             *)

ServerTakes ==
  /\ tosrv # <<>> /\ ~srv.gone
  /\ tosrv' = Tail(tosrv)
  /\ LET m == Head(tosrv)
         new == Len(srv.turns) + 1
     IN  \/ /\ m.kind = "answer" /\ srv' = [srv EXCEPT !.answers = Append(@, <<m.id, m.how>>)]
            /\ UNCHANGED tocli
         \/ /\ m.kind = "request" /\ tocli' = Append(tocli, Response(m.id, "error", None))
            /\ UNCHANGED srv
         \/ /\ m.kind = "request" /\ m.method = "initialize"
            /\ tocli' = Append(tocli, Response(m.id, "ok", None)) /\ UNCHANGED srv
         \/ /\ m.kind = "request" /\ m.method \in {"thread/start", "thread/resume"}
            /\ LET t == IF m.method = "thread/start" THEN srv.threads + 1 ELSE m.thread
               IN  /\ tocli' = Append(tocli, Response(m.id, "ok", t))
                   /\ srv' = [srv EXCEPT !.threads = IF t > @ THEN t ELSE @]
         \/ /\ m.kind = "request" /\ m.method = "turn/start" /\ Len(srv.turns) < MaxTurns
            /\ srv' = [srv EXCEPT !.turns = Append(@, [thread |-> m.thread, req |-> m.id, sent |-> 0,
                                                       live |-> TRUE, told |-> FALSE])]
            /\ UNCHANGED tocli
  /\ UNCHANGED <<client, ccall, ret, calls, lost>>

\* The response to turn/start may come after the turn's first notifications.
ServerTells ==
  \E t \in DOMAIN srv.turns :
    /\ ~srv.turns[t].told /\ ~srv.gone
    /\ srv' = [srv EXCEPT !.turns[t].told = TRUE]
    /\ tocli' = Append(tocli, Response(srv.turns[t].req, "ok", t))
    /\ UNCHANGED <<client, ccall, ret, tosrv, calls, lost>>

\* The last turn is left to complete: what its end would change no later turn could see.
ServerWorks ==
  \E t \in DOMAIN srv.turns :
    /\ srv.turns[t].live /\ ~srv.gone
    /\ \/ /\ srv.turns[t].sent < MaxDeltas
          /\ srv' = [srv EXCEPT !.turns[t].sent = @ + 1]
          /\ tocli' = Append(tocli, Delta(srv.turns[t].thread, t, srv.turns[t].sent + 1))
       \/ /\ srv' = [srv EXCEPT !.turns[t].live = FALSE]
          /\ \E how \in {"completed"} \cup IF t < MaxTurns THEN {"interrupted", "failed", "missing"} ELSE {} :
               tocli' = Append(tocli, Completed(Done(srv.turns[t].thread, t, how)))
    /\ UNCHANGED <<client, ccall, ret, tosrv, calls, lost>>

ServerAsks ==
  /\ srv.asks < MaxAsks /\ ~srv.gone
  /\ \E approval \in BOOLEAN :
       tocli' = Append(tocli, CodexAsks(srv.asks + 1, approval))
  /\ srv' = [srv EXCEPT !.asks = @ + 1]
  /\ UNCHANGED <<client, ccall, ret, tosrv, calls, lost>>

ServerGone == /\ ~srv.gone /\ srv' = [srv EXCEPT !.gone = TRUE]
              /\ UNCHANGED <<client, ccall, ret, tosrv, tocli, calls, lost>>

CodexInit ==
  /\ client = [initialized |-> FALSE, next |-> 1, thread |-> None, turn |-> None, text |-> <<>>,
               completed |-> NoTurn, error |-> "none"]
  /\ ccall = CodexIdle /\ ret = NoRet /\ tosrv = <<>> /\ tocli = <<>> /\ calls = 0 /\ lost = {}
  /\ srv = [threads |-> 0, turns |-> <<>>, asks |-> 0, answers |-> <<>>, gone |-> FALSE]

CodexNext ==
  \/ Read \/ Timeout \/ Shutdown \/ Pump
  \/ \E thread \in 0..srv.threads : RunText(thread)
  \/ ServerTakes \/ ServerTells \/ ServerWorks \/ ServerAsks \/ ServerGone

CodexSpec == CodexInit /\ [][CodexNext]_codexVars

----------------------------------------------------------------------------
\* A run that succeeds returns the turn that its own turn/start request began,
\* with all of this turn's text in order and no other, although notifications
\* may overtake the response that names the turn; except on a thread with a
\* turn that an earlier call gave up on before it was completed, whose text may
\* still come.
RunReturnsOwnTurn ==
  ret.rc = "ok" =>
    /\ srv.turns[ret.turn].thread = ret.thread
    /\ ~srv.turns[ret.turn].live
    /\ SelectSeq(ret.text, LAMBDA x : x[1] = ret.turn)
         = [n \in 1..srv.turns[ret.turn].sent |-> <<ret.turn, n>>]
    /\ ret.thread \notin lost => \A i \in DOMAIN ret.text : ret.text[i][1] = ret.turn
=============================================================================
