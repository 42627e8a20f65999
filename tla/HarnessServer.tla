---------------------------- MODULE HarnessServer ----------------------------
(***************************************************************************)
(* The harness server (harness/src/turbo_agent_harness_server.c) and its   *)
(* JSON-lines adapter (harness/src/turbo_agent_harness_transport.c): the   *)
(* control plane over which clients start, steer, interrupt and approve    *)
(* turns of loaded threads and consume a bounded journal of events.        *)
(*                                                                         *)
(* Each connection has a dispatcher (one call at a time, dispatch_mutex)   *)
(* and a pump, its only event consumer.  Each loaded thread has at most    *)
(* one turn and a worker that runs the turn's execution and pushes its     *)
(* events, waiting in the event sink while the journal has no room.  A     *)
(* turn is looked at by any process through                                *)
(* turbo_agent_harness_turn_refresh, which lets go of the thread's lock    *)
(* while it takes the result and while it emits.                           *)
(*                                                                         *)
(* A step is one critical section of the thread's lock, of the journal's   *)
(* or of the execution's; the flag that keeps others from a turn (starting *)
(* or refreshing) is held between the steps of one call.  The sections in  *)
(* which an acknowledgement removes one event each are one step.  No       *)
(* allocation fails, and turns have no deadline of their own.              *)
(***************************************************************************)
EXTENDS Naturals, Sequences, SequencesExt, FiniteSets

CONSTANTS
    Conns,          \* connections
    Owners,         \* those that load threads and start turns; the others look on
    Habits,         \* sets of calls a client makes beside loading, starting and pumping
    HThreads,       \* thread ids the factory can build
    MaxEvents,      \* max_event_count of a connection's journal
    ControlReserve, \* TURBO_AGENT_HARNESS_CONTROL_EVENT_RESERVE
    MaxLoaded,      \* max_threads
    MaxTurns,       \* bound on the turns started
    MaxItems,       \* bound on the events one execution emits
    MaxSeq,         \* bound on the events of a journal before another review
    MaxSeqLoad      \* bound on the events of a journal before another load

ASSUME HarnessAssumption == MaxEvents > ControlReserve /\ ControlReserve > 1

VARIABLES
    conn,     \* connection -> [state, closed, err, queue, next, acked]
    loaded,   \* the threads loaded
    turn,     \* thread -> its turn
    exec,     \* thread -> the execution of its turn
    proc,     \* process -> where its call stands
    hist,     \* thread -> turn id -> the kinds of events put into a journal for it
    seen      \* connection -> [last, asked, calls]: the last event its client was given, the
              \* threads whose approval it was asked for and has not decided, its habit

hVars == <<conn, loaded, turn, exec, proc, hist, seen>>

Procs == Conns \X {"dispatch", "pump"}

NoHTurn ==
    [id |-> 0, conn |-> CHOOSE c \in Conns : TRUE, starting |-> FALSE, refreshing |-> FALSE,
     finalized |-> TRUE, awaiting |-> FALSE, interrupt |-> FALSE, summary |-> "none"]

NoExec == [phase |-> "none", outcome |-> "none", cancel |-> FALSE, taken |-> FALSE, items |-> 0]
NewExec == [NoExec EXCEPT !.phase = "running"]

\* next: what follows a refresh; got: the result it took; id: the turn a call is about
Idle == [pc |-> "idle", t |-> CHOOSE t \in HThreads : TRUE, next |-> "none", rc |-> "ok", got |-> "none", id |-> 0]

\* turbo_agent_harness_turn_status_text: what turn/get and thread/get answer.
StatusText(t) ==
    LET u == turn[t]
    IN  IF u.finalized
        THEN IF u.interrupt \/ u.summary = "cancelled" THEN "interrupted"
             ELSE IF u.summary \in {"completed", "declined"} THEN u.summary ELSE "failed"
        ELSE IF u.awaiting THEN "approvalPending"
        ELSE IF u.starting \/ exec[t].phase # "ended" THEN "inProgress" ELSE "completing"

(* ------------------------------- the journal ---------------------------- *)

\* The status of turbo_agent_harness_connection_enqueue for n events, without waiting.
Room(c, n, limit) ==
    IF conn[c].closed THEN "shutdown"
    ELSE IF conn[c].err # "ok" THEN conn[c].err
    ELSE IF Len(conn[c].queue) + n > limit THEN "busy" ELSE "ok"

\* The control events may use the whole journal.
ControlRoom(c) == Room(c, 1, MaxEvents)

\* turbo_agent_harness_connection_enqueue_pair: both events or none.
PairRoom(c) == Room(c, 2, MaxEvents)

\* An event of a worker leaves the reserve free.
ItemRoom(c) == Room(c, 1, MaxEvents - ControlReserve)

\* The journal after these kinds of events were pushed.
Pushed(c, kinds) ==
    [conn EXCEPT ![c].queue = @ \o [i \in 1..Len(kinds) |-> [seq |-> conn[c].next + i, kind |-> kinds[i]]],
                 ![c].next = @ + Len(kinds)]

Recorded(t, kinds) == [hist EXCEPT ![t][turn[t].id] = @ \o kinds]

\* turbo_agent_harness_connection_set_stream_error: the first error stays.
Failed(c, rc) ==
    IF rc \in {"ok", "shutdown"} \/ conn[c].err # "ok" THEN conn ELSE [conn EXCEPT ![c].err = rc]

(* -------------------------------- refresh ------------------------------- *)

Free(p) == proc[p].pc = "idle"

\* Where a refresh of t by p goes on, unless it is skipped.
Looks(p, t, next, skip) ==
    [Idle EXCEPT !.t = t, !.next = next,
                 !.pc = IF skip THEN next ELSE IF turn[t].summary # "none" THEN "keep" ELSE "take"]

\* A faulty variant: two processes may refresh one turn.
RefreshBeginTwice(p, t, next) ==
    LET u == turn[t]
        skip == u.id = 0 \/ u.starting \/ u.finalized \/ u.awaiting \/ exec[t].phase = "none"
    IN  /\ Free(p)
        /\ turn' = IF skip THEN turn ELSE [turn EXCEPT ![t].refreshing = TRUE]
        /\ proc' = [proc EXCEPT ![p] = Looks(p, t, next, skip)]
        /\ UNCHANGED <<conn, loaded, exec, hist, seen>>

\* turbo_agent_harness_turn_refresh, up to the first unlock: a turn that is starting,
\* refreshed by somebody else, final or waiting for an approval is left alone.
RefreshBegin(p, t, next) ==
    LET u == turn[t]
        skip == u.id = 0 \/ u.starting \/ u.refreshing \/ u.finalized \/ u.awaiting \/ exec[t].phase = "none"
    IN  /\ Free(p)
        /\ turn' = IF skip THEN turn ELSE [turn EXCEPT ![t].refreshing = TRUE]
        /\ proc' = [proc EXCEPT ![p] = Looks(p, t, next, skip)]
        /\ UNCHANGED <<conn, loaded, exec, hist, seen>>

\* Without the thread's lock: the result of an execution that has ended is taken once.
RefreshTake(p) ==
    LET t == proc[p].t
        ready == exec[t].phase = "ended" /\ ~exec[t].taken
    IN  /\ proc[p].pc = "take"
        /\ exec' = IF ready THEN [exec EXCEPT ![t].taken = TRUE] ELSE exec
        /\ proc' = [proc EXCEPT ![p].pc = IF ready THEN "keep" ELSE "give_up",
                                ![p].got = IF ready /\ exec[t].outcome # "no_result" THEN exec[t].outcome ELSE @]
        /\ UNCHANGED <<conn, loaded, turn, hist, seen>>

\* Under the lock again: the result decides what is emitted.  A run that failed has no
\* summary to keep: the turn then has no result although it was taken.
RefreshKeep(p) ==
    LET t == proc[p].t
        kept == IF proc[p].got = "none" THEN turn[t].summary ELSE proc[p].got
    IN  /\ proc[p].pc \in {"keep", "give_up"}
        /\ IF proc[p].pc = "give_up"
           THEN /\ turn' = [turn EXCEPT ![t].refreshing = FALSE]
                /\ proc' = [proc EXCEPT ![p].pc = proc[p].next]
           ELSE /\ turn' = [turn EXCEPT ![t].summary = kept]
                /\ proc' = [proc EXCEPT ![p].pc =
                               IF kept = "review" /\ ~turn[t].interrupt THEN "ask" ELSE "complete"]
        /\ UNCHANGED <<conn, loaded, exec, hist, seen>>

\* turbo_agent_harness_turn_emit_approval or .._emit_completed, without the thread's lock.
RefreshEmit(p) ==
    LET u == turn[proc[p].t]
        kind == IF proc[p].pc = "ask" THEN "approval" ELSE "completed"
        rc == ControlRoom(u.conn)
    IN  /\ proc[p].pc \in {"ask", "complete"}
        /\ conn' = IF rc = "ok" THEN Pushed(u.conn, <<kind>>) ELSE conn
        /\ hist' = IF rc = "ok" THEN Recorded(proc[p].t, <<kind>>) ELSE hist
        /\ proc' = [proc EXCEPT ![p].pc = IF @ = "ask" THEN "asked" ELSE "done", ![p].rc = rc]
        /\ UNCHANGED <<loaded, turn, exec, seen>>

\* What was emitted becomes the turn's state; a full journal is no error, the next refresh
\* tries again.
RefreshFinish(p) ==
    LET t == proc[p].t
        rc == proc[p].rc
    IN  /\ proc[p].pc \in {"asked", "done"}
        /\ turn' = [turn EXCEPT ![t].refreshing = FALSE,
                                ![t].awaiting = @ \/ (rc = "ok" /\ proc[p].pc = "asked"),
                                ![t].finalized = @ \/ (rc = "ok" /\ proc[p].pc = "done")]
        /\ conn' = IF rc = "busy" THEN conn ELSE Failed(turn[t].conn, rc)
        /\ proc' = [proc EXCEPT ![p].pc = proc[p].next]
        /\ UNCHANGED <<loaded, exec, hist, seen>>

(* -------------------------------- dispatch ------------------------------ *)

D(c) == <<c, "dispatch">>

Ready(c) == conn[c].state = "ready" /\ ~conn[c].closed

\* The call is answered.
Return(c) == proc' = [proc EXCEPT ![D(c)] = Idle]

\* turbo_agent_harness_dispatch_initialize and the notification that follows.
Initialize(c) ==
    /\ Free(D(c)) /\ ~conn[c].closed /\ conn[c].state # "ready"
    /\ conn' = [conn EXCEPT ![c].state = IF @ = "new" THEN "initialized" ELSE "ready"]
    /\ UNCHANGED <<loaded, turn, exec, proc, hist, seen>>

\* turbo_agent_harness_server_load_thread finds the thread or has room for it.
CanLoad(t) == t \in loaded \/ Cardinality(loaded) < MaxLoaded

\* thread/start and thread/resume: turbo_agent_harness_server_load_thread, then the event.
\* (A bound: nothing is loaded before every connection has made its handshake.)
ThreadLoad(c, t) ==
    /\ Free(D(c)) /\ Ready(c) /\ conn[c].next < MaxSeqLoad
    /\ \A d \in Conns : conn[d].state = "ready"
    /\ IF ~CanLoad(t) THEN Return(c) /\ UNCHANGED <<loaded, conn>>
       ELSE /\ loaded' = loaded \cup {t}
            /\ conn' = IF ControlRoom(c) = "ok" THEN Pushed(c, <<"thread_started">>) ELSE conn
            /\ Return(c)
    /\ UNCHANGED <<turn, exec, hist, seen>>

\* thread/get and turn/get: a refresh, then the status.
TurnGet(c) ==
    /\ proc[D(c)].pc = "get"
    /\ Return(c)
    /\ UNCHANGED <<conn, loaded, turn, exec, hist, seen>>

\* turbo_agent_harness_dispatch_turn_start: the new turn replaces a final one, which is freed.
TurnInstall(c, t) ==
    LET u == turn[t]
    IN  /\ Free(D(c)) /\ Ready(c) /\ t \in loaded
        /\ IF ~u.finalized \/ u.starting \/ u.refreshing
           THEN Return(c) /\ UNCHANGED <<turn, exec>>
           ELSE /\ u.id < MaxTurns /\ (u.id > 0 => "again" \in seen[c].calls)
                /\ turn' = [turn EXCEPT ![t] = [NoHTurn EXCEPT !.id = u.id + 1, !.conn = c, !.starting = TRUE,
                                                               !.finalized = FALSE]]
                /\ exec' = [exec EXCEPT ![t] = NoExec]
                /\ proc' = [proc EXCEPT ![D(c)] = [Idle EXCEPT !.pc = "announce", !.t = t]]
        /\ UNCHANGED <<conn, loaded, hist, seen>>

\* turn/started is emitted; without room the turn fails.
TurnAnnounce(c) ==
    LET t == proc[D(c)].t
        rc == ControlRoom(c)
    IN  /\ proc[D(c)].pc = "announce"
        /\ conn' = IF rc = "ok" THEN Pushed(c, <<"started">>) ELSE conn
        /\ hist' = IF rc = "ok" THEN Recorded(t, <<"started">>) ELSE hist
        /\ proc' = [proc EXCEPT ![D(c)].pc = IF rc = "ok" THEN "submit" ELSE "fail"]
        /\ UNCHANGED <<loaded, turn, exec, seen>>

\* turbo_agent_harness_start_text: the executor takes the turn or is full.
TurnSubmit(c) ==
    LET t == proc[D(c)].t
    IN  /\ proc[D(c)].pc = "submit"
        /\ \/ /\ exec' = [exec EXCEPT ![t] = NewExec]
              /\ proc' = [proc EXCEPT ![D(c)].pc = "submitted"]
           \/ /\ proc' = [proc EXCEPT ![D(c)].pc = "fail"]
              /\ UNCHANGED exec
        /\ UNCHANGED <<conn, loaded, turn, hist, seen>>

TurnSubmitted(c) ==
    /\ proc[D(c)].pc = "submitted"
    /\ turn' = [turn EXCEPT ![proc[D(c)].t].starting = FALSE]
    /\ Return(c)
    /\ UNCHANGED <<conn, loaded, exec, hist, seen>>

\* The failure path of turn/start and of a resume that fails: turn/completed, then final.
TurnFail(c) ==
    LET t == proc[D(c)].t
        rc == ControlRoom(turn[t].conn)
    IN  /\ proc[D(c)].pc = "fail"
        /\ conn' = IF rc = "ok" THEN Pushed(c, <<"completed">>) ELSE conn
        /\ hist' = IF rc = "ok" THEN Recorded(t, <<"completed">>) ELSE hist
        /\ proc' = [proc EXCEPT ![D(c)].pc = "failed", ![D(c)].rc = rc]
        /\ UNCHANGED <<loaded, turn, exec, seen>>

TurnFailed(c) ==
    /\ proc[D(c)].pc = "failed"
    /\ turn' = [turn EXCEPT ![proc[D(c)].t].starting = FALSE, ![proc[D(c)].t].finalized = TRUE]
    /\ conn' = Failed(c, proc[D(c)].rc)
    /\ Return(c)
    /\ UNCHANGED <<loaded, exec, hist, seen>>

\* turbo_agent_harness_dispatch_approval after its refresh: only the connection that owns a
\* turn that is waiting may decide.
ApprovalCheck(c) ==
    LET t == proc[D(c)].t
        u == turn[t]
    IN  /\ proc[D(c)].pc \in {"approve", "deny"}
        /\ IF u.id = 0 \/ u.conn # c \/ ~u.awaiting \/ u.starting
           THEN Return(c) /\ UNCHANGED turn
           ELSE /\ turn' = [turn EXCEPT ![t].starting = TRUE]
                /\ proc' = [proc EXCEPT ![D(c)].pc = IF @ = "deny" THEN "declined" ELSE "resume"]
        /\ UNCHANGED <<conn, loaded, exec, hist, seen>>

Decided(c) == [seen EXCEPT ![c].asked = {}]

\* A refusal, and an interrupt of a waiting turn: the resolution and turn/completed together.
EmitEnd(c) ==
    LET rc == PairRoom(c)
        t == proc[D(c)].t
    IN  /\ proc[D(c)].pc \in {"declined", "cancelled"}
        /\ conn' = IF rc = "ok" THEN Pushed(c, <<"resolved", "completed">>) ELSE conn
        /\ hist' = IF rc = "ok" THEN Recorded(t, <<"resolved", "completed">>) ELSE hist
        /\ seen' = IF rc = "ok" THEN Decided(c) ELSE seen
        /\ proc' = [proc EXCEPT ![D(c)].pc = "settle", ![D(c)].got = proc[D(c)].pc, ![D(c)].rc = rc]
        /\ UNCHANGED <<loaded, turn, exec>>

\* Without room for both, and for the resolution of an approval, the turn keeps waiting.
EndWaiting(c) ==
    LET t == proc[D(c)].t
        got == proc[D(c)].got
    IN  /\ proc[D(c)].pc = "settle"
        /\ turn' = IF proc[D(c)].rc # "ok" THEN [turn EXCEPT ![t].starting = FALSE]
                   ELSE [turn EXCEPT ![t].starting = FALSE, ![t].awaiting = FALSE, ![t].finalized = TRUE,
                                     ![t].interrupt = @ \/ got = "cancelled", ![t].summary = got]
        /\ Return(c)
        /\ UNCHANGED <<conn, loaded, exec, hist, seen>>

\* An approval: the resolution first,
ApprovalResolve(c) ==
    LET t == proc[D(c)].t
        rc == ControlRoom(c)
    IN  /\ proc[D(c)].pc = "resume"
        /\ conn' = IF rc = "ok" THEN Pushed(c, <<"resolved">>) ELSE conn
        /\ hist' = IF rc = "ok" THEN Recorded(t, <<"resolved">>) ELSE hist
        /\ seen' = IF rc = "ok" THEN Decided(c) ELSE seen
        /\ proc' = [proc EXCEPT ![D(c)].pc = IF rc = "ok" THEN "resubmit" ELSE "settle", ![D(c)].rc = rc]
        /\ UNCHANGED <<loaded, turn, exec>>

\* then the resumed execution, which may be refused.
ApprovalResubmit(c) ==
    LET t == proc[D(c)].t
    IN  /\ proc[D(c)].pc = "resubmit"
        /\ \/ exec' = [exec EXCEPT ![t] = NewExec] /\ proc' = [proc EXCEPT ![D(c)].pc = "resumed"]
           \/ exec' = exec /\ proc' = [proc EXCEPT ![D(c)].pc = "refused"]
        /\ UNCHANGED <<conn, loaded, turn, hist, seen>>

ApprovalResumed(c) ==
    LET t == proc[D(c)].t
    IN  /\ \/ /\ proc[D(c)].pc = "resumed"
              /\ turn' = [turn EXCEPT ![t].starting = FALSE, ![t].awaiting = FALSE, ![t].summary = "none"]
              /\ Return(c)
           \/ /\ proc[D(c)].pc = "refused"
              /\ turn' = [turn EXCEPT ![t].awaiting = FALSE, ![t].summary = "failed"]
              /\ proc' = [proc EXCEPT ![D(c)].pc = "fail"]
        /\ UNCHANGED <<conn, loaded, exec, hist, seen>>

\* turbo_agent_harness_dispatch_turn_interrupt after its refresh: a turn that is being
\* refreshed or started is busy, one that waits is withdrawn, another one is cancelled.
TurnInterrupt(c) ==
    LET t == proc[D(c)].t
        u == turn[t]
        mine == u.id # 0 /\ u.conn = c /\ ~u.finalized
        free == mine /\ ~u.refreshing /\ ~u.starting
    IN  /\ proc[D(c)].pc = "interrupt"
        /\ \/ /\ ~free \/ (~u.awaiting /\ exec[t].phase = "none")
              /\ Return(c) /\ UNCHANGED turn
           \/ /\ free /\ u.awaiting
              /\ turn' = [turn EXCEPT ![t].starting = TRUE]
              /\ proc' = [proc EXCEPT ![D(c)].pc = "cancelled"]
           \/ /\ free /\ ~u.awaiting /\ exec[t].phase # "none"
              /\ turn' = [turn EXCEPT ![t].interrupt = TRUE]
              /\ proc' = [proc EXCEPT ![D(c)].pc = "cancel", ![D(c)].id = u.id]
        /\ UNCHANGED <<conn, loaded, exec, hist, seen>>

\* turbo_agent_execution_cancel of the execution that was retained: one that has ended or is
\* cancelled already says so, and the request is taken back.
CancelExecution(c) ==
    LET t == proc[D(c)].t
        already == exec[t].phase = "ended" \/ exec[t].cancel \/ turn[t].id # proc[D(c)].id
    IN  /\ proc[D(c)].pc = "cancel"
        /\ exec' = IF already THEN exec ELSE [exec EXCEPT ![t].cancel = TRUE]
        /\ IF already THEN proc' = [proc EXCEPT ![D(c)].pc = "take_back"] ELSE Return(c)
        /\ UNCHANGED <<conn, loaded, turn, hist, seen>>

InterruptTakeBack(c) ==
    LET t == proc[D(c)].t
    IN  /\ proc[D(c)].pc = "take_back"
        /\ turn' = IF turn[t].id = proc[D(c)].id /\ ~turn[t].finalized
                   THEN [turn EXCEPT ![t].interrupt = FALSE] ELSE turn
        /\ Return(c)
        /\ UNCHANGED <<conn, loaded, exec, hist, seen>>

\* turbo_agent_harness_dispatch_turn_steer: the turn is looked at under the lock, the message
\* is put into the session's inbox after it.
SteerCheck(c) ==
    LET u == turn[proc[D(c)].t]
    IN  /\ proc[D(c)].pc = "steer"
        /\ IF u.id = 0 \/ u.conn # c \/ u.finalized \/ u.awaiting \/ u.refreshing \/ u.starting
           THEN Return(c) ELSE proc' = [proc EXCEPT ![D(c)].pc = "enqueue"]
        /\ UNCHANGED <<conn, loaded, turn, exec, hist, seen>>

\* turbo_agent_session_enqueue into the inbox of the thread's session.
SteerEnqueue(c) ==
    /\ proc[D(c)].pc = "enqueue"
    /\ Return(c)
    /\ UNCHANGED <<conn, loaded, turn, exec, hist, seen>>

\* A call that refreshes the turn of a loaded thread before it looks at it.
CallOnTurn(c, t) ==
    /\ Ready(c) /\ t \in loaded
    /\ \E next \in seen[c].calls \cap (IF c \in Owners THEN {"steer", "interrupt", "approve", "deny"} ELSE {"get"}) :
         RefreshBegin(D(c), t, next)

(* ----------------------------- the consumer ----------------------------- *)

P(c) == <<c, "pump">>

\* What the client knows after the events of its journal up to number n were given to it.
Given(c, n) ==
    [seen[c] EXCEPT
     !.last = IF n > @ THEN n ELSE @,
     !.asked = IF \E e \in Range(conn[c].queue) : e.kind = "approval" /\ e.seq > seen[c].last /\ e.seq <= n
               THEN {t \in HThreads : turn[t].conn = c /\ hist[t] # <<>> /\ turn[t].id > 0
                                      /\ ~turn[t].finalized /\ turn[t].summary = "review"}
               ELSE seen[c].asked]

\* turbo_agent_harness_connection_refresh: the turns this connection started, if there are any.
ConnectionRefresh(p, c, next) ==
    LET own == {t \in loaded : turn[t].id # 0 /\ turn[t].conn = c}
    IN  \/ \E t \in own : RefreshBegin(p, t, next)
        \/ /\ own = {} /\ Free(p)
           /\ proc' = [proc EXCEPT ![p].pc = next]
           /\ UNCHANGED <<conn, loaded, turn, exec, hist, seen>>

\* turbo_agent_harness_connection_wait_event_json_value: a refresh of the connection's
\* threads, then the first event that is not acknowledged.
PumpRefresh(c) ==
    /\ conn[c].state = "ready" /\ ~conn[c].closed /\ conn[c].err = "ok"
    /\ ConnectionRefresh(P(c), c, "wait")

\* The event is written to the client, or the writer fails and the next wait finds it again.
PumpWrite(c) ==
    /\ proc[P(c)].pc = "wait"
    /\ \/ /\ ~conn[c].closed /\ conn[c].err = "ok" /\ conn[c].queue # <<>>
          /\ seen' = [seen EXCEPT ![c] = Given(c, Head(conn[c].queue).seq)]
          /\ proc' = [proc EXCEPT ![P(c)] = [Idle EXCEPT !.pc = "ack", !.id = Head(conn[c].queue).seq]]
       \/ /\ proc' = [proc EXCEPT ![P(c)] = Idle] /\ UNCHANGED seen
    /\ UNCHANGED <<conn, loaded, turn, exec, hist>>

\* turbo_agent_harness_connection_ack_events: what is acknowledged leaves the journal.
Acknowledge(c, n) ==
    conn' = IF conn[c].closed THEN conn
            ELSE [conn EXCEPT ![c].queue = SelectSeq(@, LAMBDA e : e.seq > n),
                              ![c].acked = IF n > @ THEN n ELSE @]

PumpAck(c) ==
    /\ proc[P(c)].pc = "ack"
    /\ Acknowledge(c, proc[P(c)].id)
    /\ proc' = [proc EXCEPT ![P(c)] = Idle]
    /\ UNCHANGED <<loaded, turn, exec, hist, seen>>

\* turbo_agent_harness_dispatch_event_replay after its refresh: up to limit events after one
\* the client names, unless that one's successors are acknowledged or the stream has failed.
EventReplay(c) ==
    /\ proc[D(c)].pc = "replay"
    /\ \E after \in {0, seen[c].last}, limit \in {1, MaxEvents} :
         LET selected == SelectSeq(conn[c].queue, LAMBDA e : e.seq > after)
             given == SubSeq(selected, 1, IF limit < Len(selected) THEN limit ELSE Len(selected))
         IN  IF after < conn[c].acked \/ conn[c].err # "ok" \/ given = <<>> THEN UNCHANGED seen
             ELSE seen' = [seen EXCEPT ![c] = Given(c, Last(given).seq)]
    /\ Return(c)
    /\ UNCHANGED <<conn, loaded, turn, exec, hist>>

\* turbo_agent_harness_dispatch_event_ack of events the client was given.
EventAck(c) ==
    /\ Free(D(c)) /\ Ready(c) /\ seen[c].last > conn[c].acked
    /\ Acknowledge(c, seen[c].last)
    /\ Return(c)
    /\ UNCHANGED <<loaded, turn, exec, hist, seen>>

(* -------------------------- workers and closing -------------------------- *)

\* The running execution calls the event sink.
WorkerEmit(t) ==
    /\ exec[t].phase = "running" /\ exec[t].items < MaxItems
    /\ exec' = [exec EXCEPT ![t].phase = "emitting", ![t].items = @ + 1]
    /\ UNCHANGED <<conn, loaded, turn, proc, hist, seen>>


\* turbo_agent_harness_turn_event_sink: the worker waits in it until the event fits, the
\* journal is closed or its stream has failed; an event that is too large fails the stream.
WorkerSink(t) ==
    LET c == turn[t].conn
        rc == ItemRoom(c)
    IN  /\ exec[t].phase = "emitting"
        /\ \/ /\ rc # "busy"
              /\ conn' = IF rc = "ok" THEN Pushed(c, <<"item">>) ELSE conn
              /\ hist' = IF rc = "ok" THEN Recorded(t, <<"item">>) ELSE hist
           \/ conn' = Failed(c, "too_large") /\ UNCHANGED hist
        /\ exec' = [exec EXCEPT ![t].phase = "running"]
        /\ UNCHANGED <<loaded, turn, proc, seen>>

\* The execution ends: with a summary, whose status also says that it failed or timed out, or
\* without a result when the runtime returned an error.
WorkerEnd(t) ==
    /\ exec[t].phase = "running"
    /\ \E o \in {"completed", "review", "cancelled", "failed", "no_result"} :
         /\ o = "cancelled" => exec[t].cancel
         /\ o = "review" => conn[turn[t].conn].next < MaxSeq
         /\ exec' = [exec EXCEPT ![t].phase = "ended", ![t].outcome = o]
    /\ UNCHANGED <<conn, loaded, turn, proc, hist, seen>>

\* turbo_agent_harness_connection_close: waiters are woken, then the connection's own turns
\* are cancelled one after another.  No call of this connection is in progress.
Close(c) ==
    /\ Free(D(c)) /\ ~conn[c].closed
    /\ conn' = [conn EXCEPT ![c].closed = TRUE]
    /\ proc' = [proc EXCEPT ![D(c)].pc = "closing"]
    /\ UNCHANGED <<loaded, turn, exec, hist, seen>>

CloseTurn(c) ==
    LET own == {t \in HThreads : turn[t].conn = c /\ ~turn[t].finalized}
    IN  /\ proc[D(c)].pc = "closing"
        /\ \/ own = {} /\ proc' = [proc EXCEPT ![D(c)].pc = "closed"] /\ UNCHANGED turn
           \/ \E t \in own :
                LET none == exec[t].phase = "none"
                IN  /\ turn' = [turn EXCEPT ![t].interrupt = TRUE, ![t].finalized = none,
                                            ![t].awaiting = @ /\ ~none]
                    /\ proc' = [proc EXCEPT ![D(c)].t = t, ![D(c)].pc = IF none THEN "closing" ELSE "close_cancel"]
        /\ UNCHANGED <<conn, loaded, exec, hist, seen>>

CloseCancel(c) ==
    /\ proc[D(c)].pc = "close_cancel"
    /\ exec' = [exec EXCEPT ![proc[D(c)].t].cancel = @ \/ exec[proc[D(c)].t].phase # "ended"]
    /\ proc' = [proc EXCEPT ![D(c)].pc = "close_wait"]
    /\ UNCHANGED <<conn, loaded, turn, hist, seen>>

\* The turn becomes final when its execution has ended.
CloseWait(c) ==
    LET t == proc[D(c)].t
    IN  /\ proc[D(c)].pc = "close_wait" /\ exec[t].phase = "ended"
        /\ turn' = [turn EXCEPT ![t].awaiting = FALSE, ![t].starting = FALSE, ![t].finalized = TRUE]
        /\ proc' = [proc EXCEPT ![D(c)].pc = "closing"]
        /\ UNCHANGED <<conn, loaded, exec, hist, seen>>

(* ------------------------------ specification ---------------------------- *)

HInit ==
    /\ conn = [c \in Conns |-> [state |-> "new", closed |-> FALSE, err |-> "ok", queue |-> <<>>, next |-> 0, acked |-> 0]]
    /\ loaded = {}
    /\ turn = [t \in HThreads |-> NoHTurn]
    /\ exec = [t \in HThreads |-> NoExec]
    /\ proc = [p \in Procs |-> Idle]
    /\ hist = [t \in HThreads |-> [i \in 1..MaxTurns |-> <<>>]]
    /\ \E calls \in Habits : seen = [c \in Conns |-> [last |-> 0, asked |-> {}, calls |-> calls]]

Refresh(p) == RefreshTake(p) \/ RefreshKeep(p) \/ RefreshEmit(p) \/ RefreshFinish(p)

HDispatch(c) ==
    \/ TurnGet(c) \/ TurnAnnounce(c) \/ TurnSubmit(c) \/ TurnSubmitted(c) \/ TurnFail(c) \/ TurnFailed(c)
    \/ ApprovalCheck(c) \/ ApprovalResolve(c) \/ ApprovalResubmit(c) \/ ApprovalResumed(c)
    \/ EmitEnd(c) \/ EndWaiting(c) \/ TurnInterrupt(c) \/ CancelExecution(c) \/ InterruptTakeBack(c)
    \/ SteerCheck(c) \/ SteerEnqueue(c) \/ EventReplay(c)
    \/ CloseTurn(c) \/ CloseCancel(c) \/ CloseWait(c)

HCalls(c) ==
    \/ Initialize(c)
    \/ \E t \in HThreads : CallOnTurn(c, t)

OwnerCalls(c) ==
    \/ "replay" \in seen[c].calls /\ Ready(c) /\ ConnectionRefresh(D(c), c, "replay")
    \/ "ack" \in seen[c].calls /\ EventAck(c)
    \/ "close" \in seen[c].calls /\ Close(c)
    \/ \E t \in HThreads : ThreadLoad(c, t) \/ TurnInstall(c, t)

Pump(c) == PumpRefresh(c) \/ PumpWrite(c) \/ PumpAck(c)

Worker(t) == WorkerEmit(t) \/ WorkerSink(t) \/ WorkerEnd(t)

HNext ==
    \/ \E c \in Conns : HCalls(c) \/ HDispatch(c)
    \/ \E c \in Owners : OwnerCalls(c) \/ Pump(c)
    \/ \E p \in Procs : Refresh(p)
    \/ \E t \in HThreads : Worker(t)

\* The threads of the process are scheduled: a worker's execution ends, a call that was begun
\* is carried out, and the client keeps pumping with a writer that does not fail for ever.
HFairness ==
    /\ \A c \in Conns : WF_hVars(HDispatch(c))
    /\ \A c \in Owners : WF_hVars(PumpRefresh(c)) /\ WF_hVars(PumpWrite(c)) /\ WF_hVars(PumpAck(c))
                          /\ SF_hVars(PumpWrite(c) /\ proc'[P(c)].pc = "ack")
    /\ \A p \in Procs : WF_hVars(Refresh(p))
    /\ \A t \in HThreads : WF_hVars(WorkerEnd(t)) /\ WF_hVars(WorkerSink(t))

HSpec == HInit /\ [][HNext]_hVars /\ HFairness

\* The events of a turn, in the order of the journal: turn/started first, an approval is asked
\* for once at a time and nothing but its resolution follows it, and turn/completed is the last
\* one.  (A turn whose turn/started found no room has turn/completed alone.)
TurnEvents(h) ==
    /\ \A i \in 1..Len(h) : h[i] = "started" <=> (i = 1 /\ h # <<"completed">>)
    /\ \A i \in 1..Len(h) : h[i] = "completed" => i = Len(h)
    /\ \A i \in 2..Len(h) : h[i] = "resolved" <=> h[i - 1] = "approval"

\* Whatever processes refresh a turn, decide its approval, interrupt it or close its
\* connection, its events are such a sequence, and the turn is final or waiting on an open
\* connection, for everybody who asks with turn/get, exactly when the journal says so to the
\* client (turn_status_text, turn_refresh, emit_resolution_and_completed).
TurnProtocol ==
    \A t \in HThreads :
      /\ \A i \in 1..MaxTurns : TurnEvents(hist[t][i])
      /\ LET u == turn[t]
             c == conn[u.conn]
             h == IF u.id = 0 THEN <<>> ELSE hist[t][u.id]
         IN  u.id > 0 /\ ~c.closed /\ c.err = "ok"
             => /\ StatusText(t) \notin {"inProgress", "completing", "approvalPending"}
                     => h # <<>> /\ h[Len(h)] = "completed"
                /\ StatusText(t) = "approvalPending" /\ ~u.starting => h # <<>> /\ h[Len(h)] = "approval"
                /\ StatusText(t) \in {"inProgress", "completing"} /\ ~u.refreshing /\ ~u.starting
                     => h # <<>> /\ h[Len(h)] \in {"started", "item", "resolved"}

\* The journal holds exactly the events after the last acknowledged one, without a gap and
\* within its limit; what is acknowledged was given to the client (enqueue, ack_events).
JournalSound ==
    \A c \in Conns :
      /\ Len(conn[c].queue) <= MaxEvents
      /\ conn[c].next = conn[c].acked + Len(conn[c].queue)
      /\ \A i \in 1..Len(conn[c].queue) : conn[c].queue[i].seq = conn[c].acked + i
      /\ conn[c].acked <= seen[c].last /\ seen[c].last <= conn[c].next

\* A worker that runs has its turn: the turn its event sink writes to is neither final nor
\* replaced before the execution has ended, on no path of turn/start, approval or close.
RunningTurnKept ==
    \A t \in HThreads : exec[t].phase \in {"running", "emitting"} => turn[t].id > 0 /\ ~turn[t].finalized

Over(t) ==
    turn[t].finalized \/ turn[t].awaiting \/ conn[turn[t].conn].closed \/ conn[turn[t].conn].err # "ok"


=============================================================================
