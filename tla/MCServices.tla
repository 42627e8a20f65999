----------------------------- MODULE MCServices -----------------------------
(***************************************************************************)
(* Tool batches, harness servers, provider streams, and the knowledge and  *)
(* vector stores, each on its own.                                         *)
(***************************************************************************)
EXTENDS ToolBatch, HarnessServer, KnowledgeStore, ProviderStream, VectorStore, TLC

CONSTANT Focus   \* the components a run takes, each on its own

VARIABLE focus   \* the component that runs; the others stay in their first state

-----------------------------------------------------------------------------
\* batch: Five threads over one executor with two workers: a mixed batch with a
\* parallel group longer than a wave, a batch under a cancel token, one
\* that fails in preparation and, on the fourth thread, one with malformed
\* arguments; a fifth hands in two calls with one identity.

CONSTANTS t1, t2, t3, t4, t5

Call(f, m) == [fate |-> f, mode |-> m]

MCBatch ==
    (t1 :> <<Call("sound", "parallel"), Call("denied", "parallel"),
             Call("sound", "parallel"), Call("not_found", "exclusive")>>)
 @@ (t2 :> <<Call("sound", "exclusive"), Call("recorded", "parallel"),
             Call("sound", "parallel")>>)
 @@ (t3 :> <<Call("sound", "exclusive"), Call("unprepared", "parallel")>>)
 @@ (t4 :> <<Call("denied", "parallel"), Call("sound", "parallel"),
             Call("malformed", "exclusive")>>)
 @@ (t5 :> <<Call("sound", "exclusive"), Call("duplicate", "exclusive")>>)

-----------------------------------------------------------------------------
\* harness: One owner and one onlooker of a thread, a journal with one slot beside
\* the reserve; six clients that differ in the calls they make.

MCHabits == {{"get", "approve", "deny"}, {"interrupt", "approve"}, {"close", "interrupt", "deny"},
             {"again", "replay", "ack"}, {"again", "get"}, {"close", "steer"}}

-----------------------------------------------------------------------------
\* knowledge: Three documents, two of them with one id, and a tree with a folder that is skipped and a file that cannot be read.

MCKDocs == {[id |-> "a", uri |-> <<"u">>, kind |-> "note", hashed |-> FALSE, target |-> 0],
            [id |-> "b", uri |-> <<"u">>, kind |-> "text", hashed |-> FALSE, target |-> 1],
            [id |-> "b", uri |-> <<"u", "v">>, kind |-> "note", hashed |-> TRUE, target |-> 1]}
(* no text, lines of up to three bytes, and a line that is cut inside its second word *)
MCKTexts == {<<>>, <<1, 0, 2, 0, 1, 2, 0, 3, 1>>, <<1, 9, 2, 3, 1, 3, 2>>}
MCKTree == [root |-> <<[name |-> "f", type |-> "file"], [name |-> "build", type |-> "skip"],
                       [name |-> "sub", type |-> "dir"], [name |-> "g", type |-> "file"]>>,
            sub |-> <<[name |-> "h", type |-> "file"], [name |-> "x", type |-> "file"],
                      [name |-> "secret", type |-> "locked"]>>]
File(allowed, large, text, binary) ==
    [allowed |-> allowed, large |-> large, text |-> text, binary |-> binary]
MCKFiles == [f |-> File(TRUE, FALSE, <<3, 0, 1, 2>>, FALSE), g |-> File(TRUE, TRUE, <<1>>, FALSE),
             h |-> File(TRUE, FALSE, <<2>>, TRUE), x |-> File(FALSE, FALSE, <<2>>, FALSE)]

-----------------------------------------------------------------------------
\* stream: Answers of up to three blocks in each wire format.

-----------------------------------------------------------------------------
\* vector: Two documents, the id of one a prefix of the other one's; embedders of one, two and no dimensions.

MCVDocs == {[id |-> <<"a">>, uri |-> <<"a", "x">>, kind |-> "note"],
            [id |-> <<"a", 0>>, uri |-> <<"a">>, kind |-> "file"]}
MCVTexts == {<<>>, <<1, 2, 1, 0, 2, 1>>}
(* "plane" has two dimensions, "line" one, "uneven" depends on the text *)
MCVEmbed(model, text) ==
    LET n(w) == Len(SelectSeq(text, LAMBDA x : x = w))
    IN IF model = "plane" \/ (model = "uneven" /\ n(0) = 0) THEN <<n(1), n(2)>>
       ELSE IF model = "down" THEN <<>> ELSE <<Len(text)>>
MCVVectors == {<<1, 0>>, <<1>>}
MCVTree == [root |-> <<[name |-> "f", type |-> "file"], [name |-> "build", type |-> "skip"],
                       [name |-> "sub", type |-> "dir"], [name |-> "g", type |-> "file"]>>,
            sub |-> <<[name |-> "h", type |-> "file"], [name |-> "secret", type |-> "locked"]>>]
VFile(allowed, large, binary, text) ==
    [allowed |-> allowed, large |-> large, text |-> text, binary |-> binary]
MCVFiles == [f |-> VFile(TRUE, FALSE, FALSE, <<1>>), g |-> VFile(TRUE, TRUE, FALSE, <<1>>),
             h |-> VFile(TRUE, FALSE, TRUE, <<2>>), secret |-> VFile(FALSE, FALSE, FALSE, <<>>)]

-----------------------------------------------------------------------------
ServicesInit ==
    /\ focus \in Focus
    /\ focus # "knowledge" => fts5 = TRUE
    /\ focus # "stream" => fmt = "chat"
    /\ Init /\ HInit /\ KInit /\ StreamInit /\ VInit
    /\ focus # "harness" => \A c \in Conns : seen[c].calls = {"again", "get"}

ServicesNext ==
    \/ focus = "batch" /\ Next /\ UNCHANGED <<focus, hVars, kVars, streamVars, vVars>>
    \/ focus = "harness" /\ HNext /\ UNCHANGED <<focus, vars, kVars, streamVars, vVars>>
    \/ focus = "knowledge" /\ KNext /\ UNCHANGED <<focus, vars, hVars, streamVars, vVars>>
    \/ focus = "stream" /\ StreamNext /\ UNCHANGED <<focus, vars, hVars, kVars, vVars>>
    \/ focus = "vector" /\ VNext /\ UNCHANGED <<focus, vars, hVars, kVars, streamVars>>

ServicesVars == <<focus, vars, hVars, kVars, streamVars, vVars>>

ServicesSpec == ServicesInit /\ [][ServicesNext]_ServicesVars

\* The fairness of ToolBatch and of HarnessServer, for the component that runs.
BatchRuns == focus = "batch"
HarnessRuns == focus = "harness"
FocusFairness ==
    /\ \A t \in Threads : WF_vars(BatchRuns /\ Thread(t))
    /\ WF_vars(BatchRuns /\ Pool)
    /\ \A c \in Conns : WF_hVars(HarnessRuns /\ HDispatch(c))
    /\ \A c \in Owners : /\ WF_hVars(HarnessRuns /\ PumpRefresh(c)) /\ WF_hVars(HarnessRuns /\ PumpAck(c))
                         /\ WF_hVars(HarnessRuns /\ PumpWrite(c))
                         /\ SF_hVars(HarnessRuns /\ PumpWrite(c) /\ proc'[P(c)].pc = "ack")
    /\ \A p \in Procs : WF_hVars(HarnessRuns /\ Refresh(p))
    /\ \A t \in HThreads : WF_hVars(HarnessRuns /\ WorkerEnd(t)) /\ WF_hVars(HarnessRuns /\ WorkerSink(t))

FairServicesSpec == ServicesSpec /\ FocusFairness

\* Callbacks that run together are compatible, a batch refused in preparation ran nothing, and a
\* batch that returned answered every call (turbo_agent_tool_executor.c).
BatchSound == focus = "batch" => CallbacksCompatible /\ RefusedBatchRanNothing /\ EveryCallAnswered

\* The events of a turn follow the protocol, a client is never given an event out of order, and
\* the turn of a running execution stays loaded (turbo_agent_harness_server.c).
HarnessSound == focus = "harness" => TurnProtocol /\ JournalSound /\ RunningTurnKept

\* The full-text index holds what the documents hold, a walk accounts for every file it met, and
\* the database changes by whole calls (turbo_knowledge_store.c).
KnowledgeSound ==
    /\ [](focus = "knowledge" => IndexComplete /\ WalkAccounts)
    /\ [][focus = "knowledge" => CommitsWholeCallsStep]_kVars

\* What the live reader and the aggregator of each provider's stream make of it, however its
\* blocks interleave and wherever it is cut; neither hands out half a tool call
\* (turbo_agent_sse*.c).
StreamsRead == focus = "stream" => ReadersAgree /\ NoHalfCalls

\* The in-memory store and the SQLite store answer alike, and indexing a document replaces its own
\* chunks and no others (turbo_vector_store.c).
VectorSound ==
    /\ [](focus = "vector" => BackendsAgree)
    /\ [][focus = "vector" => IndexReplacesOwnChunksStep]_vVars

\* Every batch returns: answered, refused, out of memory, or stopped by its token
\* (turbo_agent_tool_execute_batch; the pool runs what it took and threads keep running).
BatchesReturn == focus = "batch" => EveryBatchReturns
=============================================================================
