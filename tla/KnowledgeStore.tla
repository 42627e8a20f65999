---------------------------- MODULE KnowledgeStore ----------------------------
(***************************************************************************)
(* The local knowledge store over SQLite                                   *)
(* (src/agent/src/turbo_agent_knowledge_store.c): documents, their chunks  *)
(* and the FTS5 rows of the chunks, written in transactions whose          *)
(* statements can fail; indexing of a directory; search and context.       *)
(*                                                                         *)
(* A text is a sequence of bytes: 0 is the end of a line, 9 a space, the   *)
(* others are letters.  A content hash that the store computes is the text *)
(* itself, one that the host gives is HostHash.  One connection is used:   *)
(* "kdb" is what it sees, "ksaved" what is committed.                      *)
(***************************************************************************)
EXTENDS Integers, FiniteSets, Sequences, SequencesExt, FiniteSetsExt

CONSTANTS
    KDocs,          \* documents a host upserts: [id, uri, kind, hashed, target]
    KTexts,         \* their texts
    KMinTarget,     \* the least chunk_target_bytes (128)
    KDefaultTarget, \* chunk_target_bytes when the host gives none (2048)
    KTree,          \* KTree[dir]: entries of a directory in readdir order
    KFiles          \* KFiles[path]: [allowed, large, text, binary]

-----------------------------------------------------------------------------
(* Chunks *)

HostHash == <<-1>>
Breaks == {0, 9}

(* The chunk_target_bytes a call uses *)
EffectiveTarget(requested) ==
    IF requested = 0 THEN KDefaultTarget ELSE IF requested < KMinTarget THEN KMinTarget ELSE requested

(* turbo_knowledge_next_chunk_len: the last end of line in the second half *)
(* of the target, or the target.                                           *)
NextChunkLen(text, target) ==
    IF Len(text) <= target THEN Len(text)
    ELSE LET ends == {i \in (target \div 2 + 1)..target : text[i + 1] = 0}
         IN IF ends = {} THEN target ELSE Max(ends) + 1

(* The loop of upsert_text: an empty text has one empty chunk. *)
ChunksOf(text, target) ==
    LET from[o \in 0..Len(text)] ==
            LET rest == SubSeq(text, o + 1, Len(text))
                n == NextChunkLen(rest, target)
            IN IF o = Len(text) THEN <<>> ELSE <<SubSeq(rest, 1, n)>> \o from[o + n]
    IN IF text = <<>> THEN << <<>> >> ELSE from[0]

-----------------------------------------------------------------------------
(* The statements of the transactions, on [docs, chunks, fts] *)

EmptyDb == [docs |-> {}, chunks |-> {}, fts |-> {}]

Named(db, id, uri) == {d.id : d \in {e \in db.docs : e.id = id \/ e.uri = uri}}

(* Faulty variant: the FTS rows of a document that had the uri stay. *)
DeleteFtsById(db, on, ids) == [db EXCEPT !.fts = {c \in @ : ~on \/ c.doc # CHOOSE i \in ids : TRUE}]

DeleteFts(db, on, ids) == [db EXCEPT !.fts = {c \in @ : ~on \/ c.doc \notin ids}]
DeleteChunks(db, ids) == [db EXCEPT !.chunks = {c \in @ : c.doc \notin ids}]
DeleteDocuments(db, ids) == [db EXCEPT !.docs = {d \in @ : d.id \notin ids}]

(* turbo_knowledge_insert_document, turbo_knowledge_insert_chunk *)
InsertDocument(db, d, text) ==
    [db EXCEPT !.docs = @ \union {[id |-> d.id, uri |-> d.uri, kind |-> d.kind,
                                   hash |-> IF d.hashed THEN HostHash ELSE text]}]
InsertChunk(db, on, c) ==
    [db EXCEPT !.chunks = @ \union {c}, !.fts = IF on THEN @ \union {c} ELSE @]

(* The statements of turbo_knowledge_delete_document_tx and of upsert_text *)
DeletePlan(ids) == [i \in 1..3 |-> [op |-> <<"fts", "chunks", "docs">>[i], ids |-> ids]]

UpsertPlan(db, d, text, requested) ==
    LET parts == ChunksOf(text, EffectiveTarget(requested))
    IN DeletePlan(Named(db, d.id, d.uri)) \o <<[op |-> "doc", doc |-> d, text |-> text]>>
       \o [i \in DOMAIN parts |->
              [op |-> "chunk", row |-> [doc |-> d.id, uri |-> d.uri, ord |-> i - 1, text |-> parts[i]]]]

Execute(db, on, s) ==
    CASE s.op = "fts" -> IF s.ids = {} THEN db ELSE DeleteFts(db, on, s.ids)
      [] s.op = "chunks" -> DeleteChunks(db, s.ids)
      [] s.op = "docs" -> DeleteDocuments(db, s.ids)
      [] s.op = "doc" -> InsertDocument(db, s.doc, s.text)
      [] s.op = "chunk" -> InsertChunk(db, on, s.row)

(* What a whole call does *)
Upserted(db, on, d, text, requested) ==
    FoldLeft(LAMBDA acc, s : Execute(acc, on, s), db, UpsertPlan(db, d, text, requested))
Deleted(db, on, id) ==
    FoldLeft(LAMBDA acc, s : Execute(acc, on, s), db, DeletePlan({id}))

-----------------------------------------------------------------------------
VARIABLES
    fts5,       \* SQLite has FTS5
    kdb, ksaved, ktx,
    kcall,      \* the call that writes: [op, doc, text, target, todo]
    walk        \* the walk over a directory

kVars == <<fts5, kdb, ksaved, ktx, kcall, walk>>

NoCall == [op |-> "none", doc |-> [id |-> "", uri |-> <<>>, kind |-> "", hashed |-> FALSE, target |-> 0],
           text |-> <<>>, target |-> 0, todo |-> <<>>]
NoWalk == [stack |-> <<>>, max |-> 0, visited |-> 0, indexed |-> 0, ext |-> 0, large |-> 0, error |-> 0,
           truncated |-> FALSE, summary |-> TRUE, at |-> "none"]

(* turbo_agent_knowledge_store_sqlite_open *)
KInit ==
    /\ fts5 \in BOOLEAN /\ kdb = EmptyDb /\ ksaved = EmptyDb /\ ktx = "none"
    /\ kcall = NoCall /\ walk = NoWalk

(* BEGIN IMMEDIATE fails while a transaction is open. *)
Begin(op, d, text, target, todo) ==
    /\ kcall = NoCall /\ ktx = "none" /\ ktx' = "open"
    /\ kcall' = [op |-> op, doc |-> d, text |-> text, target |-> target, todo |-> todo]
    /\ UNCHANGED <<fts5, kdb, ksaved>>

(* turbo_agent_knowledge_store_upsert_text and _delete_document *)
UpsertText(d, text, target) ==
    /\ walk = NoWalk /\ Begin("upsert", d, text, target, UpsertPlan(kdb, d, text, target))
    /\ UNCHANGED walk
DeleteDocument(d) ==
    walk = NoWalk /\ Begin("delete", d, <<>>, 0, DeletePlan({d.id})) /\ UNCHANGED walk

Statement ==
    /\ kcall.todo # <<>>
    /\ kdb' = Execute(kdb, fts5, Head(kcall.todo)) /\ kcall' = [kcall EXCEPT !.todo = Tail(@)]
    /\ UNCHANGED <<fts5, ksaved, ktx, walk>>

(* A file of a walk was indexed or was not; the walk goes on either way. *)
Counted(field) ==
    walk' = IF kcall.op = "file" THEN [walk EXCEPT ![field] = @ + 1] ELSE walk

Rollback == kdb' = ksaved /\ ktx' = "none" /\ kcall' = NoCall /\ Counted("error")

StatementFails == kcall.todo # <<>> /\ Rollback /\ UNCHANGED <<fts5, ksaved>>

Commit ==
    /\ kcall # NoCall /\ kcall.todo = <<>>
    /\ ksaved' = kdb /\ ktx' = "none" /\ kcall' = NoCall /\ Counted("indexed")
    /\ UNCHANGED <<fts5, kdb>>

(* upsert_text rolls back after a COMMIT that failed, delete_document      *)
(* returns and leaves the transaction open.                                *)
CommitFails ==
    /\ kcall # NoCall /\ kcall.todo = <<>>
    /\ IF kcall.op = "delete" THEN kcall' = NoCall /\ UNCHANGED <<kdb, ktx, walk>> ELSE Rollback
    /\ UNCHANGED <<fts5, ksaved>>

(* The process ends and opens the database again. *)
Reopen ==
    /\ kdb # ksaved /\ kdb' = ksaved /\ ktx' = "none" /\ kcall' = NoCall /\ walk' = NoWalk
    /\ UNCHANGED <<fts5, ksaved>>

-----------------------------------------------------------------------------
(* Indexing a directory *)

(* index_directory_ex *)
StartWalk(recursive, max, summary) ==
    /\ walk = NoWalk /\ kcall = NoCall
    /\ walk' = [NoWalk EXCEPT !.stack = <<KTree["root"]>>, !.max = max, !.summary = summary,
                              !.at = IF recursive THEN "deep" ELSE "flat"]
    /\ UNCHANGED <<fts5, kdb, ksaved, ktx, kcall>>

Walking == walk.at \in {"deep", "flat"} /\ kcall = NoCall
Entry == walk.stack[1][1]
Rest == IF Len(walk.stack[1]) = 1 THEN Tail(walk.stack) ELSE <<Tail(walk.stack[1])>> \o Tail(walk.stack)

(* A directory: skipped (should_skip_directory), entered, or not readable, *)
(* which fails the whole call.                                             *)
WalkDirectory ==
    /\ Walking /\ walk.stack # <<>> /\ Entry.type # "file"
    /\ walk' = IF Entry.type = "skip" \/ walk.at = "flat" THEN [walk EXCEPT !.stack = Rest]
               ELSE IF Entry.type = "locked" THEN [walk EXCEPT !.at = "failed"]
               ELSE [walk EXCEPT !.stack = IF KTree[Entry.name] = <<>> THEN Rest
                                           ELSE <<KTree[Entry.name]>> \o Rest]
    /\ UNCHANGED <<fts5, kdb, ksaved, ktx, kcall>>

AtLimit == walk.max > 0 /\ walk.visited >= walk.max

(* turbo_knowledge_index_directory_file up to index_file *)
WalkFile ==
    /\ Walking /\ walk.stack # <<>> /\ Entry.type = "file"
    /\ LET f == KFiles[Entry.name]
           next == [walk EXCEPT !.stack = Rest, !.visited = @ + 1]
           doc == [id |-> Entry.name, uri |-> <<Entry.name>>, kind |-> "file", hashed |-> FALSE, target |-> 0]
       IN IF AtLimit
          THEN walk' = [walk EXCEPT !.truncated = TRUE, !.at = "done"]
               /\ UNCHANGED <<fts5, kdb, ksaved, ktx, kcall>>
          ELSE IF ~f.allowed THEN walk' = [next EXCEPT !.ext = @ + 1]
               /\ UNCHANGED <<fts5, kdb, ksaved, ktx, kcall>>
          ELSE IF f.large THEN walk' = [next EXCEPT !.large = @ + 1]
               /\ UNCHANGED <<fts5, kdb, ksaved, ktx, kcall>>
          ELSE IF f.binary \/ ktx = "open" THEN walk' = [next EXCEPT !.error = @ + 1]
               /\ UNCHANGED <<fts5, kdb, ksaved, ktx, kcall>>
          ELSE walk' = next /\ Begin("file", doc, f.text, 0, UpsertPlan(kdb, doc, f.text, 0))

WalkEnds ==
    /\ Walking /\ walk.stack = <<>> /\ walk' = [walk EXCEPT !.at = "done"]
    /\ UNCHANGED <<fts5, kdb, ksaved, ktx, kcall>>

WalkReturns ==
    /\ walk.at \in {"done", "failed"} /\ walk' = NoWalk
    /\ walk.at = "failed" => walk.summary
    /\ UNCHANGED <<fts5, kdb, ksaved, ktx, kcall>>

(* The failure path reads through out_summary_json, which a host may leave *)
(* out: the process ends.                                                  *)
WalkFaults ==
    /\ walk.at = "failed" /\ ~walk.summary
    /\ kdb' = ksaved /\ ktx' = "none" /\ kcall' = NoCall /\ walk' = NoWalk
    /\ UNCHANGED <<fts5, ksaved>>

KNext ==
    \/ \E d \in KDocs : DeleteDocument(d) \/ \E t \in KTexts : UpsertText(d, t, d.target)
    \/ Statement \/ StatementFails \/ Commit \/ CommitFails \/ Reopen
    \/ \E r, o \in BOOLEAN, m \in 0..2 : (o \/ m = 0) /\ StartWalk(r, m, o)
    \/ WalkDirectory \/ WalkFile \/ WalkEnds \/ WalkReturns \/ WalkFaults

KSpec == KInit /\ [][KNext]_kVars

-----------------------------------------------------------------------------
(* Reads *)

(* The words of a text, as the FTS5 tokenizer splits it *)
WordsOf(text) ==
    {SubSeq(text, i, j) : <<i, j>> \in
        {p \in (1..Len(text)) \X (1..Len(text)) :
            /\ p[1] <= p[2] /\ \A k \in p[1]..p[2] : text[k] \notin Breaks
            /\ p[1] = 1 \/ text[p[1] - 1] \in Breaks
            /\ p[2] = Len(text) \/ text[p[2] + 1] \in Breaks}}

(* turbo_agent_knowledge_store_query_ex: FTS rows joined with their chunk  *)
(* and document, or LIKE over the chunks; any of the words is enough.      *)
MatchRows(db, words) ==
    IF fts5 THEN {c \in db.fts : words \intersect WordsOf(c.text) # {}}
    ELSE {c \in db.chunks : \E w \in words : \E i \in 0..Len(c.text) - Len(w) :
                                w = SubSeq(c.text, i + 1, i + Len(w))}

(* LIMIT keeps that many rows; the score that orders them is SQLite's.     *)
Limited(rows, limit) ==
    {r \in SUBSET rows : Cardinality(r) = Min({limit, Cardinality(rows)})}

(* The possible answers; a limit of zero is eight.                         *)
QueryEx(db, words, kind, prefix, limit) ==
    Limited({[doc |-> d.id, ord |-> c.ord, uri |-> IF fts5 THEN r.uri ELSE d.uri, text |-> c.text] :
                <<r, c, d>> \in
                {x \in MatchRows(db, words) \X db.chunks \X db.docs :
                    /\ x[2].doc = x[1].doc /\ x[2].ord = x[1].ord /\ x[3].id = x[1].doc
                    /\ kind \in {"", x[3].kind} /\ IsPrefix(prefix, x[3].uri)}},
            IF limit = 0 THEN 8 ELSE limit)

(* load_context_ex and build_context: a layer for every result with text   *)
BuildContext(db, words, kind, prefix, limit) ==
    {{[uri |-> r.uri, text |-> r.text] : r \in {q \in found : q.text # <<>>}} :
        found \in QueryEx(db, words, kind, prefix, limit)}

(* list_documents with chunk counts, get_document with ordered chunks *)
ListDocuments(db, kind, prefix, limit) ==
    Limited({[id |-> d.id, chunks |-> Cardinality({c \in db.chunks : c.doc = d.id})] :
                d \in {e \in db.docs : kind \in {"", e.kind} /\ IsPrefix(prefix, e.uri)}},
            IF limit = 0 THEN 100 ELSE limit)
GetDocument(db, id) ==
    LET rows == {c \in db.chunks : c.doc = id}
    IN [i \in 1..Cardinality(rows) |-> (CHOOSE c \in rows : c.ord = i - 1).text]

(* turbo_knowledge_build_kind_stats, turbo_agent_knowledge_store_stats *)
KindStats(db, kind) ==
    LET ids == {d.id : d \in {e \in db.docs : e.kind = kind}}
    IN [docs |-> Cardinality(ids), chunks |-> Cardinality({c \in db.chunks : c.doc \in ids})]
Stats(db) == [docs |-> Cardinality(db.docs), chunks |-> Cardinality(db.chunks)]

-----------------------------------------------------------------------------
(* Lines so short that every second half of a chunk holds the end of one   *)
ShortLines(text) ==
    LET half == KMinTarget - KMinTarget \div 2
    IN \A i \in 0..Len(text) - half : \E k \in 1..half : text[i + k] = 0

(* What is committed is a whole index, whatever statement failed, wherever *)
(* the process ended and however documents took over each other's id and   *)
(* uri: uris are unique; the chunks of a document are numbered from zero   *)
(* and together are the text the store computed its hash from; the         *)
(* statistics by kind add up and every document is listed with its chunks  *)
(* (delete_document_or_uri, insert_chunk, stats, list_documents).  In a    *)
(* text of short lines no word is cut, at whatever target the text was     *)
(* chunked: every search for one of its words, by FTS5 or by LIKE, with or *)
(* without a kind and a uri prefix, puts a chunk with the word into the    *)
(* context, unless the limit was used up (next_chunk_len, query_ex,        *)
(* load_context_ex).                                                       *)
IndexComplete ==
    LET db == ksaved
        kinds == {d.kind : d \in db.docs}
        TextOf(d) == FlattenSeq(GetDocument(db, d.id))
    IN /\ \A d, e \in db.docs : d.id = e.id \/ d.uri = e.uri => d = e
       /\ \A d \in db.docs : d.hash \in {HostHash, TextOf(d)}
       /\ MapThenSumSet(LAMBDA k : KindStats(db, k).docs, kinds) = Stats(db).docs
       /\ MapThenSumSet(LAMBDA k : KindStats(db, k).chunks, kinds) = Stats(db).chunks
       /\ \A listed \in ListDocuments(db, "", <<>>, 0), d \in db.docs :
              [id |-> d.id, chunks |-> Len(GetDocument(db, d.id))] \in listed
       /\ \A d \in {e \in db.docs : ShortLines(TextOf(e))}, k \in {"", "file"}, limit \in {0, 1} :
              \A w \in WordsOf(TextOf(d)), prefix \in {<<>>, SubSeq(d.uri, 1, 1)} :
                  k \in {"", d.kind} =>
                      \A layers \in BuildContext(db, {w}, k, prefix, limit) :
                          \/ \E l \in layers : l.uri = d.uri /\ w \in WordsOf(l.text)
                          \/ Cardinality(layers) = limit
       /\ fts5 => db.fts = db.chunks

(* What other connections see changes by whole calls only: a commit adds   *)
(* to the committed index exactly what one upsert, one deletion or one     *)
(* file of a directory does to it.  After a deletion whose COMMIT failed   *)
(* the transaction stays open and nothing is committed any more.           *)
CommitsWholeCallsStep ==
       /\ ksaved' # ksaved =>
            ksaved' = IF kcall.op = "delete" THEN Deleted(ksaved, fts5, kcall.doc.id)
                      ELSE Upserted(ksaved, fts5, kcall.doc, kcall.text, kcall.target)
       /\ kcall = NoCall /\ ktx = "open" /\ ktx' = "open" => kcall' = NoCall
CommitsWholeCalls == [][CommitsWholeCallsStep]_kVars

(* The summary of a walk accounts for every file it visited, and stops at  *)
(* max_files; a file counted as indexed is in the committed index.         *)
WalkAccounts ==
    /\ walk.visited = walk.indexed + walk.ext + walk.large + walk.error
                      + (IF kcall.op = "file" THEN 1 ELSE 0)
    /\ walk.max > 0 => walk.visited <= walk.max
    /\ Cardinality({d \in ksaved.docs : d.kind = "file"}) >= walk.indexed
=============================================================================
