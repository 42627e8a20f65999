----------------------------- MODULE VectorStore -----------------------------
(***************************************************************************)
(* The local vector store (src/agent/src/turbo_vector_store.c), its text   *)
(* splitter (turbo_text_splitter.c), document loader and retriever.  The   *)
(* store has two backends behind one interface, an array of entries and a  *)
(* SQLite table; the model makes every call on both.                       *)
(*                                                                         *)
(* An id is a sequence: the id of the n-th chunk of document d, formatted  *)
(* "d#chunk-n" in the code, is Append(d, n).  A uri is a sequence of path  *)
(* segments, a text a sequence of words (0 is the end of a line), an       *)
(* embedding a sequence of integers, <<>> when the model could not embed.  *)
(***************************************************************************)
EXTENDS Integers, FiniteSets, Sequences, SequencesExt, FiniteSetsExt

CONSTANTS
    VDocs,          \* documents: [id, uri, kind]
    VTexts,         \* their texts
    VModels,        \* embedding models
    VEmbed(_, _),   \* VEmbed(model, text)
    VVectors,       \* embeddings a host stores or queries with
    VChunkSize, VOverlap,
    VTree,          \* VTree[dir]: the entries of a directory in readdir order
    VFiles,         \* VFiles[path]: [allowed, large, binary, text]
    VMaxOrder       \* bound on next_order

-----------------------------------------------------------------------------
(* Texts and embeddings *)

(* turbo_text_splitter_next_chunk_len *)
SplitLen(text, target) ==
    IF Len(text) <= target THEN Len(text)
    ELSE LET ends == {i \in (target \div 2 + 1)..target : text[i + 1] = 0}
         IN IF ends = {} THEN target ELSE Max(ends) + 1

(* turbo_text_splitter_split_text for an overlap below the chunk size *)
SplitText(text, size, overlap) ==
    LET from[o \in 0..Len(text)] ==
            LET rest == SubSeq(text, o + 1, Len(text))
                cut == SplitLen(rest, size)
                n == IF cut <= overlap /\ Len(rest) > overlap THEN overlap + 1 ELSE cut
            IN <<SubSeq(rest, 1, n)>>
               \o IF o + n >= Len(text) THEN <<>> ELSE from[o + n - overlap]
    IN IF text = <<>> THEN <<>> ELSE from[0]

(* turbo_vector_store_validate_embedding *)
ValidEmbedding(e) == e # <<>>

(* turbo_vector_store_similarity, squared with its sign: <<num, den>> *)
Similarity(l, r) ==
    LET sum(f(_)) == FoldLeft(LAMBDA a, i : a + f(i), 0, [i \in DOMAIN l |-> i])
        dot == sum(LAMBDA i : l[i] * r[i])
        norms == sum(LAMBDA i : l[i] * l[i]) * sum(LAMBDA i : r[i] * r[i])
    IN IF norms = 0 THEN <<0, 1>> ELSE <<IF dot < 0 THEN -dot * dot ELSE dot * dot, norms>>

(* turbo_vector_store_compare_matches: by score, then by insertion order *)
MatchBefore(a, b) ==
    LET l == a.score[1] * b.score[2]
        r == b.score[1] * a.score[2]
    IN l > r \/ (l = r /\ a.order < b.order)

UriStartsWith(uri, prefix) == IsPrefix(prefix, uri)

(* turbo_vector_store_id_is_indexed_chunk, also the DELETE of              *)
(* turbo_vector_sqlite_delete_indexed_chunks                               *)
IdIsIndexedChunk(id, doc) == IsStrictPrefix(doc, id) /\ Len(id) = Len(doc) + 1

Row(d, id, text, emb, order) ==
    [id |-> id, uri |-> d.uri, kind |-> d.kind, text |-> text, emb |-> emb, order |-> order]

-----------------------------------------------------------------------------
(* The array: [entries, dims, next]; dims = 0 while it has no dimensions *)

MemFindIndex(s, id) == SelectInSeq(s.entries, LAMBDA e : e.id = id)

(* turbo_vector_store_upsert *)
MemUpsertOk(s, emb) == ValidEmbedding(emb) /\ s.dims \in {0, Len(emb)}
MemUpsert(s, d, text, emb) ==
    LET i == MemFindIndex(s, d.id)
    IN IF i # 0
       THEN [s EXCEPT !.entries[i] = Row(d, d.id, text, emb, s.entries[i].order)]
       ELSE [entries |-> Append(s.entries, Row(d, d.id, text, emb, s.next)),
             dims |-> Len(emb), next |-> s.next + 1]

(* Faulty variant: an emptied array keeps its dimensions. *)
MemDeleteKeepsDims(s, id) ==
    LET i == MemFindIndex(s, id)
        n == Len(s.entries)
    IN IF i = 0 THEN s ELSE [s EXCEPT !.entries = Front([@ EXCEPT ![i] = s.entries[n]])]

(* turbo_vector_store_delete_document: the last entry takes the place. *)
MemDelete(s, id) ==
    LET i == MemFindIndex(s, id)
        n == Len(s.entries)
    IN IF i = 0 THEN s
       ELSE [s EXCEPT !.entries = Front([@ EXCEPT ![i] = s.entries[n]]),
                      !.dims = IF n = 1 THEN 0 ELSE @]

(* turbo_vector_store_memory_replace_indexed_chunks *)
MemKept(s, doc) == SelectSeq(s.entries, LAMBDA e : ~IdIsIndexedChunk(e.id, doc))
MemReplaceOk(s, doc, embs) ==
    LET kept == [i \in DOMAIN MemKept(s, doc) |-> MemKept(s, doc)[i].emb]
    IN \A e, f \in ToSet(kept \o embs) : Len(e) = Len(f)
MemReplaceIndexedChunks(s, d, parts, embs) ==
    LET rows == MemKept(s, d.id) \o [i \in DOMAIN parts |->
                    Row(d, Append(d.id, i - 1), parts[i], embs[i], s.next + i - 1)]
    IN [entries |-> rows, dims |-> IF rows = <<>> THEN 0 ELSE Len(Last(rows).emb),
        next |-> s.next + Len(parts)]

-----------------------------------------------------------------------------
(* The table: a set of rows *)

SqlDims(t) == {Len(r.emb) : r \in t}
SqlExisting(t, id) == {r \in t : r.id = id}
SqlNextOrder(t) == IF t = {} THEN 0 ELSE Max({r.order : r \in t}) + 1

(* turbo_vector_store_sqlite_upsert *)
SqlUpsertOk(t, emb) == ValidEmbedding(emb) /\ SqlDims(t) \subseteq {Len(emb)}
SqlUpsert(t, d, id, text, emb) ==
    LET old == SqlExisting(t, id)
        order == IF old = {} THEN SqlNextOrder(t) ELSE (CHOOSE r \in old : TRUE).order
    IN (t \ old) \union {Row(d, id, text, emb, order)}

(* turbo_vector_store_sqlite_delete_document, _delete_indexed_chunks *)
SqlDelete(t, id) == t \ SqlExisting(t, id)
SqlDeleteIndexedChunks(t, doc) == {r \in t : ~IdIsIndexedChunk(r.id, doc)}

(* The transaction of turbo_vector_store_index_text, rolled back whole *)
SqlIndex(t, d, parts, embs) ==
    LET step(acc, i) ==
            IF acc.ok /\ SqlUpsertOk(acc.t, embs[i])
            THEN [ok |-> TRUE, t |-> SqlUpsert(acc.t, d, Append(d.id, i - 1), parts[i], embs[i])]
            ELSE [ok |-> FALSE, t |-> t]
    IN FoldLeft(step, [ok |-> TRUE, t |-> SqlDeleteIndexedChunks(t, d.id)], [i \in DOMAIN parts |-> i])

-----------------------------------------------------------------------------
VARIABLES vmem, vsql,
    vlast       \* the last call: [op, doc, text, model, ok]

vVars == <<vmem, vsql, vlast>>

NoDoc == [id |-> <<>>, uri |-> <<>>, kind |-> ""]
VCall(op, d, text, model, ok) == [op |-> op, doc |-> d, text |-> text, model |-> model, ok |-> ok]

(* turbo_vector_store_create_memory, turbo_vector_store_sqlite_open *)
VInit ==
    /\ vmem = [entries |-> <<>>, dims |-> 0, next |-> 0] /\ vsql = {}
    /\ vlast = VCall("none", NoDoc, <<>>, "", FALSE)

VectorUpsert(d, text, emb) ==
    /\ vmem.next < VMaxOrder
    /\ vmem' = IF MemUpsertOk(vmem, emb) THEN MemUpsert(vmem, d, text, emb) ELSE vmem
    /\ vsql' = IF SqlUpsertOk(vsql, emb) THEN SqlUpsert(vsql, d, d.id, text, emb) ELSE vsql
    /\ vlast' = VCall("upsert", d, <<>>, "", MemUpsertOk(vmem, emb))

(* turbo_vector_store_entry_set runs out of memory: the order is spent. *)
VectorUpsertFails(d, emb) ==
    /\ vmem.next < VMaxOrder /\ MemUpsertOk(vmem, emb)
    /\ vmem' = IF MemFindIndex(vmem, d.id) = 0 THEN [vmem EXCEPT !.next = @ + 1] ELSE vmem
    /\ vlast' = VCall("upsert", d, <<>>, "", FALSE) /\ UNCHANGED vsql

VectorDelete(d) ==
    /\ vmem' = MemDelete(vmem, d.id) /\ vsql' = SqlDelete(vsql, d.id)
    /\ vlast' = VCall("delete", d, <<>>, "", TRUE)

(* turbo_vector_store_index_text on [m, t] *)
IndexText(s, d, text, model) ==
    LET parts == SplitText(text, VChunkSize, VOverlap)
        embs == [i \in DOMAIN parts |-> VEmbed(model, parts[i])]
        sql == SqlIndex(s.t, d, parts, embs)
        mem == MemReplaceOk(s.m, d.id, embs)
    IN IF ~\A i \in DOMAIN embs : ValidEmbedding(embs[i]) THEN [s EXCEPT !.ok = FALSE]
       ELSE [m |-> IF mem THEN MemReplaceIndexedChunks(s.m, d, parts, embs) ELSE s.m,
             t |-> sql.t, ok |-> mem]

VectorIndex(d, text, model) ==
    LET r == IndexText([m |-> vmem, t |-> vsql, ok |-> TRUE], d, text, model)
    IN /\ r.m.next <= VMaxOrder
       /\ vmem' = r.m /\ vsql' = r.t
       /\ vlast' = VCall("index", d, text, model, r.ok)

-----------------------------------------------------------------------------
(* Indexing a directory *)

(* The order in which turbo_vector_store_index_directory_walk meets files; *)
(* a directory that cannot be opened ends the walk and the call.           *)
WalkOrder(recursive) ==
    LET visit[dir \in DOMAIN VTree] ==
            FlattenSeq([i \in DOMAIN VTree[dir] |->
                LET e == VTree[dir][i]
                IN IF e.type \in {"file", "locked"} THEN IF e.type = "locked" /\ ~recursive THEN <<>> ELSE <<e>>
                   ELSE IF ~recursive \/ e.type = "skip" THEN <<>> ELSE visit[e.name]])
    IN visit["root"]

(* turbo_vector_store_index_directory_file, _index_text_file and the       *)
(* loader: a file with a NUL byte is no text.                              *)
WalkStep(acc, e, max, model) ==
    LET f == VFiles[e.name]
        d == [id |-> <<e.name>>, uri |-> <<e.name>>, kind |-> "file"]
        r == IndexText([m |-> acc.m, t |-> acc.t, ok |-> TRUE], d, f.text, model)
        ok == ~f.binary /\ r.ok
    IN IF acc.at # "walking" THEN acc
       ELSE IF e.type = "locked" THEN [acc EXCEPT !.at = "failed"]
       ELSE IF max > 0 /\ acc.visited >= max THEN [acc EXCEPT !.at = "truncated"]
       ELSE IF ~f.allowed \/ f.large THEN [acc EXCEPT !.visited = @ + 1]
       ELSE [acc EXCEPT !.visited = @ + 1, !.m = IF ok THEN r.m ELSE acc.m,
                        !.t = IF ok THEN r.t ELSE acc.t]

VectorIndexDirectory(recursive, max, model) ==
    LET start == [m |-> vmem, t |-> vsql, visited |-> 0, at |-> "walking"]
        end == FoldLeft(LAMBDA acc, e : WalkStep(acc, e, max, model), start, WalkOrder(recursive))
    IN /\ end.m.next <= VMaxOrder
       /\ vmem' = end.m /\ vsql' = end.t
       /\ vlast' = VCall("directory", NoDoc, <<>>, model, end.at # "failed")

VNext ==
    \/ \E d \in VDocs : \/ VectorDelete(d)
                        \/ \E t \in VTexts, m \in VModels : VectorIndex(d, t, m)
                        \/ \E v \in VVectors : VectorUpsertFails(d, v)
                                               \/ \E t \in VTexts : VectorUpsert(d, t, v)
    \/ \E r \in BOOLEAN, max \in 0..1, m \in VModels : VectorIndexDirectory(r, max, m)

VSpec == VInit /\ [][VNext]_vVars

-----------------------------------------------------------------------------
(* Reads *)

Ranked(rows, q) ==
    SortSeq([i \in DOMAIN rows |-> [id |-> rows[i].id, uri |-> rows[i].uri, text |-> rows[i].text,
                                    order |-> rows[i].order, score |-> Similarity(q, rows[i].emb)]],
            MatchBefore)

(* What turbo_vector_store_add_result keeps of the first "limit" matches *)
VResults(matches, limit) ==
    [i \in 1..Min({Len(matches), IF limit = 0 THEN 8 ELSE limit}) |->
        [id |-> matches[i].id, uri |-> matches[i].uri, text |-> matches[i].text, score |-> matches[i].score]]

(* turbo_vector_store_query *)
MemQueryOk(q) == ValidEmbedding(q) /\ vmem.dims \in {0, Len(q)}
MemQuery(q, kind, prefix, limit) ==
    VResults(Ranked(SelectSeq(vmem.entries, LAMBDA e : kind \in {"", e.kind} /\ UriStartsWith(e.uri, prefix)), q),
             limit)

(* turbo_vector_store_sqlite_query *)
SqlQueryOk(q) == ValidEmbedding(q) /\ SqlDims(vsql) \subseteq {Len(q)}
SqlQuery(q, kind, prefix, limit) ==
    VResults(Ranked(SetToSeq({r \in vsql : kind \in {"", r.kind} /\ UriStartsWith(r.uri, prefix)}), q), limit)

(* turbo_retriever_build_context over turbo_retriever_from_vector_store:   *)
(* a layer for every result with text.                                     *)
RetrieverContext(results) ==
    LET texts == SelectSeq(results, LAMBDA r : r.text # <<>>)
    IN [i \in DOMAIN texts |-> [path |-> texts[i].uri, text |-> texts[i].text]]

VectorCount == Len(vmem.entries)

-----------------------------------------------------------------------------
(* A host cannot tell the backends apart: after any sequence of calls, the *)
(* failing ones included, they hold the same number of documents, accept   *)
(* the same embeddings, and answer every query with the same documents in  *)
(* the same order, although the array swaps entries on deletion, numbers   *)
(* insertions with a counter and remembers its dimensions, while the table *)
(* takes the next number and the dimensions from its rows                  *)
(* (turbo_vector_store_upsert, _delete_document, _query, _index_text).     *)
(* A context built from the array without a limit in the way has the text  *)
(* of every row of the table that the filters select                       *)
(* (turbo_retriever_build_context).                                        *)
BackendsAgree ==
    /\ VectorCount = Cardinality(vsql)
    /\ \A q \in VVectors :
           /\ MemQueryOk(q) = SqlQueryOk(q)
           /\ MemQueryOk(q) => \A kind \in {"", "file"}, prefix \in {<<>>, <<"a">>}, limit \in 0..1 :
                  /\ MemQuery(q, kind, prefix, limit) = SqlQuery(q, kind, prefix, limit)
                  /\ limit = 0 /\ Cardinality(vsql) <= 8
                     => ToSet(RetrieverContext(MemQuery(q, kind, prefix, limit)))
                        = {[path |-> r.uri, text |-> r.text] : r \in
                             {v \in vsql : /\ kind \in {"", v.kind} /\ v.text # <<>>
                                          /\ UriStartsWith(v.uri, prefix)}}

OthersOf(s, doc) == {e \in ToSet(s.entries) : ~(Len(e.id) = Len(doc) + 1 /\ IsPrefix(doc, e.id))}
ChunksInOrder(s, doc) ==
    [i \in 1..(Len(s.entries) - Cardinality(OthersOf(s, doc))) |->
        s.entries[SelectInSeq(s.entries, LAMBDA e : e.id = Append(doc, i - 1))].text]
Joined(parts) ==
    FlattenSeq([i \in DOMAIN parts |->
        IF i = 1 THEN parts[i] ELSE SubSeq(parts[i], VOverlap + 1, Len(parts[i]))])
SeenIn(s) == {[id |-> e.id, text |-> e.text, emb |-> e.emb, uri |-> e.uri] : e \in ToSet(s.entries)}

(* Indexing replaces exactly a document's own chunks: on success they are  *)
(* the chunks of the new text, in order, each overlapping the one before   *)
(* it by the configured amount and together the whole text; every other    *)
(* entry is as it was, also the chunks of a document whose own id looks    *)
(* like a chunk; on failure (the model's embeddings have other dimensions  *)
(* or cannot be made) nothing changes; and the same call made again, which *)
(* the tools declare idempotent, changes no answer.                        *)
IndexReplacesOwnChunksStep ==
       vlast'.op = "index" =>
        /\ vlast'.ok => /\ OthersOf(vmem', vlast'.doc.id) = OthersOf(vmem, vlast'.doc.id)
                        /\ Joined(ChunksInOrder(vmem', vlast'.doc.id)) = vlast'.text
        /\ ~vlast'.ok => vmem' = vmem /\ vsql' = vsql
        /\ vlast' = vlast => SeenIn(vmem') = SeenIn(vmem)
IndexReplacesOwnChunks == [][IndexReplacesOwnChunksStep]_vVars
=============================================================================
