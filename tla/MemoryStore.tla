----------------------------- MODULE MemoryStore -----------------------------
(***************************************************************************)
(* The long-term memory store (src/agent/src/turbo_agent_memory_store.c):  *)
(* its heap and its file backend, canonical records and queries.           *)
(*                                                                         *)
(* A string is a sequence of numbers in strcmp order.  In a value NullS is *)
(* a missing field and OtherS one that is there and is no string, be it    *)
(* JSON null; in a canonical record NullS is JSON null or a missing field  *)
(* and OtherS anything else that is no string.  A value is what the code   *)
(* looks for in it.                                                        *)
(***************************************************************************)
EXTENDS Integers, FiniteSets, Sequences, SequencesExt, FiniteSetsExt

CONSTANTS
    MemIds,         \* the records used: [ns, key]
    MemValues,      \* JSON values a host puts
    MemRecords,     \* canonical records a host puts
    MemQueries      \* query options

NullS == <<-1>>
OtherS == <<-2>>
MemStr(s) == IF s = OtherS THEN NullS ELSE s

Absent == [obj |-> FALSE, scope |-> NullS, path |-> NullS, text |-> NullS, created |-> OtherS]
TornFile == [Absent EXCEPT !.created = NullS, !.text = OtherS]

(* strcmp *)
CreatedBefore(a, b) ==
    \E i \in 1..Len(b) : /\ i - 1 <= Len(a) /\ SubSeq(a, 1, i - 1) = SubSeq(b, 1, i - 1)
                         /\ i > Len(a) \/ a[i] < b[i]

-----------------------------------------------------------------------------
(* Canonical records *)

MakeRecordId(x) == x.ns \o <<3, 3>> \o x.key

(* make_canonical_record_json_from_parts: an object with a scope or a path *)
(* is a context record.                                                    *)
Canonical(x, v) ==
    LET context == v.obj /\ (v.scope # NullS \/ v.path # NullS)
    IN [id |-> MakeRecordId(x), ns |-> x.ns, key |-> x.key,
        kind |-> IF context THEN "context" ELSE "json",
        meta |-> context,
        text |-> IF context THEN MemStr(v.text) ELSE NullS,
        scope |-> IF context THEN MemStr(v.scope) ELSE NullS,
        path |-> IF context THEN MemStr(v.path) ELSE NullS,
        created |-> IF context THEN MemStr(v.created) ELSE NullS]

(* turbo_agent_memory_validate_canonical_record_json *)
ValidRecord(r) ==
    /\ r.text # OtherS /\ r.created # OtherS
    /\ r.meta => r.scope \notin {NullS, OtherS} /\ r.path # OtherS
    /\ r.kind = "context" => r.text # NullS /\ r.meta

(* turbo_agent_memory_record_value_json_from_canonical: a context record   *)
(* is rebuilt from its fields, any other carries its value along.          *)
ValueOfRecord(r, v) ==
    IF r.kind = "context"
    THEN [obj |-> TRUE, scope |-> r.scope, path |-> IF r.path = NullS THEN <<>> ELSE r.path,
          text |-> r.text, created |-> r.created]
    ELSE v

-----------------------------------------------------------------------------
VARIABLES
    backend,    \* "heap" or "file"
    heap,       \* the list of the heap store, newest first
    files,      \* files[x]: the content of x's file
    litter,     \* a temporary file was left in the directory
    put,        \* the put that runs on the file store
    acked       \* acked[x]: the value of the last call that returned 0

memVars == <<backend, heap, files, litter, put, acked>>

NoPut == [id |-> [ns |-> <<>>, key |-> <<>>], value |-> Absent, at |-> "none"]

MemInit ==
    /\ backend \in {"heap", "file"} /\ heap = <<>> /\ litter = FALSE /\ put = NoPut
    /\ files = [x \in MemIds |-> Absent] /\ acked = [x \in MemIds |-> Absent]

(* turbo_agent_memory_find_record *)
FindRecord(x) == SelectInSeq(heap, LAMBDA e : e.id = x)

HeapPut(x, v) ==
    /\ backend = "heap"
    /\ LET i == FindRecord(x)
       IN heap' = IF i = 0 THEN <<[id |-> x, value |-> v]>> \o heap
                  ELSE [heap EXCEPT ![i].value = v]
    /\ acked' = [acked EXCEPT ![x] = v]
    /\ UNCHANGED <<backend, files, litter, put>>

HeapDelete(x) ==
    /\ backend = "heap" /\ FindRecord(x) # 0
    /\ heap' = RemoveAt(heap, FindRecord(x))
    /\ acked' = [acked EXCEPT ![x] = Absent]
    /\ UNCHANGED <<backend, files, litter, put>>

(* Faulty variant: the record's own file is opened and truncated. *)
FileOpenInPlace(x, v) ==
    /\ backend = "file" /\ put = NoPut
    /\ put' = [id |-> x, value |-> v, at |-> "temp"]
    /\ files' = [files EXCEPT ![x] = TornFile]
    /\ UNCHANGED <<backend, heap, litter, acked>>

(* turbo_agent_memory_write_text_file: a new temporary file, written and   *)
(* synced, is renamed over the record's file.                              *)
FileOpen(x, v) ==
    /\ backend = "file" /\ put = NoPut
    /\ put' = [id |-> x, value |-> v, at |-> "temp"]
    /\ UNCHANGED <<backend, heap, files, litter, acked>>

FileWriteFails ==
    /\ put.at = "temp" /\ put' = NoPut
    /\ UNCHANGED <<backend, heap, files, litter, acked>>

FileRename ==
    /\ put.at = "temp" /\ put' = [put EXCEPT !.at = "renamed"]
    /\ files' = [files EXCEPT ![put.id] = put.value]
    /\ UNCHANGED <<backend, heap, litter, acked>>

FilePutReturns ==
    /\ put.at = "renamed" /\ put' = NoPut
    /\ acked' = [acked EXCEPT ![put.id] = put.value]
    /\ UNCHANGED <<backend, heap, files, litter>>

FileDelete(x) ==
    /\ backend = "file" /\ put = NoPut /\ files[x] # Absent
    /\ files' = [files EXCEPT ![x] = Absent] /\ acked' = [acked EXCEPT ![x] = Absent]
    /\ UNCHANGED <<backend, heap, litter, put>>

(* The process dies in a put; a file that was renamed stays (what the host *)
(* reads after the restart is what it goes on with).                       *)
MemCrash ==
    /\ put # NoPut /\ put' = NoPut
    /\ litter' = (litter \/ put.at = "temp")
    /\ acked' = [acked EXCEPT ![put.id] = files[put.id]]
    /\ UNCHANGED <<backend, heap, files>>

(* turbo_agent_memory_put and turbo_agent_memory_put_record *)
MemPut(x, v) == HeapPut(x, v) \/ FileOpen(x, v)

PutRecord(x, r, v) == ValidRecord(r) /\ MemPut(x, ValueOfRecord(r, v))

MemDelete(x) == HeapDelete(x) \/ FileDelete(x)

MemNext ==
    \/ \E x \in MemIds : \/ \E v \in MemValues : MemPut(x, v)
                         \/ \E r \in MemRecords, v \in MemValues : PutRecord(x, r, v)
                         \/ MemDelete(x)
    \/ FileWriteFails \/ FileRename \/ FilePutReturns \/ MemCrash

MemSpec == MemInit /\ [][MemNext]_memVars

-----------------------------------------------------------------------------
(* Reads *)

(* turbo_agent_memory_get *)
HeapGet(x) == LET i == FindRecord(x) IN IF i = 0 THEN Absent ELSE heap[i].value
FileGet(x) == files[x]
MemGet(x) == IF backend = "heap" THEN HeapGet(x) ELSE FileGet(x)

(* turbo_agent_memory_get_record *)
GetRecordLoads(x) == MemGet(x) \notin {Absent, TornFile} /\ ValidRecord(Canonical(x, MemGet(x)))

(* The file backend reads the directory in the order readdir gives; a name *)
(* that is not <hex>__<hex>.json ends the listing with an error.           *)
FileListLoads == ~litter /\ \A x \in MemIds : files[x] # TornFile
FileList == SetToSeq({[id |-> x, value |-> files[x]] : x \in {y \in MemIds : files[y] # Absent}})

(* turbo_agent_memory_list by namespace prefix *)
ListLoads == backend = "heap" \/ FileListLoads
MemList(prefix) ==
    SelectSeq(IF backend = "heap" THEN heap ELSE FileList, LAMBDA e : IsPrefix(prefix, e.id.ns))

(* turbo_agent_memory_record_matches_query; <<>> or "" asks for nothing *)
MatchesQuery(r, q) ==
    /\ q.kind \in {"", r.kind} /\ IsPrefix(q.key, r.key)
    /\ q.text # <<>> => \E i \in 1..Len(r.text) : IsPrefix(q.text, SubSeq(r.text, i, Len(r.text)))

MetadataMatches(r, q) ==
    q.scope # <<>> \/ q.path # <<>> =>
        r.meta /\ (q.scope # <<>> => r.scope = q.scope) /\ IsPrefix(q.path, r.path)

CreatedAtMatches(r, q) ==
    q.after # <<>> \/ q.before # <<>> =>
        /\ r.created # NullS
        /\ q.after # <<>> => ~CreatedBefore(r.created, q.after)
        /\ q.before # <<>> => ~CreatedBefore(q.before, r.created)

MemMatches(r, q) ==
    IsPrefix(q.ns, r.ns) /\ IsPrefix(q.id, r.id) /\ MatchesQuery(r, q)
    /\ MetadataMatches(r, q) /\ CreatedAtMatches(r, q)

(* The backend's query callback: list, canonical form, first filter *)
BackendQueryLoads(q) ==
    ListLoads /\ \A e \in ToSet(MemList(q.ns)) : ValidRecord(Canonical(e.id, e.value))
BackendQuery(q) ==
    LET all == MemList(q.ns)
        canon == [i \in DOMAIN all |-> Canonical(all[i].id, all[i].value)]
    IN SelectSeq(canon, LAMBDA r : MatchesQuery(r, q))

(* record_compare_by_field: ties go by id, in ascending order always *)
KindText(kind) == IF kind = "context" THEN <<1>> ELSE <<2>>
FieldOf(r, by) == CASE by = "id" -> r.id [] by = "namespace" -> r.ns
                    [] by = "kind" -> KindText(r.kind) [] by = "key" -> r.key
Precedes(r, s, by, desc) ==
    LET a == FieldOf(r, by)
        b == FieldOf(s, by)
    IN IF a = b THEN CreatedBefore(r.id, s.id) ELSE IF desc THEN CreatedBefore(b, a) ELSE CreatedBefore(a, b)

MemSorted(records, q) ==
    IF q.sort = "none" THEN records
    ELSE SortSeq(records, LAMBDA r, s : Precedes(r, s, q.sort, q.desc))

Limited(records, q) == IF q.limit = 0 THEN records ELSE SubSeq(records, 1, Min({q.limit, Len(records)}))

(* turbo_agent_memory_query_materialize_records *)
Materialize(records, q) == Limited(MemSorted(records, q), q)

(* turbo_agent_memory_query_records_ex *)
QueryRecordsEx(q) ==
    Materialize(SelectSeq(BackendQuery(q), LAMBDA r : MemMatches(r, q)), q)

-----------------------------------------------------------------------------
(* Whatever is put and deleted, and wherever a put of the file store fails *)
(* or the process dies in it, a key reads the value of the last call that  *)
(* returned 0, or the value of the put that runs, never a part of one      *)
(* (write_text_file; the heap store alike).                                *)
MemoryPutAtomic ==
    \A x \in MemIds : MemGet(x) \in {acked[x], IF put.id = x THEN put.value ELSE acked[x]}

(* What a query answers does not depend on how the two filters, the sort   *)
(* and the limit are staged: it holds only records that match, no record   *)
(* that was left out comes before one that is shown, and a query without a *)
(* limit leaves none out (query_with_list_callback, query_filter_records,  *)
(* query_materialize_records).  A query can be answered exactly if every   *)
(* record under its prefix can be read alone and no temporary file is      *)
(* left in the directory.                                                  *)
QueryAnswersAll ==
    \A q \in MemQueries :
        LET stored == {x \in MemIds : IsPrefix(q.ns, x.ns) /\ MemGet(x) # Absent}
            matching == {r \in {Canonical(x, MemGet(x)) : x \in stored} : MemMatches(r, q)}
            shown == QueryRecordsEx(q)
        IN /\ BackendQueryLoads(q) <=>
                  (backend = "file" => ~litter) /\ \A x \in stored : GetRecordLoads(x)
           /\ BackendQueryLoads(q) =>
                  /\ ToSet(shown) \subseteq matching
                  /\ q.limit = 0 => ToSet(shown) = matching
                  /\ Len(shown) = IF q.limit = 0 THEN Cardinality(matching)
                                  ELSE Min({q.limit, Cardinality(matching)})
                  /\ q.sort # "none" =>
                        \A i \in DOMAIN shown, r \in matching :
                            r \in {shown[j] : j \in 1..i} \/ ~Precedes(r, shown[i], q.sort, q.desc)
=============================================================================
