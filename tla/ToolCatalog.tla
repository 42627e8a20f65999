----------------------------- MODULE ToolCatalog -----------------------------
(***************************************************************************)
(* The argument schemas of tools (runtime_tools/src/turbo_tool_schema.c)   *)
(* and the two catalogs of built-in tools that are published under them:   *)
(* the knowledge tools (agent/src/turbo_agent_knowledge_store.c and        *)
(* turbo_agent_knowledge_diagram.c) and the vector tools                   *)
(* (agent/src/turbo_vector_store.c).  Each tool has a JSON handler for the *)
(* tool registry and an action handler for the action registry             *)
(* (agent/src/turbo_action_tool.c).  A model's call is admitted by the     *)
(* schema first (agent/src/turbo_agent_tool_executor.c) and the handler    *)
(* then reads the same arguments with checks of its own.                   *)
(***************************************************************************)
EXTENDS Integers, Sequences, SequencesExt, FiniteSets

CONSTANTS
    CatalogCalls,  \* calls [tool, args]: args gives the shape of each argument present
    Documented     \* the calls the documentation gives as examples

VARIABLE tcall     \* the last call and what became of it

(* ------------------------------ JSON values ----------------------------- *)

\* Numbers are whole.  Wide stands for every integer that an int64_t holds and an int does not.
Wide == 1000

\* The JSON value each shape stands for.
Json(shape) ==
    CASE shape = "empty"  -> [t |-> "string", v |-> ""]
      [] shape \in {"text", "json", "mermaid", "outgoing"} -> [t |-> "string", v |-> shape]
      [] shape = "zero"   -> [t |-> "number", v |-> 0]
      [] shape = "one"    -> [t |-> "number", v |-> 1]
      [] shape = "neg"    -> [t |-> "number", v |-> -1]
      [] shape = "wide"   -> [t |-> "number", v |-> Wide]
      [] shape = "flag"   -> [t |-> "boolean", v |-> TRUE]
      [] shape = "none"   -> [t |-> "array", v |-> <<>>]
      [] shape = "ids"    -> [t |-> "array", v |-> <<[t |-> "string", v |-> "d"], [t |-> "string", v |-> "e"]>>]
      [] shape = "twice"  -> [t |-> "array", v |-> <<[t |-> "string", v |-> "d"], [t |-> "string", v |-> "d"]>>]

Object(args) == [t |-> "object", v |-> [k \in DOMAIN args |-> Json(args[k])]]

\* turbo_tool_schema_json_equal.
JsonEqual(a, b) == a.t = b.t /\ a.v = b.v

(* --------------------------- schema validation -------------------------- *)

MaxDepth == 64

\* turbo_tool_schema_annotation_keyword.
Annotations ==
    {"$id", "$schema", "title", "description", "default", "examples", "deprecated", "readOnly", "writeOnly"}

\* turbo_tool_schema_supported_keyword.
Keywords ==
    {"type", "properties", "required", "additionalProperties", "items", "enum", "const",
     "minimum", "maximum", "exclusiveMinimum", "exclusiveMaximum", "minLength", "maxLength",
     "minItems", "maxItems", "minProperties", "maxProperties"} \cup Annotations

\* turbo_tool_schema_check_keywords.
CheckKeywords(schema) == DOMAIN schema \subseteq Keywords

\* turbo_tool_schema_type_matches.
TypeMatches(value, type) ==
    CASE type = "integer" -> value.t = "number"
      [] OTHER -> value.t = type

Has(schema, key) == key \in DOMAIN schema

\* The type, enum and const keywords.
TypeAndEnum(value, schema) ==
    /\ Has(schema, "type") => TypeMatches(value, schema.type)
    /\ Has(schema, "enum") => \E e \in schema.enum : JsonEqual(value, e)
    /\ Has(schema, "const") => JsonEqual(value, schema.const)

\* The size a bound speaks of: code points, items or properties.
SizeOf(value) ==
    CASE value.t = "string" -> IF value.v = "" THEN 0 ELSE 1
      [] value.t = "array"  -> Len(value.v)
      [] value.t = "object" -> Cardinality(DOMAIN value.v)

\* The bounds on a number, the length of a string and the size of an array or object.
WithinBounds(value, schema) ==
    LET Bounded(type, low, high) ==
            value.t = type => /\ Has(schema, low)  => SizeOf(value) >= schema[low]
                              /\ Has(schema, high) => SizeOf(value) <= schema[high]
    IN  /\ value.t = "number" => /\ Has(schema, "minimum") => value.v >= schema.minimum
                                 /\ Has(schema, "maximum") => value.v <= schema.maximum
                                 /\ Has(schema, "exclusiveMinimum") => value.v > schema.exclusiveMinimum
                                 /\ Has(schema, "exclusiveMaximum") => value.v < schema.exclusiveMaximum
        /\ Bounded("string", "minLength", "maxLength")
        /\ Bounded("array", "minItems", "maxItems")
        /\ Bounded("object", "minProperties", "maxProperties")

\* The first status that is not "valid", the order of evaluation being that of the list.
FirstRefusal(statuses) ==
    LET refusals == SelectSeq(statuses, LAMBDA s : s # "valid")
    IN  IF refusals = <<>> THEN "valid" ELSE refusals[1]

\* turbo_tool_schema_validate_node.
RECURSIVE ValidateNode(_, _, _)
ValidateNode(value, schema, depth) ==
    LET items == [i \in 1..Len(value.v) |-> ValidateNode(value.v[i], schema.items, depth + 1)]
        given == SelectSeq(schema.properties, LAMBDA p : p[1] \in DOMAIN value.v)
        properties == [i \in 1..Len(given) |-> ValidateNode(value.v[given[i][1]], given[i][2], depth + 1)]
        known == {schema.properties[i][1] : i \in 1..Len(schema.properties)}
    IN  IF depth > MaxDepth \/ ~CheckKeywords(schema) THEN "unsupported"
        ELSE IF ~TypeAndEnum(value, schema) \/ ~WithinBounds(value, schema) THEN "value_invalid"
        ELSE IF value.t = "array" /\ Has(schema, "items") THEN FirstRefusal(items)
        ELSE IF value.t # "object" THEN "valid"
        ELSE IF Has(schema, "required") /\ ~(schema.required \subseteq DOMAIN value.v) THEN "value_invalid"
        ELSE IF FirstRefusal(properties) # "valid" THEN FirstRefusal(properties)
        ELSE IF Has(schema, "additionalProperties") /\ ~(DOMAIN value.v \subseteq known) THEN "value_invalid"
        ELSE "valid"

\* turbo_tool_schema_validate_arguments_json_value; turbo_tool_schema_parse_parameters closes
\* the object of a strict tool that does not say so itself.
ValidateArguments(schema, args) ==
    ValidateNode(Object(args), schema @@ [additionalProperties |-> FALSE], 0)

(* -------------------------------- catalogs ------------------------------ *)

Str == [type |-> "string"]
Natural == [type |-> "integer", minimum |-> 0]
Flag == [type |-> "boolean"]
OneOf(words) == [type |-> "string", enum |-> {[t |-> "string", v |-> w] : w \in words}]

Schema(required, strings, numbers, flags) ==
    LET Rows(keys, s) == [i \in 1..Len(keys) |-> <<keys[i], s>>]
    IN  [type |-> "object", required |-> required, additionalProperties |-> FALSE,
         properties |-> Rows(strings, Str) \o Rows(numbers, Natural) \o Rows(flags, Flag)]

\* turbo_knowledge_diagram_schema.
DiagramSchema ==
    [type |-> "object", required |-> {"document_ids"}, additionalProperties |-> FALSE,
     properties |-> <<
        <<"document_ids", [type |-> "array", items |-> Str, minItems |-> 1, maxItems |-> 32, uniqueItems |-> TRUE]>>,
        <<"format", OneOf({"json", "mermaid"})>>, <<"include_uri_mentions", Flag>>,
        <<"focus_id", Str>>, <<"direction", OneOf({"incoming", "outgoing", "both"})>>,
        <<"max_hops", [type |-> "integer", minimum |-> 0, maximum |-> 127]>> >>]

\* The schemas of the knowledge tools.
KnowledgeSchemas ==
    [search          |-> Schema({"query"}, <<"query", "kind", "uri_prefix">>, <<"limit">>, <<>>),
     build_context   |-> Schema({"query"}, <<"query", "kind", "uri_prefix">>, <<"limit">>, <<>>),
     stats           |-> Schema({}, <<>>, <<>>, <<>>),
     tool_graph      |-> Schema({}, <<>>, <<>>, <<>>),
     list_documents  |-> Schema({}, <<"kind", "uri_prefix">>, <<"limit">>, <<>>),
     get_document    |-> Schema({"document_id"}, <<"document_id">>, <<>>, <<>>),
     upsert_text     |-> Schema({"id", "text"}, <<"id", "uri", "kind", "title", "metadata_json", "text">>,
                                <<"chunk_target_bytes">>, <<>>),
     index_file      |-> Schema({"path"}, <<"path", "kind">>, <<"chunk_target_bytes">>, <<>>),
     index_directory |-> Schema({"root_dir"}, <<"root_dir", "kind", "include_extensions">>,
                                <<"chunk_target_bytes", "max_files", "max_file_bytes">>, <<"recursive">>),
     delete_document |-> Schema({"document_id"}, <<"document_id">>, <<>>, <<>>)]

\* TURBO_KNOWLEDGE_TOOL_ROWS: the tools of the catalog and the kind of their effect.
KnowledgeRows ==
    [t \in {"search", "build_context", "stats", "tool_graph", "list_documents", "get_document", "diagram"} |-> "observe"]
    @@ [t \in {"upsert_text", "index_file", "index_directory", "delete_document"} |-> "mutate"]

\* turbo_vector_store_add_tools: the schemas of the tools that only look.
VectorSchemas ==
    [search        |-> Schema({"query"}, <<"query", "kind", "uri_prefix">>, <<"limit">>, <<>>),
     build_context |-> Schema({"query"}, <<"query", "kind", "uri_prefix">>, <<"limit">>, <<>>),
     stats         |-> Schema({}, <<>>, <<>>, <<>>),
     tool_graph    |-> Schema({}, <<>>, <<>>, <<>>)]

\* turbo_vector_store_add_action_tools registers the same four as actions.
VectorActionRows == [t \in DOMAIN VectorSchemas |-> "observe"]

\* turbo_vector_store_add_indexing_action_tools.
VectorIndexingSchemas ==
    [upsert_text     |-> Schema({"id", "text"}, <<"id", "uri", "kind", "title", "text">>,
                                <<"chunk_size", "chunk_overlap">>, <<>>),
     index_file      |-> Schema({"path"}, <<"path", "kind">>, <<"chunk_size", "chunk_overlap">>, <<>>),
     index_directory |-> Schema({"root_dir"}, <<"root_dir", "kind", "include_extensions">>,
                                <<"chunk_size", "chunk_overlap", "max_files", "max_file_bytes">>, <<"recursive">>),
     delete_document |-> Schema({"document_id"}, <<"document_id">>, <<>>, <<>>)]

\* turbo_agent_knowledge_store_tool_graph: which tool is recommended after which.
KnowledgeGraph ==
    {<<"stats", "search">>, <<"stats", "index_directory">>, <<"search", "build_context">>,
     <<"search", "get_document">>, <<"list_documents", "get_document">>, <<"search", "diagram">>,
     <<"list_documents", "diagram">>, <<"upsert_text", "stats">>, <<"index_file", "stats">>,
     <<"index_directory", "stats">>}

\* turbo_vector_store_tool_graph.
VectorGraph == {<<"stats", "search">>, <<"search", "build_context">>}

SchemaOf(tool) ==
    LET name == tool[2]
    IN  IF name = "diagram" THEN DiagramSchema
        ELSE IF tool[1] = "knowledge" THEN KnowledgeSchemas[name]
        ELSE (VectorSchemas @@ VectorIndexingSchemas)[name]

(* -------------------------------- handlers ------------------------------ *)

\* turbo_runtime_json_value_as_string: NULL, here "missing", unless the value is a string.
AsString(args, key) ==
    IF key \in DOMAIN args /\ Json(args[key]).t = "string" THEN args[key] ELSE "missing"

\* turbo_runtime_json_value_as_int64: the default unless the value is a number.
AsInt(args, key, default) ==
    IF key \in DOMAIN args /\ Json(args[key]).t = "number" THEN Json(args[key]).v ELSE default

\* json_get_int of the JSON library, which answers an int: what it makes of a number that is
\* too wide is not defined, and cast is what this build makes of it.
GetInt(args, key, default, cast) ==
    IF AsInt(args, key, default) = Wide THEN cast ELSE AsInt(args, key, default)

\* The checks a JSON handler makes: these strings there and not empty, these numbers not negative.
Reads(args, strings, numbers) ==
    /\ \A k \in strings : AsString(args, k) \notin {"missing", "empty"}
    /\ \A k \in numbers : AsInt(args, k, 8) >= 0

\* The same checks of an action handler, which reads its numbers as ints.
ReadsInts(args, strings, numbers, cast) ==
    Reads(args, strings, {}) /\ \A k \in numbers : GetInt(args, k, 8, cast) >= 0

\* The knowledge tools' JSON handlers.
ListTool(args) == Reads(args, {}, {"limit"})
StatsTool(args) == TRUE
ToolGraphTool(args) == TRUE
GetTool(args) == Reads(args, {"document_id"}, {})
SearchTool(args) == Reads(args, {"query"}, {"limit"})
BuildContextTool(args) == Reads(args, {"query"}, {"limit"})
UpsertTool(args) == Reads(args, {"id"}, {"chunk_target_bytes"}) /\ AsString(args, "text") # "missing"
IndexFileTool(args) == Reads(args, {"path"}, {"chunk_target_bytes"})
IndexDirectoryTool(args) == Reads(args, {"root_dir"}, {"chunk_target_bytes", "max_files", "max_file_bytes"})
DeleteTool(args) == Reads(args, {"document_id"}, {})

\* The knowledge tools' action handlers.
SearchAction(args, cast) == ReadsInts(args, {"query"}, {"limit"}, cast)
BuildContextAction(args, cast) == ReadsInts(args, {"query"}, {"limit"}, cast)
ListAction(args, cast) == ReadsInts(args, {}, {"limit"}, cast)
StatsAction(args) == TRUE
ToolGraphAction(args) == TRUE
GetAction(args) == Reads(args, {"document_id"}, {})
UpsertAction(args, cast) ==
    ReadsInts(args, {"id"}, {"chunk_target_bytes"}, cast) /\ AsString(args, "text") # "missing"
IndexFileAction(args, cast) == ReadsInts(args, {"path"}, {"chunk_target_bytes"}, cast)
IndexDirectoryAction(args, cast) ==
    ReadsInts(args, {"root_dir"}, {"chunk_target_bytes", "max_files", "max_file_bytes"}, cast)
DeleteAction(args) == Reads(args, {"document_id"}, {})

\* A faulty variant: an empty query is searched for.
VectorSearchToolEmptyQuery(args) == AsString(args, "query") # "missing" /\ Reads(args, {}, {"limit"})

\* The vector tools' JSON handlers.
VectorSearchTool(args) == Reads(args, {"query"}, {"limit"})
VectorContextTool(args) == Reads(args, {"query"}, {"limit"})
VectorStatsTool(args) == TRUE
VectorGraphTool(args) == TRUE

\* The splitter's refusal: 0 means the default size.
Splits(args, cast) ==
    LET given == GetInt(args, "chunk_size", 0, cast)
        size == IF given = 0 THEN 2048 ELSE given
    IN  GetInt(args, "chunk_overlap", 0, cast) < size

\* The vector tools' action handlers.
VectorSearchAction(args, cast) == ReadsInts(args, {"query"}, {"limit"}, cast)
VectorContextAction(args, cast) == ReadsInts(args, {"query"}, {"limit"}, cast)
VectorStatsAction(args) == TRUE
VectorGraphAction(args) == TRUE
VectorUpsertAction(args, cast) ==
    /\ ReadsInts(args, {"id"}, {"chunk_size", "chunk_overlap"}, cast)
    /\ AsString(args, "text") # "missing" /\ Splits(args, cast)
VectorIndexFileAction(args, cast) ==
    ReadsInts(args, {"path"}, {"chunk_size", "chunk_overlap"}, cast) /\ Splits(args, cast)
VectorIndexDirectoryAction(args, cast) ==
    /\ ReadsInts(args, {"root_dir"}, {"chunk_size", "chunk_overlap", "max_files", "max_file_bytes"}, cast)
    /\ Splits(args, cast)
VectorDeleteAction(args) == Reads(args, {"document_id"}, {})

\* turbo_knowledge_diagram_tool_value, the handler of both registries, and the checks of
\* turbo_agent_knowledge_store_diagram_ex on the ids.
DiagramTool(args) ==
    LET ids == Json(args["document_ids"])
        Word(key, words) == key \in DOMAIN args => args[key] \in words
    IN  /\ DOMAIN args \subseteq {DiagramSchema.properties[i][1] : i \in 1..6}
        /\ "document_ids" \in DOMAIN args /\ ids.t = "array"
        /\ ids.v # <<>> /\ IsInjective(ids.v)
        /\ Word("format", {"json", "mermaid"}) /\ Word("direction", {"outgoing"})
        /\ "focus_id" \in DOMAIN args => AsString(args, "focus_id") \notin {"missing", "empty"}
        /\ AsInt(args, "max_hops", IF "max_hops" \in DOMAIN args THEN -1 ELSE 1) \in 0..127
        /\ "focus_id" \notin DOMAIN args => {"max_hops", "direction"} \cap DOMAIN args = {}
        /\ "include_uri_mentions" \in DOMAIN args => args["include_uri_mentions"] = "flag"

\* The JSON handler of a tool: the string handlers (turbo_knowledge_tool_json_handler) parse
\* the text and call the same function.
ToolHandler(tool, args) ==
    LET n == tool[2]
    IN  IF n = "diagram" THEN DiagramTool(args)
        ELSE IF tool[1] = "vector"
        THEN CASE n = "search" -> VectorSearchTool(args) [] n = "build_context" -> VectorContextTool(args)
               [] n = "stats" -> VectorStatsTool(args) [] n = "tool_graph" -> VectorGraphTool(args)
        ELSE CASE n = "search" -> SearchTool(args) [] n = "build_context" -> BuildContextTool(args)
               [] n = "stats" -> StatsTool(args) [] n = "tool_graph" -> ToolGraphTool(args)
               [] n = "list_documents" -> ListTool(args) [] n = "get_document" -> GetTool(args)
               [] n = "upsert_text" -> UpsertTool(args) [] n = "index_file" -> IndexFileTool(args)
               [] n = "index_directory" -> IndexDirectoryTool(args) [] n = "delete_document" -> DeleteTool(args)

\* The action handler; turbo_action_tool_registry_execute and the bridge call it alike.
ActionHandler(tool, args, cast) ==
    LET n == tool[2]
    IN  IF n = "diagram" THEN DiagramTool(args)
        ELSE IF tool[1] = "vector"
        THEN CASE n = "search" -> VectorSearchAction(args, cast) [] n = "build_context" -> VectorContextAction(args, cast)
               [] n = "stats" -> VectorStatsAction(args) [] n = "tool_graph" -> VectorGraphAction(args)
               [] n = "upsert_text" -> VectorUpsertAction(args, cast) [] n = "index_file" -> VectorIndexFileAction(args, cast)
               [] n = "index_directory" -> VectorIndexDirectoryAction(args, cast)
               [] n = "delete_document" -> VectorDeleteAction(args)
        ELSE CASE n = "search" -> SearchAction(args, cast) [] n = "build_context" -> BuildContextAction(args, cast)
               [] n = "stats" -> StatsAction(args) [] n = "tool_graph" -> ToolGraphAction(args)
               [] n = "list_documents" -> ListAction(args, cast) [] n = "get_document" -> GetAction(args)
               [] n = "upsert_text" -> UpsertAction(args, cast) [] n = "index_file" -> IndexFileAction(args, cast)
               [] n = "index_directory" -> IndexDirectoryAction(args, cast) [] n = "delete_document" -> DeleteAction(args)

\* A vector tool that indexes exists as an action only.
HasTool(tool) == tool[1] = "knowledge" \/ tool[2] \in DOMAIN VectorSchemas

(* ---------------------------------- calls ------------------------------- *)

NoToolCall ==
    [tool |-> <<"none", "none">>, args |-> <<>>, admitted |-> "none", served |-> TRUE, acted |-> TRUE]

\* turbo_agent_tool_arguments_valid admits the call; the handler of the tool registry, or that
\* of the action registry behind its bridge, reads it.
CallTool(call) ==
    /\ tcall = NoToolCall
    /\ \E cast \in {-1, 0, 1} :
          tcall' = [tool |-> call.tool, args |-> call.args,
                    admitted |-> ValidateArguments(SchemaOf(call.tool), call.args),
                    served |-> IF HasTool(call.tool) THEN ToolHandler(call.tool, call.args) ELSE TRUE,
                    acted |-> ActionHandler(call.tool, call.args, cast)]

\* The answer goes back to the model.
AnswerTool == tcall # NoToolCall /\ tcall' = NoToolCall

TCInit == tcall = NoToolCall
TCNext == \/ tcall = NoToolCall /\ \E call \in CatalogCalls \cup Documented : CallTool(call)
          \/ AnswerTool
TCSpec == TCInit /\ [][TCNext]_tcall

(* ------------------------------- properties ----------------------------- *)

\* What the schema admits the handlers serve: a call that turbo_agent_tool_arguments_valid lets
\* through reaches the store in the tool registry unless a required string is empty, and in the
\* action registry unless also the overlap of two chunks is not smaller than a chunk or a number
\* does not fit the int the action handler reads it into.  The two registries serve the same
\* calls but for such numbers.  The tool_graph answers that steer the model name only tools of
\* their catalog.
AdmittedIsServed ==
    LET empty == \E k \in SchemaOf(tcall.tool).required \cap DOMAIN tcall.args : tcall.args[k] = "empty"
        wide == \E k \in DOMAIN tcall.args : tcall.args[k] = "wide"
    IN  /\ \A e \in KnowledgeGraph : {e[1], e[2]} \subseteq DOMAIN KnowledgeRows
        /\ \A e \in VectorGraph : {e[1], e[2]} \subseteq DOMAIN VectorActionRows
        /\ tcall.admitted = "valid" /\ ~tcall.served => empty
        /\ tcall.admitted = "valid" /\ ~tcall.acted
              => empty \/ wide \/ (tcall.tool[1] = "vector" /\ ~Splits(tcall.args, 0))
        /\ tcall # NoToolCall /\ HasTool(tcall.tool) /\ ~wide => (tcall.served <=> tcall.acted)

\* The calls the documentation gives are admitted by the schema check that every call of a
\* model passes, as the handler would serve them.
DocumentedCallsAdmitted ==
    [tool |-> tcall.tool, args |-> tcall.args] \in Documented => tcall.admitted = "valid"
=============================================================================
