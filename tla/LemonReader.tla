---------------------------- MODULE LemonReader ----------------------------
(***************************************************************************)
(* tools/lemon/lemon.c: what its passes stand on, and reading a grammar.   *)
(*                                                                         *)
(* The four chained hash tables intern strings (x1), symbols (x2), states  *)
(* (x3) and configurations (x4).  Each is an array of nodes in insertion   *)
(* order, doubled and relinked when full.  msort and Rule_sort are its     *)
(* bottom-up merge sorts of linked lists.  A string is a sequence of       *)
(* character codes, a configuration a pair <<rule, dot>>, and the key of a *)
(* state the sequence of its basis configurations.  A node is named by its *)
(* index in tbl; 0 is NULL.                                                *)
(*                                                                         *)
(* The preprocessor blanks the lines excluded by %if/%ifdef/%ifndef/%else/ *)
(* %endif; the scanner hands tokens one by one to parseonetoken, a state   *)
(* machine that builds symbols, rules and declarations and resynchronises  *)
(* after an error.  A token is [c, v]: its class (what the code tells from *)
(* its first characters) and its name.  A source line is text or a         *)
(* directive with the token sequence of its condition.                     *)
(***************************************************************************)
EXTENDS Integers, SequencesExt

CONSTANTS
  Strings,       \* sequences of character codes
  Configs,       \* pairs <<rule, dot>>
  Bases,         \* sequences of configurations
  InitialSize,   \* slots of a new table (1024, 128, 128 and 64 in the code)
  Lists,         \* lists to sort: sequences of [key |-> , tag |-> ]
  ListSize,      \* LISTSIZE, slots of msort
  MaxInserts,    \* bound on the insertions of a behaviour
  Files,         \* token sequences a grammar file may scan to
  Sources,       \* line sequences a grammar file may hold
  Defined,       \* the -D macros left after the -U options
  MaxRhs         \* MAXRHS

VARIABLES
  tables,        \* the four tables, by name
  stored,        \* per table, what was first inserted under each key, in order
  clears,        \* how many times the configuration table was emptied
  sorting        \* [list, slots, out]: a sort in progress

tablesVars == <<tables, stored, clears, sorting>>

\* unsigned is 32 bits wide; a slot is the low bits of a hash, and the low
\* bits of sums and products depend on low bits only: 16 are kept.
Width == 2 ^ 16
Kinds == {"string", "symbol", "state", "config"}

----------------------------------------------------------------------------
(* Hash functions, in unsigned arithmetic.                                  *)

strhash(x) ==
  LET h[i \in 0..Len(x)] == IF i = 0 THEN 0 ELSE (h[i-1] * 13 + x[i]) % Width
  IN  h[Len(x)]

statehash(a) ==
  LET h[i \in 0..Len(a)] ==
        IF i = 0 THEN 0
        ELSE (h[i-1] * 571 + a[i][1] * 37 + a[i][2]) % Width
  IN  h[Len(a)]

confighash(a) == (a[1] * 37 + a[2]) % Width

Configcmp(a, b) == IF a[1] # b[1] THEN a[1] - b[1] ELSE a[2] - b[2]

\* The first difference decides; of two lists one of which continues the
\* other, the longer is the greater.
statecmp(a, b) ==
  LET both == 1..(IF Len(a) < Len(b) THEN Len(a) ELSE Len(b))
      diff == {i \in both : Configcmp(a[i], b[i]) # 0}
  IN  IF diff # {}
      THEN LET i == CHOOSE j \in diff : \A k \in diff : j <= k
           IN  Configcmp(a[i], b[i])
      ELSE IF Len(a) > Len(b) THEN 1 ELSE IF Len(b) > Len(a) THEN -1 ELSE 0

HashOf(kind, key) ==
  CASE kind \in {"string", "symbol"} -> strhash(key)
    [] kind = "state"  -> statehash(key)
    [] kind = "config" -> confighash(key)

SameKey(kind, a, b) ==
  CASE kind \in {"string", "symbol"} -> a = b
    [] kind = "state"  -> statecmp(a, b) = 0
    [] kind = "config" -> Configcmp(a, b) = 0

KeysOf(kind) ==
  CASE kind \in {"string", "symbol"} -> Strings
    [] kind = "state"  -> Bases
    [] kind = "config" -> Configs

----------------------------------------------------------------------------
(* A table: nodes tbl[1..count], heads ht[0..size-1], links next.           *)

EmptyTable(size) ==
  [size |-> size, tbl |-> <<>>, next |-> <<>>, ht |-> [s \in 0..size-1 |-> 0]]

\* h & (size-1), the size being a power of two
Slot(t, kind, key) == HashOf(kind, key) % t.size

\* the nodes on the chain from node n
Chain(t, n) ==
  LET from[k \in 0..Len(t.tbl)] ==
        IF k = 0 THEN <<>> ELSE <<k>> \o from[t.next[k]]
  IN  from[n]

\* The chain the code walks: to the first node with this key, or NULL.
Walk(t, kind, key) ==
  LET c   == Chain(t, t.ht[Slot(t, kind, key)])
      hit == {i \in DOMAIN c : SameKey(kind, t.tbl[c[i]].key, key)}
  IN  IF hit = {} THEN 0 ELSE c[CHOOSE i \in hit : \A j \in hit : i <= j]

\* Put a node in front of its chain.
Link(t, kind, node) ==
  LET h == Slot(t, kind, node.key)
  IN  [t EXCEPT !.tbl  = Append(@, node),
                !.next = Append(@, t.ht[h]),
                !.ht   = [@ EXCEPT ![h] = Len(t.tbl) + 1]]

\* Variant: the slots are doubled but the chains are copied as they are.
GrownUnlinked(t, kind) ==
  [t EXCEPT !.size = 2 * @,
            !.ht = [s \in 0..2 * t.size - 1 |-> IF s < t.size THEN t.ht[s] ELSE 0]]

\* Twice the slots, every node linked again in the order of tbl.
Grown(t, kind) ==
  LET again[i \in 0..Len(t.tbl)] ==
        IF i = 0 THEN EmptyTable(2 * t.size)
        ELSE Link(again[i-1], kind, t.tbl[i])
  IN  again[Len(t.tbl)]

Inserted(t, kind, node) ==
  IF Walk(t, kind, node.key) # 0 THEN t
  ELSE Link(IF Len(t.tbl) >= t.size THEN Grown(t, kind) ELSE t, kind, node)

Found(t, kind, key) ==
  LET n == Walk(t, kind, key) IN IF n = 0 THEN 0 ELSE t.tbl[n].data

----------------------------------------------------------------------------
(* Operations.  data stands for the pointer stored: the number of the       *)
(* insertion that supplied it.                                              *)

Size(kind) == Len(stored[kind])
Calls == Size("string") + Size("symbol") + Size("state") + Size("config")
           + 2 * clears

Record(kind, key, data) ==
  stored' = IF \E i \in DOMAIN stored[kind] : stored[kind][i].key = key
            THEN stored
            ELSE [stored EXCEPT ![kind] = Append(@, [key |-> key, data |-> data])]

Put(kind, key, data) ==
  /\ tables' = [tables EXCEPT
                  ![kind] = Inserted(@, kind, [key |-> key, data |-> data])]
  /\ Record(kind, key, data)
  /\ UNCHANGED <<clears, sorting>>

\* Strsafe: the interned copy when there is one, else a new copy, inserted.
Strsafe(key) ==
  Found(tables["string"], "string", key) = 0
    /\ Put("string", key, Size("string") + 1)

\* Symbol_new: a new symbol under its interned name.
Symbol_new(key) ==
  /\ Found(tables["symbol"], "symbol", key) = 0
  /\ tables' = [tables EXCEPT
       !["string"] = IF Found(@, "string", key) # 0 THEN @
                     ELSE Inserted(@, "string", [key |-> key, data |-> Size("string") + 1]),
       !["symbol"] = Inserted(@, "symbol", [key |-> key, data |-> Size("symbol") + 1])]
  /\ stored' = [stored EXCEPT
       !["string"] = IF \E i \in DOMAIN @ : @[i].key = key THEN @
                     ELSE Append(@, [key |-> key, data |-> Size("string") + 1]),
       !["symbol"] = Append(@, [key |-> key, data |-> Size("symbol") + 1])]
  /\ UNCHANGED <<clears, sorting>>

\* State_insert, whether or not the key is there already.
State_insert(key)  == Put("state", key, Size("state") + 1)

Configtable_insert(key) == Put("config", key, Size("config") + 1)

\* Configtable_clear: the heads and the count go, the size stays.
Configtable_clear ==
  /\ clears < 1
  /\ Len(tables["config"].tbl) > 0
  /\ tables' = [tables EXCEPT !["config"] = EmptyTable(@.size)]
  /\ stored' = [stored EXCEPT !["config"] = <<>>]
  /\ clears' = clears + 1
  /\ UNCHANGED sorting

----------------------------------------------------------------------------
(* The sorts.                                                               *)

merge(a, b) ==
  LET m[i \in 0..Len(a), j \in 0..Len(b)] ==
        IF i = Len(a) THEN SubSeq(b, j+1, Len(b))
        ELSE IF j = Len(b) THEN SubSeq(a, i+1, Len(a))
        ELSE IF a[i+1].key <= b[j+1].key
             THEN <<a[i+1]>> \o m[i+1, j] ELSE <<b[j+1]>> \o m[i, j+1]
  IN  m[0, 0]

\* Rule_merge: rule numbers are distinct, so strictness does not matter.
Rule_merge(a, b) ==
  LET m[i \in 0..Len(a), j \in 0..Len(b)] ==
        IF i = Len(a) THEN SubSeq(b, j+1, Len(b))
        ELSE IF j = Len(b) THEN SubSeq(a, i+1, Len(a))
        ELSE IF a[i+1].tag < b[j+1].tag
             THEN <<a[i+1]>> \o m[i+1, j] ELSE <<b[j+1]>> \o m[i, j+1]
  IN  m[0, 0]

\* One element of msort: carried up through the occupied slots; the last
\* slot takes whatever reaches it.
MsortStep(slots, e) ==
  LET free  == {i \in 1..ListSize : slots[i] = <<>>} \cup {ListSize}
      at    == CHOOSE i \in free : \A j \in free : i <= j
      up[i \in 0..at-1] == IF i = 0 THEN <<e>> ELSE merge(slots[i], up[i-1])
  IN  [i \in 1..ListSize |->
         IF i < at THEN <<>> ELSE IF i = at THEN merge(slots[i], up[at-1]) ELSE slots[i]]

\* The slots merged from the lowest up.
MsortResult(slots) ==
  LET all[i \in 0..ListSize] == IF i = 0 THEN <<>> ELSE merge(slots[i], all[i-1])
  IN  all[ListSize]

\* Rule_sort has 32 slots, more than any grammar fills.
RuleSlots == 32
Rule_sort(list) ==
  LET step(slots, e) ==
        LET at == CHOOSE i \in 1..RuleSlots :
                     slots[i] = <<>> /\ \A j \in 1..i-1 : slots[j] # <<>>
            up[i \in 0..at-1] == IF i = 0 THEN <<e>> ELSE Rule_merge(slots[i], up[i-1])
        IN  [i \in 1..RuleSlots |-> IF i < at THEN <<>> ELSE IF i = at THEN up[at-1] ELSE slots[i]]
      run[k \in 0..Len(list)] ==
        IF k = 0 THEN [i \in 1..RuleSlots |-> <<>>] ELSE step(run[k-1], list[k])
      all[i \in 0..RuleSlots] == IF i = 0 THEN <<>> ELSE Rule_merge(run[Len(list)][i], all[i-1])
  IN  all[RuleSlots]

NoSort == [list |-> <<>>, todo |-> <<>>, slots |-> [i \in 1..ListSize |-> <<>>],
           out |-> <<>>, done |-> FALSE]

SortBegin ==
  /\ Calls = 0 /\ sorting = NoSort
  /\ \E l \in Lists : sorting' = [NoSort EXCEPT !.list = l, !.todo = l]
  /\ UNCHANGED <<tables, stored, clears>>

SortNext ==
  /\ ~sorting.done /\ sorting.todo # <<>>
  /\ sorting' = [sorting EXCEPT !.slots = MsortStep(@, Head(sorting.todo)),
                                !.todo = Tail(@)]
  /\ UNCHANGED <<tables, stored, clears>>

SortEnd ==
  /\ ~sorting.done /\ sorting.list # <<>> /\ sorting.todo = <<>>
  /\ sorting' = [sorting EXCEPT !.out = MsortResult(sorting.slots), !.done = TRUE]
  /\ UNCHANGED <<tables, stored, clears>>

----------------------------------------------------------------------------
TablesInit ==
  /\ tables = [k \in Kinds |-> EmptyTable(InitialSize)]
  /\ stored = [k \in Kinds |-> <<>>]
  /\ clears = 0
  /\ sorting = NoSort

TablesNext ==
  \/ /\ sorting = NoSort /\ Calls < MaxInserts
     /\ \/ \E k \in Strings : Strsafe(k) \/ Symbol_new(k)
        \/ \E k \in Bases : State_insert(k)
        \/ \E k \in Configs : Configtable_insert(k)
        \/ Configtable_clear
  \/ SortBegin \/ SortNext \/ SortEnd

TablesSpec == TablesInit /\ [][TablesNext]_tablesVars

----------------------------------------------------------------------------
\* After any sequence of insertions, of keys whose hashes collide or not and
\* across the doubling of a table, every table answers a look-up with what was
\* first stored under that key and with NULL for any other key, and its array
\* lists the data in the order of insertion (Symbol_arrayof, State_arrayof:
\* the numbering of the generated tables is that order).
TablesAreDictionaries ==
  \A kind \in Kinds :
    /\ tables[kind].tbl = stored[kind]
    /\ \A key \in KeysOf(kind) :
         Found(tables[kind], kind, key) =
           LET at == {i \in DOMAIN stored[kind] : stored[kind][i].key = key}
           IN  IF at = {} THEN 0 ELSE stored[kind][CHOOSE i \in at : TRUE].data

Sorted(a, b) ==
  /\ Len(a) = Len(b)
  /\ {a[i] : i \in DOMAIN a} = {b[i] : i \in DOMAIN b}
  /\ \A i, j \in DOMAIN b : i < j => \/ b[i].key < b[j].key
                                     \/ b[i].key = b[j].key /\ b[i].tag < b[j].tag

\* msort returns every element once, in order, equal elements in the order
\* they came in, also when the list is longer than its slots can hold
\* separately; Rule_sort brings the sorted list back to the order of the rule
\* numbers, as main does after it numbered the rules.
SortsAreStable ==
  sorting.done =>
    /\ Sorted(sorting.list, sorting.out)
    /\ Rule_sort(sorting.out) = sorting.list

-----------------------------------------------------------------------------
(* Reading a grammar file.                                                 *)

Unset == "none"

-----------------------------------------------------------------------------
\* eval_preprocessor_boolean: left to right, returning as soon as || sees a
\* true or && a false on its left.  -1 is a syntax error.  A parenthesis that
\* is never closed is taken as a term with the value so far.

Closing(z, i) ==
  LET Depth(k) == Cardinality({j \in i..k : z[j] = "("}) - Cardinality({j \in i..k : z[j] = ")"})
      ends == {k \in i+1..Len(z) : z[k] = ")" /\ Depth(k) = 0}
  IN IF ends = {} THEN 0 ELSE Min(ends)

Negated(neg, res) == IF neg THEN 1 - res ELSE res

RECURSIVE Scan(_, _, _, _, _)
Scan(z, i, neg, res, okTerm) ==
  IF i > Len(z) THEN res
  ELSE CASE z[i] = "!"  -> IF ~okTerm THEN -1 ELSE Scan(z, i + 1, ~neg, res, TRUE)
         [] z[i] = "||" -> IF okTerm THEN -1 ELSE IF res = 1 THEN 1
                           ELSE Scan(z, i + 1, neg, res, TRUE)
         [] z[i] = "&&" -> IF okTerm THEN -1 ELSE IF res = 0 THEN 0
                           ELSE Scan(z, i + 1, neg, res, TRUE)
         [] z[i] = "("  -> IF ~okTerm THEN -1
                           ELSE IF Closing(z, i) = 0
                                THEN Scan(z, i + 1, FALSE, Negated(neg, res), FALSE)
                           ELSE LET sub == Scan(SubSeq(z, i + 1, Closing(z, i) - 1), 1, FALSE, 0, TRUE)
                                IN IF sub < 0 THEN -1
                                   ELSE Scan(z, Closing(z, i) + 1, FALSE, Negated(neg, sub), FALSE)
         [] z[i] = ")"  -> -1
         [] OTHER       -> IF ~okTerm THEN -1
                           ELSE Scan(z, i + 1, FALSE,
                                     Negated(neg, IF z[i] \in Defined THEN 1 ELSE 0), FALSE)

EvalBoolean(z) == Scan(z, 1, FALSE, 0, TRUE)

-----------------------------------------------------------------------------
\* preprocess_input, one line at a time

ElseLine(p) ==
  IF p.exclude = 1 THEN [p EXCEPT !.exclude = 0, !.blank = @ \cup p.start..p.i]
  ELSE IF p.exclude = 0 THEN [p EXCEPT !.exclude = 1, !.start = p.i, !.blank = @ \cup {p.i}]
  ELSE [p EXCEPT !.blank = @ \cup {p.i}]

EndifLine(p) ==
  IF p.exclude = 1 THEN [p EXCEPT !.exclude = 0, !.blank = @ \cup p.start..p.i]
  ELSE [p EXCEPT !.exclude = IF @ > 0 THEN @ - 1 ELSE 0, !.blank = @ \cup {p.i}]

IfLine(p, line) ==
  LET val == EvalBoolean(line.cond)
      out == IF line.k = "ifndef" THEN val ELSE 1 - val
  IN IF p.exclude > 0 THEN [p EXCEPT !.exclude = @ + 1, !.blank = @ \cup {p.i}]
     ELSE IF val < 0 THEN [p EXCEPT !.stop = TRUE]
     ELSE [p EXCEPT !.exclude = out, !.start = IF out = 1 THEN p.i ELSE @, !.blank = @ \cup {p.i}]

PreprocessLine(p, line) ==
  CASE line.k = "text"  -> p
    [] line.k = "else"  -> ElseLine(p)
    [] line.k = "endif" -> EndifLine(p)
    [] OTHER            -> IfLine(p, line)

-----------------------------------------------------------------------------
\* Symbols, in the order they are first named

NewSymbol(t) == [name |-> t.v, type |-> IF t.c = "upper" THEN "TERMINAL" ELSE "NONTERMINAL",
                 prec |-> -1, assoc |-> "UNK", fallback |-> Unset, typed |-> FALSE,
                 destructor |-> 0, sub |-> <<>>, uses |-> 0]

Known(s, name) == \E i \in DOMAIN s.syms : s.syms[i].name = name
IndexOf(s, name) == CHOOSE i \in DOMAIN s.syms : s.syms[i].name = name
SymbolOf(s, name) == s.syms[IndexOf(s, name)]

\* Symbol_new
SymbolNew(s, t) ==
  LET made == IF Known(s, t.v) THEN s ELSE [s EXCEPT !.syms = Append(@, NewSymbol(t))]
  IN [made EXCEPT !.syms[IndexOf(made, t.v)].uses = @ + 1]

Sets(s, name, field, value) ==
  [s EXCEPT !.syms[IndexOf(s, name)] = [@ EXCEPT ![field] = value]]

-----------------------------------------------------------------------------
\* parseonetoken

Fail(s) == [s EXCEPT !.errors = @ + 1]
To(s, state) == [s EXCEPT !.state = state]
RuleError(s) == To(Fail(s), "RESYNC_AFTER_RULE_ERROR")
DeclError(s) == To(Fail(s), "RESYNC_AFTER_DECL_ERROR")
Home(s) == To(s, "WAITING_FOR_DECL_OR_RULE")
IsAlpha(t) == t.c \in {"upper", "lower"}

\* A code block attaches to the previous rule, once; {NEVER-REDUCE} is a flag
\* of the rule and no code.
CodeBlock(s, t) ==
  IF s.prev = 0 \/ s.rules[Max({s.prev, 1})].code # 0 THEN Fail(s)
  ELSE IF t.v = "NEVER-REDUCE" THEN [s EXCEPT !.rules[s.prev].never = s.pos]
  ELSE [s EXCEPT !.rules[s.prev].code = s.pos]

BeginRule(s, t) == To([SymbolNew(s, t) EXCEPT !.lhs = t.v, !.rhs = <<>>, !.lalias = Unset,
                                              !.from = s.pos],
                      "WAITING_FOR_ARROW")

DeclOrRule(s, t) ==
  CASE t.c = "percent" -> To(s, "WAITING_FOR_DECL_KEYWORD")
    [] t.c = "lower"   -> BeginRule(s, t)
    [] t.c = "brace"   -> CodeBlock(s, t)
    [] t.c = "lbr"     -> To(s, "PRECEDENCE_MARK_1")
    [] OTHER           -> Fail(s)

PrecedenceMark1(s, t) ==
  LET next == To(s, "PRECEDENCE_MARK_2")
  IN IF t.c # "upper" \/ s.prev = 0 \/ s.rules[Max({s.prev, 1})].psym # Unset THEN Fail(next)
     ELSE SymbolNew([next EXCEPT !.rules[s.prev].psym = t.v, !.rules[s.prev].mark = s.pos], t)

PrecedenceMark2(s, t) == Home(IF t.c = "rbr" THEN s ELSE Fail(s))

WaitingForArrow(s, t) ==
  CASE t.c = "arrow" -> To(s, "IN_RHS")
    [] t.c = "lpar"  -> To(s, "LHS_ALIAS_1")
    [] OTHER         -> RuleError(s)

LhsAlias1(s, t) == IF IsAlpha(t) THEN To([s EXCEPT !.lalias = t.v], "LHS_ALIAS_2") ELSE RuleError(s)
LhsAlias2(s, t) == IF t.c = "rpar" THEN To(s, "LHS_ALIAS_3") ELSE RuleError(s)
LhsAlias3(s, t) == IF t.c = "arrow" THEN To(s, "IN_RHS") ELSE RuleError(s)

\* The rule is complete: it becomes the previous rule.
EndRule(s) ==
  LET rule == [lhs |-> s.lhs, lalias |-> s.lalias, rhs |-> s.rhs, psym |-> Unset, mark |-> 0, code |-> 0,
               never |-> 0, from |-> s.from, to |-> s.pos]
  IN Home([s EXCEPT !.rules = Append(@, rule), !.prev = Len(s.rules) + 1])

RhsSymbol(s, t) ==
  IF Len(s.rhs) >= MaxRhs THEN RuleError(s)
  ELSE [SymbolNew(s, t) EXCEPT !.rhs = Append(@, [sub |-> <<t.v>>, alias |-> Unset,
                                                  upper |-> t.c = "upper"])]

\* Variant: a token class is copied before it is extended.
RhsCompoundCopies(s, t) ==
  LET named == SymbolNew(s, [c |-> "upper", v |-> t.v])
  IN  [named EXCEPT !.rhs[Len(s.rhs)].sub = Append(@, t.v)]

\* |NAME or /NAME extends the last symbol to a compound of terminals.  A token
\* class is a compound already: the class itself gets one more token.
RhsCompound(s, t) ==
  LET last == Len(s.rhs)
      head == s.rhs[last].sub[1]
      named == SymbolNew(s, [c |-> "upper", v |-> t.v])
      made == [named EXCEPT !.rhs[last].sub = Append(@, t.v)]
  IN IF SymbolOf(s, head).type = "MULTITERMINAL"
     THEN Sets(named, head, "sub", Append(SymbolOf(named, head).sub, t.v))
     ELSE IF s.rhs[last].upper THEN made ELSE Fail(made)

InRhs(s, t) ==
  CASE t.c = "dot" -> EndRule(s)
    [] IsAlpha(t)  -> RhsSymbol(s, t)
    [] t.c = "bar" /\ s.rhs # <<>>  -> RhsCompound(s, t)
    [] t.c = "lpar" /\ s.rhs # <<>> -> To(s, "RHS_ALIAS_1")
    [] OTHER       -> RuleError(s)

RhsAlias1(s, t) == IF IsAlpha(t) THEN To([s EXCEPT !.rhs[Len(s.rhs)].alias = t.v], "RHS_ALIAS_2")
                   ELSE RuleError(s)
RhsAlias2(s, t) == IF t.c = "rpar" THEN To(s, "IN_RHS") ELSE RuleError(s)

Slots == {"name", "include", "code", "token_destructor", "default_destructor", "token_prefix",
          "syntax_error", "parse_accept", "parse_failure", "stack_overflow", "extra_argument",
          "extra_context", "token_type", "default_type", "stack_size_limit", "realloc", "free",
          "stack_size", "start_symbol"}
Associativity == [left |-> "LEFT", right |-> "RIGHT", nonassoc |-> "NONE"]
Waiting == [destructor |-> "WAITING_FOR_DESTRUCTOR_SYMBOL", type |-> "WAITING_FOR_DATATYPE_SYMBOL",
            fallback |-> "WAITING_FOR_FALLBACK_ID", token |-> "WAITING_FOR_TOKEN_NAME",
            wildcard |-> "WAITING_FOR_WILDCARD_ID", token_class |-> "WAITING_FOR_CLASS_ID"]

DeclKeyword(s, t) ==
  CASE ~IsAlpha(t)    -> DeclError(s)
    [] IsAlpha(t) /\ t.v \in Slots -> To([s EXCEPT !.slot = t.v], "WAITING_FOR_DECL_ARG")
    [] IsAlpha(t) /\ t.v \in DOMAIN Associativity
                      -> To([s EXCEPT !.level = @ + 1, !.assoc = Associativity[t.v]],
                            "WAITING_FOR_PRECEDENCE_SYMBOL")
    [] IsAlpha(t) /\ t.v \in DOMAIN Waiting
                      -> To([s EXCEPT !.fallback = IF t.v = "fallback" THEN Unset ELSE @], Waiting[t.v])
    [] OTHER          -> DeclError(s)

DestructorSymbol(s, t) ==
  IF ~IsAlpha(t) THEN DeclError(s)
  ELSE To([SymbolNew(s, t) EXCEPT !.slot = t.v, !.owner = "destructor"], "WAITING_FOR_DECL_ARG")

DatatypeSymbol(s, t) ==
  IF ~IsAlpha(t) \/ (Known(s, t.v) /\ SymbolOf(s, t.v).typed) THEN DeclError(s)
  ELSE To([IF Known(s, t.v) THEN s ELSE SymbolNew(s, t) EXCEPT !.slot = t.v, !.owner = "type"],
          "WAITING_FOR_DECL_ARG")

PrecedenceSymbol(s, t) ==
  LET named == SymbolNew(s, t)
  IN CASE t.c = "dot"   -> Home(s)
       [] t.c = "upper" -> IF SymbolOf(named, t.v).prec >= 0 THEN Fail(named)
                           ELSE Sets(Sets(named, t.v, "prec", s.level), t.v, "assoc", s.assoc)
       [] OTHER         -> Fail(s)

\* The argument is appended to what the slot already holds.
DeclArg(s, t) ==
  IF t.c \notin {"brace", "string", "upper", "lower"} THEN DeclError([s EXCEPT !.owner = Unset])
  ELSE Home([CASE s.owner = "destructor" -> Sets(s, s.slot, "destructor",
                                                 SymbolOf(s, s.slot).destructor + 1)
               [] s.owner = "type"       -> Sets(s, s.slot, "typed", TRUE)
               [] OTHER                  -> [s EXCEPT !.decls = Append(@, s.slot)]
             EXCEPT !.owner = Unset])

FallbackId(s, t) ==
  LET named == SymbolNew(s, t)
  IN CASE t.c = "dot"   -> Home(s)
       [] t.c = "upper" -> IF s.fallback = Unset THEN [named EXCEPT !.fallback = t.v]
                           ELSE IF SymbolOf(named, t.v).fallback # Unset THEN Fail(named)
                           ELSE Sets(named, t.v, "fallback", s.fallback)
       [] OTHER         -> Fail(s)

TokenName(s, t) ==
  CASE t.c = "dot" -> Home(s) [] t.c = "upper" -> SymbolNew(s, t) [] OTHER -> Fail(s)

WildcardId(s, t) ==
  CASE t.c = "dot"   -> Home(s)
    [] t.c = "upper" -> IF s.wildcard = Unset THEN [SymbolNew(s, t) EXCEPT !.wildcard = t.v]
                        ELSE Fail(SymbolNew(s, t))
    [] OTHER         -> Fail(s)

ClassId(s, t) ==
  IF t.c # "lower" \/ Known(s, t.v) THEN DeclError(s)
  ELSE To([Sets(SymbolNew(s, t), t.v, "type", "MULTITERMINAL") EXCEPT !.slot = t.v],
          "WAITING_FOR_CLASS_TOKEN")

ClassToken(s, t) ==
  CASE t.c = "dot" -> Home(s)
    [] t.c \in {"upper", "bar"} ->
         LET named == SymbolNew(s, [c |-> "upper", v |-> t.v])
         IN Sets(named, s.slot, "sub", Append(SymbolOf(named, s.slot).sub, t.v))
    [] OTHER -> DeclError(s)

Resync(s, t) ==
  CASE t.c = "dot" -> Home(s) [] t.c = "percent" -> To(s, "WAITING_FOR_DECL_KEYWORD") [] OTHER -> s

ParseOneToken(s, t) ==
  CASE s.state = "WAITING_FOR_DECL_OR_RULE"       -> DeclOrRule(s, t)
    [] s.state = "PRECEDENCE_MARK_1"              -> PrecedenceMark1(s, t)
    [] s.state = "PRECEDENCE_MARK_2"              -> PrecedenceMark2(s, t)
    [] s.state = "WAITING_FOR_ARROW"              -> WaitingForArrow(s, t)
    [] s.state = "LHS_ALIAS_1"                    -> LhsAlias1(s, t)
    [] s.state = "LHS_ALIAS_2"                    -> LhsAlias2(s, t)
    [] s.state = "LHS_ALIAS_3"                    -> LhsAlias3(s, t)
    [] s.state = "IN_RHS"                         -> InRhs(s, t)
    [] s.state = "RHS_ALIAS_1"                    -> RhsAlias1(s, t)
    [] s.state = "RHS_ALIAS_2"                    -> RhsAlias2(s, t)
    [] s.state = "WAITING_FOR_DECL_KEYWORD"       -> DeclKeyword(s, t)
    [] s.state = "WAITING_FOR_DESTRUCTOR_SYMBOL"  -> DestructorSymbol(s, t)
    [] s.state = "WAITING_FOR_DATATYPE_SYMBOL"    -> DatatypeSymbol(s, t)
    [] s.state = "WAITING_FOR_PRECEDENCE_SYMBOL"  -> PrecedenceSymbol(s, t)
    [] s.state = "WAITING_FOR_DECL_ARG"           -> DeclArg(s, t)
    [] s.state = "WAITING_FOR_FALLBACK_ID"        -> FallbackId(s, t)
    [] s.state = "WAITING_FOR_TOKEN_NAME"         -> TokenName(s, t)
    [] s.state = "WAITING_FOR_WILDCARD_ID"        -> WildcardId(s, t)
    [] s.state = "WAITING_FOR_CLASS_ID"           -> ClassId(s, t)
    [] s.state = "WAITING_FOR_CLASS_TOKEN"        -> ClassToken(s, t)
    [] OTHER                                      -> Resync(s, t)

\* The INITIALIZE state, after main has made the end-of-input symbol
NewReader == [state |-> "WAITING_FOR_DECL_OR_RULE", pos |-> 0, errors |-> 0,
              syms |-> <<NewSymbol([c |-> "other", v |-> "$"])>>, rules |-> <<>>, prev |-> 0,
              lhs |-> Unset, lalias |-> Unset, rhs |-> <<>>, from |-> 0, slot |-> Unset, owner |-> Unset,
              level |-> 0, assoc |-> "UNK", fallback |-> Unset, wildcard |-> Unset, decls |-> <<>>]
NewPreprocessor == [i |-> 0, exclude |-> 0, start |-> 0, blank |-> {}, stop |-> FALSE]

-----------------------------------------------------------------------------
VARIABLES
  file,    \* the tokens of the file being read, or <<>>
  src,     \* the lines being preprocessed, or <<>>
  reader,  \* struct pstate
  pre      \* preprocess_input's locals

readerVars == <<file, src, reader, pre>>

ReaderInit ==
  /\ reader = NewReader
  /\ pre = NewPreprocessor
  /\ \/ file \in Files /\ src = <<>>
     \/ file = <<>> /\ src \in Sources

Preprocess ==
  /\ pre.i < Len(src) /\ ~pre.stop
  /\ pre' = PreprocessLine([pre EXCEPT !.i = @ + 1], src[pre.i + 1])
  /\ UNCHANGED <<file, src, reader>>

ReadToken ==
  /\ reader.pos < Len(file)
  /\ reader' = ParseOneToken([reader EXCEPT !.pos = @ + 1], file[reader.pos + 1])
  /\ UNCHANGED <<file, src, pre>>

ReaderNext == Preprocess \/ ReadToken

ReaderSpec == ReaderInit /\ [][ReaderNext]_readerVars

-----------------------------------------------------------------------------
\* Reference: the blocks of a well-formed source

\* The value of a condition, with && binding tighter than ||.
RECURSIVE Value(_)
Value(z) ==
  LET Top(op) == {i \in DOMAIN z : z[i] = op
                    /\ Cardinality({j \in 1..i : z[j] = "("}) = Cardinality({j \in 1..i : z[j] = ")"})}
      Split(op) == LET i == Max(Top(op)) IN <<SubSeq(z, 1, i - 1), SubSeq(z, i + 1, Len(z))>>
  IN IF Top("||") # {} THEN Value(Split("||")[1]) \/ Value(Split("||")[2])
     ELSE IF Top("&&") # {} THEN Value(Split("&&")[1]) /\ Value(Split("&&")[2])
     ELSE IF z[1] = "!" THEN ~Value(Tail(z))
     ELSE IF z[1] = "(" THEN Value(SubSeq(z, 2, Len(z) - 1))
     ELSE z[1] \in Defined

\* No && to the left of an || that is not inside parentheses.
Unmixed(z) == ~\E i, j \in DOMAIN z : i < j /\ z[i] = "&&" /\ z[j] = "||"

\* Every parenthesis is closed.
Closed(z) == \A i \in DOMAIN z : z[i] = "(" => Closing(z, i) # 0

\* The lines of block structure: for each line, the conditions it is under.
RECURSIVE Under(_, _, _)
Under(lines, i, open) ==
  IF i > Len(lines) THEN <<>>
  ELSE LET l == lines[i]
           cond == IF l.k = "ifndef" THEN ~Value(l.cond) ELSE Value(l.cond)
           flip == [open EXCEPT ![Len(open)] = ~@]
       IN CASE l.k = "text"  -> <<\A k \in DOMAIN open : open[k]>> \o Under(lines, i + 1, open)
            [] l.k = "else"  -> <<FALSE>> \o Under(lines, i + 1, flip)
            [] l.k = "endif" -> <<FALSE>> \o Under(lines, i + 1, SubSeq(open, 1, Len(open) - 1))
            [] OTHER         -> <<FALSE>> \o Under(lines, i + 1, Append(open, cond))

RECURSIVE Balanced(_, _)
Balanced(lines, open) ==
  IF lines = <<>> THEN open = <<>>
  ELSE CASE Head(lines).k = "text"  -> Balanced(Tail(lines), open)
         [] Head(lines).k = "else"  -> open # <<>> /\ ~Last(open)
                                       /\ Balanced(Tail(lines), [open EXCEPT ![Len(open)] = TRUE])
         [] Head(lines).k = "endif" -> open # <<>> /\ Balanced(Tail(lines), SubSeq(open, 1, Len(open) - 1))
         [] OTHER                   -> Balanced(Tail(lines), Append(open, FALSE))

Regular(lines) ==
  Balanced(lines, <<>>)
  /\ \A i \in DOMAIN lines : lines[i].cond # <<>> =>
       Unmixed(lines[i].cond) /\ Closed(lines[i].cond) /\ EvalBoolean(lines[i].cond) >= 0

\* The preprocessor leaves exactly the text whose enclosing conditions hold,
\* however the blocks are nested, and reports no open block
\* (lemon.c: preprocess_input, eval_preprocessor_boolean).
PreprocessorKeepsBlocks ==
  pre.i = Len(src) /\ src # <<>> /\ Regular(src) =>
    /\ ~pre.stop /\ pre.exclude = 0
    /\ DOMAIN src \ pre.blank = {i \in DOMAIN src : Under(src, 1, <<>>)[i]}

-----------------------------------------------------------------------------
\* Reference: the text of a rule

IsClass(name) == Known(reader, name) /\ SymbolOf(reader, name).type = "MULTITERMINAL"

\* The |NAME tokens that extend the symbol at k, up to b.
Bars(k, b) ==
  SelectSeq([j \in 1..b-k |-> k + j],
            LAMBDA j : file[j].c = "bar"
              /\ \A h \in k+1..j : file[h].c \in {"bar", "lpar", "rpar"} \/ file[h - 1].c = "lpar")

\* The symbols of a right-hand side written in tokens a..b.
RhsText(a, b) ==
  LET heads == SelectSeq([k \in 1..b-a+1 |-> a + k - 1],
                         LAMBDA k : IsAlpha(file[k]) /\ file[k - 1].c # "lpar")
      Own(k) == IF IsClass(file[k].v) THEN <<>> ELSE Bars(k, b)
      Alias(k) == {j \in k+1..b : file[j - 1].c = "lpar" /\ \A h \in k+1..j-2 : ~IsAlpha(file[h]) \/ file[h - 1].c = "lpar"}
  IN [n \in DOMAIN heads |->
        [sub |-> <<file[heads[n]].v>> \o [j \in DOMAIN Own(heads[n]) |-> file[Own(heads[n])[j]].v],
         alias |-> IF Alias(heads[n]) = {} THEN Unset ELSE file[Max(Alias(heads[n]))].v,
         upper |-> file[heads[n]].c = "upper"]]

\* The tokens of a class: those of its declaration, and those that some
\* right-hand side joins to it, in the order of the file.
ClassText(name) ==
  LET uses == {k \in 2..reader.pos : file[k] = [c |-> "lower", v |-> name] /\ file[k - 1].c # "lpar"}
      Declares(k) == file[k - 1].v = "token_class"
      Listed(k, j) == IF Declares(k) THEN k < j /\ \A h \in k..j : file[h].c # "dot"
                                     ELSE j \in ToSet(Bars(k, reader.pos))
      at == SelectSeq([j \in 1..reader.pos |-> j], LAMBDA j : \E k \in uses : Listed(k, j))
  IN  [n \in DOMAIN at |-> file[at[n]].v]

ArrowIn(a, b) == Min({k \in a..b : file[k].c = "arrow"} \cup {b + 1})

\* Every rule recorded, even in a file with errors, is what one stretch of the
\* file says from its left-hand side to its dot: nothing of a rule given up
\* earlier is mixed in; its code, its never-reduce flag and its precedence mark
\* stand between it and the next rule.  Without errors the rules are all the
\* stretches there are, and a token class holds the tokens of its declaration
\* and of every right-hand side that joins one to it, in whatever rule
\* (lemon.c: parseonetoken).
RulesAsWritten ==
  /\ \A n \in DOMAIN reader.rules :
       LET r == reader.rules[n]
           next == IF n < Len(reader.rules) THEN reader.rules[n + 1].from ELSE Len(file) + 1
           arrow == ArrowIn(r.from, r.to)
       IN /\ file[r.from].v = r.lhs /\ file[r.to].c = "dot" /\ arrow < r.to
          /\ {k \in r.from..r.to : file[k].c \in {"dot", "percent", "brace", "lbr", "rbr"}} = {r.to}
          /\ arrow \in {r.from + 1, r.from + 4}
          /\ r.lalias = IF arrow = r.from + 1 THEN Unset ELSE file[r.from + 2].v
          /\ r.rhs = RhsText(arrow + 1, r.to - 1)
          /\ \A k \in {r.code, r.never, r.mark} \ {0} : r.to < k /\ k < next
          /\ r.code # 0 => file[r.code].c = "brace"
          /\ r.mark # 0 => file[r.mark - 1].c = "lbr" /\ file[r.mark] = [c |-> "upper", v |-> r.psym]
          /\ n > 1 => reader.rules[n - 1].to < r.from
  /\ reader.errors = 0 /\ reader.state = "WAITING_FOR_DECL_OR_RULE" =>
       Len(reader.rules) = Cardinality({k \in 1..reader.pos : file[k].c = "arrow"})
  /\ reader.errors = 0 =>
       \A n \in DOMAIN reader.syms :
          reader.syms[n].type = "MULTITERMINAL" => reader.syms[n].sub = ClassText(reader.syms[n].name)
=============================================================================
