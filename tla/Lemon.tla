------------------------------- MODULE Lemon -------------------------------
(***************************************************************************)
(* tools/lemon: the LALR(1) parser generator (lemon.c) and the driver its   *)
(* output is pasted into (lempar.c).  Tables(g) is what the generator      *)
(* writes for grammar g: LR(0) states, follow sets, conflict resolution,    *)
(* default reductions, SHIFTREDUCE actions, unit-rule bypass, the sorted   *)
(* states and the overlapping yy_action/yy_lookahead vectors.  Parse is    *)
(* one call of the generated Parse().                                      *)
(*                                                                         *)
(* A grammar is a record: nterm terminals 0 ($) .. nterm-1, nonterminals   *)
(* nterm .. nsym-1, {default} = nsym, and token classes above nsym.  A     *)
(* rule is [lhs, rhs, psym, code].  States are numbered in the order they   *)
(* are found breadth first (the code: depth first); the numbers only break *)
(* ties when the states are sorted.                                        *)
(***************************************************************************)
EXTENDS Integers, SequencesExt

CONSTANTS
  Grammars,     \* sequence of grammar records
  MaxInput,     \* most tokens fed before the end of input
  MaxParses     \* most inputs one parser is used for

Nil == -1

\* A set in the order of a strict total order, and in no particular order.
Ordered(S, Lt(_, _)) ==
  LET place == [x \in S |-> Cardinality({y \in S : Lt(y, x)}) + 1]
  IN [i \in 1..Cardinality(S) |-> CHOOSE x \in S : place[x] = i]

RECURSIVE Listed(_)
Listed(S) == IF S = {} THEN <<>>
             ELSE LET x == CHOOSE y \in S : TRUE IN <<x>> \o Listed(S \ {x})

IsTerm(g, s) == s < g.nterm
IsClass(g, s) == s > g.nsym
IsVar(g, s) == ~IsTerm(g, s) /\ ~IsClass(g, s)
Sub(g, s) == IF IsClass(g, s) THEN g.class[s] ELSE <<s>>
Terms(g, s) == {Sub(g, s)[i] : i \in DOMAIN Sub(g, s)}
RuleIds(g) == DOMAIN g.rules
StartRules(g) == {r \in RuleIds(g) : g.rules[r].lhs = g.start}

-----------------------------------------------------------------------------
\* Rule precedences, lambda and first sets

\* FindRulePrecedences: the marked symbol, or the first one on the right-hand
\* side that has a precedence.
RulePrec(g, r) ==
  LET rule == g.rules[r]
      ranked == SelectSeq(FlattenSeq([i \in DOMAIN rule.rhs |-> Sub(g, rule.rhs[i])]),
                          LAMBDA s : g.prec[s] >= 0)
      sym == IF rule.psym # Nil THEN rule.psym
             ELSE IF ranked = <<>> THEN Nil ELSE ranked[1]
  IN IF sym = Nil THEN -1 ELSE g.prec[sym]

RECURSIVE LambdaFrom(_, _)
LambdaFrom(g, known) ==
  LET more == known \cup {g.rules[r].lhs : r \in
                {q \in RuleIds(g) : \A i \in DOMAIN g.rules[q].rhs : g.rules[q].rhs[i] \in known}}
  IN IF more = known THEN known ELSE LambdaFrom(g, more)

\* The terminals that can begin the symbols `seq`, given first sets F.
Leading(g, lambda, F, seq) ==
  UNION {IF IsVar(g, seq[i]) THEN F[seq[i]] ELSE Terms(g, seq[i]) :
           i \in {j \in DOMAIN seq : \A h \in 1..j-1 : seq[h] \in lambda}}

RECURSIVE FirstFrom(_, _, _)
FirstFrom(g, lambda, F) ==
  LET G == [v \in g.nterm..g.nsym-1 |->
              F[v] \cup UNION {Leading(g, lambda, F, g.rules[r].rhs) :
                                 r \in {q \in RuleIds(g) : g.rules[q].lhs = v}}]
  IN IF G = F THEN F ELSE FirstFrom(g, lambda, G)

FirstSets(g, lambda) == FirstFrom(g, lambda, [v \in g.nterm..g.nsym-1 |-> {}])

-----------------------------------------------------------------------------
\* LR(0) states: a configuration is <<rule, dot>>, a state its basis

AtEnd(g, c) == c[2] = Len(g.rules[c[1]].rhs)
AfterDot(g, c) == g.rules[c[1]].rhs[c[2] + 1]
Rest(g, c) == SubSeq(g.rules[c[1]].rhs, c[2] + 2, Len(g.rules[c[1]].rhs))
Opens(g, c) == IF AtEnd(g, c) THEN {}
               ELSE {<<r, 0>> : r \in {q \in RuleIds(g) : g.rules[q].lhs = AfterDot(g, c)}}

RECURSIVE Closure(_, _)
Closure(g, C) ==
  LET D == C \cup UNION {Opens(g, c) : c \in C}
  IN IF D = C THEN C ELSE Closure(g, D)

\* same_symbol: classes with the same members are one symbol.
SameSymbol(g, a, b) ==
  a = b \/ (IsClass(g, a) /\ IsClass(g, b) /\ g.class[a] = g.class[b])

\* buildshifts: the basis reached from closed set C over the symbol after c's dot.
Successor(g, C, s) ==
  {<<c[1], c[2] + 1>> : c \in {d \in C : ~AtEnd(g, d) /\ SameSymbol(g, AfterDot(g, d), s)}}
Shifted(g, C) == {AfterDot(g, c) : c \in {d \in C : ~AtEnd(g, d)}}

RECURSIVE FindStates(_, _, _)
FindStates(g, bases, k) ==
  IF k > Len(bases) THEN bases
  ELSE LET C == Closure(g, bases[k])
           new == {Successor(g, C, s) : s \in Shifted(g, C)} \ ToSet(bases)
       IN FindStates(g, bases \o Listed(new), k + 1)

StateOf(bases, basis) == CHOOSE j \in DOMAIN bases : bases[j] = basis

\* Follow sets, per <<state, configuration>>: the closure's own lookaheads and
\* the propagation links, inside a state where the rest of the right-hand side
\* may vanish and across every shift.
RECURSIVE FollowFrom(_, _, _)
FollowFrom(nodes, links, W) ==
  LET V == [n \in nodes |-> W[n] \cup UNION {W[m] : m \in links[n]}]
  IN IF V = W THEN W ELSE FollowFrom(nodes, links, V)

\* A rule opened in a state inherits its opener's follow set.
Inherits(lambda, seq) == \A i \in DOMAIN seq : seq[i] \in lambda

FollowSets(g, bases, lambda, F) ==
  LET C == [k \in DOMAIN bases |-> Closure(g, bases[k])]
      nodes == UNION {{<<k, c>> : c \in C[k]} : k \in DOMAIN bases}
      Own(n) == (IF n[1] = 1 /\ n[2] \in bases[1] THEN {0} ELSE {})
                \cup UNION {Leading(g, lambda, F, Rest(g, c)) :
                              c \in {d \in C[n[1]] : n[2] \in Opens(g, d)}}
      Goto(k, s) == StateOf(bases, Successor(g, C[k], s))
      target == [n \in {m \in nodes : ~AtEnd(g, m[2])} |->
                   <<Goto(n[1], AfterDot(g, n[2])), <<n[2][1], n[2][2] + 1>>>>]
      links == [n \in nodes |->
                  {m \in DOMAIN target : target[m] = n}
                  \cup {m \in DOMAIN target : m[1] = n[1] /\ n[2] \in Opens(g, m[2])
                                               /\ Inherits(lambda, Rest(g, m[2]))}]
  IN FollowFrom(nodes, links, [n \in nodes |-> Own(n)])

-----------------------------------------------------------------------------
\* Actions and conflict resolution

Types == <<"SHIFT", "ACCEPT", "REDUCE", "ERROR", "SSCONFLICT", "SRCONFLICT", "RRCONFLICT",
           "SH_RESOLVED", "RD_RESOLVED", "NOT_USED", "SHIFTREDUCE">>
Rank(t) == CHOOSE i \in DOMAIN Types : Types[i] = t

Action(s, t, x) == [sym |-> s, type |-> t, x |-> x]

\* actioncmp
Before(a, b) ==
  \/ a.sym < b.sym
  \/ a.sym = b.sym /\ Rank(a.type) < Rank(b.type)
  \/ a.sym = b.sym /\ a.type = b.type /\ a.x < b.x

ActionSort(A) == Ordered(A, Before)

\* The lookahead's own precedence against the rule's.
Contest(g, x, y) ==
  LET px == g.prec[x.sym]
      py == RulePrec(g, y.x)
  IN IF px < 0 \/ py < 0 THEN <<x, [y EXCEPT !.type = "SRCONFLICT"]>>
     ELSE IF px > py THEN <<x, [y EXCEPT !.type = "RD_RESOLVED"]>>
     ELSE IF px < py THEN <<[x EXCEPT !.type = "SH_RESOLVED"], y>>
     ELSE CASE g.assoc[x.sym] = "RIGHT" -> <<x, [y EXCEPT !.type = "RD_RESOLVED"]>>
            [] g.assoc[x.sym] = "LEFT"  -> <<[x EXCEPT !.type = "SH_RESOLVED"], y>>
            [] OTHER                    -> <<[x EXCEPT !.type = "ERROR"], y>>

ResolveReduces(g, x, y) ==
  LET px == RulePrec(g, x.x)
      py == RulePrec(g, y.x)
  IN IF px < 0 \/ py < 0 \/ px = py THEN <<x, [y EXCEPT !.type = "RRCONFLICT"]>>
     ELSE IF px > py THEN <<x, [y EXCEPT !.type = "RD_RESOLVED"]>>
     ELSE <<[x EXCEPT !.type = "RD_RESOLVED"], y>>

ResolveConflict(g, x, y) ==
  CASE x.type = "SHIFT" /\ y.type = "SHIFT"   -> <<x, [y EXCEPT !.type = "SSCONFLICT"]>>
    [] x.type = "SHIFT" /\ y.type = "REDUCE"  -> Contest(g, x, y)
    [] x.type = "REDUCE" /\ y.type = "REDUCE" -> ResolveReduces(g, x, y)
    [] OTHER                                  -> <<x, y>>

\* Every pair of actions on one symbol, in list order.
Resolved(g, A) ==
  LET pairs == Ordered({p \in (DOMAIN A) \X (DOMAIN A) : p[1] < p[2] /\ A[p[1]].sym = A[p[2]].sym},
                            LAMBDA p, q : p[1] < q[1] \/ (p[1] = q[1] /\ p[2] < q[2]))
      Pair(L, p) == LET xy == ResolveConflict(g, L[p[1]], L[p[2]])
                    IN [L EXCEPT ![p[1]] = xy[1], ![p[2]] = xy[2]]
  IN FoldLeft(Pair, A, pairs)

FindActions(g, bases, W) ==
  [k \in DOMAIN bases |->
     LET C == Closure(g, bases[k])
         Goto(s) == StateOf(bases, Successor(g, C, s))
         shifts == UNION {{Action(t, "SHIFT", Goto(s)) : t \in Terms(g, s)} : s \in Shifted(g, C)}
         reduces == UNION {{Action(t, "REDUCE", c[1]) : t \in W[<<k, c>>]} :
                             c \in {d \in C : AtEnd(g, d)}}
         accept == IF k = 1 THEN {Action(g.start, "ACCEPT", 0)} ELSE {}
     IN Resolved(g, ActionSort(shifts \cup reduces \cup accept))]

Conflicts(acts) == \E k \in DOMAIN acts : \E i \in DOMAIN acts[k] :
                     acts[k][i].type \in {"SSCONFLICT", "SRCONFLICT", "RRCONFLICT"}

-----------------------------------------------------------------------------
\* CompressTables

UsesWildcard(g, A) == \E i \in DOMAIN A : A[i].type = "SHIFT" /\ A[i].sym = g.wildcard

\* The rule that becomes the state's default, or 0.
BestRule(g, A) ==
  LET Ids(r) == {i \in DOMAIN A : A[i].type = "REDUCE" /\ A[i].x = r}
      rules == {A[i].x : i \in {j \in DOMAIN A : A[j].type = "REDUCE"}} \ StartRules(g)
      top == {r \in rules : \A q \in rules : Cardinality(Ids(q)) <= Cardinality(Ids(r))}
  IN IF UsesWildcard(g, A) \/ rules = {} THEN 0
     ELSE CHOOSE r \in top : \A q \in top : Min(Ids(r)) <= Min(Ids(q))

WithDefault(g, A, best) ==
  LET ids == {i \in DOMAIN A : A[i].type = "REDUCE" /\ A[i].x = best}
      Fold(i) == IF i \notin ids THEN A[i]
                 ELSE IF i = Min(ids) THEN [A[i] EXCEPT !.sym = g.nsym]
                 ELSE [A[i] EXCEPT !.type = "NOT_USED"]
  IN IF best = 0 THEN A ELSE ActionSort({Fold(i) : i \in DOMAIN A})

AutoReduces(A, best) ==
  best # 0 /\ \A i \in DOMAIN A : A[i].type # "SHIFT" /\ (A[i].type = "REDUCE" => A[i].x = best)

\* A nonterminal SHIFTREDUCE by a unit rule without code takes the action of
\* the rule's left-hand side instead, until that is no such action.
RECURSIVE Bypass(_, _, _)
Bypass(g, A, i) ==
  IF A[i].type # "SHIFTREDUCE" THEN A
  ELSE LET rule == g.rules[A[i].x]
           other == Min({j \in DOMAIN A \ {i} : A[j].sym = rule.lhs})
       IN IF rule.code \/ Len(rule.rhs) # 1 \/ IsTerm(g, A[i].sym) THEN A
          ELSE Bypass(g, [A EXCEPT ![i].type = A[other].type, ![i].x = A[other].x], i)

CompressTables(g, acts) ==
  LET best == [k \in DOMAIN acts |-> BestRule(g, acts[k])]
      dflt == [k \in DOMAIN acts |-> WithDefault(g, acts[k], best[k])]
      auto == [k \in DOMAIN acts |-> AutoReduces(dflt[k], best[k])]
      Reach(a) == IF a.type = "SHIFT" /\ auto[a.x]
                  THEN [a EXCEPT !.type = "SHIFTREDUCE", !.x = best[a.x]] ELSE a
      made == [k \in DOMAIN acts |-> [i \in DOMAIN dflt[k] |-> Reach(dflt[k][i])]]
  IN [auto |-> auto,
      acts |-> [k \in DOMAIN acts |->
                  FoldLeft(LAMBDA A, i : Bypass(g, A, i), made[k],
                           [i \in DOMAIN made[k] |-> i])]]

-----------------------------------------------------------------------------
\* ResortStates, compute_action and the action table

Emits(a) == a.type \in {"SHIFT", "SHIFTREDUCE", "REDUCE", "ERROR", "ACCEPT"}
OnTokens(g, A) == SelectSeq(A, LAMBDA a : Emits(a) /\ a.sym < g.nterm)
OnVars(g, A) == SelectSeq(A, LAMBDA a : Emits(a) /\ a.sym >= g.nterm /\ a.sym < g.nsym)
Default(g, A) == SelectSeq(A, LAMBDA a : Emits(a) /\ a.sym = g.nsym)

\* The states in their final order: the first stays, the busiest come next.
ResortStates(g, acts) ==
  LET vars == [k \in DOMAIN acts |-> Len(OnVars(g, acts[k]))]
      toks == [k \in DOMAIN acts |-> Len(OnTokens(g, acts[k]))]
      Busier(j, k) == \/ vars[j] > vars[k]
                      \/ vars[j] = vars[k] /\ toks[j] > toks[k]
                      \/ vars[j] = vars[k] /\ toks[j] = toks[k] /\ j > k
  IN <<1>> \o Ordered(DOMAIN acts \ {1}, Busier)

\* nxstate: the states left when the auto-reducing ones at the end are dropped.
Trimmed(order, auto) ==
  Max({1} \cup {i \in DOMAIN order : ~auto[order[i]]})

\* iRule: rules with code are numbered first.
RuleNumber(g, r) ==
  IF g.rules[r].code THEN Cardinality({q \in RuleIds(g) : q < r /\ g.rules[q].code})
  ELSE Cardinality({q \in RuleIds(g) : g.rules[q].code \/ q < r})

\* The numbers ReportTable gives the actions.
Codes(g, nstate) ==
  LET nrule == Len(g.rules)
  IN [minShiftReduce |-> nstate, err |-> nstate + nrule, acc |-> nstate + nrule + 1,
      no |-> nstate + nrule + 2, minReduce |-> nstate + nrule + 3]

ComputeAction(g, codes, number, a) ==
  CASE a.type = "SHIFT"  -> number[a.x]
    [] a.type = "SHIFTREDUCE" /\ a.sym >= g.nterm /\ a.sym # g.err
                         -> codes.minReduce + RuleNumber(g, a.x)
    [] a.type = "SHIFTREDUCE" /\ (a.sym < g.nterm \/ a.sym = g.err)
                         -> codes.minShiftReduce + RuleNumber(g, a.x)
    [] a.type = "REDUCE" -> codes.minReduce + RuleNumber(g, a.x)
    [] a.type = "ERROR"  -> codes.err
    [] a.type = "ACCEPT" -> codes.acc

\* An action table: nAction cells in use; a cell not in `cell` is empty.
NoTable == [n |-> 0, cell |-> [k \in {} |-> [la |-> -1, act |-> -1]]]
Cell(t, k) == IF k \in DOMAIN t.cell THEN t.cell[k] ELSE [la |-> -1, act |-> -1]

\* Variant: the cells already there are not looked at.
UnansweredUnchecked(t, i, mn) == TRUE

\* No cell already in the table answers a lookahead from offset i.
Unanswered(t, i, mn) == \A k \in 0..t.n-1 : Cell(t, k).la # k + mn - i

\* acttab_insert: reuse the highest offset where exactly this transaction is
\* laid down, else take the first where it fits and no other cell answers.
Insert(g, t, txn, safe) ==
  LET mn == Min({txn[j].la : j \in DOMAIN txn})
      mnAct == txn[Min({j \in DOMAIN txn : txn[j].la = mn})].act
      At(i, j) == txn[j].la - mn + i
      low == IF safe THEN mn ELSE 0
      Same(i) == /\ Cell(t, i) = [la |-> mn, act |-> mnAct]
                 /\ \A j \in DOMAIN txn : At(i, j) < t.n /\ Cell(t, At(i, j)) = txn[j]
                 /\ Cardinality({k \in 0..t.n-1 : Cell(t, k).la >= 0 /\ Cell(t, k).la = k + mn - i})
                      = Len(txn)
      Fits(i) == /\ \A j \in DOMAIN txn : Cell(t, At(i, j)).la < 0
                 /\ Unanswered(t, i, mn)
      dups == {i \in low..t.n-1 : Same(i)}
      at == IF dups # {} THEN Max(dups)
            ELSE Min({i \in low..(t.n + g.nsym + mn + 1) : Fits(i)})
      used == {At(at, j) : j \in DOMAIN txn}
      cell == [k \in DOMAIN t.cell \cup used |->
                 IF k \in used THEN txn[Max({j \in DOMAIN txn : At(at, j) = k})] ELSE t.cell[k]]
      n == Max({t.n, Max(used) + 1} \cup (IF safe THEN {at + g.nterm + 1} ELSE {}))
  IN [table |-> [n |-> n, cell |-> cell], ofst |-> at - mn]

NoOffset == -1000000

\* ReportTable: the token and nonterminal actions of every state that is left,
\* the largest sets first, and the offsets they are laid at.
Packed(g, acts, order, nx, codes, number) ==
  LET Txn(i) == LET A == acts[order[(i + 1) \div 2]]
                    picked == IF i % 2 = 1 THEN OnTokens(g, A) ELSE OnVars(g, A)
                IN [j \in DOMAIN picked |->
                      [la |-> picked[j].sym, act |-> ComputeAction(g, codes, number, picked[j])]]
      size == [i \in 1..2*nx |-> Len(Txn(i))]
      axset == Ordered({i \in 1..2*nx : size[i] > 0},
                            LAMBDA i, j : size[i] > size[j] \/ (size[i] = size[j] /\ i < j))
      Lay(q, i) == LET put == Insert(g, q.table, Txn(i), i % 2 = 1)
                   IN [table |-> put.table, ofst |-> [q.ofst EXCEPT ![i] = put.ofst]]
  IN FoldLeft(Lay, [table |-> NoTable, ofst |-> [i \in 1..2*nx |-> NoOffset]], axset)

\* Everything the generated parser reads: yy_action, yy_lookahead,
\* yy_shift_ofst, yy_reduce_ofst, yy_default and the rule tables.
Tables(g, acts, auto) ==
  LET order == ResortStates(g, acts)
      nx == Trimmed(order, auto)
      number == [k \in DOMAIN order |-> (CHOOSE i \in DOMAIN order : order[i] = k) - 1]
      codes == Codes(g, Len(order))
      packed == Packed(g, acts, order, nx, codes, number)
      t == packed.table
      nact == Max({0} \cup {k + 1 : k \in {j \in DOMAIN t.cell : t.cell[j].la >= 0}})
      low == Min({0} \cup {packed.ofst[2*i] : i \in {j \in 1..nx : packed.ofst[2*j] # NoOffset}})
      Dflt(A) == IF Default(g, A) = <<>> THEN codes.err
                 ELSE codes.minReduce + RuleNumber(g, Default(g, A)[1].x)
  IN [codes |-> codes, nx |-> nx, nact |-> nact,
      action |-> [k \in 0..nact-1 |-> IF Cell(t, k).la < 0 THEN codes.no ELSE Cell(t, k).act],
      lookahead |-> [k \in 0..Max({t.n, g.nterm + nact})-1 |->
                       IF k >= t.n THEN g.nterm
                       ELSE IF Cell(t, k).la < 0 THEN g.nsym ELSE Cell(t, k).la],
      shiftOfst |-> [i \in 0..nx-1 |-> IF packed.ofst[2*i + 1] = NoOffset THEN nact
                                       ELSE packed.ofst[2*i + 1]],
      shiftCount |-> Max({-1} \cup {i \in 0..nx-1 : packed.ofst[2*i + 1] # NoOffset}),
      reduceOfst |-> [i \in 0..nx-1 |-> IF packed.ofst[2*i + 2] = NoOffset THEN low - 1
                                        ELSE packed.ofst[2*i + 2]],
      reduceCount |-> Max({-1} \cup {i \in 0..nx-1 : packed.ofst[2*i + 2] # NoOffset}),
      dflt |-> [i \in 0..nx-1 |-> Dflt(acts[order[i + 1]])],
      rule |-> [n \in 0..Len(g.rules)-1 |-> CHOOSE r \in RuleIds(g) : RuleNumber(g, r) = n]]

-----------------------------------------------------------------------------
\* lempar.c: the driver.  A value is the parse tree built by the rule actions,
\* with the positions of its tokens in the input.

\* A value owns the tokens in ids; lent is a token an error entry carries too.
Leaf(tok, ids) == [rule |-> 0, tok |-> tok, kids |-> <<>>, ids |-> ids, lent |-> <<>>]
NoTree == Leaf(Nil, <<>>)
Bottom == [st |-> 0, major |-> 0, val |-> NoTree]

\* ParseInit
NewParser(g) == [stack |-> <<Bottom>>, room |-> g.depth, errcnt |-> -1, reports |-> 0,
                 destroyed |-> {}, accepted |-> <<>>, failed |-> FALSE, over |-> FALSE,
                 trap |-> FALSE]

Trap == -9

RECURSIVE FindShiftAction(_, _, _, _)
FindShiftAction(g, T, la, st) ==
  LET i == T.shiftOfst[st] + la
      j == T.shiftOfst[st] + g.wildcard
  IN IF st >= T.nx THEN st
     ELSE IF st > T.shiftCount THEN Trap
     ELSE IF T.lookahead[i] = la THEN T.action[i]
     ELSE IF g.fallback[la] # 0 THEN FindShiftAction(g, T, g.fallback[la], st)
     ELSE IF g.wildcard # Nil /\ T.lookahead[j] = g.wildcard /\ la > 0 THEN T.action[j]
     ELSE T.dflt[st]

FindReduceAction(g, T, st, lhs) ==
  LET i == T.reduceOfst[st] + lhs
      found == st <= T.reduceCount /\ i >= 0 /\ i < T.nact /\ T.lookahead[i] = lhs
  IN IF st >= T.nx THEN Trap
     ELSE IF found THEN T.action[i]
     ELSE IF g.err # Nil THEN T.dflt[st] ELSE Trap

IdsOf(entries) == UNION {ToSet(entries[i].val.ids) : i \in DOMAIN entries}

\* yy_pop_parser_stack down to the first n entries
PopTo(p, n) == [p EXCEPT !.stack = SubSeq(@, 1, n),
                         !.destroyed = @ \cup IdsOf(SubSeq(p.stack, n + 1, Len(p.stack)))]

\* yyStackOverflow
Overflow(p) == [PopTo(p, 1) EXCEPT !.over = TRUE]

\* yyGrowStack
Grow(p) == [p EXCEPT !.room = 2 * @ + 100]

\* yy_shift: the token is dropped with the whole stack when it cannot grow.
YyShift(g, T, p, act, major, val, grow) ==
  LET st == IF act >= T.nx THEN act + T.codes.minReduce - T.codes.minShiftReduce ELSE act
      q == IF Len(p.stack) < p.room THEN p ELSE Grow(p)
  IN IF Len(p.stack) >= p.room /\ ~grow THEN Overflow(p)
     ELSE [q EXCEPT !.stack = Append(@, [st |-> st, major |-> major, val |-> val])]

\* yy_reduce
YyReduce(g, T, p, n) ==
  LET rule == g.rules[T.rule[n]]
      keep == Len(p.stack) - Len(rule.rhs)
      kids == [i \in DOMAIN rule.rhs |-> p.stack[keep + i].val]
      act == FindReduceAction(g, T, p.stack[keep].st, rule.lhs)
      val == [rule |-> T.rule[n], tok |-> Nil, kids |-> kids, lent |-> <<>>,
              ids |-> FlattenSeq([i \in DOMAIN kids |-> kids[i].ids])]
      bad == act \in {Trap, T.codes.err} \/ (act >= T.nx /\ act < T.codes.err)
  IN IF bad THEN [p EXCEPT !.trap = TRUE]
     ELSE [p EXCEPT !.stack = Append(SubSeq(@, 1, keep),
                                     [st |-> act, major |-> rule.lhs, val |-> val])]

\* yy_accept, after the start symbol is taken off the stack
YyAccept(p) == [p EXCEPT !.stack = SubSeq(@, 1, Len(@) - 1), !.errcnt = -1,
                         !.accepted = <<Last(p.stack).val>>]

YyParseFailed(p) == [PopTo(p, 1) EXCEPT !.failed = TRUE]

Destroy(p, tok) == [p EXCEPT !.destroyed = @ \cup ToSet(tok.val.ids)]
Report(p) == [p EXCEPT !.reports = @ + 1]

\* The entries below which error can be shifted: popped until one is found.
RECURSIVE PopForError(_, _, _)
PopForError(g, T, p) ==
  IF Len(p.stack) = 1 THEN p
  ELSE LET act == FindReduceAction(g, T, Last(p.stack).st, g.err)
       IN IF act < T.codes.err THEN p ELSE PopForError(g, T, PopTo(p, Len(p.stack) - 1))

\* Without an error symbol: drop the token, fail at the end of the input.
DropToken(p, tok) ==
  LET q == Destroy([IF p.errcnt <= 0 THEN Report(p) ELSE p EXCEPT !.errcnt = 3], tok)
  IN IF tok.major = 0 THEN [YyParseFailed(q) EXCEPT !.errcnt = -1] ELSE q

\* With one: report, drop the token if error was just shifted, else pop to a
\* state that shifts error, with the value of the token, which is tried once
\* more (`again`) with the same value.  The grammars give error no destructor.
ErrorSymbol(g, T, p, tok, hit, grow) ==
  LET q == IF p.errcnt < 0 THEN Report(p) ELSE p
      r == PopForError(g, T, q)
      act == FindReduceAction(g, T, Last(r.stack).st, g.err)
      Done(x) == [p |-> [x EXCEPT !.errcnt = 3], again |-> FALSE]
  IN IF Last(q.stack).major = g.err \/ hit THEN Done(Destroy(q, tok))
     ELSE IF Len(r.stack) = 1 \/ tok.major = 0 THEN Done(YyParseFailed(Destroy(r, tok)))
     ELSE [p |-> [YyShift(g, T, r, act, g.err, [Leaf(g.err, <<>>) EXCEPT !.lent = tok.val.ids], grow) EXCEPT !.errcnt = 3],
           again |-> TRUE]

\* Parse: the loop over reductions until the token is used up.
RECURSIVE ParseLoop(_, _, _, _, _, _)
ParseLoop(g, T, p, tok, hit, grow) ==
  LET act == FindShiftAction(g, T, tok.major, Last(p.stack).st)
      n == act - T.codes.minReduce
      full == Len(p.stack) >= p.room /\ g.rules[T.rule[n]].rhs = <<>>
      next == YyReduce(g, T, IF full THEN Grow(p) ELSE p, n)
      er == ErrorSymbol(g, T, p, tok, hit, grow)
  IN IF act = Trap \/ act = T.codes.no THEN [p EXCEPT !.trap = TRUE]
     ELSE IF act >= T.codes.minReduce
       THEN IF full /\ ~grow THEN Overflow(p)
            ELSE IF next.trap THEN next
            ELSE ParseLoop(g, T, next, tok, hit, grow)
     ELSE IF act < T.codes.err
       THEN [YyShift(g, T, p, act, tok.major, tok.val, grow) EXCEPT !.errcnt = @ - 1]
     ELSE IF act = T.codes.acc THEN YyAccept(p)
     ELSE IF g.err = Nil THEN DropToken(p, tok)
     ELSE IF er.again THEN ParseLoop(g, T, er.p, tok, TRUE, grow) ELSE er.p

-----------------------------------------------------------------------------
VARIABLES
  gi,       \* the grammar in use
  gen,      \* the generator: its stage and what it has computed so far
  parser,   \* its parser
  fed,      \* the tokens of the current input
  phase,    \* "reading" an input, or "ended"
  parses    \* inputs begun

lemonVars == <<gi, gen, parser, fed, phase, parses>>

LemonInit ==
  /\ gi \in DOMAIN Grammars
  /\ gen = [stage |-> "grammar", bases |-> <<>>, acts |-> <<>>, auto |-> <<>>,
            conflict |-> FALSE, tables |-> <<>>]
  /\ parser = NewParser(Grammars[gi])
  /\ fed = <<>>
  /\ phase = "generating"
  /\ parses = 1

\* The generator's passes, in the order of main()
Generator(stage, bases, acts, auto, conflict, tables) ==
  [stage |-> stage, bases |-> bases, acts |-> acts, auto |-> auto,
   conflict |-> conflict, tables |-> tables]

\* FindFirstSets and FindStates
GenStates ==
  /\ gen.stage = "grammar"
  /\ LET g == Grammars[gi]
     IN gen' = Generator("states", FindStates(g, <<{<<r, 0>> : r \in StartRules(g)}>>, 1),
                         <<>>, <<>>, FALSE, <<>>)
  /\ UNCHANGED <<gi, parser, fed, phase, parses>>

\* FindLinks, FindFollowSets and FindActions
GenActions ==
  /\ gen.stage = "states"
  /\ LET g == Grammars[gi]
         lambda == LambdaFrom(g, {})
         acts == FindActions(g, gen.bases, FollowSets(g, gen.bases, lambda, FirstSets(g, lambda)))
     IN gen' = Generator("actions", <<>>, acts, <<>>, Conflicts(acts), <<>>)
  /\ UNCHANGED <<gi, parser, fed, phase, parses>>

\* CompressTables
GenCompress ==
  /\ gen.stage = "actions"
  /\ LET small == CompressTables(Grammars[gi], gen.acts)
     IN gen' = Generator("compressed", <<>>, small.acts, small.auto, gen.conflict, <<>>)
  /\ UNCHANGED <<gi, parser, fed, phase, parses>>

\* ResortStates and ReportTable
GenTables ==
  /\ gen.stage = "compressed"
  /\ gen' = Generator("tables", <<>>, <<>>, <<>>, gen.conflict,
                      Tables(Grammars[gi], gen.acts, gen.auto))
  /\ phase' = "reading"
  /\ UNCHANGED <<gi, parser, fed, parses>>

\* Whether the stack may grow when it is full: it always may fail to.
Growth(g) == {FALSE} \cup (IF g.growable THEN {TRUE} ELSE {})

\* Parse(parser, token, value)
Feed ==
  /\ phase = "reading" /\ Len(fed) < MaxInput /\ ~parser.failed /\ ~parser.over /\ ~parser.trap
  /\ LET g == Grammars[gi]
     IN \E major \in 1..g.nterm-1, grow \in Growth(g) :
          /\ major # g.wildcard
          /\ parser' = ParseLoop(g, gen.tables, parser,
                                 [major |-> major, val |-> Leaf(major, <<Len(fed) + 1>>)],
                                 FALSE, grow)
          /\ fed' = Append(fed, major)
  /\ UNCHANGED <<gi, gen, phase, parses>>

\* Parse(parser, 0, 0)
EndOfInput ==
  /\ phase = "reading" /\ ~parser.failed /\ ~parser.over /\ ~parser.trap
  /\ LET g == Grammars[gi]
     IN \E grow \in Growth(g) :
          parser' = ParseLoop(g, gen.tables, parser,
                              [major |-> 0, val |-> NoTree], FALSE, grow)
  /\ phase' = "ended"
  /\ UNCHANGED <<gi, gen, fed, parses>>

\* The next input on the same parser.  An end of input met while the error
\* symbol is on top is discarded and leaves the stack as it is: such a parser
\* is finalized instead.
NextInput ==
  /\ phase = "ended" \/ (phase = "reading" /\ (parser.failed \/ parser.over))
  /\ parses < MaxParses /\ Len(parser.stack) = 1
  /\ parser' = [parser EXCEPT !.reports = 0, !.accepted = <<>>, !.failed = FALSE,
                              !.over = FALSE, !.destroyed = {}]
  /\ fed' = <<>>
  /\ phase' = "reading"
  /\ parses' = parses + 1
  /\ UNCHANGED <<gi, gen>>

\* ParseFinalize: what is left on the stack is destroyed.
Finalize ==
  /\ phase \in {"reading", "ended"}
  /\ parser' = PopTo(parser, 1)
  /\ phase' = "final"
  /\ UNCHANGED <<gi, gen, fed, parses>>

LemonNext == GenStates \/ GenActions \/ GenCompress \/ GenTables
             \/ Feed \/ EndOfInput \/ NextInput \/ Finalize

LemonSpec == LemonInit /\ [][LemonNext]_lemonVars

-----------------------------------------------------------------------------
\* Reference: the strings a grammar derives, up to a length

Joined(A, B, n) == UNION {{a \o b : b \in {s \in B : Len(a) + Len(s) <= n}} : a \in A}

Derived(g, L, seq, n) ==
  FoldLeft(LAMBDA A, s : Joined(A, IF IsVar(g, s) THEN L[s] ELSE {<<t>> : t \in Terms(g, s)}, n),
           {<<>>}, seq)

RECURSIVE DerivedFrom(_, _, _)
DerivedFrom(g, L, n) ==
  LET M == [v \in g.nterm..g.nsym-1 |->
              UNION {Derived(g, L, g.rules[r].rhs, n) :
                       r \in {q \in RuleIds(g) : g.rules[q].lhs = v}}]
  IN IF M = L THEN L ELSE DerivedFrom(g, M, n)

Language(g, n) == DerivedFrom(g, [v \in g.nterm..g.nsym-1 |-> {}], n)[g.start]

\* Grammars whose parser must accept exactly their language.
Exact(i) ==
  LET g == Grammars[i]
  IN /\ g.wildcard = Nil /\ \A t \in 0..g.nterm-1 : g.fallback[t] = 0
     /\ \A t \in 0..g.nterm-1 : g.prec[t] >= 0 => g.assoc[t] # "NONE"

\* Twice as many tokens complete every prefix of MaxInput in these grammars.
LanguageOf == [i \in DOMAIN Grammars |->
                 IF Exact(i) THEN Language(Grammars[i], 2 * MaxInput) ELSE {}]
PrefixesOf == [i \in DOMAIN Grammars |->
                 UNION {{SubSeq(s, 1, k) : k \in 0..Min({Len(s), MaxInput})} : s \in LanguageOf[i]}]

SymOf(g, t) == IF t.rule = 0 THEN t.tok ELSE g.rules[t.rule].lhs

\* A unit rule without code may leave no node of its own.
RECURSIVE Stands(_, _, _)
Stands(g, x, s) ==
  \/ x = s \/ (IsClass(g, s) /\ x \in Terms(g, s))
  \/ s = g.wildcard \/ (IsTerm(g, x) /\ g.fallback[x] = s /\ s # 0)
  \/ \E r \in RuleIds(g) : /\ ~g.rules[r].code /\ Len(g.rules[r].rhs) = 1 /\ g.rules[r].lhs = s
                           /\ g.rules[r].rhs[1] # s /\ Stands(g, x, g.rules[r].rhs[1])

Binary(g, r) == LET rule == g.rules[r]
                IN r # 0 /\ Len(rule.rhs) = 3 /\ rule.rhs[1] = rule.lhs /\ rule.rhs[3] = rule.lhs
                   /\ g.prec[rule.rhs[2]] >= 0

\* Operator r may have a node of operator q as its left, or right, operand.
Groups(g, r, q, side) ==
  Binary(g, r) /\ Binary(g, q) =>
    \/ RulePrec(g, q) > RulePrec(g, r)
    \/ RulePrec(g, q) = RulePrec(g, r) /\ g.assoc[g.rules[r].rhs[2]] = side

RECURSIVE Derivation(_, _)
Derivation(g, t) ==
  t.rule # 0 =>
    LET rhs == g.rules[t.rule].rhs
    IN /\ Len(rhs) = Len(t.kids)
       /\ \A i \in DOMAIN rhs : Stands(g, SymOf(g, t.kids[i]), rhs[i]) /\ Derivation(g, t.kids[i])

RECURSIVE Grouped(_, _)
Grouped(g, t) ==
  /\ \A i \in DOMAIN t.kids : Grouped(g, t.kids[i])
  /\ Len(t.kids) = 3 => /\ Groups(g, t.rule, t.kids[1].rule, "LEFT")
                        /\ Groups(g, t.rule, t.kids[3].rule, "RIGHT")

Increasing(ids) == \A i, j \in DOMAIN ids : i < j => ids[i] < ids[j]

\* What the generated parser does is what the grammar says: no assertion of
\* the driver fails; an accepted input's value is a derivation of the start
\* symbol over the tokens kept, in order; without a report every token read
\* extends to a sentence, the end of input accepts and operators are grouped by
\* their precedence; a sentence is accepted without a report
\* (lemon.c's whole pipeline; lempar.c: Parse).
ParsesLanguage ==
  LET g == Grammars[gi]
      p == parser
      clean == p.reports = 0 /\ ~p.over /\ ~p.failed /\ parses = 1
      tree == p.accepted[1]
  IN /\ ~p.trap
     /\ p.accepted # <<>> => /\ Derivation(g, tree) /\ Stands(g, SymOf(g, tree), g.start)
                             /\ Increasing(tree.ids)
                             /\ clean => tree.ids = [i \in DOMAIN fed |-> i] /\ Grouped(g, tree)
     /\ phase = "ended" /\ clean => p.accepted # <<>>
     /\ Exact(gi) /\ ~gen.conflict /\ clean => fed \in PrefixesOf[gi]
     /\ Exact(gi) /\ ~gen.conflict /\ phase = "ended" /\ fed \in LanguageOf[gi] /\ ~p.over
          => p.accepted # <<>> /\ p.reports = 0

\* Every token's value is in exactly one place: on the stack, in the accepted
\* value, or destroyed; and after ParseFinalize none is left on the stack.  A
\* stack that cannot grow is the exception: the token being shifted is dropped.
\* An error entry carries the value of the token at which the error was found
\* without owning it: that token is destroyed or is above the entry, never
\* below it (lempar.c: yy_destructor's callers, yy_shift, Parse).
TokensAccounted ==
  LET p == parser
      held == IdsOf(p.stack)
      kept == UNION {ToSet(p.accepted[i].ids) : i \in DOMAIN p.accepted}
  IN /\ held \cap p.destroyed = {} /\ kept \cap (held \cup p.destroyed) = {}
     /\ ~p.over /\ ~p.trap => held \cup kept \cup p.destroyed = DOMAIN fed
     /\ p.over => Cardinality(DOMAIN fed \ (held \cup kept \cup p.destroyed)) <= 1
     /\ \A i, j \in DOMAIN p.stack :
          i # j => ToSet(p.stack[i].val.ids) \cap ToSet(p.stack[j].val.ids) = {}
     /\ \A i \in DOMAIN p.stack :
          ToSet(p.stack[i].val.lent) \subseteq p.destroyed \cup IdsOf(SubSeq(p.stack, i + 1, Len(p.stack)))
     /\ phase = "final" => Len(p.stack) = 1
=============================================================================
