------------------------------ MODULE MCHosts -------------------------------
(***************************************************************************)
(* An execution, the memory store, the parser generator and its            *)
(* parsers, and a state graph with its channels, each on its own.          *)
(***************************************************************************)
EXTENDS Execution, MemoryStore, Lemon, StateGraph, TLC

CONSTANT Focus   \* the components a run takes, each on its own

VARIABLE focus   \* the component that runs; the others stay in their first state

-----------------------------------------------------------------------------
\* exec: Two clients of one execution whose operation waits on its cancel token
\* twice: with a timeout after the deadline, and without one.

CONSTANTS c1, c2, w1, w2

MCTimeout == (w1 :> 2) @@ (w2 :> Infinite)

-----------------------------------------------------------------------------
\* memory: Three ids whose file names are close, and queries that filter, sort and limit.

V(scope, path, text, created) ==
    [obj |-> TRUE, scope |-> scope, path |-> path, text |-> text, created |-> created]

MCIds == {[ns |-> <<1>>, key |-> <<2>>], [ns |-> <<1, 2>>, key |-> <<2>>],
          [ns |-> <<1>>, key |-> <<1, 2>>]}

MCValues ==
    {[obj |-> FALSE, scope |-> NullS, path |-> NullS, text |-> NullS, created |-> NullS],
     V(<<1>>, NullS, <<1, 2>>, <<5>>), V(<<2>>, <<1>>, <<2>>, NullS), V(OtherS, NullS, <<1>>, <<4>>)}

MCRecords ==
    {[kind |-> k, meta |-> m, text |-> t, scope |-> <<1>>, path |-> NullS, created |-> <<4>>] :
        k \in {"context", "json"}, m \in BOOLEAN, t \in {NullS, <<2, 1>>}}

AnyRecord == [ns |-> <<>>, id |-> <<>>, kind |-> "", key |-> <<>>, text |-> <<>>, scope |-> <<>>,
              path |-> <<>>, after |-> <<>>, before |-> <<>>, sort |-> "none", desc |-> FALSE, limit |-> 0]

MCQueries ==
    {[q EXCEPT !.sort = s[1], !.desc = s[2], !.limit = l] :
        q \in {AnyRecord, [AnyRecord EXCEPT !.ns = <<1, 2>>], [AnyRecord EXCEPT !.kind = "context", !.key = <<2>>],
               [AnyRecord EXCEPT !.text = <<2>>, !.after = <<4>>], 
               [AnyRecord EXCEPT !.id = <<1, 3>>, !.before = <<4>>]},
        s \in {<<"none", FALSE>>, <<"namespace", TRUE>>, <<"key", FALSE>>, <<"kind", TRUE>>}, l \in {0, 2}}

-----------------------------------------------------------------------------
\* lemon: Small grammars that use every part of the generator.

R(l, r) == [lhs |-> l, rhs |-> r, psym |-> Nil, code |-> TRUE]
U(l, r) == [lhs |-> l, rhs |-> r, psym |-> Nil, code |-> FALSE]

G(nterm, nsym, rules) ==
  [nterm |-> nterm, nsym |-> nsym, rules |-> rules, start |-> rules[1].lhs,
   prec |-> [s \in 0..nsym |-> -1], assoc |-> [s \in 0..nsym |-> "UNK"],
   class |-> [s \in {} |-> <<>>], fallback |-> [s \in 0..nterm-1 |-> 0],
   wildcard |-> Nil, err |-> Nil, depth |-> 100, growable |-> FALSE]

\* s ::= e.  e ::= e PLUS e | e TIMES e | ID.   PLUS left, TIMES above it.
Expr == [G(4, 6, <<R(4, <<5>>), R(5, <<5, 1, 5>>), R(5, <<5, 2, 5>>), R(5, <<3>>)>>)
          EXCEPT !.prec = [s \in 0..6 |-> CASE s = 1 -> 1 [] s = 2 -> 2 [] OTHER -> -1],
                 !.assoc = [s \in 0..6 |-> CASE s = 1 -> "LEFT" [] s = 2 -> "RIGHT" [] OTHER -> "UNK"]]

\* s ::= a.  a ::= b C | b b C.  b ::= | D.   Nullable, unit and class rules.
Nullable == G(4, 8, <<R(4, <<5>>), R(5, <<6, 7, 1>>), U(6, <<>>), R(6, <<2>>),
                      U(7, <<6>>), R(7, <<3, 7>>)>>)

\* s ::= l = r | r.  l ::= * r | ID.  r ::= l.   The LALR (not SLR) grammar.
Assign == G(4, 7, <<R(4, <<5, 1, 6>>), R(4, <<6>>), R(5, <<2, 6>>), R(5, <<3>>), U(6, <<5>>)>>)

\* s ::= p.  p ::= p x | x.  x ::= A|B C.   with a class
Class == [G(4, 7, <<R(4, <<5>>), R(5, <<5, 6>>), R(5, <<6>>), R(6, <<8, 3>>)>>)
            EXCEPT !.class = (8 :> <<1, 2>>)]

\* s ::= l.  l ::= l i | i.  i ::= A B | A ANY C.   with a wildcard and a fallback
Wild == [G(5, 8, <<R(5, <<6>>), R(6, <<6, 7>>), R(6, <<7>>), R(7, <<1, 2>>), R(7, <<1, 4, 3>>),
                   R(7, <<1>>)>>)
           EXCEPT !.wildcard = 4, !.fallback = [s \in 0..4 |-> IF s = 3 THEN 2 ELSE 0]]

\* s ::= l.  l ::= l i | i.  i ::= A SEMI | error SEMI.   error is a nonterminal
Recover == [G(3, 7, <<R(3, <<4>>), R(4, <<4, 5>>), R(4, <<5>>), R(5, <<1, 2>>), R(5, <<6, 2>>)>>)
              EXCEPT !.err = 6, !.depth = 4]

\* s ::= n.  n ::= LP n RP | .    on a stack that fills
Nest == [G(3, 5, <<R(3, <<4>>), R(4, <<1, 4, 2>>), R(4, <<>>)>>)
           EXCEPT !.depth = 3, !.growable = TRUE]

\* s ::= i.  i ::= IF i ELSE i | IF i | X.   A conflict is left: the shift wins.
Dangling == G(4, 6, <<R(4, <<5>>), R(5, <<1, 5, 2, 5>>), R(5, <<1, 5>>), R(5, <<3>>)>>)

MCGrammars == <<Expr, Nullable, Assign, Class, Wild, Recover, Nest, Dangling>>

-----------------------------------------------------------------------------
\* stategraph: StateGraph with two channels on a graph of two nodes
\* whose second edge list is that of a later program version.

MCNode == {"plan", "act"}
MCEdges ==
    [v1 |-> <<[from |-> "plan", to |-> "act", conditional |-> TRUE]>>,
     v2 |-> <<[from |-> "plan", to |-> "act", conditional |-> FALSE],
              [from |-> "act", to |-> "plan", conditional |-> TRUE]>>]

MCChannel == {"log", "flag"}
MCReducer == [log |-> "append", flag |-> "replace"]
MCValueKind == [log |-> "string", flag |-> "number"]
MCDefaultValue == [log |-> JNull, flag |-> JNull]

\* The empty update, one that succeeds, and one whose second key fails after
\* the first has been applied.
Nothing == << >>
Good == <<<<"log", JString("x")>>>>
Bad == <<<<"flag", JNumber(1)>>, <<"log", JNumber(7)>>>>

Outcome(rc, update, sends, next, stop) ==
    [rc |-> rc, update |-> update, sends |-> sends, next |-> next, stop |-> stop]

MCOutcomes ==
    { Outcome(0, Good, << >>, NoValue, FALSE),
      Outcome(0, Bad, << >>, NoValue, FALSE),
      Outcome(0, Nothing, <<[to |-> "act", update |-> Good]>>, "act", FALSE),
      Outcome(0, Nothing, <<[to |-> "act", update |-> Bad]>>, NoValue, FALSE),
      Outcome(0, Nothing, <<[to |-> "lost", update |-> Good]>>, NoValue, FALSE),
      Outcome(0, Nothing, << >>, NoValue, TRUE) }

\* Execution pauses at every "act" it was not resumed at, and after three steps.
MCRunOptions == { [max |-> 3, start |-> NoValue, interrupts |-> {"act"}, skip |-> TRUE] }

MCNewer(a, b) == a = "s2" /\ b = "s1"
MCAutoId(n) == <<"thread", n>>

MCUpdates == {Good, Bad}
MCThreadId == {<<"thread", 1>>}

-----------------------------------------------------------------------------
HostsInit ==
    /\ focus \in Focus
    /\ focus # "memory" => backend = "heap"
    /\ focus # "lemon" => gi = 1
    /\ Init /\ MemInit /\ LemonInit /\ SGInit

HostsNext ==
    \/ focus = "exec" /\ Next /\ UNCHANGED <<focus, memVars, lemonVars, sgVars>>
    \/ focus = "memory" /\ MemNext /\ UNCHANGED <<focus, vars, lemonVars, sgVars>>
    \/ focus = "lemon" /\ LemonNext /\ UNCHANGED <<focus, vars, memVars, sgVars>>
    \/ focus = "stategraph" /\ SGNext /\ UNCHANGED <<focus, vars, memVars, lemonVars>>

HostsVars == <<focus, vars, memVars, lemonVars, sgVars>>

HostsSpec == HostsInit /\ [][HostsNext]_HostsVars

\* The fairness of Execution, while it runs.
Runs == focus = "exec"
FocusFairness ==
    /\ WF_vars(Runs /\ Tick /\ Operation)
    /\ WF_vars(Runs /\ Work)
    /\ \A w \in Waiters : WF_vars(Runs /\ Loop(w) /\ Operation) /\ WF_vars(Runs /\ WakeUp(w) /\ Operation)
    /\ \A c \in Clients : WF_vars(Runs /\ WaitReturns(c))

FairHostsSpec == HostsSpec /\ FocusFairness

\* A put is whole or absent after a crash, and a query answers with every record that matches
\* (turbo_agent_memory_store.c).
MemorySound == focus = "memory" => MemoryPutAtomic /\ QueryAnswersAll

\* A generated parser accepts the language of its grammar and accounts for every token it was fed
\* (lemon.c, lempar.c).
LemonSound == focus = "lemon" => ParsesLanguage /\ TokensAccounted

\* References between records resolve, a run's state is the one recorded, a snapshot loads as it
\* was saved, and a branch never changes another one (turbo_state_graph.c).
StateGraphSound ==
    /\ [](focus = "stategraph" => RefsResolve /\ RecordedState /\ SnapshotRoundTrip)
    /\ [][focus = "stategraph" => BranchesIsolatedStep]_sgVars
=============================================================================
