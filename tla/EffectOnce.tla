----------------------------- MODULE EffectOnce -----------------------------
(***************************************************************************)
(* What the durable tool journal promises the rest of the agent, stated    *)
(* without executors, claims, phases, crashes or store errors: the side    *)
(* effect of one tool-call identity is entered at most once; at most one   *)
(* outcome is ever published for it; and every definite answer handed to   *)
(* any caller, at any time, is that published outcome.                     *)
(***************************************************************************)

CONSTANTS
    Calls,      \* tool-call identities: (run_id, turn_key, call_id)
    Outcomes,   \* what a callback can leave in a committed record
    NoOutcome   \* nothing published yet

VARIABLES
    entered,    \* identities whose callback has been entered
    published,  \* published[c]: the committed outcome of c, or NoOutcome
    answers     \* answers[c]: the definite outcomes callers were given for c

vars == <<entered, published, answers>>

Init ==
    /\ entered = {}
    /\ published = [c \in Calls |-> NoOutcome]
    /\ answers = [c \in Calls |-> {}]

(* The callback of c is entered: never a second time. *)
Enter(c) ==
    /\ c \notin entered
    /\ entered' = entered \union {c}
    /\ UNCHANGED <<published, answers>>

(* The outcome of an entered call becomes durable: never replaced. *)
Publish(c, o) ==
    /\ c \in entered
    /\ published[c] = NoOutcome
    /\ published' = [published EXCEPT ![c] = o]
    /\ UNCHANGED <<entered, answers>>

(* A caller is told the outcome: only the published one. *)
Answer(c) ==
    /\ published[c] # NoOutcome
    /\ answers' = [answers EXCEPT ![c] = @ \union {published[c]}]
    /\ UNCHANGED <<entered, published>>

(* The owner that publishes an outcome may answer its caller in one step. *)
PublishAndAnswer(c, o) ==
    /\ c \in entered
    /\ published[c] = NoOutcome
    /\ published' = [published EXCEPT ![c] = o]
    /\ answers' = [answers EXCEPT ![c] = @ \union {o}]
    /\ UNCHANGED entered

Next ==
    \E c \in Calls :
        \/ Enter(c)
        \/ Answer(c)
        \/ \E o \in Outcomes : Publish(c, o) \/ PublishAndAnswer(c, o)

Spec == Init /\ [][Next]_vars
=============================================================================
