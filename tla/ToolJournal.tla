----------------------------- MODULE ToolJournal -----------------------------
(***************************************************************************)
(* The durable protocol of src/agent/src/turbo_agent_tool_executor.c that  *)
(* decides whether a tool callback may be entered.                         *)
(*                                                                         *)
(* Several owners (executors in one process, or the process before and     *)
(* after a crash) work over one runtime store.  Each store callback is     *)
(* serialized by the runtime's store mutex, so one store operation is one  *)
(* step; everything an owner does between two store operations is folded   *)
(* into the step of the earlier one.  An owner may die between any two     *)
(* steps.  A write that reports an error may or may not have been applied. *)
(***************************************************************************)
EXTENDS Naturals

CONSTANTS
    Owners,         \* executors working over the store
    Calls,          \* tool-call identities (run_id, turn_key, call_id)
    LegacyKeyed,    \* calls that carry a legacy_turn_key
    LegacyRecords,  \* those of them an older release left a record for
    NoAtomicCreate, \* owners whose store adapter has no create_if_absent
    SmallLimit,     \* owners whose max_output_bytes is below a long output
    MaxTries        \* bound: times an owner executes or re-executes a call

ASSUME JournalConstants ==
    /\ LegacyKeyed \subseteq Calls
    /\ LegacyRecords \subseteq LegacyKeyed
    /\ NoAtomicCreate \subseteq Owners
    /\ SmallLimit \subseteq Owners
    /\ MaxTries \in Nat

(* What a callback can leave in call->status and call->output. *)
Outcomes == {"short", "long", "failed", "out_of_memory", "output_limit"}

NoOutcome == "none"

NoCall == "no call"

(* Dispositions with no outcome: the effect's fate is not claimed. *)
Dispositions == {"unset", "unknown", "cancelled", "error", "rejected"}

Phases == {"absent", "planned", "started", "committed"}

Steps == {"idle", "load", "legacy", "create", "reload", "dispatch", "claim",
          "replay", "start", "enter", "running", "commit", "done"}

VARIABLES
    \* durable
    phase,      \* phase[c]: agent_tool_journal record of c
    stored,     \* stored[c]: status/output held by a committed record
    claimed,    \* identities with a record in agent_tool_claims
    \* per owner, lost in a crash
    pc,         \* next store operation or callback of the owner
    call,       \* identity it works on
    answer,     \* call->status/output: an outcome or a disposition
    stopped,    \* the owner's cancel token has fired
    \* observation only
    tries,      \* executions begun by the owner
    entries,    \* entries[c]: how many times the callback of c was entered
    answers     \* answers[c]: outcomes any caller was ever given for c

durable == <<phase, stored, claimed>>
owner == <<pc, call, answer, stopped>>
observed == <<tries, entries, answers>>
vars == <<durable, owner, observed>>

TypeOK ==
    /\ phase \in [Calls -> Phases]
    /\ stored \in [Calls -> Outcomes \union {NoOutcome}]
    /\ claimed \subseteq Calls
    /\ pc \in [Owners -> Steps]
    /\ call \in [Owners -> Calls \union {NoCall}]
    /\ answer \in [Owners -> Outcomes \union Dispositions]
    /\ stopped \in [Owners -> BOOLEAN]
    /\ tries \in [Owners -> 0..MaxTries]
    /\ entries \in [Calls -> Nat]
    /\ answers \in [Calls -> SUBSET Outcomes]

Init ==
    /\ phase = [c \in Calls |-> "absent"]
    /\ stored = [c \in Calls |-> NoOutcome]
    /\ claimed = {}
    /\ pc = [o \in Owners |-> "idle"]
    /\ call = [o \in Owners |-> NoCall]
    /\ answer = [o \in Owners |-> "unset"]
    /\ stopped = [o \in Owners |-> FALSE]
    /\ tries = [o \in Owners |-> 0]
    /\ entries = [c \in Calls |-> 0]
    /\ answers = [c \in Calls |-> {}]

Goto(o, step) == pc' = [pc EXCEPT ![o] = step]

(* The call is over for o: a is what its caller finds in the call record. *)
Finish(o, a) ==
    /\ Goto(o, "done")
    /\ answer' = [answer EXCEPT ![o] = a]
    /\ answers' = IF a \in Outcomes
                  THEN [answers EXCEPT ![call[o]] = @ \union {a}]
                  ELSE answers

(* Committed output longer than this owner's limit is reported as such. *)
Replayed(o, outcome) ==
    IF outcome = "long" /\ o \in SmallLimit THEN "output_limit" ELSE outcome

-----------------------------------------------------------------------------
(* An executor begins a call: the journal record is looked up first. *)
Execute(o, c) ==
    /\ pc[o] \in {"idle", "done"}
    /\ tries[o] < MaxTries
    /\ tries' = [tries EXCEPT ![o] = @ + 1]
    /\ call' = [call EXCEPT ![o] = c]
    /\ answer' = [answer EXCEPT ![o] = "unset"]
    /\ Goto(o, "load")
    /\ UNCHANGED <<durable, stopped, entries, answers>>

(* What a readable record means to prepare_journal: a started record is    *)
(* an effect of unknown fate, a committed one is replayed, a planned one   *)
(* may still be dispatched.                                                *)
Disposition(o, c) ==
    \/ /\ phase[c] = "started"
       /\ Finish(o, "unknown")
    \/ /\ phase[c] = "committed"
       /\ Finish(o, Replayed(o, stored[c]))
    \/ /\ phase[c] = "planned"
       /\ Goto(o, "dispatch")
       /\ UNCHANGED <<answer, answers>>

(* prepare_journal, first load.  A read error is never taken for absence. *)
LoadJournal(o) ==
    LET c == call[o] IN
    /\ pc[o] = "load"
    /\ \/ /\ phase[c] = "absent"
          /\ Goto(o, IF c \in LegacyKeyed THEN "legacy" ELSE "create")
          /\ UNCHANGED <<answer, answers>>
       \/ Disposition(o, c)
       \/ Finish(o, "rejected")                                 \* read error
    /\ UNCHANGED <<durable, call, stopped, tries, entries>>

(* prepare_journal, probe of the pre-scope key: a record there is EBUSY,   *)
(* never migrated or replayed.                                             *)
LoadLegacy(o) ==
    /\ pc[o] = "legacy"
    /\ \/ /\ call[o] \notin LegacyRecords
          /\ Goto(o, "create")
          /\ UNCHANGED <<answer, answers>>
       \/ Finish(o, "rejected")                     \* EBUSY, or a read error
    /\ UNCHANGED <<durable, call, stopped, tries, entries>>

(* prepare_journal, create_if_absent of the planned record.  An adapter    *)
(* without the operation answers ENOTSUP; an error may hide a record.      *)
CreatePlanned(o) ==
    LET c == call[o] IN
    /\ pc[o] = "create"
    /\ \/ /\ o \notin NoAtomicCreate
          /\ phase[c] = "absent"
          /\ phase' = [phase EXCEPT ![c] = "planned"]
          /\ \/ /\ Goto(o, "dispatch")
                /\ UNCHANGED <<answer, answers>>
             \/ Finish(o, "rejected")                 \* applied, yet an error
       \/ /\ o \notin NoAtomicCreate
          /\ phase[c] # "absent"                                 \* EALREADY
          /\ Goto(o, "reload")
          /\ UNCHANGED <<phase, answer, answers>>
       \/ /\ Finish(o, "rejected")              \* ENOTSUP, or a plain error
          /\ UNCHANGED phase
    /\ UNCHANGED <<stored, claimed, call, stopped, tries, entries>>

(* prepare_journal, load of the record another owner published meanwhile. *)
ReloadJournal(o) ==
    /\ pc[o] = "reload"
    /\ \/ Disposition(o, call[o])
       \/ Finish(o, "rejected")
    /\ UNCHANGED <<durable, call, stopped, tries, entries>>

(* execute_one up to its first store operation: a stopped token leaves the *)
(* planned record as it is; a full pool queue is BACKPRESSURE.             *)
Dispatch(o) ==
    /\ pc[o] = "dispatch"
    /\ \/ /\ stopped[o]
          /\ Finish(o, "cancelled")
       \/ /\ ~stopped[o]
          /\ Goto(o, "claim")
          /\ UNCHANGED <<answer, answers>>
       \/ Finish(o, "error")                                  \* BACKPRESSURE
    /\ UNCHANGED <<durable, call, stopped, tries, entries>>

(* execute_one, create_if_absent in agent_tool_claims: the fence in front  *)
(* of the callback.                                                        *)
Claim(o) ==
    LET c == call[o] IN
    /\ pc[o] = "claim"
    /\ \/ /\ o \notin NoAtomicCreate
          /\ c \notin claimed
          /\ claimed' = claimed \union {c}
          /\ \/ /\ Goto(o, "start")
                /\ UNCHANGED <<answer, answers>>
             \/ Finish(o, "unknown")                  \* applied, yet an error
       \/ /\ o \notin NoAtomicCreate
          /\ c \in claimed                                       \* EALREADY
          /\ Goto(o, "replay")
          /\ UNCHANGED <<claimed, answer, answers>>
       \/ /\ o \in NoAtomicCreate                                 \* ENOTSUP
          /\ Finish(o, "error")
          /\ UNCHANGED claimed
       \/ /\ o \notin NoAtomicCreate                         \* plain error
          /\ Finish(o, "unknown")
          /\ UNCHANGED claimed
    /\ UNCHANGED <<phase, stored, call, stopped, tries, entries>>

(* execute_one, prepare_journal again after a lost fence: only a committed *)
(* record gives an outcome, everything else is UNKNOWN_SIDE_EFFECT.        *)
Replay(o) ==
    LET c == call[o] IN
    /\ pc[o] = "replay"
    /\ \/ /\ phase[c] = "committed"
          /\ Finish(o, Replayed(o, stored[c]))
       \/ Finish(o, "unknown")
    /\ UNCHANGED <<durable, call, stopped, tries, entries>>

(* Faulty variant: a call stopped at the fence is committed as failed      *)
(* although its callback was never entered.                                *)
PutStartedFailsStopped(o) ==
    /\ pc[o] = "start"
    /\ phase' = [phase EXCEPT ![call[o]] = "started"]
    /\ \/ /\ stopped[o]
          /\ Goto(o, "commit")
          /\ answer' = [answer EXCEPT ![o] = "failed"]
       \/ /\ Goto(o, "enter")
          /\ UNCHANGED answer
    /\ UNCHANGED <<answers, stored, claimed, call, stopped, tries, entries>>

(* execute_one, put of the started record. *)
PutStarted(o) ==
    LET c == call[o] IN
    /\ pc[o] = "start"
    /\ \/ /\ phase' = [phase EXCEPT ![c] = "started"]
          /\ \/ /\ Goto(o, "enter")
                /\ UNCHANGED <<answer, answers>>
             \/ Finish(o, "unknown")
       \/ /\ Finish(o, "unknown")
          /\ UNCHANGED phase
    /\ UNCHANGED <<stored, claimed, call, stopped, tries, entries>>

(* The tool callback is entered: its side effect may happen from here on. *)
Enter(o) ==
    /\ pc[o] = "enter"
    /\ Goto(o, "running")
    /\ entries' = [entries EXCEPT ![call[o]] = @ + 1]
    /\ UNCHANGED <<durable, call, answer, stopped, tries, answers>>

(* The callback returns.  Output above the limit is dropped, a detail that *)
(* could not be captured makes the result OUT_OF_MEMORY.                   *)
Return(o) ==
    /\ pc[o] = "running"
    /\ \E r \in {"short", "long", "failed", "out_of_memory"} :
          answer' = [answer EXCEPT ![o] = Replayed(o, r)]
    /\ Goto(o, "commit")
    /\ UNCHANGED <<durable, call, stopped, observed>>

(* Faulty variant: a failed put of the committed record is ignored. *)
PutCommittedUnchecked(o) ==
    LET c == call[o] IN
    /\ pc[o] = "commit"
    /\ \/ /\ phase' = [phase EXCEPT ![c] = "committed"]
          /\ stored' = [stored EXCEPT ![c] = answer[o]]
       \/ UNCHANGED <<phase, stored>>
    /\ Finish(o, answer[o])
    /\ UNCHANGED <<claimed, call, stopped, tries, entries>>

(* execute_one, put of the committed record.  When it fails the outcome is *)
(* withdrawn: the caller is told UNKNOWN_SIDE_EFFECT.                      *)
PutCommitted(o) ==
    LET c == call[o] IN
    /\ pc[o] = "commit"
    /\ \/ /\ phase' = [phase EXCEPT ![c] = "committed"]
          /\ stored' = [stored EXCEPT ![c] = answer[o]]
          /\ Finish(o, answer[o]) \/ Finish(o, "unknown")
       \/ /\ Finish(o, "unknown")
          /\ UNCHANGED <<phase, stored>>
    /\ UNCHANGED <<claimed, call, stopped, tries, entries>>

(* The host cancels the owner's token, or its deadline passes. *)
Stop(o) ==
    /\ ~stopped[o]
    /\ stopped' = [stopped EXCEPT ![o] = TRUE]
    /\ UNCHANGED <<durable, pc, call, answer, observed>>

(* The owner's process dies and comes back with nothing in memory. *)
Crash(o) ==
    /\ pc[o] \notin {"idle", "done"}
    /\ pc' = [pc EXCEPT ![o] = "idle"]
    /\ call' = [call EXCEPT ![o] = NoCall]
    /\ answer' = [answer EXCEPT ![o] = "unset"]
    /\ stopped' = [stopped EXCEPT ![o] = FALSE]
    /\ UNCHANGED <<durable, observed>>

Step(o) ==
    \/ \E c \in Calls : Execute(o, c)
    \/ LoadJournal(o)
    \/ LoadLegacy(o)
    \/ CreatePlanned(o)
    \/ ReloadJournal(o)
    \/ Dispatch(o)
    \/ Claim(o)
    \/ Replay(o)
    \/ PutStarted(o)
    \/ Enter(o)
    \/ Return(o)
    \/ PutCommitted(o)
    \/ Stop(o)
    \/ Crash(o)

Next == \E o \in Owners : Step(o)

Spec == Init /\ [][Next]_vars

-----------------------------------------------------------------------------
(* Write-ahead: a callback entered at any time, by any owner, is at most   *)
(* the first entry of its identity, and its record already says so:        *)
(* whoever reads the journal after a crash finds started or committed and  *)
(* never dispatches again (execute_one's claim and started put, and        *)
(* prepare_journal's reading of the phases).                               *)
AtMostOneEntry ==
    \A c \in Calls :
        /\ entries[c] <= 1
        /\ entries[c] = 1 => phase[c] \in {"started", "committed"}

(* Agreement: every outcome any caller was ever given for an identity, by  *)
(* the owner that ran it or by a replay in another owner or another life,  *)
(* is the one outcome the journal holds, up to the replaying owner's       *)
(* smaller output limit; an outcome whose put failed is never given.       *)
AnswersAgree ==
    \A c \in Calls : \A a \in answers[c] :
        /\ phase[c] = "committed"
        /\ a = stored[c] \/ (a = "output_limit" /\ stored[c] = "long")

(* A record written under a legacy turn key is never repeated: its effect  *)
(* is not entered under the new key (prepare_journal's EBUSY).             *)
LegacyNeverRepeated ==
    \A c \in LegacyRecords : entries[c] = 0 /\ phase[c] = "absent"

Rank(p) ==
    CASE p = "absent" -> 0 [] p = "planned" -> 1
      [] p = "started" -> 2 [] p = "committed" -> 3

(* No step of any owner moves a record backwards, although started and     *)
(* committed are plain puts that overwrite whatever is there, and no step  *)
(* changes what a committed record holds.                                  *)
RecordsOnlyAdvance ==
    [][\A c \in Calls :
          /\ Rank(phase[c]) <= Rank(phase'[c])
          /\ phase[c] = "committed" => stored'[c] = stored[c]]_vars

(* The journal implements the at-most-once effect of EffectOnce; an answer *)
(* cut down to OUTPUT_LIMIT by a replaying owner stands for the stored one.*)
Effect == INSTANCE EffectOnce WITH
    entered <- {c \in Calls : entries[c] > 0},
    published <- stored,
    answers <- [c \in Calls |->
                  {IF a = "output_limit" THEN stored[c] ELSE a : a \in answers[c]}]

(* Refinement: every behaviour of the owners, crashes and store errors     *)
(* included, is a behaviour of the abstract at-most-once effect.           *)
ImplementsEffectOnce == Effect!Spec

\* What the journal promises every owner at once: one entry per call, answers that agree with
\* it, and no legacy result run again (turbo_agent_tool_execute_one).
JournalSafe == AtMostOneEntry /\ AnswersAgree /\ LegacyNeverRepeated
=============================================================================
