-------------------------- MODULE ToolJournalProofs --------------------------
(***************************************************************************)
(* Proofs, for any number of owners, calls, crashes and retries, of the    *)
(* journal's safety properties and of its refinement of EffectOnce.        *)
(***************************************************************************)
EXTENDS ToolJournal, TLAPS

(* An owner past the fence: it holds the claim of its call. *)
Fenced == {"start", "enter", "running", "commit"}

(* What an owner may rely on about the record of the call it works on. *)
OwnerOK(o) ==
    /\ pc[o] # "idle" => call[o] \in Calls
    /\ pc[o] \in {"dispatch", "claim", "replay"} => phase[call[o]] # "absent"
    /\ pc[o] \in {"create", "reload"} => call[o] \notin LegacyRecords
    /\ pc[o] \in Fenced => call[o] \in claimed
    /\ pc[o] = "start" => phase[call[o]] = "planned"
    /\ pc[o] \in {"enter", "running", "commit"} => phase[call[o]] = "started"
    /\ pc[o] = "enter" => entries[call[o]] = 0
    /\ pc[o] \in {"running", "commit"} => entries[call[o]] = 1
    /\ pc[o] = "commit" => answer[o] \in Outcomes

(* No two owners are past the fence of the same call. *)
Exclusive ==
    \A o, p \in Owners :
        o # p /\ pc[o] \in Fenced /\ pc[p] \in Fenced => call[o] # call[p]

(* What a record says about claim, entries, outcome and answers. *)
RecordOK(c) ==
    /\ c \notin claimed => phase[c] \in {"absent", "planned"}
    /\ c \in claimed => phase[c] # "absent"
    /\ phase[c] \in {"absent", "planned"} => entries[c] = 0
    /\ entries[c] <= 1
    /\ phase[c] = "committed" => stored[c] \in Outcomes /\ entries[c] = 1
    /\ phase[c] # "committed" => stored[c] = NoOutcome /\ answers[c] = {}
    /\ c \in LegacyRecords => phase[c] = "absent"
    /\ \A a \in answers[c] :
          a = stored[c] \/ (a = "output_limit" /\ stored[c] = "long")

(* The inductive invariant.  The safety properties are not inductive       *)
(* alone: they need to know that the record of a fenced owner's call is in *)
(* the phase that owner last wrote, and that no two owners are fenced on   *)
(* the same call.                                                          *)
Inv ==
    /\ TypeOK
    /\ \A o \in Owners : OwnerOK(o)
    /\ Exclusive
    /\ \A c \in Calls : RecordOK(c)

(* The initial state satisfies the invariant. *)
LEMMA InitInv == Init => Inv
<1> SUFFICES ASSUME Init PROVE Inv
  BY Zenon
<1>1. TypeOK
  <2>1. phase \in [Calls -> Phases] /\ stored \in [Calls -> Outcomes \union {NoOutcome}]
    BY Zenon DEF Init, Phases, NoOutcome
  <2>2. claimed \subseteq Calls /\ pc \in [Owners -> Steps]
    BY Zenon DEF Init, Steps
  <2>3. call \in [Owners -> Calls \union {NoCall}]
    BY Zenon DEF Init
  <2>4. answer \in [Owners -> Outcomes \union Dispositions]
    BY Zenon DEF Init, Dispositions
  <2>5. stopped \in [Owners -> BOOLEAN]
    BY Zenon DEF Init
  <2>6. tries \in [Owners -> 0..MaxTries] /\ entries \in [Calls -> Nat]
    BY JournalConstants DEF Init
  <2>7. answers \in [Calls -> SUBSET Outcomes]
    BY Zenon DEF Init
  <2> QED
    BY Zenon, <2>1, <2>2, <2>3, <2>4, <2>5, <2>6, <2>7 DEF TypeOK
<1>2. \A o \in Owners : OwnerOK(o)
  BY DEF Init, OwnerOK, Fenced
<1>3. Exclusive
  BY Zenon DEF Init, Exclusive, Fenced
<1>4. \A c \in Calls : RecordOK(c)
  BY DEF Init, RecordOK, NoOutcome
<1> QED
  BY Zenon, <1>1, <1>2, <1>3, <1>4 DEF Inv

(* A call that is over leaves the owner's variables and the answers typed. *)
LEMMA FinishType ==
  ASSUME TypeOK, NEW o \in Owners, call[o] \in Calls,
         NEW a \in Outcomes \union Dispositions, Finish(o, a)
  PROVE  /\ pc' \in [Owners -> Steps]
         /\ answer' \in [Owners -> Outcomes \union Dispositions]
         /\ answers' \in [Calls -> SUBSET Outcomes]
<1>1. pc' \in [Owners -> Steps] /\ answer' \in [Owners -> Outcomes \union Dispositions]
  BY Zenon DEF Finish, Goto, TypeOK, Steps
<1>2. answers' \in [Calls -> SUBSET Outcomes]
  BY Zenon DEF Finish, TypeOK
<1> QED
  BY Zenon, <1>1, <1>2

(* Every step of every owner preserves the invariant. *)
LEMMA NextInv == Inv /\ [Next]_vars => Inv'
<1> SUFFICES ASSUME Inv, [Next]_vars PROVE Inv'
  BY Zenon
<1> USE JournalConstants DEF durable, observed
<1>0. CASE UNCHANGED vars
  BY <1>0 DEF vars, owner, Inv, TypeOK, OwnerOK, Exclusive, RecordOK
<1>1. ASSUME NEW o \in Owners, NEW c \in Calls, Execute(o, c) PROVE Inv'
  <2>1. TypeOK'
    <3>1. tries' \in [Owners -> 0..MaxTries]
      BY <1>1 DEF Execute, Inv, TypeOK
    <3>2. /\ call' \in [Owners -> Calls \union {NoCall}]
          /\ answer' \in [Owners -> Outcomes \union Dispositions]
          /\ pc' \in [Owners -> Steps]
      BY Zenon, <1>1 DEF Execute, Goto, Inv, TypeOK, Steps, Dispositions
    <3> QED
      BY Zenon, <1>1, <3>1, <3>2 DEF Execute, Inv, TypeOK
  <2>2. \A p \in Owners : OwnerOK(p)'
    BY <1>1 DEF Execute, Goto, Inv, TypeOK, OwnerOK, Exclusive, RecordOK, Fenced,
           Outcomes, Steps
  <2>3. Exclusive'
    BY <1>1 DEF Execute, Goto, Inv, TypeOK, OwnerOK, Exclusive, RecordOK, Fenced, Steps
  <2>4. \A d \in Calls : RecordOK(d)'
    BY Zenon, <1>1 DEF Execute, Goto, Inv, TypeOK, OwnerOK, RecordOK, Fenced, Outcomes,
           NoOutcome, Phases, Dispositions
  <2> QED
    BY Zenon, <2>1, <2>2, <2>3, <2>4 DEF Inv
<1>2. ASSUME NEW o \in Owners, LoadJournal(o) PROVE Inv'
  <2>1. TypeOK'
    <3>1. TypeOK /\ call[o] \in Calls
      BY Zenon, <1>2 DEF LoadJournal, Inv, OwnerOK
    <3>2. /\ pc' \in [Owners -> Steps]
          /\ answer' \in [Owners -> Outcomes \union Dispositions]
          /\ answers' \in [Calls -> SUBSET Outcomes]
      BY <1>2, <3>1, FinishType DEF LoadJournal, Disposition, Replayed, Goto, Inv,
             RecordOK, TypeOK, Steps, Outcomes, Dispositions
    <3> QED
      BY Zenon, <1>2, <3>1, <3>2 DEF LoadJournal, TypeOK, Phases, Outcomes
  <2>2. \A p \in Owners : OwnerOK(p)'
    BY <1>2 DEF LoadJournal, Disposition, Finish, Goto, Replayed, Inv, TypeOK, OwnerOK,
           Exclusive, RecordOK, Fenced, Outcomes, Steps
  <2>3. Exclusive'
    BY <1>2 DEF LoadJournal, Disposition, Finish, Goto, Replayed, Inv, TypeOK, OwnerOK,
           Exclusive, RecordOK, Fenced, Steps
  <2>4. \A c \in Calls : RecordOK(c)'
    BY <1>2 DEF LoadJournal, Disposition, Finish, Goto, Replayed, Inv, TypeOK, OwnerOK,
           RecordOK, Fenced, Outcomes, NoOutcome, Phases, Dispositions
  <2> QED
    BY Zenon, <2>1, <2>2, <2>3, <2>4 DEF Inv
<1>3. ASSUME NEW o \in Owners, LoadLegacy(o) PROVE Inv'
  <2>1. TypeOK'
    <3>1. TypeOK /\ call[o] \in Calls
      BY Zenon, <1>3 DEF LoadLegacy, Inv, OwnerOK
    <3>2. /\ pc' \in [Owners -> Steps]
          /\ answer' \in [Owners -> Outcomes \union Dispositions]
          /\ answers' \in [Calls -> SUBSET Outcomes]
      <4>1. CASE Finish(o, "rejected")
        BY Zenon, <3>1, <4>1, FinishType DEF Dispositions
      <4>2. CASE Goto(o, "create") /\ UNCHANGED <<answer, answers>>
        BY Zenon, <3>1, <4>2 DEF Goto, TypeOK, Steps
      <4> QED
        BY Zenon, <1>3, <4>1, <4>2 DEF LoadLegacy
    <3> QED
      BY Zenon, <1>3, <3>1, <3>2 DEF LoadLegacy, durable, TypeOK
  <2>2. \A p \in Owners : OwnerOK(p)'
    BY <1>3 DEF LoadLegacy, Finish, Goto, Inv, TypeOK, OwnerOK, Exclusive, RecordOK,
           Fenced, Outcomes, Steps
  <2>3. Exclusive'
    BY <1>3 DEF LoadLegacy, Finish, Goto, Inv, TypeOK, OwnerOK, Exclusive, RecordOK,
           Fenced, Steps
  <2>4. \A c \in Calls : RecordOK(c)'
    BY <1>3 DEF LoadLegacy, Finish, Goto, Inv, TypeOK, OwnerOK, RecordOK, Fenced,
           Outcomes, NoOutcome, Phases, Dispositions
  <2> QED
    BY Zenon, <2>1, <2>2, <2>3, <2>4 DEF Inv
<1>4. ASSUME NEW o \in Owners, CreatePlanned(o) PROVE Inv'
  <2>1. TypeOK'
    <3>1. UNCHANGED <<stored, claimed, call, stopped, tries, entries>>
      BY Zenon, <1>4 DEF CreatePlanned
    <3>2. phase' \in [Calls -> Phases]
      BY Zenon, <1>4 DEF CreatePlanned, Inv, TypeOK, Phases
    <3>3. Finish(o, "rejected") \/ ((Goto(o, "dispatch") \/ Goto(o, "reload"))
                                   /\ UNCHANGED <<answer, answers>>)
      BY Zenon, <1>4 DEF CreatePlanned
    <3>4. pc' \in [Owners -> Steps]
      BY Zenon, <3>3 DEF Finish, Goto, Inv, TypeOK, Steps
    <3>5. answer' \in [Owners -> Outcomes \union Dispositions]
      BY Zenon, <3>3 DEF Finish, Inv, TypeOK, Dispositions
    <3>6. answers' \in [Calls -> SUBSET Outcomes]
      BY Zenon, <3>3 DEF Finish, Inv, TypeOK, Outcomes
    <3> QED
      BY Zenon, <3>1, <3>2, <3>4, <3>5, <3>6 DEF Inv, TypeOK
  <2>2. \A p \in Owners : OwnerOK(p)'
    BY <1>4 DEF CreatePlanned, Finish, Goto, Inv, TypeOK, OwnerOK, Exclusive, RecordOK,
           Fenced, Outcomes, Steps
  <2>3. Exclusive'
    BY <1>4 DEF CreatePlanned, Finish, Goto, Inv, TypeOK, OwnerOK, Exclusive, RecordOK,
           Fenced, Steps
  <2>4. \A c \in Calls : RecordOK(c)'
    BY <1>4 DEF CreatePlanned, Finish, Goto, Inv, TypeOK, OwnerOK, RecordOK, Fenced,
           Outcomes, NoOutcome, Phases, Dispositions
  <2> QED
    BY Zenon, <2>1, <2>2, <2>3, <2>4 DEF Inv
<1>5. ASSUME NEW o \in Owners, ReloadJournal(o) PROVE Inv'
  <2>1. TypeOK'
    <3>1. TypeOK /\ call[o] \in Calls
      BY Zenon, <1>5 DEF ReloadJournal, Inv, OwnerOK
    <3>2. /\ pc' \in [Owners -> Steps]
          /\ answer' \in [Owners -> Outcomes \union Dispositions]
          /\ answers' \in [Calls -> SUBSET Outcomes]
      BY ZenonT(60), <1>5, <3>1, FinishType DEF ReloadJournal, Disposition, Replayed, Goto, Inv,
             RecordOK, TypeOK, Steps, Outcomes, Dispositions
    <3> QED
      BY Zenon, <1>5, <3>1, <3>2 DEF ReloadJournal, TypeOK, Phases, Outcomes
  <2>2. \A p \in Owners : OwnerOK(p)'
    BY <1>5 DEF ReloadJournal, Disposition, Finish, Goto, Replayed, Inv, TypeOK,
           OwnerOK, Exclusive, RecordOK, Fenced, Outcomes, Steps
  <2>3. Exclusive'
    BY <1>5 DEF ReloadJournal, Disposition, Finish, Goto, Replayed, Inv, TypeOK,
           OwnerOK, Exclusive, RecordOK, Fenced, Steps
  <2>4. \A c \in Calls : RecordOK(c)'
    BY <1>5 DEF ReloadJournal, Disposition, Finish, Goto, Replayed, Inv, TypeOK,
           OwnerOK, RecordOK, Fenced, Outcomes, NoOutcome, Phases, Dispositions
  <2> QED
    BY Zenon, <2>1, <2>2, <2>3, <2>4 DEF Inv
<1>6. ASSUME NEW o \in Owners, Dispatch(o) PROVE Inv'
  <2>1. TypeOK'
    <3>1. TypeOK /\ call[o] \in Calls
      BY Zenon, <1>6 DEF Dispatch, Inv, OwnerOK
    <3>2. /\ pc' \in [Owners -> Steps]
          /\ answer' \in [Owners -> Outcomes \union Dispositions]
          /\ answers' \in [Calls -> SUBSET Outcomes]
      <4>1. CASE Finish(o, "cancelled") \/ Finish(o, "error")
        BY Zenon, <3>1, <4>1, FinishType DEF Dispositions
      <4>2. CASE Goto(o, "claim") /\ UNCHANGED <<answer, answers>>
        BY Zenon, <3>1, <4>2 DEF Goto, TypeOK, Steps
      <4> QED
        BY Zenon, <1>6, <4>1, <4>2 DEF Dispatch
    <3> QED
      BY Zenon, <1>6, <3>1, <3>2 DEF Dispatch, durable, TypeOK
  <2>2. \A p \in Owners : OwnerOK(p)'
    BY <1>6 DEF Dispatch, Finish, Goto, Inv, TypeOK, OwnerOK, Exclusive, RecordOK,
           Fenced, Outcomes, Steps
  <2>3. Exclusive'
    BY <1>6 DEF Dispatch, Finish, Goto, Inv, TypeOK, OwnerOK, Exclusive, RecordOK,
           Fenced, Steps
  <2>4. \A c \in Calls : RecordOK(c)'
    BY <1>6 DEF Dispatch, Finish, Goto, Inv, TypeOK, OwnerOK, RecordOK, Fenced,
           Outcomes, NoOutcome, Phases, Dispositions
  <2> QED
    BY Zenon, <2>1, <2>2, <2>3, <2>4 DEF Inv
<1>7. ASSUME NEW o \in Owners, Claim(o) PROVE Inv'
  <2>1. TypeOK'
    <3>1. TypeOK /\ call[o] \in Calls
      BY Zenon, <1>7 DEF Claim, Inv, OwnerOK
    <3>2. /\ pc' \in [Owners -> Steps]
          /\ answer' \in [Owners -> Outcomes \union Dispositions]
          /\ answers' \in [Calls -> SUBSET Outcomes]
      BY Zenon, <1>7, <3>1, FinishType DEF Claim, Goto, Inv, TypeOK, Steps, Outcomes, Dispositions
    <3> QED
      BY Zenon, <1>7, <3>1, <3>2 DEF Claim, TypeOK, Phases, Outcomes
  <2>2. \A p \in Owners : OwnerOK(p)'
    BY <1>7 DEF Claim, Finish, Goto, Inv, TypeOK, OwnerOK, Exclusive, RecordOK, Fenced,
           Outcomes, Steps
  <2>3. Exclusive'
    BY <1>7 DEF Claim, Finish, Goto, Inv, TypeOK, OwnerOK, Exclusive, RecordOK, Fenced,
           Steps
  <2>4. \A c \in Calls : RecordOK(c)'
    BY <1>7 DEF Claim, Finish, Goto, Inv, TypeOK, OwnerOK, RecordOK, Fenced, Outcomes,
           NoOutcome, Phases, Dispositions
  <2> QED
    BY Zenon, <2>1, <2>2, <2>3, <2>4 DEF Inv
<1>8. ASSUME NEW o \in Owners, Replay(o) PROVE Inv'
  <2>1. TypeOK'
    <3>1. TypeOK /\ call[o] \in Calls
      BY Zenon, <1>8 DEF Replay, Inv, OwnerOK
    <3>2. /\ pc' \in [Owners -> Steps]
          /\ answer' \in [Owners -> Outcomes \union Dispositions]
          /\ answers' \in [Calls -> SUBSET Outcomes]
      BY Zenon, <1>8, <3>1, FinishType DEF Replay, Replayed, Goto, Inv, RecordOK, TypeOK,
             Steps, Outcomes, Dispositions
    <3> QED
      BY Zenon, <1>8, <3>1, <3>2 DEF Replay, TypeOK, Phases, Outcomes
  <2>2. \A p \in Owners : OwnerOK(p)'
    BY <1>8 DEF Replay, Finish, Goto, Replayed, Inv, TypeOK, OwnerOK, Exclusive,
           RecordOK, Fenced, Outcomes, Steps
  <2>3. Exclusive'
    BY <1>8 DEF Replay, Finish, Goto, Replayed, Inv, TypeOK, OwnerOK, Exclusive,
           RecordOK, Fenced, Steps
  <2>4. \A c \in Calls : RecordOK(c)'
    BY <1>8 DEF Replay, Finish, Goto, Replayed, Inv, TypeOK, OwnerOK, RecordOK, Fenced,
           Outcomes, NoOutcome, Phases, Dispositions
  <2> QED
    BY Zenon, <2>1, <2>2, <2>3, <2>4 DEF Inv
<1>9. ASSUME NEW o \in Owners, PutStarted(o) PROVE Inv'
  <2>1. TypeOK'
    <3>1. TypeOK /\ call[o] \in Calls
      BY Zenon, <1>9 DEF PutStarted, Inv, OwnerOK
    <3>2. /\ pc' \in [Owners -> Steps]
          /\ answer' \in [Owners -> Outcomes \union Dispositions]
          /\ answers' \in [Calls -> SUBSET Outcomes]
      <4>1. CASE Finish(o, "unknown")
        BY Zenon, <3>1, <4>1, FinishType DEF Dispositions
      <4>2. CASE Goto(o, "enter") /\ UNCHANGED <<answer, answers>>
        BY Zenon, <3>1, <4>2 DEF Goto, TypeOK, Steps
      <4> QED
        BY Zenon, <1>9, <4>1, <4>2 DEF PutStarted
    <3> QED
      BY Zenon, <1>9, <3>1, <3>2 DEF PutStarted, Phases, TypeOK
  <2>2. \A p \in Owners : OwnerOK(p)'
    BY <1>9 DEF PutStarted, Finish, Goto, Inv, TypeOK, OwnerOK, Exclusive, RecordOK,
           Fenced, Outcomes, Steps
  <2>3. Exclusive'
    BY <1>9 DEF PutStarted, Finish, Goto, Inv, TypeOK, OwnerOK, Exclusive, RecordOK,
           Fenced, Steps
  <2>4. \A c \in Calls : RecordOK(c)'
    BY <1>9 DEF PutStarted, Finish, Goto, Inv, TypeOK, OwnerOK, RecordOK, Fenced,
           Outcomes, NoOutcome, Phases, Dispositions
  <2> QED
    BY Zenon, <2>1, <2>2, <2>3, <2>4 DEF Inv
<1>10. ASSUME NEW o \in Owners, Enter(o) PROVE Inv'
  <2>1. TypeOK'
    <3>1. entries' \in [Calls -> Nat] /\ pc' \in [Owners -> Steps]
      BY <1>10 DEF Enter, Goto, Inv, TypeOK, OwnerOK, Steps
    <3> QED
      BY Zenon, <1>10, <3>1 DEF Enter, Inv, TypeOK
  <2>2. \A p \in Owners : OwnerOK(p)'
    BY <1>10 DEF Enter, Goto, Inv, TypeOK, OwnerOK, Exclusive, RecordOK, Fenced,
           Outcomes, Steps
  <2>3. Exclusive'
    BY <1>10 DEF Enter, Goto, Inv, TypeOK, OwnerOK, Exclusive, RecordOK, Fenced, Steps
  <2>4. \A c \in Calls : RecordOK(c)'
    BY <1>10 DEF Enter, Goto, Inv, TypeOK, OwnerOK, RecordOK, Fenced, Outcomes,
           NoOutcome, Phases, Dispositions
  <2> QED
    BY Zenon, <2>1, <2>2, <2>3, <2>4 DEF Inv
<1>11. ASSUME NEW o \in Owners, Return(o) PROVE Inv'
  <2>1. TypeOK'
    <3>1. answer' \in [Owners -> Outcomes \union Dispositions] /\ pc' \in [Owners -> Steps]
      BY Zenon, <1>11 DEF Return, Replayed, Goto, Inv, TypeOK, Steps, Outcomes
    <3> QED
      BY Zenon, <1>11, <3>1 DEF Return, Inv, TypeOK
  <2>2. \A p \in Owners : OwnerOK(p)'
    BY <1>11 DEF Return, Goto, Replayed, Inv, TypeOK, OwnerOK, Exclusive, RecordOK,
           Fenced, Outcomes, Steps
  <2>3. Exclusive'
    BY <1>11 DEF Return, Goto, Replayed, Inv, TypeOK, OwnerOK, Exclusive, RecordOK,
           Fenced, Steps
  <2>4. \A c \in Calls : RecordOK(c)'
    BY Zenon, <1>11 DEF Return, Goto, Replayed, Inv, TypeOK, OwnerOK, RecordOK, Fenced,
           Outcomes, NoOutcome, Phases, Dispositions
  <2> QED
    BY Zenon, <2>1, <2>2, <2>3, <2>4 DEF Inv
<1>12. ASSUME NEW o \in Owners, PutCommitted(o) PROVE Inv'
  <2>1. TypeOK'
    <3>1. TypeOK /\ call[o] \in Calls
      BY Zenon, <1>12 DEF PutCommitted, Inv, OwnerOK
    <3>2. /\ pc' \in [Owners -> Steps]
          /\ answer' \in [Owners -> Outcomes \union Dispositions]
          /\ answers' \in [Calls -> SUBSET Outcomes]
      BY Zenon, <1>12, <3>1, FinishType DEF PutCommitted, Goto, Inv, OwnerOK, TypeOK, Steps,
             Outcomes, Dispositions
    <3> QED
      BY Zenon, <1>12, <3>1, <3>2 DEF PutCommitted, Inv, OwnerOK, TypeOK, Phases, Outcomes
  <2>2. \A p \in Owners : OwnerOK(p)'
    BY <1>12 DEF PutCommitted, Finish, Goto, Inv, TypeOK, OwnerOK, Exclusive, RecordOK,
           Fenced, Outcomes, Steps
  <2>3. Exclusive'
    BY <1>12 DEF PutCommitted, Finish, Goto, Inv, TypeOK, OwnerOK, Exclusive, RecordOK,
           Fenced, Steps
  <2>4. \A c \in Calls : RecordOK(c)'
    BY <1>12 DEF PutCommitted, Finish, Goto, Inv, TypeOK, OwnerOK, RecordOK, Fenced,
           Outcomes, NoOutcome, Phases, Dispositions
  <2> QED
    BY Zenon, <2>1, <2>2, <2>3, <2>4 DEF Inv
<1>13. ASSUME NEW o \in Owners, Stop(o) PROVE Inv'
  <2>1. TypeOK'
    BY <1>13 DEF Stop, Inv, TypeOK, Phases, Steps, Outcomes, Dispositions, NoOutcome, NoCall
  <2>2. \A p \in Owners : OwnerOK(p)'
    BY ZenonT(60), <1>13 DEF Stop, Inv, TypeOK, OwnerOK, Exclusive, RecordOK, Fenced, Outcomes, Steps
  <2>3. Exclusive'
    BY <1>13 DEF Stop, Inv, TypeOK, OwnerOK, Exclusive, RecordOK, Fenced, Steps
  <2>4. \A c \in Calls : RecordOK(c)'
    BY Zenon, <1>13 DEF Stop, Inv, TypeOK, OwnerOK, RecordOK, Fenced, Outcomes, NoOutcome,
           Phases, Dispositions
  <2> QED
    BY Zenon, <2>1, <2>2, <2>3, <2>4 DEF Inv
<1>14. ASSUME NEW o \in Owners, Crash(o) PROVE Inv'
  <2>1. TypeOK'
    BY <1>14 DEF Crash, Inv, TypeOK, Phases, Steps, Outcomes, Dispositions, NoOutcome,
           NoCall
  <2>2. \A p \in Owners : OwnerOK(p)'
    BY <1>14 DEF Crash, Inv, TypeOK, OwnerOK, Exclusive, RecordOK, Fenced, Outcomes, Steps
  <2>3. Exclusive'
    BY <1>14 DEF Crash, Inv, TypeOK, OwnerOK, Exclusive, RecordOK, Fenced, Steps
  <2>4. \A c \in Calls : RecordOK(c)'
    BY Zenon, <1>14 DEF Crash, Inv, TypeOK, OwnerOK, RecordOK, Fenced, Outcomes, NoOutcome,
           Phases, Dispositions
  <2> QED
    BY Zenon, <2>1, <2>2, <2>3, <2>4 DEF Inv
<1> QED
  BY Zenon, <1>0, <1>1, <1>2, <1>3, <1>4, <1>5, <1>6, <1>7, <1>8, <1>9, <1>10, <1>11, <1>12,
         <1>13, <1>14 DEF Next, Step

(* The invariant holds in every reachable state. *)
THEOREM Invariance == Spec => []Inv
  BY InitInv, NextInv, PTL DEF Spec

(* Every variable keeps its type, whatever the owners, crashes and store   *)
(* errors do.                                                              *)
THEOREM TypeCorrect == Spec => []TypeOK
<1>1. Inv => TypeOK
  BY Zenon DEF Inv
<1> QED
  BY <1>1, Invariance, PTL

(* The callback of a tool-call identity is entered at most once, and only  *)
(* behind a durable started record: execute_one's claim, then its put.     *)
THEOREM EnteredAtMostOnce == Spec => []AtMostOneEntry
<1>1. Inv => AtMostOneEntry
  BY DEF Inv, RecordOK, AtMostOneEntry, TypeOK, Phases
<1> QED
  BY <1>1, Invariance, PTL

(* Every outcome given to any caller is the durable one, up to the output  *)
(* limit of a replaying owner.                                             *)
THEOREM OneOutcome == Spec => []AnswersAgree
<1>1. Inv => AnswersAgree
  BY Zenon DEF Inv, RecordOK, AnswersAgree, TypeOK
<1> QED
  BY <1>1, Invariance, PTL

(* An effect recorded under a legacy key is never entered again. *)
THEOREM LegacySafe == Spec => []LegacyNeverRepeated
<1>1. Inv => LegacyNeverRepeated
  BY Zenon, JournalConstants DEF Inv, RecordOK, LegacyNeverRepeated, TypeOK
<1> QED
  BY <1>1, Invariance, PTL

(* What the journal promises every owner at once: at most one entry per    *)
(* call, answers that agree with the record, and no legacy result run      *)
(* again (turbo_agent_tool_execute_one), whatever the owners, crashes and  *)
(* retries.                                                                *)
THEOREM JournalSafety == Spec => []JournalSafe
BY EnteredAtMostOnce, OneOutcome, LegacySafe, PTL DEF JournalSafe

(* One step of Next moves no record back and rewrites no committed one: a  *)
(* plain put only ever follows the phase its owner wrote before.           *)
LEMMA StepAdvances ==
  ASSUME Inv, [Next]_vars, NEW c \in Calls
  PROVE  /\ Rank(phase[c]) <= Rank(phase'[c])
         /\ phase[c] = "committed" => stored'[c] = stored[c]
<1> USE DEF durable, observed
<1>1. phase[c] \in Phases /\ stored[c] \in Outcomes \union {NoOutcome}
  BY Zenon DEF Inv, TypeOK
<1>2. CASE UNCHANGED <<phase, stored>>
  BY <1>1, <1>2 DEF Rank, Phases
<1>3. ASSUME NEW o \in Owners, CreatePlanned(o)
      PROVE  stored' = stored /\ (phase'[c] = phase[c] \/ (phase[c] = "absent" /\ phase'[c] = "planned"))
  BY Zenon, <1>3 DEF CreatePlanned, Inv, TypeOK
<1>4. ASSUME NEW o \in Owners, PutStarted(o)
      PROVE  stored' = stored /\ (phase'[c] = phase[c] \/ (phase[c] = "planned" /\ phase'[c] = "started"))
  BY Zenon, <1>4 DEF PutStarted, Inv, TypeOK, OwnerOK
<1>5. ASSUME NEW o \in Owners, PutCommitted(o)
      PROVE  \/ phase'[c] = phase[c] /\ stored'[c] = stored[c]
             \/ phase[c] = "started" /\ phase'[c] = "committed"
  BY Zenon, <1>5 DEF PutCommitted, Inv, TypeOK, OwnerOK
<1>6. \/ UNCHANGED <<phase, stored>>
      \/ \E o \in Owners : CreatePlanned(o) \/ PutStarted(o) \/ PutCommitted(o)
  BY ZenonT(30) DEF Next, Step, vars, Execute, LoadJournal, LoadLegacy, ReloadJournal, Dispatch,
         Claim, Replay, Enter, Return, Stop, Crash
<1> QED
  BY <1>1, <1>2, <1>3, <1>4, <1>5, <1>6 DEF Rank, Phases

(* Records only move forward, although started and committed are written   *)
(* with puts that overwrite.                                               *)
THEOREM Advance == Spec => RecordsOnlyAdvance
<1>1. Inv /\ [Next]_vars =>
        [\A c \in Calls :
            /\ Rank(phase[c]) <= Rank(phase'[c])
            /\ phase[c] = "committed" => stored'[c] = stored[c]]_vars
  BY Zenon, StepAdvances
<1> QED
  BY <1>1, Invariance, PTL DEF Spec, RecordsOnlyAdvance

-----------------------------------------------------------------------------
(* The refinement mapping of Effect, by name. *)
Entered == {c \in Calls : entries[c] > 0}
Given == [c \in Calls |->
             {IF a = "output_limit" THEN stored[c] ELSE a : a \in answers[c]}]

(* An answer read from a committed record is an abstract answer. *)
LEMMA FinishAnswers ==
  ASSUME Inv, NEW o \in Owners, NEW c \in Calls, c = call[o], phase[c] = "committed",
         Finish(o, Replayed(o, stored[c])), UNCHANGED <<stored, entries>>
  PROVE  Effect!Answer(c)
<1>1. stored[c] \in Outcomes /\ stored[c] # NoOutcome
  BY Zenon DEF Inv, RecordOK, Outcomes, NoOutcome
<1>2. answers' = [answers EXCEPT ![c] = @ \union {Replayed(o, stored[c])}]
  BY Zenon, <1>1 DEF Finish, Replayed, Outcomes
<1>3. answers'[c] = answers[c] \union {Replayed(o, stored[c])}
      /\ \A d \in Calls : d # c => answers'[d] = answers[d]
  BY Zenon, <1>2 DEF Inv, TypeOK
<1>4. Given' = [Given EXCEPT ![c] = @ \union {stored[c]}]
  <2>1. \A d \in Calls : d # c => Given'[d] = Given[d]
    BY <1>3 DEF Given
  <2>2. Given'[c] = Given[c] \union {stored[c]}
    BY <1>3 DEF Given, Replayed
  <2> QED
    BY ZenonT(30), <2>1, <2>2 DEF Given
<1>5. Entered' = Entered
  BY Zenon DEF Entered
<1> QED
  BY Zenon, <1>1, <1>4, <1>5 DEF Effect!Answer, Given, Entered

(* The callback's entry is the abstract entry. *)
LEMMA EnterEnters ==
  ASSUME Inv, NEW o \in Owners, NEW c \in Calls, c = call[o], Enter(o)
  PROVE  Effect!Enter(c)
<1>1. c \in Calls /\ entries[c] = 0
  BY Zenon DEF Enter, Inv, OwnerOK
<1>2. entries'[c] = 1 /\ \A d \in Calls : d # c => entries'[d] = entries[d]
  BY <1>1 DEF Enter, Inv, TypeOK
<1>3. c \notin Entered /\ Entered' = Entered \union {c}
  BY <1>1, <1>2 DEF Entered
<1>4. UNCHANGED <<stored, Given>>
  BY Zenon DEF Enter, Given, durable
<1> QED
  BY Zenon, <1>1, <1>3, <1>4 DEF Effect!Enter, Entered, Given

(* A put of the committed record publishes, and may answer, or does        *)
(* neither.                                                                *)
LEMMA PutPublishes ==
  ASSUME Inv, NEW o \in Owners, NEW c \in Calls, c = call[o],
         NEW r \in Outcomes, r = answer[o], PutCommitted(o)
  PROVE  \/ Effect!Publish(c, r)
         \/ Effect!PublishAndAnswer(c, r)
         \/ UNCHANGED <<stored, entries, answers>>
<1>1. phase[c] = "started" /\ entries[c] = 1
  BY Zenon DEF PutCommitted, Inv, OwnerOK
<1>2. stored[c] = NoOutcome /\ answers[c] = {} /\ c \in Entered
  BY <1>1 DEF Inv, RecordOK, Entered
<1>3. Entered' = Entered
  BY Zenon DEF PutCommitted, Entered
<1>4. CASE stored' = stored /\ Finish(o, "unknown")
  BY Zenon, <1>1, <1>4 DEF Finish, Outcomes, PutCommitted
<1>5. CASE stored' = [stored EXCEPT ![c] = r] /\ Finish(o, "unknown")
  <2>1. answers' = answers
    BY Zenon, <1>5 DEF Finish, Outcomes
  <2>2. \A d \in Calls : d # c => stored'[d] = stored[d]
    BY Zenon, <1>5 DEF Inv, TypeOK
  <2>3. Given' = Given
    BY <2>1, <2>2, <1>2 DEF Given
  <2> QED
    BY Zenon, <1>1, <1>2, <1>3, <1>5, <2>3 DEF Effect!Publish, Entered, Given
<1>6. CASE stored' = [stored EXCEPT ![c] = r] /\ Finish(o, r)
  <2>1. answers' = [answers EXCEPT ![c] = @ \union {r}]
    BY Zenon, <1>1, <1>6 DEF Finish
  <2>2. /\ stored'[c] = r /\ answers'[c] = {r}
        /\ \A d \in Calls : d # c => stored'[d] = stored[d] /\ answers'[d] = answers[d]
    BY Zenon, <1>1, <1>2, <1>6, <2>1 DEF Inv, TypeOK
  <2>3. Given[c] = {} /\ Given'[c] = {r}
    BY <1>1, <1>2, <2>2 DEF Given
  <2>4. \A d \in Calls : d # c => Given'[d] = Given[d]
    BY <2>2 DEF Given
  <2>5. Given' = [Given EXCEPT ![c] = @ \union {r}]
    BY ZenonT(30), <2>3, <2>4 DEF Given
  <2> QED
    BY Zenon, <1>1, <1>2, <1>3, <1>6, <2>5 DEF Effect!PublishAndAnswer, Entered, Given
<1> QED
  BY Zenon, <1>1, <1>4, <1>5, <1>6 DEF PutCommitted

(* Every other step of an owner leaves the abstract state alone or answers *)
(* from a committed record.                                                *)
LEMMA OtherSteps ==
  ASSUME Inv, NEW o \in Owners, Step(o), ~Enter(o), ~PutCommitted(o)
  PROVE  \/ UNCHANGED <<stored, entries, answers>>
         \/ /\ call[o] \in Calls /\ phase[call[o]] = "committed"
            /\ Finish(o, Replayed(o, stored[call[o]])) /\ UNCHANGED <<stored, entries>>
<1> USE DEF durable, observed
<1>1. \A a \in Dispositions : Finish(o, a) => UNCHANGED answers
  BY Zenon DEF Finish, Outcomes, Dispositions
<1>2. Finish(o, "unknown") \/ Finish(o, "rejected") \/ Finish(o, "cancelled") \/ Finish(o, "error")
      => UNCHANGED answers
  BY Zenon, <1>1 DEF Dispositions
<1>3. pc[o] # "idle" => call[o] \in Calls
  BY Zenon DEF Inv, OwnerOK
<1>4. CASE LoadJournal(o) \/ ReloadJournal(o) \/ Replay(o)
  BY Zenon, <1>2, <1>3, <1>4 DEF LoadJournal, ReloadJournal, Replay, Disposition
<1>5. CASE \/ \E c \in Calls : Execute(o, c)
           \/ LoadLegacy(o) \/ CreatePlanned(o) \/ Dispatch(o) \/ Claim(o)
           \/ PutStarted(o) \/ Return(o) \/ Stop(o) \/ Crash(o)
  BY ZenonT(30), <1>2, <1>5 DEF Execute, LoadLegacy, CreatePlanned, Dispatch, Claim, PutStarted,
                    Return, Stop, Crash
<1> QED
  BY Zenon, <1>4, <1>5 DEF Step

(* Refinement: the journal, with any number of owners, crashes and store   *)
(* errors, implements the at-most-once effect.                             *)
THEOREM Refinement == Spec => ImplementsEffectOnce
<1>1. Init => Effect!Init
  <2> SUFFICES ASSUME Init PROVE Effect!Init
    BY Zenon
  <2>1. Entered = {}
    BY DEF Init, Entered
  <2>2. Given = [c \in Calls |-> {}]
    BY Zenon DEF Init, Given
  <2> QED
    BY Zenon, <2>1, <2>2 DEF Init, Effect!Init, Entered, Given
<1>2. UNCHANGED <<stored, entries, answers>> => UNCHANGED Effect!vars
  BY Zenon DEF Effect!vars
<1>3. \A c \in Calls : Effect!Enter(c) \/ Effect!Answer(c) => Effect!Next
  BY Zenon DEF Effect!Next
<1>4. \A c \in Calls, r \in Outcomes :
         Effect!Publish(c, r) \/ Effect!PublishAndAnswer(c, r) => Effect!Next
  BY Zenon DEF Effect!Next
<1>5. Inv /\ [Next]_vars => [Effect!Next]_(Effect!vars)
  <2> SUFFICES ASSUME Inv, [Next]_vars PROVE [Effect!Next]_(Effect!vars)
    BY Zenon
  <2>1. CASE UNCHANGED vars
    BY Zenon, <1>2, <2>1 DEF vars, durable, observed
  <2>2. ASSUME NEW o \in Owners, Step(o) PROVE [Effect!Next]_(Effect!vars)
    <3>0. /\ pc[o] # "idle" => call[o] \in Calls
          /\ pc[o] = "commit" => answer[o] \in Outcomes
      BY Zenon DEF Inv, OwnerOK
    <3>1. CASE Enter(o)
      BY ZenonT(30), <1>3, <3>0, <3>1, EnterEnters DEF Enter
    <3>2. CASE PutCommitted(o)
      BY Zenon, <1>2, <1>4, <3>0, <3>2, PutPublishes DEF PutCommitted
    <3>3. CASE ~Enter(o) /\ ~PutCommitted(o)
      BY Zenon, <1>2, <2>2, <3>3, OtherSteps, FinishAnswers, <1>3
    <3> QED
      BY Zenon, <3>1, <3>2, <3>3
  <2> QED
    BY Zenon, <2>1, <2>2 DEF Next
<1> QED
  BY <1>1, <1>5, Invariance, PTL DEF Spec, ImplementsEffectOnce, Effect!Spec
=============================================================================
