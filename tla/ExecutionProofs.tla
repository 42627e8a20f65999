--------------------------- MODULE ExecutionProofs ---------------------------
(***************************************************************************)
(* Proofs about CancelToken, for any waiters, timeouts and deadline, and   *)
(* about Execution, for any clients of the handle.                         *)
(***************************************************************************)
EXTENDS Execution, FiniteSetTheorems, TLAPS

(* The inductive invariant of the token: types, and what a set reason      *)
(* rules out.                                                              *)
TokenInv == TokenTypeOK /\ DeadlineBeatsLateCancel /\ NoLostWakeUp

(* No waiter has called wait and no reason is set at the start. *)
LEMMA TokenInitHolds == TokenInit => TokenInv
BY TokenConstants DEF TokenInit, TokenInv, TokenTypeOK, DeadlineBeatsLateCancel, NoLostWakeUp,
   Reasons, UserReasons, None, WaitSteps, Asleep

(* A step that sets the reason keeps the invariant when it keeps a set     *)
(* reason, sets a user's reason before the deadline only, and leaves       *)
(* waiters asleep only when there is no reason.                            *)
LEMMA SetReasonKeeps ==
    ASSUME TokenInv, NEW r \in Reasons \union {None}, NEW waits \in [Waiters -> WaitSteps],
           reason # None => r = reason,
           r # reason /\ r \in UserReasons => ~Expired,
           \A w \in Waiters : waits[w] = Asleep => r = None,
           SetReason(r, waits)
    PROVE  TokenInv' /\ (reason # None => reason' = reason)
<1>1. TokenTypeOK'
  BY Zenon, TokenConstants DEF TokenInv, TokenTypeOK, SetReason
<1>2. DeadlineBeatsLateCancel'
  BY TokenConstants DEF TokenInv, TokenTypeOK, DeadlineBeatsLateCancel, SetReason, Expired,
     UserReasons, Reasons, None
<1>3. NoLostWakeUp'
  BY Zenon DEF NoLostWakeUp, SetReason
<1>4. QED BY Zenon, <1>1, <1>2, <1>3 DEF TokenInv, SetReason

(* The reason refresh_deadline_locked leaves: one that is set is kept, a   *)
(* user's is never made up, and none means the deadline has not passed.    *)
LEMMA RefreshedKeeps ==
    ASSUME TokenTypeOK
    PROVE  /\ Refreshed \in Reasons \union {None}
           /\ reason # None => Refreshed = reason
           /\ Refreshed # reason => Refreshed \notin UserReasons
           /\ Refreshed = None => ~Expired
BY Zenon DEF TokenTypeOK, Refreshed, Reasons, UserReasons, None

(* A broadcast leaves nobody asleep once there is a reason. *)
LEMMA WokenKeeps ==
    ASSUME TokenInv, NEW r \in Reasons \union {None}
    PROVE  /\ Woken(r) \in [Waiters -> WaitSteps]
           /\ \A w \in Waiters : Woken(r)[w] = Asleep => r = None
BY Zenon DEF TokenInv, TokenTypeOK, NoLostWakeUp, Woken, WaitSteps, Asleep

(* Every step preserves the invariant and keeps a reason that is set. *)
LEMMA TokenStepKeeps ==
    TokenInv /\ [TokenNext]_token => TokenInv' /\ (reason # None => reason' = reason)
<1> SUFFICES ASSUME TokenInv, [TokenNext]_token
             PROVE  TokenInv' /\ (reason # None => reason' = reason)
  BY Zenon
<1> TokenTypeOK BY Zenon DEF TokenInv
<1>1. CASE Tick
  BY <1>1, TokenConstants DEF Tick, TokenInv, TokenTypeOK, DeadlineBeatsLateCancel,
     NoLostWakeUp, waiting
<1>2. CASE Check
  BY Zenon, <1>2, RefreshedKeeps, WokenKeeps, SetReasonKeeps DEF Check
<1>3. CASE \E r \in Reasons : Cancel(r)
  <2> PICK r \in Reasons : Cancel(r) BY Zenon, <1>3
  <2> DEFINE new == IF Refreshed = None THEN r ELSE Refreshed
  <2>1. /\ new \in Reasons \union {None}
        /\ reason # None => new = reason
        /\ new # reason /\ new \in UserReasons => ~Expired
    BY Zenon, RefreshedKeeps
  <2>2. SetReason(new, Woken(new))
    BY Zenon DEF Cancel
  <2> HIDE DEF new
  <2>3. QED BY Zenon, <2>1, <2>2, WokenKeeps, SetReasonKeeps
<1>4. CASE \E w \in Waiters : EnterWait(w)
  <2> PICK w \in Waiters : EnterWait(w) BY Zenon, <1>4
  <2> DEFINE u == IF Timeout[w] = Infinite THEN Infinite ELSE now + Timeout[w]
  <2>1. u \in Nat \union {Infinite}
    <3>1. Timeout[w] \in Nat \union {Infinite} /\ now \in Nat
      BY TokenConstants DEF TokenTypeOK
    <3> QED BY <3>1
  <2>2. until' = [until EXCEPT ![w] = u] /\ wait' = [wait EXCEPT ![w] = "loop"]
    BY Zenon DEF EnterWait
  <2>3. UNCHANGED <<now, reason, setAt>>
    BY Zenon DEF EnterWait
  <2> HIDE DEF u
  <2>4. TokenTypeOK'
    BY Zenon, <2>1, <2>2, <2>3 DEF TokenTypeOK, WaitSteps
  <2>5. DeadlineBeatsLateCancel' /\ NoLostWakeUp'
    BY Zenon, <2>2, <2>3 DEF TokenInv, TokenTypeOK, DeadlineBeatsLateCancel, NoLostWakeUp, Asleep
  <2>6. QED BY Zenon, <2>3, <2>4, <2>5 DEF TokenInv
<1>5. CASE \E w \in Waiters : Loop(w)
  <2> PICK w \in Waiters : Loop(w) BY Zenon, <1>5
  <2> DEFINE s == IF Refreshed # None THEN "signaled"
                  ELSE IF CallerExpired(w) THEN "timeout" ELSE Asleep
             waits == [Woken(Refreshed) EXCEPT ![w] = s]
  <2>1. SetReason(Refreshed, waits)
    BY Zenon DEF Loop
  <2>2. s \in WaitSteps /\ (s = Asleep => Refreshed = None)
    BY Zenon DEF WaitSteps, Asleep
  <2>3. /\ waits \in [Waiters -> WaitSteps]
        /\ \A v \in Waiters : waits[v] = Asleep => Refreshed = None
    <3> HIDE DEF s
    <3> QED BY Zenon, <2>2, RefreshedKeeps, WokenKeeps
  <2> HIDE DEF waits
  <2>4. QED BY Zenon, <2>1, <2>3, RefreshedKeeps, SetReasonKeeps
<1>6. CASE \E w \in Waiters : WakeUp(w) \/ WakeUpEarly(w)
  BY Zenon, <1>6 DEF WakeUp, WakeUpEarly, TokenInv, TokenTypeOK, DeadlineBeatsLateCancel,
     NoLostWakeUp, WaitSteps, Asleep
<1>7. CASE UNCHANGED token
  BY Zenon, <1>7 DEF token, waiting, TokenInv, TokenTypeOK, DeadlineBeatsLateCancel, NoLostWakeUp
<1>8. QED BY Zenon, <1>1, <1>2, <1>3, <1>4, <1>5, <1>6, <1>7 DEF TokenNext

(* The invariant holds in every reachable state. *)
LEMMA TokenInvariance == TokenSpec => []TokenInv
BY TokenInitHolds, TokenStepKeeps, PTL DEF TokenSpec

(* Every variable of the cancellation state has its type. *)
THEOREM TokenTypes == TokenSpec => []TokenTypeOK
BY TokenInvariance, PTL DEF TokenInv

(* A cancel is accepted only before the deadline, for every deadline and   *)
(* however cancels, checks and waits interleave.                           *)
THEOREM NoLateCancel == TokenSpec => []DeadlineBeatsLateCancel
BY TokenInvariance, PTL DEF TokenInv

(* No waiter sleeps through a cancel or an expired deadline somebody       *)
(* noticed, for any number of waiters.                                     *)
THEOREM TokenWakeUps == TokenSpec => []NoLostWakeUp
BY TokenInvariance, PTL DEF TokenInv

(* The first reason wins. *)
THEOREM ReasonIsFinal == TokenSpec => FirstReasonWins
<1>1. TokenInv /\ [TokenNext]_token => [reason # None => reason' = reason]_token
  BY Zenon, TokenStepKeeps
<1>2. QED BY <1>1, TokenInvariance, PTL DEF TokenSpec, FirstReasonWins

-----------------------------------------------------------------------------
(* Where the submission is, who holds the handle and whether the worker    *)
(* has begun.                                                              *)
SubmitOK ==
    /\ submit \in {"new", "created", "admitted", "rejected"} <=> worker = "none"
    /\ submit # "accepted" => Holders = {}
    /\ submit = "new" => refs = 0

(* The result is there from the terminal status on and moves once. *)
ResultOK ==
    /\ status \in Terminal <=> worker \in {"terminal", "release", "done"}
    /\ status \notin Terminal => result = "none" /\ takers = {}
    /\ status \in Terminal => \/ result = "held" /\ takers = {}
                              \/ result = "moved" /\ \E c \in Clients : takers = {c}

(* What the operation left has its reason; the terminal hook runs once. *)
OutcomeOK ==
    /\ worker \in {"complete", "publish"} => outcome \in Terminal
    /\ outcome = "cancelled" => reason \in UserReasons
    /\ outcome = "timed_out" => reason = "deadline"
    /\ hooks = IF worker \in {"release", "done"} THEN HookCalls ELSE 0

(* The inductive invariant.  RefsExact alone is not inductive: that a      *)
(* client may release the handle, and a rejected submission both of its    *)
(* references, depends on who can hold one by then.                        *)
ExecutionInv ==
    /\ TypeOK /\ TokenInv /\ RefsExact /\ StatusHasReason
    /\ SubmitOK /\ ResultOK /\ OutcomeOK

(* No handle exists at the start. *)
LEMMA ExecutionInit == Init => ExecutionInv
<1> SUFFICES ASSUME Init PROVE ExecutionInv
  BY Zenon
<1>1. TokenInv
  BY Zenon, TokenInitHolds DEF Init
<1>2. Cardinality(Clients) \in Nat
  BY Zenon, ExecutionConstants, FS_CardinalityType
<1>3. TypeOK
  <2>1. freed \in BOOLEAN
    BY Zenon DEF Init
  <2>2. /\ submit \in SubmitSteps /\ refs \in 0..(Cardinality(Clients) + 1)
        /\ status \in {"queued", "running"} \union Terminal
        /\ result \in {"none", "held", "moved"} /\ worker \in WorkerSteps
        /\ outcome \in Terminal \union {None} /\ hooks \in 0..1
    BY <1>2 DEF Init, SubmitSteps, WorkerSteps
  <2>3. client \in [Clients -> ClientSteps] /\ takers \subseteq Clients
    BY Zenon DEF Init, ClientSteps
  <2> QED
    BY <1>1, <2>1, <2>2, <2>3, Zenon DEF TypeOK, TokenInv
<1>4. Holders = {}
  BY Zenon DEF Init, Holders
<1>5. RefsExact /\ StatusHasReason /\ SubmitOK /\ ResultOK /\ OutcomeOK
  BY Zenon, <1>4 DEF Init, TokenInit, RefsExact, StatusHasReason, SubmitOK, ResultOK, OutcomeOK,
              Terminal, None
<1> QED
  BY Zenon, <1>1, <1>3, <1>5 DEF ExecutionInv

(* The holders are finitely many. *)
LEMMA HoldersFinite ==
    /\ IsFiniteSet(Holders) /\ Cardinality(Holders) \in Nat
    /\ Cardinality(Clients) \in Nat
    /\ Cardinality(Holders) <= Cardinality(Clients)
    /\ Cardinality({}) = 0
    /\ Cardinality(Clients) >= 1
<1>1. Holders \subseteq Clients
  BY Zenon DEF Holders
<1>2. Clients # {}
  BY Zenon, ExecutionConstants
<1> QED
  BY <1>1, <1>2, ExecutionConstants, FS_Subset, FS_CardinalityType, FS_EmptySet

(* A client that gets a handle is one holder more, one that gives its      *)
(* handle back one less; any other change of a client is none.             *)
LEMMA HoldersGrow ==
    ASSUME client \in [Clients -> ClientSteps], NEW c \in Clients, client[c] = "absent",
           Become(c, "holding")
    PROVE  Cardinality(Holders') = Cardinality(Holders) + 1
<1>1. Holders' = Holders \union {c} /\ c \notin Holders
  BY Zenon DEF Become, Holders
<1> QED
  BY ZenonT(30), <1>1, HoldersFinite, FS_AddElement

LEMMA HoldersShrink ==
    ASSUME client \in [Clients -> ClientSteps], NEW c \in Clients, client[c] # "absent",
           Become(c, "absent")
    PROVE  Cardinality(Holders') = Cardinality(Holders) - 1
<1>1. Holders' = Holders \ {c} /\ c \in Holders
  BY Zenon DEF Become, Holders
<1> QED
  BY ZenonT(30), <1>1, HoldersFinite, FS_RemoveElement

LEMMA HoldersSame ==
    ASSUME client \in [Clients -> ClientSteps],
           \/ UNCHANGED client
           \/ Broadcast
           \/ \E c \in Clients, s \in ClientSteps \ {"absent"} :
                 client[c] # "absent" /\ Become(c, s)
    PROVE  Holders' = Holders /\ client' \in [Clients -> ClientSteps]
<1>1. CASE UNCHANGED client
  BY Zenon, <1>1 DEF Holders
<1>2. CASE Broadcast
  BY Zenon, <1>2 DEF Holders, Broadcast, ClientSteps
<1>3. ASSUME NEW c \in Clients, NEW s \in ClientSteps \ {"absent"},
             client[c] # "absent", Become(c, s)
      PROVE  Holders' = Holders /\ client' \in [Clients -> ClientSteps]
  BY Zenon, <1>3 DEF Holders, Become
<1> QED
  BY Zenon, <1>1, <1>2, <1>3

(* The count stays exact when nobody comes or goes. *)
LEMMA RefsStay ==
    ASSUME RefsExact, UNCHANGED <<submit, refs, freed>>, Holders' = Holders,
           WorkerHolds' <=> WorkerHolds
    PROVE  RefsExact'
BY Zenon DEF RefsExact, SubmitHolds

(* A release frees the handle when it takes the last reference. *)
LEMMA ReleaseFrees ==
    ASSUME NEW n \in Nat, refs \in Nat, Release(n)
    PROVE  refs' = refs - n /\ (freed' <=> refs' = 0)
<1>1. refs' = refs - n
  BY Zenon DEF Release
<1>2. freed' <=> refs = n
  BY Zenon DEF Release
<1>3. refs' = 0 <=> refs = n
  BY <1>1
<1> QED
  BY <1>1, <1>2, <1>3, Zenon

(* The count is exact when it is the number of holders again. *)
LEMMA RefsCounted ==
    ASSUME submit' # "new", freed' <=> refs' = 0, submit' = "rejected" => refs' = 0,
           refs' = Cardinality(Holders') + (IF SubmitHolds' THEN 1 ELSE 0)
                                         + (IF WorkerHolds' THEN 1 ELSE 0)
    PROVE  RefsExact'
BY Zenon DEF RefsExact

(* Every step of the execution is a step of its cancel source, or leaves   *)
(* it alone.                                                               *)
LEMMA StepsToken == [Next]_vars => [TokenNext]_token
BY Zenon DEF Next, vars, Submit, Create, BeforeAdmit, TrySubmit, SubmitReturns, Work,
       WorkerStart, WorkerRun, WorkerComplete, WorkerPublish, WorkerTerminal, WorkerRelease,
       Retain, ReleaseHandle, CancelCheck, CancelSource, Wait, WaitReturns, WaitFor,
       WaitForReturns, Take, Operation, shared, TokenNext

(* A step of a client that holds the handle, or of the cancel source, that *)
(* leaves submission, count, worker and result alone.                      *)
LEMMA BystanderKeeps ==
    ASSUME ExecutionInv, TokenInv', reason # None => reason' = reason,
           UNCHANGED <<submit, handle, status, result, work, takers>>,
           Holders' = Holders, client' \in [Clients -> ClientSteps]
    PROVE  ExecutionInv'
<1>1. UNCHANGED <<submit, refs, freed, status, result, worker, outcome, hooks, takers>>
  BY Zenon DEF handle, work
<1>2. TypeOK'
  BY Zenon, <1>1 DEF ExecutionInv, TypeOK, TokenInv
<1>3. RefsExact'
  BY Zenon, <1>1, RefsStay DEF ExecutionInv, WorkerHolds
<1>4. (reason \in UserReasons => reason' = reason) /\ (reason = "deadline" => reason' = reason)
  BY Zenon DEF UserReasons, None
<1>5. StatusHasReason' /\ OutcomeOK'
  BY Zenon, <1>1, <1>4 DEF ExecutionInv, StatusHasReason, OutcomeOK
<1>6. SubmitOK' /\ ResultOK'
  BY Zenon, <1>1 DEF ExecutionInv, SubmitOK, ResultOK
<1> QED
  BY Zenon, <1>2, <1>3, <1>5, <1>6 DEF ExecutionInv

(* The submission, up to the call of try_submit and its return. *)
LEMMA SubmitKeeps ==
    ASSUME ExecutionInv, Submit
    PROVE  ExecutionInv'
<1> USE DEF ExecutionInv
<1>0. Create \/ BeforeAdmit \/ TrySubmit \/ SubmitReturns
  BY Zenon DEF Submit
<1>1. CASE Create
  <2>1. Holders' = Holders /\ Holders = {}
    BY Zenon, <1>1 DEF Create, Holders, SubmitOK
  <2>2. TypeOK'
    <3>1. freed' \in BOOLEAN
      BY <1>1, Zenon DEF Create, TypeOK
    <3>2. submit' \in SubmitSteps /\ refs' \in 0..(Cardinality(Clients) + 1)
      BY <1>1, HoldersFinite DEF Create, TypeOK, SubmitSteps
    <3> QED
      BY <1>1, <3>1, <3>2, Zenon DEF Create, TypeOK, shared, work, token, waiting, TokenTypeOK
  <2>3. TokenInv' /\ StatusHasReason' /\ ResultOK' /\ OutcomeOK'
    BY ZenonT(60), <1>1 DEF Create, TokenInv, TokenTypeOK, DeadlineBeatsLateCancel, NoLostWakeUp, shared,
       work, token, waiting, StatusHasReason, ResultOK, OutcomeOK
  <2>4. SubmitOK'
    BY Zenon, <1>1, <2>1 DEF Create, SubmitOK, work
  <2>5. RefsExact'
    BY <1>1, <2>1, HoldersFinite DEF Create, RefsExact, SubmitOK, SubmitHolds, WorkerHolds, work
  <2> QED
    BY Zenon, <2>2, <2>3, <2>4, <2>5
<1>2. CASE BeforeAdmit
  <2>1. Holders' = Holders /\ Holders = {} /\ worker = "none" /\ refs = 2
    BY <1>2, HoldersFinite DEF BeforeAdmit, Holders, SubmitOK, RefsExact, SubmitHolds, WorkerHolds
  <2>2. TypeOK'
    <3>1. freed' \in BOOLEAN
      BY <1>2, Zenon DEF BeforeAdmit, handle, Release, TypeOK
    <3>2. submit' \in SubmitSteps /\ refs' \in {0, 2} /\ worker' \in WorkerSteps
      BY <1>2, <2>1 DEF BeforeAdmit, SubmitSteps, WorkerSteps, handle, Release, work
    <3>3. refs' \in 0..(Cardinality(Clients) + 1)
      BY <3>2, HoldersFinite
    <3> QED
      BY <1>2, <3>1, <3>2, <3>3, Zenon DEF BeforeAdmit, TypeOK, shared, work, token, waiting, TokenTypeOK
  <2>3. TokenInv' /\ StatusHasReason' /\ ResultOK' /\ OutcomeOK'
    BY Zenon, <1>2 DEF BeforeAdmit, TokenInv, TokenTypeOK, DeadlineBeatsLateCancel, NoLostWakeUp,
       shared, work, token, waiting, StatusHasReason, ResultOK, OutcomeOK
  <2>4. SubmitOK'
    BY Zenon, <1>2, <2>1 DEF BeforeAdmit, SubmitOK, work
  <2>5. RefsExact'
    <3>1. ~freed
      BY <1>2, <2>1 DEF BeforeAdmit, RefsExact
    <3>2. CASE submit' = "admitted" /\ UNCHANGED handle
      <4>1. submit' # "new" /\ submit' # "rejected" /\ SubmitHolds' /\ WorkerHolds'
        BY Zenon, <3>2 DEF SubmitHolds, WorkerHolds
      <4>2. refs' = 2 /\ Cardinality(Holders') = 0
        BY Zenon, <2>1, <3>2, HoldersFinite DEF handle
      <4>3. freed' <=> refs' = 0
        BY <3>1, <3>2, <4>2 DEF handle
      <4> QED
        BY <4>1, <4>2, <4>3, RefsCounted
    <3>3. CASE submit' = "rejected" /\ Release(2)
      <4>1. submit' # "new" /\ ~SubmitHolds' /\ ~WorkerHolds'
        BY Zenon, <1>2, <2>1, <3>3 DEF BeforeAdmit, work, SubmitHolds, WorkerHolds
      <4>2. refs' = 0 /\ (freed' <=> refs' = 0) /\ Cardinality(Holders') = 0
        BY <2>1, <3>3, ReleaseFrees, HoldersFinite
      <4> QED
        BY <4>1, <4>2, RefsCounted
    <3> QED
      BY Zenon, <1>2, <3>2, <3>3 DEF BeforeAdmit
  <2> QED
    BY Zenon, <2>2, <2>3, <2>4, <2>5
<1>3. CASE TrySubmit
  <2>1. Holders' = Holders /\ Holders = {} /\ worker = "none" /\ refs = 2
    <3>1. UNCHANGED client /\ submit = "admitted"
      BY Zenon, <1>3 DEF TrySubmit
    <3>2. Holders' = Holders /\ Holders = {} /\ worker = "none"
      BY Zenon, <3>1 DEF Holders, SubmitOK
    <3>3. SubmitHolds /\ WorkerHolds
      BY Zenon, <3>1 DEF SubmitHolds, WorkerHolds
    <3> QED
      BY <3>1, <3>2, <3>3, HoldersFinite DEF RefsExact
  <2>2. TypeOK'
    <3>1. freed' \in BOOLEAN
      BY <1>3, Zenon DEF TrySubmit, handle, Release, TypeOK
    <3>2. submit' \in SubmitSteps /\ refs' \in {0, 2} /\ worker' \in WorkerSteps
      BY <1>3, <2>1 DEF TrySubmit, SubmitSteps, WorkerSteps, handle, Release, work
    <3>3. refs' \in 0..(Cardinality(Clients) + 1)
      BY <3>2, HoldersFinite
    <3> QED
      BY <1>3, <3>1, <3>2, <3>3, Zenon DEF TrySubmit, TypeOK, shared, work, token, waiting, TokenTypeOK
  <2>3. TokenInv' /\ StatusHasReason'
    BY Zenon, <1>3 DEF TrySubmit, TokenInv, TokenTypeOK, DeadlineBeatsLateCancel, NoLostWakeUp,
       shared, token, waiting, StatusHasReason
  <2>4. ResultOK' /\ OutcomeOK'
    BY Zenon, <1>3, <2>1 DEF TrySubmit, shared, token, ResultOK, OutcomeOK
  <2>5. SubmitOK'
    BY Zenon, <1>3, <2>1 DEF TrySubmit, SubmitOK
  <2>6. RefsExact'
    <3>1. ~freed
      BY <1>3, <2>1 DEF TrySubmit, RefsExact
    <3>2. CASE submit' = "submitted" /\ worker' = "queued" /\ UNCHANGED handle
      <4>1. submit' # "new" /\ submit' # "rejected" /\ SubmitHolds' /\ WorkerHolds'
        BY Zenon, <3>2 DEF SubmitHolds, WorkerHolds
      <4>2. refs' = 2 /\ Cardinality(Holders') = 0
        BY Zenon, <2>1, <3>2, HoldersFinite DEF handle
      <4>3. freed' <=> refs' = 0
        BY <3>1, <3>2, <4>2 DEF handle
      <4> QED
        BY <4>1, <4>2, <4>3, RefsCounted
    <3>3. CASE submit' = "rejected" /\ Release(2) /\ UNCHANGED worker
      <4>1. submit' # "new" /\ ~SubmitHolds' /\ ~WorkerHolds'
        BY Zenon, <2>1, <3>3 DEF SubmitHolds, WorkerHolds
      <4>2. refs' = 0 /\ (freed' <=> refs' = 0) /\ Cardinality(Holders') = 0
        BY <2>1, <3>3, ReleaseFrees, HoldersFinite
      <4> QED
        BY <4>1, <4>2, RefsCounted
    <3> QED
      BY Zenon, <1>3, <3>2, <3>3 DEF TrySubmit
  <2> QED
    BY Zenon, <2>2, <2>3, <2>4, <2>5, <2>6
<1>4. CASE SubmitReturns
  <2>1. Holders = {} /\ worker # "none" /\ client[Submitter] = "absent"
    BY Zenon, <1>4, ExecutionConstants DEF SubmitReturns, SubmitOK, Holders
  <2>2. Cardinality(Holders') = Cardinality(Holders) + 1
    BY Zenon, <1>4, <2>1, ExecutionConstants, HoldersGrow DEF SubmitReturns, TypeOK
  <2>3. TypeOK'
    BY ZenonT(30), <1>4 DEF SubmitReturns, Become, TypeOK, shared, work, token, waiting, TokenTypeOK,
       SubmitSteps, ClientSteps, handle
  <2>4. TokenInv' /\ StatusHasReason' /\ ResultOK' /\ OutcomeOK'
    BY ZenonT(60), <1>4 DEF SubmitReturns, TokenInv, TokenTypeOK, DeadlineBeatsLateCancel, NoLostWakeUp,
       shared, work, token, waiting, StatusHasReason, ResultOK, OutcomeOK
  <2>5. SubmitOK'
    BY Zenon, <1>4, <2>1 DEF SubmitReturns, SubmitOK, work
  <2>6. RefsExact'
    BY <1>4, <2>1, <2>2, HoldersFinite DEF SubmitReturns, RefsExact, SubmitHolds, WorkerHolds,
       work, handle
  <2> QED
    BY Zenon, <2>3, <2>4, <2>5, <2>6
<1> QED
  BY Zenon, <1>0, <1>1, <1>2, <1>3, <1>4

(* The worker: it holds a reference from the queue to its release. *)
LEMMA WorkKeeps ==
    ASSUME ExecutionInv, Work, TokenInv', reason' = reason
    PROVE  ExecutionInv'
<1> USE DEF ExecutionInv
<1>0. \/ WorkerStart \/ WorkerRun \/ WorkerComplete \/ WorkerPublish \/ WorkerTerminal
      \/ WorkerRelease
  BY Zenon DEF Work
<1>1. UNCHANGED submit /\ Holders' = Holders /\ client' \in [Clients -> ClientSteps]
  BY Zenon, <1>0, HoldersSame DEF TypeOK, WorkerStart, WorkerRun, WorkerComplete, WorkerPublish,
     WorkerTerminal, WorkerRelease
<1>2. CASE WorkerStart
  <2>1. UNCHANGED <<refs, freed, result, outcome, hooks, takers>> /\ worker = "queued"
        /\ worker' = "running" /\ status' = "running"
    BY Zenon, <1>2 DEF WorkerStart, handle
  <2>2. TypeOK'
    BY Zenon, <1>1, <2>1 DEF TypeOK, TokenInv, WorkerSteps
  <2>3. RefsExact'
    BY Zenon, <1>1, <2>1, RefsStay DEF WorkerHolds
  <2>4. StatusHasReason' /\ ResultOK' /\ OutcomeOK'
    BY Zenon, <2>1 DEF StatusHasReason, ResultOK, OutcomeOK, Terminal
  <2>5. SubmitOK'
    BY Zenon, <1>1, <2>1 DEF SubmitOK
  <2> QED
    BY Zenon, <2>2, <2>3, <2>4, <2>5
<1>3. CASE WorkerRun
  <2>1. UNCHANGED <<refs, freed, status, result, hooks, takers>> /\ worker = "running"
        /\ worker' = "complete" /\ outcome' \in Outcomes
    BY Zenon, <1>3 DEF WorkerRun, handle, shared
  <2>2. /\ outcome' \in Terminal
        /\ outcome' = "cancelled" => reason \in UserReasons
        /\ outcome' = "timed_out" => reason = "deadline"
    BY Zenon, <2>1 DEF Outcomes, Terminal
  <2>3. TypeOK'
    BY Zenon, <1>1, <2>1, <2>2 DEF TypeOK, TokenInv, WorkerSteps
  <2>4. RefsExact'
    BY Zenon, <1>1, <2>1, RefsStay DEF WorkerHolds
  <2>5. StatusHasReason' /\ ResultOK' /\ OutcomeOK'
    BY Zenon, <2>1, <2>2 DEF StatusHasReason, ResultOK, OutcomeOK
  <2>6. SubmitOK'
    BY Zenon, <1>1, <2>1 DEF SubmitOK
  <2> QED
    BY Zenon, <2>3, <2>4, <2>5, <2>6
<1>4. CASE WorkerComplete
  <2>1. UNCHANGED <<refs, freed, status, result, hooks, takers>> /\ worker = "complete"
        /\ worker' = "publish"
    BY Zenon, <1>4 DEF WorkerComplete, handle, shared
  <2>2. outcome' \in Outcomes \union {outcome, "failed"}
    BY Zenon, <1>4 DEF WorkerComplete
  <2>3. /\ outcome' \in Terminal
        /\ outcome' = "cancelled" => reason \in UserReasons
        /\ outcome' = "timed_out" => reason = "deadline"
    BY Zenon, <2>1, <2>2 DEF Outcomes, Terminal, OutcomeOK
  <2>4. TypeOK'
    BY Zenon, <1>1, <2>1, <2>3 DEF TypeOK, TokenInv, WorkerSteps
  <2>5. RefsExact'
    BY Zenon, <1>1, <2>1, RefsStay DEF WorkerHolds
  <2>6. StatusHasReason' /\ ResultOK' /\ OutcomeOK'
    BY Zenon, <2>1, <2>3 DEF StatusHasReason, ResultOK, OutcomeOK
  <2>7. SubmitOK'
    BY Zenon, <1>1, <2>1 DEF SubmitOK
  <2> QED
    BY Zenon, <2>4, <2>5, <2>6, <2>7
<1>5. CASE WorkerPublish
  <2>1. UNCHANGED <<refs, freed, outcome, hooks, takers>> /\ worker = "publish"
        /\ worker' = "terminal" /\ status' = outcome /\ result' = "held"
    BY Zenon, <1>5 DEF WorkerPublish, handle
  <2>2. outcome \in Terminal /\ takers = {}
    BY Zenon, <2>1 DEF OutcomeOK, ResultOK
  <2>3. TypeOK'
    BY Zenon, <1>1, <2>1, <2>2 DEF TypeOK, TokenInv, WorkerSteps
  <2>4. RefsExact'
    BY Zenon, <1>1, <2>1, RefsStay DEF WorkerHolds
  <2>5. StatusHasReason' /\ ResultOK' /\ OutcomeOK'
    BY Zenon, <2>1, <2>2 DEF StatusHasReason, ResultOK, OutcomeOK
  <2>6. SubmitOK'
    BY Zenon, <1>1, <2>1 DEF SubmitOK
  <2> QED
    BY Zenon, <2>3, <2>4, <2>5, <2>6
<1>6. CASE WorkerTerminal
  <2>1. UNCHANGED <<refs, freed, status, result, outcome, takers>> /\ worker = "terminal"
        /\ worker' = "release" /\ hooks' = hooks + HookCalls
    BY Zenon, <1>6 DEF WorkerTerminal, handle, shared
  <2>2. hooks' = HookCalls /\ hooks' \in 0..1
    <3>1. hooks = 0
      BY Zenon, <2>1 DEF OutcomeOK
    <3> QED
      BY <2>1, <3>1, ExecutionConstants DEF HookCalls
  <2>3. TypeOK'
    BY <1>1, <2>1, <2>2 DEF TypeOK, TokenInv, WorkerSteps
  <2>4. RefsExact'
    BY Zenon, <1>1, <2>1, RefsStay DEF WorkerHolds
  <2>5. StatusHasReason' /\ ResultOK' /\ OutcomeOK'
    BY <2>1, <2>2 DEF StatusHasReason, ResultOK, OutcomeOK
  <2>6. SubmitOK'
    BY Zenon, <1>1, <2>1 DEF SubmitOK
  <2> QED
    BY Zenon, <2>3, <2>4, <2>5, <2>6
<1>7. CASE WorkerRelease
  <2>1. UNCHANGED <<status, result, outcome, hooks, takers>> /\ worker = "release"
        /\ worker' = "done" /\ refs' = refs - 1 /\ freed' = (refs = 1)
    BY Zenon, <1>7 DEF WorkerRelease, shared, Release
  <2>2. submit \in {"submitted", "accepted"} /\ WorkerHolds /\ ~WorkerHolds'
    BY Zenon, <1>1, <2>1 DEF SubmitOK, TypeOK, SubmitSteps, WorkerHolds
  <2>3. refs = Cardinality(Holders) + (IF SubmitHolds THEN 1 ELSE 0) + 1
    BY Zenon, <2>2 DEF RefsExact
  <2>4. TypeOK'
    BY <1>1, <2>1, <2>3, HoldersFinite DEF TypeOK, TokenInv, WorkerSteps
  <2>5. RefsExact'
    <3>1. refs \in Nat
      BY <2>3, HoldersFinite
    <3>2. refs' = refs - 1 /\ (freed' <=> refs' = 0)
      BY Zenon, <1>7, <3>1, ReleaseFrees DEF WorkerRelease
    <3>3. submit' # "new" /\ submit' # "rejected" /\ (SubmitHolds' <=> SubmitHolds)
      BY Zenon, <1>1, <2>2 DEF SubmitHolds
    <3> QED
      BY <1>1, <2>2, <2>3, <3>2, <3>3, HoldersFinite, RefsCounted
  <2>6. StatusHasReason' /\ ResultOK' /\ OutcomeOK'
    BY Zenon, <2>1 DEF StatusHasReason, ResultOK, OutcomeOK
  <2>7. SubmitOK'
    BY Zenon, <1>1, <2>1 DEF SubmitOK
  <2> QED
    BY Zenon, <2>4, <2>5, <2>6, <2>7
<1> QED
  BY Zenon, <1>0, <1>2, <1>3, <1>4, <1>5, <1>6, <1>7

(* A client that passes its handle on, gives it back or takes the result. *)
LEMMA ClientKeeps ==
    ASSUME ExecutionInv, NEW c \in Clients, NEW d \in Clients,
           Retain(c, d) \/ ReleaseHandle(c) \/ Take(c), TokenInv', reason' = reason
    PROVE  ExecutionInv'
<1> USE DEF ExecutionInv
<1>1. CASE Retain(c, d)
  <2>1. UNCHANGED <<submit, freed, status, result, worker, outcome, hooks, takers>>
        /\ refs' = refs + 1 /\ submit = "accepted" /\ client[c] = "holding"
    BY Zenon, <1>1 DEF Retain, shared, work
  <2>2. Cardinality(Holders') = Cardinality(Holders) + 1
        /\ client' \in [Clients -> ClientSteps]
    <3>1. client[d] = "absent" /\ Become(d, "holding")
      BY Zenon, <1>1 DEF Retain
    <3>2. client' \in [Clients -> ClientSteps]
      BY Zenon, <3>1 DEF Become, TypeOK, ClientSteps
    <3> QED
      BY Zenon, <3>1, <3>2, HoldersGrow DEF TypeOK
  <2>3. Cardinality(Holders') <= Cardinality(Clients)
    <3>1. Holders' \subseteq Clients
      BY Zenon DEF Holders
    <3> QED
      BY Zenon, <3>1, ExecutionConstants, FS_Subset
  <2>4. refs = Cardinality(Holders) + (IF WorkerHolds THEN 1 ELSE 0)
        /\ (WorkerHolds' <=> WorkerHolds)
    BY <2>1, HoldersFinite DEF RefsExact, SubmitHolds, WorkerHolds
  <2>5. refs \in Nat /\ refs > 0
    <3>1. c \in Holders
      BY Zenon, <2>1 DEF Holders
    <3>2. Cardinality(Holders) # 0
      BY Zenon, <3>1, HoldersFinite, FS_EmptySet
    <3> QED
      BY <2>4, <3>2, HoldersFinite
  <2>6. TypeOK'
    BY <2>1, <2>2, <2>3, <2>4, HoldersFinite DEF TypeOK, TokenInv
  <2>7. RefsExact'
    BY <2>1, <2>2, <2>4, <2>5, HoldersFinite DEF RefsExact, SubmitHolds
  <2>8. StatusHasReason' /\ ResultOK' /\ OutcomeOK' /\ SubmitOK'
    BY Zenon, <2>1 DEF StatusHasReason, ResultOK, OutcomeOK, SubmitOK
  <2> QED
    BY Zenon, <2>6, <2>7, <2>8
<1>2. CASE ReleaseHandle(c)
  <2>1. UNCHANGED <<submit, status, result, worker, outcome, hooks, takers>>
        /\ refs' = refs - 1 /\ freed' = (refs = 1) /\ client[c] = "holding"
    BY Zenon, <1>2 DEF ReleaseHandle, shared, work, Release
  <2>2. c \in Holders
    BY Zenon, <2>1 DEF Holders
  <2>3. submit = "accepted"
    BY Zenon, <2>2 DEF SubmitOK
  <2>4. Cardinality(Holders') = Cardinality(Holders) - 1
        /\ client' \in [Clients -> ClientSteps]
    <3>1. client[c] # "absent" /\ Become(c, "absent")
      BY Zenon, <1>2 DEF ReleaseHandle
    <3>2. client' \in [Clients -> ClientSteps]
      BY Zenon, <3>1 DEF Become, TypeOK, ClientSteps
    <3> QED
      BY Zenon, <3>1, <3>2, HoldersShrink DEF TypeOK
  <2>5. refs = Cardinality(Holders) + (IF WorkerHolds THEN 1 ELSE 0)
        /\ (WorkerHolds' <=> WorkerHolds)
    BY <2>1, <2>3, HoldersFinite DEF RefsExact, SubmitHolds, WorkerHolds
  <2>6. Cardinality(Holders) # 0
    BY Zenon, <2>2, HoldersFinite, FS_EmptySet
  <2>7. TypeOK'
    BY <2>1, <2>4, <2>5, <2>6, HoldersFinite DEF TypeOK, TokenInv
  <2>8. RefsExact'
    <3>1. refs \in Nat
      BY <2>5, HoldersFinite
    <3>2. refs' = refs - 1 /\ (freed' <=> refs' = 0)
      BY Zenon, <1>2, <3>1, ReleaseFrees DEF ReleaseHandle
    <3>3. submit' # "new" /\ submit' # "rejected" /\ ~SubmitHolds'
      BY Zenon, <2>1, <2>3 DEF SubmitHolds
    <3> QED
      BY <2>4, <2>5, <3>2, <3>3, HoldersFinite, RefsCounted
  <2>9. StatusHasReason' /\ ResultOK' /\ OutcomeOK' /\ SubmitOK'
    BY Zenon, <2>1, <2>3 DEF StatusHasReason, ResultOK, OutcomeOK, SubmitOK
  <2> QED
    BY Zenon, <2>7, <2>8, <2>9
<1>3. CASE Take(c)
  <2>1. UNCHANGED <<submit, refs, freed, status, worker, outcome, hooks, client>>
        /\ status \in Terminal /\ result # "moved" /\ result' = "moved"
        /\ takers' = takers \union {c}
    BY Zenon, <1>3 DEF Take, handle, work
  <2>2. takers' = {c}
    BY Zenon, <2>1 DEF ResultOK
  <2>3. Holders' = Holders /\ (WorkerHolds' <=> WorkerHolds)
    BY Zenon, <2>1 DEF Holders, WorkerHolds
  <2>4. TypeOK'
    BY Zenon, <2>1, <2>2 DEF TypeOK, TokenInv
  <2>5. RefsExact'
    BY Zenon, <2>1, <2>3, RefsStay
  <2>6. StatusHasReason' /\ ResultOK' /\ OutcomeOK' /\ SubmitOK'
    BY Zenon, <2>1, <2>2, <2>3 DEF StatusHasReason, ResultOK, OutcomeOK, SubmitOK
  <2> QED
    BY Zenon, <2>4, <2>5, <2>6
<1> QED
  BY Zenon, <1>1, <1>2, <1>3

(* Every step preserves the invariant. *)
LEMMA ExecutionStep == ExecutionInv /\ [Next]_vars => ExecutionInv'
<1> SUFFICES ASSUME ExecutionInv, [Next]_vars PROVE ExecutionInv'
  BY Zenon
<1>1. TokenInv' /\ (reason # None => reason' = reason)
  BY Zenon, StepsToken, TokenStepKeeps DEF ExecutionInv
<1>2. client \in [Clients -> ClientSteps]
  BY Zenon DEF ExecutionInv, TypeOK
<1>3. CASE UNCHANGED vars
  <2>1. Holders' = Holders /\ client' \in [Clients -> ClientSteps]
    BY Zenon, <1>2, <1>3 DEF vars, Holders
  <2> QED
    BY Zenon, <1>1, <1>3, <2>1, BystanderKeeps DEF vars, shared
<1>4. CASE Submit
  BY Zenon, <1>4, SubmitKeeps
<1>5. CASE Work
  <2>1. reason' = reason
    BY Zenon, <1>5 DEF Work, WorkerStart, WorkerRun, WorkerComplete, WorkerPublish, WorkerTerminal,
       WorkerRelease, shared, token
  <2> QED
    BY Zenon, <1>1, <1>5, <2>1, WorkKeeps
<1>6. CASE Operation
  <2>1. Holders' = Holders /\ client' \in [Clients -> ClientSteps]
    BY Zenon, <1>2, <1>6 DEF Operation, Holders
  <2> QED
    BY Zenon, <1>1, <1>6, <2>1, BystanderKeeps DEF Operation
<1>7. ASSUME NEW c \in Clients, NEW d \in Clients, Retain(c, d) \/ ReleaseHandle(c) \/ Take(c)
      PROVE  ExecutionInv'
  <2>1. reason' = reason
    BY Zenon, <1>7 DEF Retain, ReleaseHandle, Take, shared, token
  <2> QED
    BY Zenon, <1>1, <1>7, <2>1, ClientKeeps
<1>8. ASSUME NEW c \in Clients,
             \/ CancelCheck(c) \/ CancelSource(c) \/ Wait(c) \/ WaitReturns(c)
             \/ WaitFor(c) \/ WaitForReturns(c)
      PROVE  ExecutionInv'
  <2>1. \E s \in ClientSteps \ {"absent"} : client[c] # "absent" /\ Become(c, s)
    BY Zenon, <1>8 DEF CancelCheck, CancelSource, Wait, WaitReturns, WaitFor, WaitForReturns,
       ClientSteps
  <2>2. Holders' = Holders /\ client' \in [Clients -> ClientSteps]
    BY Zenon, <1>2, <2>1, HoldersSame
  <2>3. UNCHANGED <<submit, handle, status, result, work, takers>>
    BY Zenon, <1>8 DEF CancelCheck, CancelSource, Wait, WaitReturns, WaitFor, WaitForReturns, shared
  <2> QED
    BY Zenon, <1>1, <2>2, <2>3, BystanderKeeps
<1> QED
  BY Zenon, <1>3, <1>4, <1>5, <1>6, <1>7, <1>8 DEF Next

(* The invariant holds in every reachable state. *)
LEMMA ExecutionInvariance == Spec => []ExecutionInv
BY ExecutionInit, ExecutionStep, PTL DEF Spec

(* Whoever may still touch the handle has a reference of its own, the      *)
(* handle is freed exactly when the last one is released, its result moves *)
(* to at most one client and a status has its reason                       *)
(* (turbo_agent_execution.c), for any number of clients that retain,       *)
(* cancel, wait, take and release in any order.                            *)
THEOREM ExecutionIsSound == Spec => []ExecutionSound
<1>1. ExecutionInv => ResultMovedOnce
  <2> SUFFICES ASSUME ExecutionInv PROVE ResultMovedOnce
    BY Zenon
  <2>1. takers = {} \/ \E c \in Clients : takers = {c}
    BY Zenon DEF ExecutionInv, ResultOK
  <2>2. CASE takers = {}
    <3>1. Cardinality(takers) = 0
      BY Zenon, <2>2, FS_EmptySet
    <3> QED
      BY <3>1 DEF ExecutionInv, ResultOK, ResultMovedOnce
  <2>3. ASSUME NEW c \in Clients, takers = {c} PROVE ResultMovedOnce
    <3>1. Cardinality(takers) = 1
      BY ZenonT(30), <2>3, FS_Singleton
    <3> QED
      BY <2>3, <3>1 DEF ResultMovedOnce
  <2> QED
    BY Zenon, <2>1, <2>2, <2>3
<1>2. ExecutionInv => ExecutionSound
  BY Zenon, <1>1 DEF ExecutionInv, ExecutionSound
<1> QED
  BY <1>2, ExecutionInvariance, PTL

=============================================================================
