----------------------------- MODULE CancelToken -----------------------------
(***************************************************************************)
(* The cancellation state of src/runtime_core/src/turbo_runtime_control.c  *)
(* shared by one source and its tokens: cancellers, readers and waiters    *)
(* over a monotonic clock.  A section under the state's mutex is one step. *)
(* Reference counts are in Execution.tla, which owns such a source.        *)
(***************************************************************************)
EXTENDS Naturals

CONSTANTS
    Waiters,    \* threads that call turbo_cancel_token_wait
    Timeout,    \* Timeout[w]: its timeout in milliseconds, or Infinite
    Infinite,   \* TURBO_RUNTIME_WAIT_INFINITE
    Deadline,   \* deadline_mono_ms of the source, 0 for none
    MaxTime     \* bound on the clock

ASSUME TokenConstants ==
    /\ Infinite \notin Nat
    /\ Timeout \in [Waiters -> Nat \union {Infinite}]
    /\ Deadline \in Nat /\ MaxTime \in Nat

None == "none"
UserReasons == {"user", "shutdown", "parent"}
Reasons == UserReasons \union {"deadline"}
Asleep == "asleep"

VARIABLES
    now,        \* the monotonic clock
    reason,     \* state->reason
    setAt,      \* the time the reason was set
    wait,       \* wait[w]: where the call is, or what it returned
    until       \* until[w]: caller_deadline_ms, or Infinite

waiting == <<wait, until>>
token == <<now, reason, setAt, waiting>>

WaitSteps == {"new", "loop", Asleep, "signaled", "timeout"}

(* The token and its waiters have their types. *)
TokenTypeOK ==
    /\ now \in 0..MaxTime
    /\ reason \in Reasons \union {None}
    /\ setAt \in 0..MaxTime
    /\ wait \in [Waiters -> WaitSteps]
    /\ until \in [Waiters -> Nat \union {Infinite}]

TokenInit ==
    /\ now = 0
    /\ reason = None
    /\ setAt = 0
    /\ wait = [w \in Waiters |-> "new"]
    /\ until = [w \in Waiters |-> Infinite]

Tick ==
    /\ now < MaxTime
    /\ now' = now + 1
    /\ UNCHANGED <<reason, setAt, waiting>>

Expired == Deadline # 0 /\ now >= Deadline

(* The reason refresh_deadline_locked leaves behind. *)
Refreshed == IF reason = None /\ Expired THEN "deadline" ELSE reason

(* cond_broadcast when the reason becomes r. *)
Woken(r) ==
    [w \in Waiters |-> IF r # reason /\ wait[w] = Asleep THEN "loop" ELSE wait[w]]

SetReason(r, waits) ==
    /\ reason' = r
    /\ setAt' = IF r # reason THEN now ELSE setAt
    /\ wait' = waits
    /\ UNCHANGED <<now, until>>

(* Faulty variant: the deadline is not looked at before a cancel. *)
CancelUnrefreshed(r) ==
    LET new == IF reason = None THEN r ELSE reason IN SetReason(new, Woken(new))

(* turbo_cancel_source_cancel: EALREADY when a reason is set or the        *)
(* deadline has passed.                                                    *)
Cancel(r) ==
    LET new == IF Refreshed = None THEN r ELSE Refreshed IN SetReason(new, Woken(new))

(* turbo_cancel_token_check, _reason and turbo_cancel_source_reason. *)
Check == SetReason(Refreshed, Woken(Refreshed))

(* turbo_cancel_token_wait, before the mutex: the caller's deadline. *)
EnterWait(w) ==
    /\ wait[w] = "new"
    /\ until' = [until EXCEPT ![w] =
          IF Timeout[w] = Infinite THEN Infinite ELSE now + Timeout[w]]
    /\ wait' = [wait EXCEPT ![w] = "loop"]
    /\ UNCHANGED <<now, reason, setAt>>

CallerExpired(w) == until[w] # Infinite /\ now >= until[w]

(* turbo_cancel_token_wait, one turn of the loop under the mutex. *)
Loop(w) ==
    /\ wait[w] = "loop"
    /\ SetReason(Refreshed, [Woken(Refreshed) EXCEPT ![w] =
          IF Refreshed # None THEN "signaled"
          ELSE IF CallerExpired(w) THEN "timeout" ELSE Asleep])

(* cond_timedwait returns at the earlier of the two deadlines. *)
WakeUp(w) ==
    /\ wait[w] = Asleep /\ (Expired \/ CallerExpired(w))
    /\ wait' = [wait EXCEPT ![w] = "loop"]
    /\ UNCHANGED <<now, reason, setAt, until>>

(* cond_timedwait returns early: spuriously, or at the end of a slice of   *)
(* TURBO_CANCEL_MAX_WAIT_SLICE_MS.                                         *)
WakeUpEarly(w) ==
    /\ wait[w] = Asleep
    /\ wait' = [wait EXCEPT ![w] = "loop"]
    /\ UNCHANGED <<now, reason, setAt, until>>

TokenNext ==
    \/ Tick \/ Check
    \/ \E r \in Reasons : Cancel(r)
    \/ \E w \in Waiters : EnterWait(w) \/ Loop(w) \/ WakeUp(w) \/ WakeUpEarly(w)

TokenSpec == TokenInit /\ [][TokenNext]_token

-----------------------------------------------------------------------------
(* turbo_runtime_control.h: the first reason wins, whoever races whom. *)
FirstReasonWins == [][reason # None => reason' = reason]_token

(* A cancel that is reported as accepted came before the deadline: the     *)
(* deadline is looked at in the same critical section.                     *)
DeadlineBeatsLateCancel ==
    reason \in UserReasons /\ Deadline # 0 => setAt < Deadline

(* A waiter sleeps only while no reason is set: every change of the reason *)
(* is broadcast.                                                           *)
NoLostWakeUp == \A w \in Waiters : wait[w] = Asleep => reason = None

=============================================================================
